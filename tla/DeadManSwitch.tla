--------------------------- MODULE DeadManSwitch ---------------------------
(***************************************************************************)
(* The detection half of the dead-man switch (deadman.rs) inside the turn  *)
(* that drives it (backend/winit.rs: route_turn, deadman_tick,             *)
(* arm_deadman_timer; input/mod.rs: InputRouter::route_into).              *)
(*                                                                         *)
(* A human holds one key, the chord.  A hold that lasts Hold revokes all   *)
(* authority; a shorter one is a tap, and the confined application is owed *)
(* its press and its release.  Whether a press is a tap is not known when  *)
(* it arrives, so the gate withholds it and the tap is replayed through    *)
(* the same route when its release comes.                                  *)
(*                                                                         *)
(* Two outer gates, the lock screen and the consent grab, stand in front   *)
(* of this one.  While either is up it consumes presses and lets releases  *)
(* through; `filter' is that condition.  One input event is one turn of    *)
(* the event loop, and so one step.  The chord key is the only key here:   *)
(* every other event returns early from both halves of the hook.           *)
(***************************************************************************)
EXTENDS Integers, Sequences, SequencesExt

CONSTANTS
    Hold,       \* DeadManConfig::hold, in ticks
    MaxClock    \* bound: the clock stops here

HoldAssumption == Hold \in Nat \ {0} /\ MaxClock \in Nat

\* MAX_REPLAY_BACKLOG
MaxReplayBacklog == 4

VARIABLES
    clock,      \* the instant the current turn runs at
    switch,     \* DeadManSwitch
    timer,      \* the calloop timer's deadline, if the source is registered
    filter,     \* an outer gate is consuming presses
    seat,       \* InputRouter: chord presses delivered and not yet released
    app,        \* what the application believes: is the chord key down
    finger,     \* history: the human's hold in progress: when it began, whether the
                \*   core saw it begin and still believes it, whether its press
                \*   passed the outer gates, the triggers applied during it
    last,       \* history: the last hold that ended with a release event: how long
                \*   it lasted and what became of its key
    clean       \* history: no press or release has been lost so far

vars == <<clock, switch, timer, filter, seat, app, finger, last, clean>>

new == [held_since |-> {}, fired |-> FALSE, trigger |-> FALSE,
        withheld |-> {}, replay |-> << >>, replay_pending |-> << >>]

----------------------------------------------------------------------------
(* Detection: DeadManSwitch::observe_event and fire_if_due.                *)

elapsed(sw, now) == \E since \in sw.held_since : now - since >= Hold

fire_if_due(sw, now) ==
    IF elapsed(sw, now) /\ ~sw.fired
    THEN [sw EXCEPT !.fired = TRUE, !.withheld = {}, !.trigger = TRUE]
    ELSE sw

queue_replay(sw) ==
    LET kept == IF Len(sw.replay) >= MaxReplayBacklog THEN << >> ELSE sw.replay
    IN  [sw EXCEPT !.withheld = {},
                   !.replay = kept \o <<"Pressed", "Released">>]

press_observed(sw, now) ==
    IF sw.held_since = {} \/ sw.fired
    THEN [sw EXCEPT !.held_since = {now}, !.fired = FALSE]
    ELSE sw

release_observed(sw) ==
    LET up == [sw EXCEPT !.held_since = {}, !.fired = FALSE]
    IN  IF sw.held_since # {} /\ ~sw.fired
        THEN IF sw.withheld # {} THEN queue_replay(up) ELSE up
        ELSE [up EXCEPT !.withheld = {}]

\* The release is classified before the elapse check runs.
observe_event_unchecked(sw, ev, now) ==
    IF ev = "Pressed" THEN press_observed(sw, now) ELSE release_observed(sw)

observe_event(sw, ev, now) ==
    LET due == fire_if_due(sw, now)
    IN  IF ev = "Pressed" THEN press_observed(due, now)
                          ELSE release_observed(due)

forget_hold(sw) ==
    [sw EXCEPT !.held_since = {}, !.fired = FALSE, !.withheld = {},
               !.replay_pending = << >>]

deadline(sw) == IF sw.fired THEN {} ELSE {since + Hold : since \in sw.held_since}

----------------------------------------------------------------------------
(* Suppression: DeadManSwitch::gate_event, and the replay drain.           *)

take_replay(sw) ==
    IF sw.replay = << >> THEN sw
    ELSE [sw EXCEPT !.replay = << >>, !.replay_pending = sw.replay]

withhold(sw, ev) ==
    [gate |-> "Consume",
     switch |-> [sw EXCEPT !.replay_pending = << >>,
                           !.withheld = IF ev = "Pressed" THEN {ev} ELSE @]]

\* Passes counted instead of matched by value.
gate_event_credit(sw, ev) ==
    IF sw.replay_pending # << >>
    THEN [gate |-> "Deliver",
          switch |-> [sw EXCEPT !.replay_pending = Tail(@)]]
    ELSE withhold(sw, ev)

gate_event(sw, ev) ==
    IF sw.replay_pending # << >> /\ Head(sw.replay_pending) = ev
    THEN [gate |-> "Deliver",
          switch |-> [sw EXCEPT !.replay_pending = Tail(@)]]
    ELSE withhold(sw, ev)

\* The outer gates: presses are consumed, releases fall through.
hook_gate(sw, ev) ==
    IF filter /\ ev = "Pressed" THEN [gate |-> "Consume", switch |-> sw]
                                ELSE gate_event(sw, ev)

(***************************************************************************)
(* InputRouter::route_into: the tap, the gate, then the pairing table.  A  *)
(* consumed release still settles the table; a delivered release reaches   *)
(* the application only if its press did.                                  *)
(***************************************************************************)
route_into(st, ev) ==
    LET g == hook_gate(observe_event(st.switch, ev, clock), ev)
        paired == st.seat > 0
    IN  [switch |-> g.switch,
         seat |-> IF ev = "Released"
                  THEN IF paired THEN st.seat - 1 ELSE 0
                  ELSE IF g.gate = "Deliver" THEN st.seat + 1 ELSE st.seat,
         app |-> IF g.gate = "Consume" \/ (ev = "Released" /\ ~paired)
                 THEN st.app ELSE ev = "Pressed",
         taps |-> st.taps \/ (g.gate = "Deliver" /\ ev = "Released" /\ paired)]

route_turn(ev) ==
    LET first == route_into([switch |-> switch, seat |-> seat, app |-> app,
                             taps |-> FALSE], ev)
        drained == [first EXCEPT !.switch = take_replay(@)]
    IN  FoldLeft(route_into, drained, first.switch.replay)

----------------------------------------------------------------------------
(* The embedder: deadman_tick and the timer it arms.                       *)

\* The hold is looked at only when an event arrives.
polled_never(sw) == sw

polled(sw) == fire_if_due(sw, clock)

\* take_trigger, on_trigger.
trigger_taken(sw) == [sw EXCEPT !.trigger = FALSE]

applied(sw) == IF sw.trigger THEN 1 ELSE 0

\* Registering the timer source may fail; the frame cadence then stands in.
arm_deadman_timer(sw) ==
    \/ timer' = IF timer = {} THEN deadline(sw) ELSE timer
    \/ timer = {} /\ deadline(sw) # {} /\ timer' = {}

\* The whole of deadman_tick, on the switch as the turn left it.
deadman_tick(sw) ==
    /\ switch' = trigger_taken(polled(sw))
    /\ arm_deadman_timer(switch')

\* The triggers that tick applies are charged to the hold in progress.
charged(sw) == {[h EXCEPT !.fires = @ + applied(polled(sw))] : h \in finger}

----------------------------------------------------------------------------
Init ==
    /\ clock = 0 /\ switch = new /\ timer = {} /\ filter \in BOOLEAN
    /\ seat = 0 /\ app = FALSE
    /\ finger = {} /\ last = {} /\ clean = TRUE

\* The press arrives: one turn, with the tick that ends it.  A trigger it
\* completes belongs to the hold before, whose release was lost.
press ==
    LET turn == route_turn("Pressed")
    IN  /\ finger = {}
        /\ finger' = {[since |-> clock, seen |-> TRUE, open |-> ~filter,
                       fires |-> 0]}
        /\ seat' = turn.seat /\ app' = turn.app
        /\ deadman_tick(turn.switch)
        /\ UNCHANGED <<clock, filter, last, clean>>

\* The release arrives.
release ==
    LET turn == route_turn("Released")
    IN  /\ finger # {} /\ finger' = {}
        /\ seat' = turn.seat /\ app' = turn.app
        /\ deadman_tick(turn.switch)
        /\ last' = {[held |-> clock - h.since, seen |-> h.seen,
                     open |-> h.open /\ ~filter, fires |-> h.fires,
                     tapped |-> turn.taps, clean |-> clean]
                    : h \in charged(turn.switch)}
        /\ UNCHANGED <<clock, filter, clean>>

\* The key moves and the backend never says so: a synthetic release is
\* filtered, or the window that has the focus is another one.
lose_release ==
    /\ finger # {} /\ finger' = {} /\ clean' = FALSE
    /\ UNCHANGED <<clock, switch, timer, filter, seat, app, last>>

lose_press ==
    /\ finger = {} /\ clean' = FALSE
    /\ finger' = {[since |-> clock, seen |-> FALSE, open |-> FALSE,
                   fires |-> 0]}
    /\ UNCHANGED <<clock, switch, timer, filter, seat, app, last>>

\* NestedState::handle_focus and suspend_physical_seat, each with its tick.
handle_focus ==
    /\ deadman_tick(forget_hold(switch))
    /\ finger' = {[h EXCEPT !.seen = FALSE] : h \in finger}
    /\ UNCHANGED <<clock, filter, seat, app, last, clean>>

\* A redraw: the frame-cadence poll.
frame ==
    /\ deadman_tick(switch)
    /\ finger' = charged(switch)
    /\ UNCHANGED <<clock, filter, seat, app, last, clean>>

\* The timer's callback; it reschedules itself or drops its source.
timer_fires ==
    /\ \E t \in timer : clock >= t
    /\ switch' = trigger_taken(polled(switch))
    /\ finger' = charged(switch)
    /\ timer' = deadline(switch')
    /\ UNCHANGED <<clock, filter, seat, app, last, clean>>

\* A prompt or the lock screen comes up or goes away between turns.
outer_gate ==
    /\ filter' = ~filter
    /\ UNCHANGED <<clock, switch, timer, seat, app, finger, last, clean>>

time_passes ==
    /\ clock < MaxClock /\ clock' = clock + 1
    /\ UNCHANGED <<switch, timer, filter, seat, app, finger, last, clean>>

Next ==
    \/ press \/ release \/ lose_release \/ lose_press \/ handle_focus
    \/ frame \/ timer_fires \/ outer_gate \/ time_passes

Spec == Init /\ [][Next]_vars

(***************************************************************************)
(* Fairness: the loop keeps drawing, because deadman_tick asks for a       *)
(* redraw while a hold is armed, and time keeps passing.  Nothing is       *)
(* assumed of the timer: registering it may fail.                          *)
(***************************************************************************)
FairSpec == Spec /\ WF_vars(frame) /\ WF_vars(time_passes)

----------------------------------------------------------------------------
(***************************************************************************)
(* Between turns the application never holds the chord key: a press is     *)
(* handed over only together with its release, whatever the outer gates    *)
(* consume of the replay and whatever events the backend loses             *)
(* (deadman.rs: "the pair is atomic").                                     *)
(***************************************************************************)
NoLatchedKey == ~app /\ seat = 0 /\ switch.replay = << >>

(***************************************************************************)
(* A press is judged by how long it lasted.  One of Hold or more is        *)
(* answered by exactly one trigger, even when no poll ran before its       *)
(* release arrived, and the application never sees the key (fire_if_due    *)
(* runs before the release is classified).  As long as no event was lost,  *)
(* a shorter one triggers nothing, and if no outer gate was up the         *)
(* application gets its press and its release.                             *)
(***************************************************************************)
HoldsAreJudgedByLength ==
    \A h \in last : h.seen =>
        IF h.held >= Hold THEN h.fires = 1 /\ ~h.tapped
        ELSE h.clean => h.fires = 0 /\ (h.open => h.tapped)

(***************************************************************************)
(* A hold that is kept ends in a trigger with no further input: the        *)
(* elapse check is driven by time, not by the next event.                  *)
(***************************************************************************)
HoldEndsInTrigger ==
    \A s \in 0 .. MaxClock - Hold :
        (switch.held_since = {s} /\ ~switch.fired)
            ~> (switch.held_since # {s} \/ switch.fired)
=============================================================================
