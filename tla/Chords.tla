------------------------------- MODULE Chords -------------------------------
(***************************************************************************)
(* The core's own key chords: the matcher (chord.rs) as the VT escape      *)
(* (vt.rs), the lock chord (lock/gate.rs), the clipboard pair              *)
(* (clipboard.rs) and the screenshot key (screenshot.rs) instantiate it,   *)
(* stacked with the brightness keys (backlight.rs) in front of the         *)
(* router's pairing table (input/mod.rs), with what interrupts physical    *)
(* input: a seat pause (backend/drm.rs) or a lost focus (backend/winit.rs).*)
(*                                                                         *)
(* A key is its scancode; the keysym it resolves to may depend on the      *)
(* modifiers when a keymap is loaded.  One event is one turn of the loop.  *)
(***************************************************************************)
EXTENDS Naturals, FiniteSets

CONSTANTS
    Nested,         \* the nested stack, without the VT escape
    SecondLevel,    \* triggers the keymap gives another keysym under Alt
    MaxHand         \* bound: keys held at once

Modifiers == {"Ctrl", "Alt", "Shift"}

Keys == Modifiers \cup {"F", "Delete", "Insert", "Print", "Brightness"}

VARIABLES
    hand,       \* the keys the human holds
    fresh,      \* those whose press this session has read
    here,       \* this session has the seat, or the focus
    layout,     \* a keymap is loaded (CoreKeymap)
    xkb,        \* the modifiers its state has down
    hooks,      \* the matchers, and the scancode the VT escape consumed
    lock,       \* the lock screen is up; the panel is dark; a prompt grabs
    table,      \* RealmSeat::pressed_keys: presses delivered, not released
    app,        \* the keys the application believes down
    fired       \* the gestures of the last turn

vars == <<hand, fresh, here, layout, xkb, hooks, lock, table, app, fired>>

Hooks == {"vt", "lock", "clipboard", "screenshot"}

\* chord -> gesture, by hook
bindings(hook) ==
    CASE hook = "vt"         -> {[mods |-> {"Ctrl", "Alt"}, sym |-> "F", does |-> "Switch"]}
      [] hook = "lock"       -> {[mods |-> {"Ctrl", "Alt"}, sym |-> "Delete", does |-> "Lock"]}
      [] hook = "clipboard"  -> {[mods |-> {"Ctrl", "Shift"}, sym |-> "Insert", does |-> "Promote"],
                                 [mods |-> {"Shift"}, sym |-> "Insert", does |-> "Offer"]}
      [] hook = "screenshot" -> {[mods |-> {"Ctrl"}, sym |-> "Print", does |-> "Full"]}

matcher == [down |-> {}, consumed |-> {}]

Init ==
    /\ hand = {} /\ fresh = {} /\ here = TRUE
    /\ layout \in IF Nested THEN {FALSE} ELSE BOOLEAN
    /\ xkb = {}
    /\ hooks = [match |-> [h \in Hooks |-> matcher], switch_held |-> {}]
    /\ lock = [up |-> FALSE, dark |-> FALSE, prompt |-> FALSE]
    /\ table = {} /\ app = {} /\ fired = {}

-----------------------------------------------------------------------------
(* CoreKeymap::resolve: the keysym at the level the modifiers select, and  *)
(* then the state moves.                                                   *)
keysym(key) ==
    IF ~layout THEN key
    ELSE IF key = "F" /\ {"Ctrl", "Alt"} \subseteq xkb THEN "XF86Switch_VT"
    ELSE IF key \in SecondLevel /\ "Alt" \in xkb THEN "Sys_Req"
    ELSE key

event(origin, key, pressed) ==
    [origin |-> origin, key |-> key, sym |-> keysym(key), pressed |-> pressed]

resolved(ev) ==
    IF ~layout \/ ev.key \notin Modifiers THEN xkb
    ELSE IF ev.pressed THEN xkb \cup {ev.key} ELSE xkb \ {ev.key}

-----------------------------------------------------------------------------
(* ChordMatcher.                                                           *)

observe(m, ev) ==
    IF ev.origin # "Physical" \/ ev.sym \notin Modifiers THEN m
    ELSE [m EXCEPT !.down = IF ev.pressed THEN @ \cup {ev.sym} ELSE @ \ {ev.sym}]

hit(m, hook, ev) == {b \in bindings(hook) : b.sym = ev.sym /\ b.mods = m.down}

consumes(m, hook, ev) ==
    /\ ev.origin = "Physical" /\ ev.sym \notin Modifiers
    /\ IF ev.pressed THEN hit(m, hook, ev) # {} ELSE ev.sym \in m.consumed

gate(m, hook, ev) ==
    IF ~consumes(m, hook, ev) THEN m
    ELSE [m EXCEPT !.consumed = IF ev.pressed THEN @ \cup {ev.sym} ELSE @ \ {ev.sym}]

gestures(m, hook, ev) ==
    IF consumes(m, hook, ev) /\ ev.pressed
    THEN {[hook |-> hook, does |-> b.does] : b \in hit(m, hook, ev)} ELSE {}

\* The held modifiers only.
forget_down(m) == [m EXCEPT !.down = {}]

\* The consumed triggers only.
forget_consumed(m) == [m EXCEPT !.consumed = {}]

forget_physical_state(m) == [m EXCEPT !.down = {}, !.consumed = {}]

-----------------------------------------------------------------------------
(* The stack.  A turn r carries an event through it: the hooks and the     *)
(* lock as they are now, the gestures so far, and whether some gate has    *)
(* consumed the event.                                                     *)

stop(r) == [r EXCEPT !.consumed = TRUE]

matched(r, hook, ev) ==
    LET m == r.hooks.match[hook]
    IN  IF r.consumed THEN r
        ELSE [r EXCEPT !.hooks.match[hook] = gate(m, hook, ev),
                       !.fired = @ \cup gestures(m, hook, ev),
                       !.consumed = consumes(m, hook, ev)]

(* VtHook::gate: a keysym that is a switch already, its release by the     *)
(* scancode; then the matcher.                                             *)
vt_gate(r, ev) ==
    IF Nested \/ r.consumed THEN r
    ELSE IF ev.origin = "Physical" /\ ev.pressed /\ ev.sym = "XF86Switch_VT"
         THEN stop([r EXCEPT !.hooks.switch_held = {ev.key},
                             !.fired = {[hook |-> "vt", does |-> "Switch"]}])
    ELSE IF ev.origin = "Physical" /\ ~ev.pressed /\ ev.key \in r.hooks.switch_held
         THEN stop([r EXCEPT !.hooks.switch_held = {}])
    ELSE matched(r, "vt", ev)

(* LockScreen::judge: the wake eats a press, the chord raises the lock,    *)
(* and a lock that is up eats every other press.                           *)
lock_gate(r, ev) ==
    LET seen  == [r EXCEPT !.hooks.match["lock"] = observe(@, ev), !.lock.dark = FALSE]
        chord == matched(seen, "lock", ev)
    IN  IF r.consumed \/ ev.origin # "Physical" THEN r
        ELSE IF r.lock.dark /\ ev.pressed THEN stop(seen)
        ELSE IF chord.consumed THEN [chord EXCEPT !.lock.up = @ \/ ev.pressed]
        ELSE IF r.lock.up /\ ev.pressed THEN stop(chord)
        ELSE chord

(* The consent grab, for a key: a press is the card's, a release is not.   *)
consent_gate(r, ev) ==
    IF r.lock.prompt /\ ev.origin = "Physical" /\ ev.pressed THEN stop(r) ELSE r

backlight_gate(r, ev) ==
    IF ev.origin = "Physical" /\ ev.sym = "Brightness" THEN stop(r) ELSE r

through(r, ev) ==
    backlight_gate(matched(matched(consent_gate(lock_gate(vt_gate(r, ev), ev), ev),
                                   "clipboard", ev), "screenshot", ev), ev)

\* PreemptionHook::observe, down the stack; the lock's matcher has none.
observed(h, ev) ==
    [h EXCEPT !.match = [k \in Hooks |->
        IF k = "lock" \/ (k = "vt" /\ Nested) THEN @[k] ELSE observe(@[k], ev)]]

(* route_physical_turn: the realm the output left is paid its held keys,   *)
(* and the event goes through the stack to the pairing table.              *)
route(ev, rebound) ==
    \E r \in {through([hooks |-> observed(hooks, ev), lock |-> lock,
                       fired |-> {}, consumed |-> FALSE], ev)} :
    \E held \in {IF rebound THEN {} ELSE table},
       told \in {IF rebound THEN app \ table ELSE app} :
        /\ hooks' = r.hooks /\ lock' = r.lock /\ fired' = r.fired
        /\ xkb' = resolved(ev)
        /\ CASE ev.pressed /\ r.consumed   -> table' = held /\ app' = told
             [] ev.pressed /\ ~r.consumed  -> table' = held \cup {ev.key} /\ app' = told \cup {ev.key}
             [] ~ev.pressed /\ r.consumed  -> table' = held \ {ev.key} /\ app' = told
             [] ~ev.pressed /\ ~r.consumed ->
                    /\ table' = held \ {ev.key}
                    /\ app' = IF ev.key \in held THEN told \ {ev.key} ELSE told

-----------------------------------------------------------------------------
press(key, rebound) ==
    /\ here /\ key \notin hand /\ Cardinality(hand) < MaxHand
    /\ hand' = hand \cup {key} /\ fresh' = fresh \cup {key}
    /\ route(event("Physical", key, TRUE), rebound)
    /\ UNCHANGED <<here, layout>>

release(key, rebound) ==
    /\ here /\ key \in fresh
    /\ hand' = hand \ {key} /\ fresh' = fresh \ {key}
    /\ route(event("Physical", key, FALSE), rebound)
    /\ UNCHANGED <<here, layout>>

(* An agent's key goes through the same stack, into its own entries of the *)
(* pairing table.                                                          *)
emulated(key, pressed) ==
    /\ \E ev \in {event("Emulated", key, pressed)} :
       \E r \in {through([hooks |-> observed(hooks, ev), lock |-> lock,
                          fired |-> {}, consumed |-> FALSE], ev)} :
          hooks' = r.hooks /\ lock' = r.lock /\ fired' = r.fired
    /\ UNCHANGED <<hand, fresh, here, layout, xkb, table, app>>

(* A key that moves where no event of it reaches the session: anywhere     *)
(* while another session has the seat, or at the release of a key whose    *)
(* press this session never read.                                          *)
unseen(key) ==
    /\ IF key \in hand THEN key \notin fresh ELSE ~here /\ Cardinality(hand) < MaxHand
    /\ hand' = IF key \in hand THEN hand \ {key} ELSE hand \cup {key}
    /\ fired' = {}
    /\ UNCHANGED <<fresh, here, layout, xkb, hooks, lock, table, app>>

(* PauseSession on bare metal forgets everything that was held; the nested *)
(* handle_focus settles the application only.                              *)
seat_goes ==
    /\ here /\ here' = FALSE
    /\ fresh' = {} /\ fired' = {}
    /\ app' = app \ table /\ table' = {}
    /\ IF Nested THEN UNCHANGED <<hooks, xkb>>
       ELSE /\ hooks' = [match |-> [h \in Hooks |-> forget_physical_state(hooks.match[h])],
                         switch_held |-> {}]
            /\ xkb' = {}
    /\ UNCHANGED <<hand, layout, lock>>

seat_returns ==
    /\ ~here /\ here' = TRUE
    /\ fired' = {}
    /\ UNCHANGED <<hand, fresh, layout, xkb, hooks, lock, table, app>>

(* A prompt, the lock or the blank comes or goes between two turns.        *)
screen_changes(what) ==
    /\ lock' = [lock EXCEPT ![what] = ~@]
    /\ fired' = {}
    /\ UNCHANGED <<hand, fresh, here, layout, xkb, hooks, table, app>>

Next ==
    \/ \E key \in Keys, rebound \in BOOLEAN : press(key, rebound) \/ release(key, rebound)
    \/ \E key \in Keys, pressed \in BOOLEAN : emulated(key, pressed)
    \/ \E key \in Keys : unseen(key)
    \/ seat_goes \/ seat_returns
    \/ \E what \in {"up", "dark", "prompt"} : screen_changes(what)

Spec == Init /\ [][Next]_vars

-----------------------------------------------------------------------------
InStack == IF Nested THEN Hooks \ {"vt"} ELSE Hooks

(* Every matcher of the stack, and the keymap, believe down exactly the    *)
(* modifiers the human holds and pressed in front of this session, though  *)
(* each learns of them at its own place, gates in front of it swallow      *)
(* presses, agents type modifiers of their own and the seat is taken away  *)
(* in the middle of a chord (observe, forget_physical_state).              *)
ChordsFollowTheHand ==
    /\ \A h \in InStack : hooks.match[h].down = fresh \cap Modifiers
    /\ layout => xkb = fresh \cap Modifiers

(* No key stays down in the application after the human let go of it: a    *)
(* release is kept from the application only if its press was (the pairing *)
(* contract of PreemptionHook, which the consumed sets keep).              *)
NoStrandedKey == app \subseteq fresh
=============================================================================
