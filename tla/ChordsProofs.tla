---------------------------- MODULE ChordsProofs ----------------------------
(***************************************************************************)
(* The chords on bare metal, for any bound on the hand and for every       *)
(* keymap that leaves the keys in question one name: the matchers follow   *)
(* the hand, and no key is stranded.                                       *)
(*                                                                         *)
(* An event is followed through the stack gate by gate.  What is kept at   *)
(* every gate is stated of the turn r that carries it.                     *)
(***************************************************************************)
EXTENDS Chords, TLAPS

Syms == Keys \cup {"XF86Switch_VT", "Sys_Req"}

Matcher == [down : SUBSET Modifiers, consumed : SUBSET Syms]

HookState == [match : [Hooks -> Matcher], switch_held : SUBSET Keys]

LockState == [up : BOOLEAN, dark : BOOLEAN, prompt : BOOLEAN]

Gesture == [hook : Hooks, does : {"Switch", "Lock", "Promote", "Offer", "Full"}]

Event == [origin : {"Physical", "Emulated"}, key : Keys, sym : Syms, pressed : BOOLEAN]

Turn == [hooks : HookState, lock : LockState, fired : SUBSET Gesture, consumed : BOOLEAN]

(* The keysyms a hook has a chord for.                                     *)
Triggers(hook) == {b.sym : b \in bindings(hook)}

-----------------------------------------------------------------------------
(* What the matcher's operators return.                                    *)

LEMMA BindingTypes ==
    ASSUME NEW hook \in Hooks, NEW b \in bindings(hook)
    PROVE  /\ b.sym \in Keys \ Modifiers
           /\ b.does \in {"Switch", "Lock", "Promote", "Offer", "Full"}
BY DEF bindings, Hooks, Keys, Modifiers

LEMMA ObserveType ==
    ASSUME NEW m \in Matcher, NEW ev \in Event
    PROVE  /\ observe(m, ev) \in Matcher
           /\ observe(m, ev).consumed = m.consumed
           /\ observe(m, ev).down =
                IF ev.origin = "Physical" /\ ev.sym \in Modifiers
                THEN IF ev.pressed THEN m.down \cup {ev.sym} ELSE m.down \ {ev.sym}
                ELSE m.down
BY DEF observe, Matcher, Event

LEMMA GateType ==
    ASSUME NEW m \in Matcher, NEW hook \in Hooks, NEW ev \in Event
    PROVE  /\ consumes(m, hook, ev) \in BOOLEAN
           /\ gate(m, hook, ev) \in Matcher
           /\ gate(m, hook, ev).down = m.down
           /\ gate(m, hook, ev).consumed =
                IF ~consumes(m, hook, ev) THEN m.consumed
                ELSE IF ev.pressed THEN m.consumed \cup {ev.sym} ELSE m.consumed \ {ev.sym}
           /\ gestures(m, hook, ev) \subseteq Gesture
<1>1. consumes(m, hook, ev) \in BOOLEAN
  BY Zenon DEF consumes, Event
<1>2. /\ gate(m, hook, ev) \in Matcher
      /\ gate(m, hook, ev).down = m.down
      /\ gate(m, hook, ev).consumed =
            IF ~consumes(m, hook, ev) THEN m.consumed
            ELSE IF ev.pressed THEN m.consumed \cup {ev.sym} ELSE m.consumed \ {ev.sym}
  BY <1>1 DEF gate, Matcher, Event
<1>3. gestures(m, hook, ev) \subseteq Gesture
  BY BindingTypes DEF gestures, hit, Gesture
<1> QED BY <1>1, <1>2, <1>3

-----------------------------------------------------------------------------
(* What a gate returns of a turn.                                          *)

LEMMA MatchedEffect ==
    ASSUME NEW r \in Turn, NEW hook \in Hooks, NEW ev \in Event, ~r.consumed
    PROVE  /\ matched(r, hook, ev) \in Turn
           /\ matched(r, hook, ev).hooks =
                [r.hooks EXCEPT !.match = [r.hooks.match EXCEPT
                    ![hook] = gate(r.hooks.match[hook], hook, ev)]]
           /\ matched(r, hook, ev).lock = r.lock
           /\ matched(r, hook, ev).consumed = consumes(r.hooks.match[hook], hook, ev)
<1> DEFINE m == r.hooks.match[hook]
           g == gate(m, hook, ev)
           c == consumes(m, hook, ev)
           f == gestures(m, hook, ev)
<1>1. m \in Matcher
  BY DEF Turn, HookState
<1>2. g \in Matcher /\ c \in BOOLEAN /\ f \subseteq Gesture
  BY <1>1, GateType
<1>3. matched(r, hook, ev) =
        [r EXCEPT !.hooks.match[hook] = g, !.fired = @ \cup f, !.consumed = c]
  BY DEF matched
<1> HIDE DEF g, c, f
<1> DEFINE hk == [r.hooks EXCEPT !.match = [r.hooks.match EXCEPT ![hook] = g]]
           fi == r.fired \cup f
<1>4. hk \in HookState /\ fi \in SUBSET Gesture
  BY <1>2 DEF Turn, HookState
<1>5. matched(r, hook, ev) = [[[r EXCEPT !.hooks = hk] EXCEPT !.fired = fi] EXCEPT !.consumed = c]
  BY <1>3, Zenon
<1> HIDE DEF hk, fi
<1>6. /\ matched(r, hook, ev) \in Turn
      /\ matched(r, hook, ev).hooks = hk
      /\ matched(r, hook, ev).lock = r.lock
      /\ matched(r, hook, ev).consumed = c
  BY <1>2, <1>4, <1>5, ZenonT(30) DEF Turn
<1> QED BY <1>6 DEF hk, g, c

LEMMA WithHooks ==
    ASSUME NEW r \in Turn, NEW k \in HookState
    PROVE  /\ [r EXCEPT !.hooks = k] \in Turn
           /\ [r EXCEPT !.hooks = k].hooks = k
           /\ [r EXCEPT !.hooks = k].lock = r.lock
           /\ [r EXCEPT !.hooks = k].fired = r.fired
           /\ [r EXCEPT !.hooks = k].consumed = r.consumed
BY ZenonT(30) DEF Turn

LEMMA WithLock ==
    ASSUME NEW r \in Turn, NEW l \in LockState
    PROVE  /\ [r EXCEPT !.lock = l] \in Turn
           /\ [r EXCEPT !.lock = l].hooks = r.hooks
           /\ [r EXCEPT !.lock = l].lock = l
           /\ [r EXCEPT !.lock = l].consumed = r.consumed
BY ZenonT(30) DEF Turn

LEMMA WithFired ==
    ASSUME NEW r \in Turn, NEW f \in SUBSET Gesture
    PROVE  /\ [r EXCEPT !.fired = f] \in Turn
           /\ [r EXCEPT !.fired = f].hooks = r.hooks
           /\ [r EXCEPT !.fired = f].lock = r.lock
           /\ [r EXCEPT !.fired = f].consumed = r.consumed
BY ZenonT(30) DEF Turn

LEMMA StopEffect ==
    ASSUME NEW r \in Turn
    PROVE  stop(r) \in Turn /\ stop(r).hooks = r.hooks /\ stop(r).lock = r.lock /\ stop(r).consumed
BY ZenonT(30) DEF stop, Turn

LEMMA WithMatch ==
    ASSUME NEW k \in HookState, NEW hook \in Hooks, NEW m \in Matcher
    PROVE  /\ [k EXCEPT !.match = [k.match EXCEPT ![hook] = m]] \in HookState
           /\ [k EXCEPT !.match = [k.match EXCEPT ![hook] = m]].switch_held = k.switch_held
           /\ \A h \in Hooks :
                [k EXCEPT !.match = [k.match EXCEPT ![hook] = m]].match[h] =
                    IF h = hook THEN m ELSE k.match[h]
BY DEF HookState

LEMMA WithHeld ==
    ASSUME NEW k \in HookState, NEW x \in SUBSET Keys
    PROVE  /\ [k EXCEPT !.switch_held = x] \in HookState
           /\ [k EXCEPT !.switch_held = x].match = k.match
           /\ [k EXCEPT !.switch_held = x].switch_held = x
BY DEF HookState

LEMMA MatchedHooks ==
    ASSUME NEW r \in Turn, NEW hook \in Hooks, NEW ev \in Event, ~r.consumed
    PROVE  /\ matched(r, hook, ev).hooks.switch_held = r.hooks.switch_held
           /\ \A h \in Hooks : matched(r, hook, ev).hooks.match[h] =
                IF h = hook THEN gate(r.hooks.match[hook], hook, ev) ELSE r.hooks.match[h]
<1> DEFINE g == gate(r.hooks.match[hook], hook, ev)
           k == [r.hooks EXCEPT !.match = [r.hooks.match EXCEPT ![hook] = g]]
<1>1. r.hooks \in HookState /\ r.hooks.match[hook] \in Matcher
  BY DEF Turn, HookState
<1>2. g \in Matcher
  BY <1>1, GateType
<1>3. matched(r, hook, ev).hooks = k
  BY MatchedEffect
<1> HIDE DEF g
<1>4. /\ k.switch_held = r.hooks.switch_held
      /\ \A h \in Hooks : k.match[h] = IF h = hook THEN g ELSE r.hooks.match[h]
  BY <1>1, <1>2, WithMatch
<1> HIDE DEF k
<1> QED BY <1>3, <1>4 DEF g

(* VtHook::gate: a switch keysym, its release, or the matcher.             *)
SwitchPress(ev) == ev.origin = "Physical" /\ ev.pressed /\ ev.sym = "XF86Switch_VT"

SwitchRelease(r, ev) ==
    ev.origin = "Physical" /\ ~ev.pressed /\ ev.key \in r.hooks.switch_held

LEMMA VtEffect ==
    ASSUME NEW r \in Turn, NEW ev \in Event, ~Nested, ~r.consumed
    PROVE  /\ vt_gate(r, ev) \in Turn
           /\ \/ /\ SwitchPress(ev)
                 /\ vt_gate(r, ev).hooks = [r.hooks EXCEPT !.switch_held = {ev.key}]
                 /\ vt_gate(r, ev).consumed
              \/ /\ SwitchRelease(r, ev)
                 /\ vt_gate(r, ev).hooks = [r.hooks EXCEPT !.switch_held = {}]
                 /\ vt_gate(r, ev).consumed
              \/ /\ ~SwitchPress(ev) /\ ~SwitchRelease(r, ev)
                 /\ vt_gate(r, ev) = matched(r, "vt", ev)
<1> DEFINE kp == [r.hooks EXCEPT !.switch_held = {ev.key}]
           kr == [r.hooks EXCEPT !.switch_held = {}]
           f == {[hook |-> "vt", does |-> "Switch"]}
<1>1. kp \in HookState /\ kr \in HookState /\ f \in SUBSET Gesture
  BY WithHeld DEF Turn, Event, Gesture, Hooks
<1>2. ASSUME SwitchPress(ev)
      PROVE  vt_gate(r, ev) = stop([[r EXCEPT !.hooks = kp] EXCEPT !.fired = f])
  BY <1>2, Zenon DEF vt_gate, SwitchPress
<1>3. ASSUME SwitchRelease(r, ev)
      PROVE  vt_gate(r, ev) = stop([r EXCEPT !.hooks = kr])
  BY <1>3, Zenon DEF vt_gate, SwitchRelease
<1>4. ASSUME ~SwitchPress(ev), ~SwitchRelease(r, ev)
      PROVE  vt_gate(r, ev) = matched(r, "vt", ev)
  BY <1>4, Zenon DEF vt_gate, SwitchPress, SwitchRelease
<1>5. matched(r, "vt", ev) \in Turn
  BY MatchedEffect DEF Hooks
<1> HIDE DEF kp, kr, f
<1>6. CASE SwitchPress(ev)
  <2> DEFINE a == [r EXCEPT !.hooks = kp]
  <2>1. a \in Turn /\ a.hooks = kp
    BY <1>1, WithHooks
  <2> HIDE DEF a
  <2> DEFINE b == [a EXCEPT !.fired = f]
  <2>2. b \in Turn /\ b.hooks = kp
    BY <1>1, <2>1, WithFired
  <2>3. vt_gate(r, ev) = stop(b)
    BY <1>2, <1>6 DEF a
  <2> HIDE DEF b
  <2> QED BY <1>6, <2>2, <2>3, StopEffect DEF kp
<1>7. CASE SwitchRelease(r, ev)
  <2> DEFINE a == [r EXCEPT !.hooks = kr]
  <2>1. a \in Turn /\ a.hooks = kr
    BY <1>1, WithHooks
  <2>2. vt_gate(r, ev) = stop(a)
    BY <1>3, <1>7
  <2> HIDE DEF a
  <2> QED BY <1>7, <2>1, <2>2, StopEffect DEF kr
<1>8. CASE ~SwitchPress(ev) /\ ~SwitchRelease(r, ev)
  BY <1>4, <1>5, <1>8
<1> QED BY <1>6, <1>7, <1>8

(* LockScreen::judge, once the matcher has observed the event.             *)
LEMMA LockEffect ==
    ASSUME NEW r \in Turn, NEW ev \in Event, ~r.consumed, ev.origin = "Physical"
    PROVE  \E seen \in Turn :
               /\ ~seen.consumed
               /\ seen.hooks = [r.hooks EXCEPT !.match = [r.hooks.match EXCEPT
                                    !["lock"] = observe(r.hooks.match["lock"], ev)]]
               /\ lock_gate(r, ev) \in Turn
               /\ \/ /\ lock_gate(r, ev).hooks = seen.hooks
                     /\ ev.pressed /\ lock_gate(r, ev).consumed
                  \/ /\ lock_gate(r, ev).hooks = matched(seen, "lock", ev).hooks
                     /\ \/ lock_gate(r, ev).consumed = matched(seen, "lock", ev).consumed
                        \/ ev.pressed /\ lock_gate(r, ev).consumed
<1> DEFINE o == observe(r.hooks.match["lock"], ev)
           k == [r.hooks EXCEPT !.match = [r.hooks.match EXCEPT !["lock"] = o]]
           l == [r.lock EXCEPT !.dark = FALSE]
           a == [r EXCEPT !.hooks = k]
           seen == [a EXCEPT !.lock = l]
           chord == matched(seen, "lock", ev)
<1>1. "lock" \in Hooks /\ r.hooks \in HookState /\ r.hooks.match["lock"] \in Matcher
  BY DEF Hooks, Turn, HookState
<1>2. k \in HookState
  BY <1>1, ObserveType, WithMatch
<1>3. r.lock \in LockState
  BY Zenon DEF Turn
<1>4. \A x \in LockState, y \in BOOLEAN : [x EXCEPT !.dark = y] \in LockState /\ [x EXCEPT !.up = y] \in LockState
  BY ZenonT(30) DEF LockState
<1>5. l \in LockState
  BY <1>3, <1>4
<1> DEFINE literal == [r EXCEPT !.hooks.match["lock"] = observe(@, ev), !.lock.dark = FALSE]
<1>6. literal = seen
  BY Zenon
<1> DEFINE tried == matched(literal, "lock", ev)
           raised == [tried EXCEPT !.lock.up = @ \/ ev.pressed]
<1>0. lock_gate(r, ev) =
         IF r.lock.dark /\ ev.pressed THEN stop(literal)
         ELSE IF tried.consumed THEN raised
         ELSE IF r.lock.up /\ ev.pressed THEN stop(tried)
         ELSE tried
  BY SMT DEF lock_gate
<1> HIDE DEF k, l, literal
<1>7. a \in Turn /\ a.hooks = k /\ a.consumed = r.consumed
  BY <1>2, WithHooks
<1> HIDE DEF a
<1>8. seen \in Turn /\ seen.hooks = k /\ ~seen.consumed
  BY <1>5, <1>7, WithLock
<1> HIDE DEF seen
<1>9. chord \in Turn
  BY <1>1, <1>8, MatchedEffect
<1>10. lock_gate(r, ev) =
         IF r.lock.dark /\ ev.pressed THEN stop(seen)
         ELSE IF chord.consumed THEN [chord EXCEPT !.lock.up = @ \/ ev.pressed]
         ELSE IF r.lock.up /\ ev.pressed THEN stop(chord)
         ELSE chord
  BY <1>0, <1>6, Zenon
<1> HIDE DEF chord
<1>11. /\ lock_gate(r, ev) \in Turn
       /\ \/ /\ lock_gate(r, ev).hooks = seen.hooks
             /\ ev.pressed /\ lock_gate(r, ev).consumed
          \/ /\ lock_gate(r, ev).hooks = chord.hooks
             /\ \/ lock_gate(r, ev).consumed = chord.consumed
                \/ ev.pressed /\ lock_gate(r, ev).consumed
  <2>1. CASE r.lock.dark /\ ev.pressed
    <3>1. lock_gate(r, ev) = stop(seen)
      BY <1>10, <2>1, Zenon
    <3> QED BY <1>8, <2>1, <3>1, StopEffect
  <2>2. CASE ~(r.lock.dark /\ ev.pressed) /\ chord.consumed
    <3> DEFINE c == [chord.lock EXCEPT !.up = chord.lock.up \/ ev.pressed]
    <3>1. lock_gate(r, ev) = [chord EXCEPT !.lock = c]
      BY <1>10, <2>2, Zenon
    <3>2. chord.lock \in LockState /\ (chord.lock.up \/ ev.pressed) \in BOOLEAN
      BY <1>9, Zenon DEF Turn
    <3>3. c \in LockState
      BY <1>4, <3>2
    <3> HIDE DEF c
    <3> QED BY <1>9, <3>1, <3>3, WithLock
  <2>3. CASE ~(r.lock.dark /\ ev.pressed) /\ ~chord.consumed /\ r.lock.up /\ ev.pressed
    <3>1. lock_gate(r, ev) = stop(chord)
      BY <1>10, <2>3, Zenon
    <3> QED BY <1>9, <2>3, <3>1, StopEffect
  <2>4. CASE ~(r.lock.dark /\ ev.pressed) /\ ~chord.consumed /\ ~(r.lock.up /\ ev.pressed)
    <3>1. lock_gate(r, ev) = chord
      BY <1>10, <2>4, Zenon
    <3> QED BY <1>9, <3>1
  <2> QED BY <2>1, <2>2, <2>3, <2>4
<1> QED BY <1>8, <1>11 DEF chord, k

(* The grab and the brightness keys only consume.                          *)
LEMMA ConsentEffect ==
    ASSUME NEW r \in Turn, NEW ev \in Event
    PROVE  /\ consent_gate(r, ev) \in Turn
           /\ consent_gate(r, ev).hooks = r.hooks
           /\ \/ consent_gate(r, ev).consumed = r.consumed
              \/ ev.origin = "Physical" /\ ev.pressed /\ consent_gate(r, ev).consumed
BY StopEffect DEF consent_gate

LEMMA BacklightEffect ==
    ASSUME NEW r \in Turn, NEW ev \in Event
    PROVE  /\ backlight_gate(r, ev) \in Turn
           /\ backlight_gate(r, ev).hooks = r.hooks
           /\ IF ev.origin = "Physical" /\ ev.sym = "Brightness"
              THEN backlight_gate(r, ev).consumed
              ELSE backlight_gate(r, ev).consumed = r.consumed
BY StopEffect DEF backlight_gate

-----------------------------------------------------------------------------
(* The modifiers the matchers have down: no gate moves them but the lock's *)
(* own observation.                                                        *)
SameDown(r, s) == \A h \in Hooks : s.hooks.match[h].down = r.hooks.match[h].down

LEMMA MatchedDown ==
    ASSUME NEW r \in Turn, NEW hook \in Hooks, NEW ev \in Event
    PROVE  matched(r, hook, ev) \in Turn /\ SameDown(r, matched(r, hook, ev))
<1>1. CASE r.consumed
  BY <1>1 DEF matched, SameDown
<1>2. CASE ~r.consumed
  <2>1. r.hooks \in HookState /\ r.hooks.match[hook] \in Matcher
    BY DEF Turn, HookState
  <2>2. /\ gate(r.hooks.match[hook], hook, ev) \in Matcher
        /\ gate(r.hooks.match[hook], hook, ev).down = r.hooks.match[hook].down
    BY <2>1, GateType
  <2>3. matched(r, hook, ev) \in Turn
    BY <1>2, MatchedEffect
  <2> QED BY <1>2, <2>2, <2>3, MatchedHooks DEF SameDown
<1> QED BY <1>1, <1>2

LEMMA VtDown ==
    ASSUME NEW r \in Turn, NEW ev \in Event, ~Nested, ~r.consumed
    PROVE  /\ vt_gate(r, ev) \in Turn /\ SameDown(r, vt_gate(r, ev))
           /\ ev.sym \in Modifiers => ~vt_gate(r, ev).consumed \/ SwitchRelease(r, ev)
<1>1. r.hooks \in HookState /\ {ev.key} \in SUBSET Keys
  BY DEF Turn, Event
<1>5. vt_gate(r, ev) \in Turn
  BY VtEffect
<1>6. \A x \in SUBSET Keys : [r.hooks EXCEPT !.switch_held = x].match = r.hooks.match
  BY <1>1, WithHeld
<1>2. CASE SwitchPress(ev) /\ vt_gate(r, ev).hooks = [r.hooks EXCEPT !.switch_held = {ev.key}]
  <2>1. vt_gate(r, ev).hooks.match = r.hooks.match
    BY <1>1, <1>2, <1>6
  <2> QED BY <1>2, <1>5, <2>1 DEF SameDown, SwitchPress, Modifiers
<1>3. CASE SwitchRelease(r, ev) /\ vt_gate(r, ev).hooks = [r.hooks EXCEPT !.switch_held = {}]
  <2>1. vt_gate(r, ev).hooks.match = r.hooks.match
    BY <1>3, <1>6
  <2> QED BY <1>3, <1>5, <2>1 DEF SameDown
<1>4. CASE vt_gate(r, ev) = matched(r, "vt", ev)
  <2>1. ev.sym \in Modifiers => ~consumes(r.hooks.match["vt"], "vt", ev)
    BY DEF consumes
  <2>2. "vt" \in Hooks
    BY DEF Hooks
  <2>3. matched(r, "vt", ev) \in Turn /\ SameDown(r, matched(r, "vt", ev))
    BY <2>2, MatchedDown
  <2>4. matched(r, "vt", ev).consumed = consumes(r.hooks.match["vt"], "vt", ev)
    BY <2>2, MatchedEffect
  <2> QED BY <1>4, <2>1, <2>3, <2>4
<1> QED BY <1>2, <1>3, <1>4, VtEffect

LEMMA LockDown ==
    ASSUME NEW r \in Turn, NEW ev \in Event
    PROVE  /\ lock_gate(r, ev) \in Turn
           /\ \A h \in Hooks \ {"lock"} :
                lock_gate(r, ev).hooks.match[h].down = r.hooks.match[h].down
           /\ lock_gate(r, ev).hooks.match["lock"].down =
                IF r.consumed THEN r.hooks.match["lock"].down
                ELSE observe(r.hooks.match["lock"], ev).down
<1>0. r.hooks.match["lock"] \in Matcher /\ r.hooks \in HookState /\ "lock" \in Hooks
  BY DEF Turn, HookState, Hooks
<1>1. CASE r.consumed \/ ev.origin # "Physical"
  BY <1>0, <1>1, ObserveType DEF lock_gate
<1>2. CASE ~r.consumed /\ ev.origin = "Physical"
  <2> DEFINE s == lock_gate(r, ev)
  <2>1. PICK seen \in Turn :
            /\ seen.hooks = [r.hooks EXCEPT !.match = [r.hooks.match EXCEPT
                                    !["lock"] = observe(r.hooks.match["lock"], ev)]]
            /\ s \in Turn
            /\ s.hooks = seen.hooks \/ s.hooks = matched(seen, "lock", ev).hooks
    BY <1>2, LockEffect
  <2> DEFINE o == observe(r.hooks.match["lock"], ev)
             k == [r.hooks EXCEPT !.match = [r.hooks.match EXCEPT !["lock"] = o]]
  <2> HIDE DEF s
  <2>6. seen.hooks = k
    BY <2>1
  <2>7. o \in Matcher
    BY <1>0, ObserveType
  <2> HIDE DEF o
  <2>8. \A h \in Hooks : k.match[h] = IF h = "lock" THEN o ELSE r.hooks.match[h]
    BY <1>0, <2>7, WithMatch
  <2> HIDE DEF k
  <2>2. \A h \in Hooks : seen.hooks.match[h] = IF h = "lock" THEN o ELSE r.hooks.match[h]
    BY <2>6, <2>8
  <2>9. \A h \in Hooks : matched(seen, "lock", ev).hooks.match[h].down = seen.hooks.match[h].down
    BY <1>0, MatchedDown DEF SameDown
  <2>3. \A h \in Hooks : s.hooks.match[h].down = seen.hooks.match[h].down
    BY <2>1, <2>9
  <2>4. \A h \in Hooks \ {"lock"} : s.hooks.match[h].down = r.hooks.match[h].down
    BY <2>2, <2>3
  <2>5. s.hooks.match["lock"].down = observe(r.hooks.match["lock"], ev).down
    BY <1>0, <2>2, <2>3 DEF o
  <2> QED BY <1>2, <2>1, <2>4, <2>5 DEF s
<1> QED BY <1>1, <1>2

(* The whole stack, for an event the VT hook does not take by its          *)
(* scancode: every matcher has observed the event.                         *)
LEMMA ThroughDown ==
    ASSUME NEW r \in Turn, NEW ev \in Event, ~Nested, ~r.consumed,
           ev.sym \in Modifiers => ~SwitchRelease(r, ev)
    PROVE  /\ through(r, ev) \in Turn
           /\ \A h \in Hooks \ {"lock"} :
                through(r, ev).hooks.match[h].down = r.hooks.match[h].down
           /\ through(r, ev).hooks.match["lock"].down = observe(r.hooks.match["lock"], ev).down
<1> DEFINE a == vt_gate(r, ev)
           b == lock_gate(a, ev)
           c == consent_gate(b, ev)
           d == matched(c, "clipboard", ev)
           e == matched(d, "screenshot", ev)
           f == backlight_gate(e, ev)
<1>0. "clipboard" \in Hooks /\ "screenshot" \in Hooks /\ "lock" \in Hooks
  BY DEF Hooks
<1>1. a \in Turn /\ SameDown(r, a) /\ (ev.sym \in Modifiers => ~a.consumed)
  BY VtDown
<1>2. f = through(r, ev)
  BY DEF through
<1> HIDE DEF a
<1>3. /\ b \in Turn
      /\ \A h \in Hooks \ {"lock"} : b.hooks.match[h].down = a.hooks.match[h].down
      /\ b.hooks.match["lock"].down =
            IF a.consumed THEN a.hooks.match["lock"].down
            ELSE observe(a.hooks.match["lock"], ev).down
  BY <1>1, LockDown
<1> HIDE DEF b
<1>4. c \in Turn /\ SameDown(b, c)
  BY <1>3, ConsentEffect DEF SameDown
<1> HIDE DEF c
<1>5. d \in Turn /\ SameDown(c, d)
  BY <1>0, <1>4, MatchedDown
<1> HIDE DEF d
<1>6. e \in Turn /\ SameDown(d, e)
  BY <1>0, <1>5, MatchedDown
<1> HIDE DEF e
<1>7. f \in Turn /\ SameDown(e, f)
  BY <1>6, BacklightEffect DEF SameDown
<1> HIDE DEF f
<1>8. \A h \in Hooks : f.hooks.match[h].down = b.hooks.match[h].down
  BY <1>4, <1>5, <1>6, <1>7 DEF SameDown
<1>9. r.hooks.match["lock"] \in Matcher /\ a.hooks.match["lock"] \in Matcher
  BY <1>0, <1>1 DEF Turn, HookState
<1>10. b.hooks.match["lock"].down = observe(r.hooks.match["lock"], ev).down
  <2> DEFINE m == r.hooks.match["lock"]
             n == a.hooks.match["lock"]
  <2>1. m.down = n.down
    BY <1>0, <1>1 DEF SameDown
  <2>2. ev.sym \notin Modifiers => observe(m, ev).down = m.down
    BY <1>9, ObserveType
  <2>3. observe(m, ev).down = observe(n, ev).down
    BY <1>9, <2>1, ObserveType
  <2> QED BY <1>1, <1>3, <2>1, <2>2, <2>3
<1>11. \A h \in Hooks \ {"lock"} : f.hooks.match[h].down = r.hooks.match[h].down
  BY <1>1, <1>3, <1>8 DEF SameDown
<1> QED BY <1>0, <1>2, <1>7, <1>8, <1>10, <1>11

(* The scancode the VT hook has consumed changes in its own gate alone.    *)
LEMMA ThroughHeld ==
    ASSUME NEW r \in Turn, NEW ev \in Event, ~Nested, ~r.consumed
    PROVE  through(r, ev).hooks.switch_held = vt_gate(r, ev).hooks.switch_held
<1> DEFINE a == vt_gate(r, ev)
           b == lock_gate(a, ev)
           c == consent_gate(b, ev)
           d == matched(c, "clipboard", ev)
           e == matched(d, "screenshot", ev)
           f == backlight_gate(e, ev)
<1>0. "clipboard" \in Hooks /\ "screenshot" \in Hooks /\ "lock" \in Hooks
  BY DEF Hooks
<1>1. \A t \in Turn, h \in Hooks : matched(t, h, ev).hooks.switch_held = t.hooks.switch_held
  <2> TAKE t \in Turn, h \in Hooks
  <2>1. CASE t.consumed
    BY <2>1 DEF matched
  <2>2. CASE ~t.consumed
    BY <2>2, MatchedHooks
  <2> QED BY <2>1, <2>2
<1>2. a \in Turn
  BY VtEffect
<1>3. f = through(r, ev)
  BY DEF through
<1> HIDE DEF a
<1>4. b \in Turn
  BY <1>2, LockDown
<1>5. b.hooks.switch_held = a.hooks.switch_held
  <2>1. CASE a.consumed \/ ev.origin # "Physical"
    BY <2>1 DEF lock_gate
  <2>2. CASE ~a.consumed /\ ev.origin = "Physical"
    <3> DEFINE o == observe(a.hooks.match["lock"], ev)
               k == [a.hooks EXCEPT !.match = [a.hooks.match EXCEPT !["lock"] = o]]
    <3>1. PICK seen \in Turn :
              /\ seen.hooks = k
              /\ b.hooks = seen.hooks \/ b.hooks = matched(seen, "lock", ev).hooks
      BY <1>2, <2>2, LockEffect
    <3>2. a.hooks \in HookState /\ a.hooks.match["lock"] \in Matcher
      BY <1>0, <1>2 DEF Turn, HookState
    <3>3. o \in Matcher
      BY <3>2, ObserveType
    <3> HIDE DEF o
    <3>4. k.switch_held = a.hooks.switch_held
      BY <1>0, <3>2, <3>3, WithMatch
    <3> HIDE DEF k
    <3>5. matched(seen, "lock", ev).hooks.switch_held = seen.hooks.switch_held
      BY <1>0, <1>1
    <3> QED BY <3>1, <3>4, <3>5
  <2> QED BY <2>1, <2>2
<1> HIDE DEF b
<1>6. c \in Turn /\ c.hooks.switch_held = b.hooks.switch_held
  BY <1>4, ConsentEffect
<1> HIDE DEF c
<1>7. d \in Turn /\ d.hooks.switch_held = c.hooks.switch_held
  BY <1>0, <1>1, <1>6, MatchedDown
<1> HIDE DEF d
<1>8. e \in Turn /\ e.hooks.switch_held = d.hooks.switch_held
  BY <1>0, <1>1, <1>7, MatchedDown
<1> HIDE DEF e
<1>9. f.hooks.switch_held = e.hooks.switch_held
  BY <1>8, BacklightEffect
<1> QED BY <1>3, <1>5, <1>6, <1>7, <1>8, <1>9 DEF a

-----------------------------------------------------------------------------
(* The first inductive invariant: the matchers and the keymap follow the   *)
(* hand.                                                                   *)
HandInv ==
    /\ hooks \in HookState /\ lock \in LockState
    /\ hand \subseteq Keys /\ fresh \subseteq hand
    /\ here \in BOOLEAN /\ layout \in BOOLEAN /\ xkb \subseteq Modifiers
    /\ ~here => fresh = {}
    /\ hooks.switch_held \subseteq {"F"}
    /\ \A h \in Hooks : hooks.match[h].down = fresh \cap Modifiers
    /\ layout => xkb = fresh \cap Modifiers

(* The turn of an event as it enters the stack.                            *)
Entering(ev) == [hooks |-> observed(hooks, ev), lock |-> lock, fired |-> {}, consumed |-> FALSE]

LEMMA EventType ==
    ASSUME NEW origin \in {"Physical", "Emulated"}, NEW key \in Keys, NEW pressed \in BOOLEAN,
           SecondLevel \cap Modifiers = {}
    PROVE  /\ event(origin, key, pressed) \in Event
           /\ event(origin, key, pressed).origin = origin
           /\ event(origin, key, pressed).key = key
           /\ event(origin, key, pressed).pressed = pressed
           /\ event(origin, key, pressed).sym = keysym(key)
           /\ keysym(key) \in Keys => keysym(key) = key
           /\ keysym(key) = "XF86Switch_VT" => key = "F"
           /\ key \in Modifiers <=> keysym(key) \in Modifiers
<1>1. keysym(key) \in Syms
  BY DEF keysym, Syms
<1>2. /\ keysym(key) \in Keys => keysym(key) = key
      /\ keysym(key) = "XF86Switch_VT" => key = "F"
      /\ key \in Modifiers <=> keysym(key) \in Modifiers
  BY DEF keysym, Keys, Modifiers
<1>3. /\ event(origin, key, pressed).origin = origin
      /\ event(origin, key, pressed).key = key
      /\ event(origin, key, pressed).pressed = pressed
      /\ event(origin, key, pressed).sym = keysym(key)
  BY Zenon DEF event
<1>4. event(origin, key, pressed) \in Event
  BY <1>1, Zenon DEF event, Event
<1> QED BY <1>2, <1>3, <1>4

LEMMA EnteringType ==
    ASSUME HandInv, NEW ev \in Event, ~Nested
    PROVE  /\ Entering(ev) \in Turn /\ ~Entering(ev).consumed
           /\ Entering(ev).hooks.switch_held = hooks.switch_held
           /\ \A h \in Hooks : Entering(ev).hooks.match[h] =
                IF h = "lock" THEN hooks.match[h] ELSE observe(hooks.match[h], ev)
<1> DEFINE f == [k \in Hooks |->
                    IF k = "lock" \/ (k = "vt" /\ Nested) THEN hooks.match[k]
                    ELSE observe(hooks.match[k], ev)]
           o == [hooks EXCEPT !.match = f]
<1>1. \A h \in Hooks : hooks.match[h] \in Matcher /\ observe(hooks.match[h], ev) \in Matcher
  BY ObserveType DEF HandInv, HookState
<1>2. f \in [Hooks -> Matcher]
  BY <1>1
<1>3. \A h \in Hooks : f[h] = IF h = "lock" THEN hooks.match[h] ELSE observe(hooks.match[h], ev)
  OBVIOUS
<1>4. observed(hooks, ev) = o
  BY Zenon DEF observed
<1> HIDE DEF f
<1>5. o \in HookState /\ o.switch_held = hooks.switch_held /\ o.match = f
  BY <1>2 DEF HandInv, HookState
<1> HIDE DEF o
<1>6. lock \in LockState
  BY Zenon DEF HandInv
<1>7. /\ Entering(ev) \in Turn /\ ~Entering(ev).consumed
      /\ Entering(ev).hooks = o
  BY <1>4, <1>5, <1>6, ZenonT(30) DEF Entering, Turn
<1> QED BY <1>3, <1>5, <1>7

(* The modifiers held once an event has been observed.                     *)
HeldAfter(origin, key, pressed) ==
    IF origin = "Physical" /\ key \in Modifiers
    THEN IF pressed THEN (fresh \cap Modifiers) \cup {key}
                    ELSE (fresh \cap Modifiers) \ {key}
    ELSE fresh \cap Modifiers

(* Whatever becomes of the event, every matcher has observed it.           *)
LEMMA TurnFollows ==
    ASSUME HandInv, ~Nested, SecondLevel \cap Modifiers = {},
           NEW origin \in {"Physical", "Emulated"}, NEW key \in Keys, NEW pressed \in BOOLEAN,
           NEW ev, ev = event(origin, key, pressed)
    PROVE  /\ through(Entering(ev), ev) \in Turn
           /\ through(Entering(ev), ev).hooks.switch_held \subseteq {"F"}
           /\ \A h \in Hooks : through(Entering(ev), ev).hooks.match[h].down =
                HeldAfter(origin, key, pressed)
<1> DEFINE r == Entering(ev)
           s == through(r, ev)
           D == fresh \cap Modifiers
           E == IF origin = "Physical" /\ key \in Modifiers
                THEN IF pressed THEN D \cup {key} ELSE D \ {key}
                ELSE D
<1>1. /\ ev \in Event /\ ev.origin = origin /\ ev.key = key /\ ev.pressed = pressed
      /\ ev.sym = keysym(key)
      /\ keysym(key) \in Keys => keysym(key) = key
      /\ keysym(key) = "XF86Switch_VT" => key = "F"
      /\ key \in Modifiers <=> keysym(key) \in Modifiers
  BY EventType
<1>2. /\ r \in Turn /\ ~r.consumed
      /\ r.hooks.switch_held = hooks.switch_held
      /\ \A h \in Hooks : r.hooks.match[h] =
            IF h = "lock" THEN hooks.match[h] ELSE observe(hooks.match[h], ev)
  BY <1>1, EnteringType
<1> HIDE DEF r
<1>3. \A h \in Hooks : hooks.match[h] \in Matcher /\ hooks.match[h].down = D
  BY DEF HandInv, HookState
<1>4. "lock" \in Hooks
  BY DEF Hooks
<1>5. \A h \in Hooks : observe(hooks.match[h], ev).down = E
  <2> TAKE h \in Hooks
  <2>1. key \in Modifiers => ev.sym = key
    BY <1>1 DEF Keys
  <2> DEFINE m == hooks.match[h]
  <2>2. m \in Matcher /\ m.down = D
    BY <1>3
  <2> HIDE DEF D, m
  <2>3. observe(m, ev).down =
            IF ev.origin = "Physical" /\ ev.sym \in Modifiers
            THEN IF ev.pressed THEN m.down \cup {ev.sym} ELSE m.down \ {ev.sym}
            ELSE m.down
    BY <1>1, <2>2, ObserveType
  <2>4. CASE origin = "Physical" /\ key \in Modifiers /\ pressed
    BY <1>1, <2>1, <2>2, <2>3, <2>4 DEF m
  <2>5. CASE origin = "Physical" /\ key \in Modifiers /\ ~pressed
    BY <1>1, <2>1, <2>2, <2>3, <2>5 DEF m
  <2>6. CASE ~(origin = "Physical" /\ key \in Modifiers)
    BY <1>1, <2>2, <2>3, <2>6 DEF m
  <2> QED BY <2>4, <2>5, <2>6
<1>6. ev.sym \in Modifiers => ~SwitchRelease(r, ev)
  BY <1>1, <1>2 DEF HandInv, SwitchRelease, Modifiers
<1>7. /\ s \in Turn
      /\ \A h \in Hooks \ {"lock"} : s.hooks.match[h].down = r.hooks.match[h].down
      /\ s.hooks.match["lock"].down = observe(r.hooks.match["lock"], ev).down
  BY <1>1, <1>2, <1>6, ThroughDown
<1>8. s.hooks.switch_held \subseteq {"F"}
  <2>1. s.hooks.switch_held = vt_gate(r, ev).hooks.switch_held
    BY <1>1, <1>2, ThroughHeld
  <2>2. r.hooks \in HookState /\ {ev.key} \in SUBSET Keys
    BY <1>1, <1>2 DEF Turn
  <2>3. \A x \in SUBSET Keys : [r.hooks EXCEPT !.switch_held = x].switch_held = x
    BY <2>2, WithHeld
  <2>4. CASE SwitchPress(ev) /\ vt_gate(r, ev).hooks = [r.hooks EXCEPT !.switch_held = {ev.key}]
    <3>1. ev.key = "F"
      BY <1>1, <2>4 DEF SwitchPress
    <3>2. vt_gate(r, ev).hooks.switch_held = {ev.key}
      BY <2>2, <2>3, <2>4
    <3> QED BY <2>1, <3>1, <3>2
  <2>5. CASE vt_gate(r, ev).hooks = [r.hooks EXCEPT !.switch_held = {}]
    BY <2>1, <2>3, <2>5
  <2>6. CASE vt_gate(r, ev) = matched(r, "vt", ev)
    <3>1. matched(r, "vt", ev).hooks.switch_held = r.hooks.switch_held
      BY <1>1, <1>2, MatchedHooks DEF Hooks
    <3> QED BY <1>2, <2>1, <2>6, <3>1 DEF HandInv
  <2> QED BY <1>1, <1>2, <2>4, <2>5, <2>6, VtEffect
<1> HIDE DEF s, E
<1>9. \A h \in Hooks : s.hooks.match[h].down = E
  BY <1>2, <1>4, <1>5, <1>7
<1> QED BY <1>7, <1>8, <1>9 DEF s, r, E, HeldAfter

(* A physical key that moves.                                              *)
LEMMA RouteFollows ==
    ASSUME HandInv, ~Nested, SecondLevel \cap Modifiers = {},
           NEW key \in Keys, NEW pressed \in BOOLEAN, NEW rebound,
           route(event("Physical", key, pressed), rebound),
           here, hand' \subseteq Keys, fresh' \subseteq hand',
           fresh' = IF pressed THEN fresh \cup {key} ELSE fresh \ {key},
           UNCHANGED <<here, layout>>
    PROVE  HandInv'
<1> DEFINE ev == event("Physical", key, pressed)
           s == through(Entering(ev), ev)
<1>5. ev.key = key /\ ev.pressed = pressed
  BY EventType
<1>2. hooks' = s.hooks /\ lock' = s.lock /\ xkb' = resolved(ev)
  BY DEF route, Entering
<1>0. ev = event("Physical", key, pressed) /\ "Physical" \in {"Physical", "Emulated"}
  OBVIOUS
<1> HIDE DEF ev
<1>1. /\ s \in Turn /\ s.hooks.switch_held \subseteq {"F"}
      /\ \A h \in Hooks : s.hooks.match[h].down = HeldAfter("Physical", key, pressed)
  BY <1>0, TurnFollows
<1>3. s.hooks \in HookState
  BY <1>1 DEF Turn
<1>4. s.lock \in LockState
  BY <1>1, Zenon DEF Turn
<1> HIDE DEF s
<1>6. \A h \in Hooks : s.hooks.match[h].down = fresh' \cap Modifiers
  BY <1>1 DEF HeldAfter
<1>7. xkb' \subseteq Modifiers /\ (layout => xkb' = fresh' \cap Modifiers)
  BY <1>2, <1>5 DEF resolved, HandInv
<1>8. here' \in BOOLEAN /\ layout' \in BOOLEAN /\ (~here' => fresh' = {})
  BY Zenon DEF HandInv
<1>9. layout' = layout
  OBVIOUS
<1> QED BY <1>1, <1>2, <1>3, <1>4, <1>6, <1>7, <1>8, <1>9 DEF HandInv

(* An agent's key moves nothing the matchers follow.                       *)
LEMMA EmulatedFollows ==
    ASSUME HandInv, ~Nested, SecondLevel \cap Modifiers = {},
           NEW key \in Keys, NEW pressed \in BOOLEAN, emulated(key, pressed)
    PROVE  HandInv'
<1> DEFINE ev == event("Emulated", key, pressed)
           s == through(Entering(ev), ev)
<1>1. /\ s \in Turn /\ s.hooks.switch_held \subseteq {"F"}
      /\ \A h \in Hooks : s.hooks.match[h].down = fresh \cap Modifiers
  BY TurnFollows DEF HeldAfter
<1>2. hooks' = s.hooks /\ lock' = s.lock /\ UNCHANGED <<hand, fresh, here, layout, xkb>>
  BY DEF emulated, Entering
<1>3. s.hooks \in HookState
  BY <1>1 DEF Turn
<1>4. s.lock \in LockState
  BY <1>1, Zenon DEF Turn
<1> HIDE DEF ev, s
<1>5. here' \in BOOLEAN /\ layout' \in BOOLEAN /\ (~here' => fresh' = {})
  BY <1>2, Zenon DEF HandInv
<1> QED BY <1>1, <1>2, <1>3, <1>4, <1>5 DEF HandInv

LEMMA SeatGoesFollows ==
    ASSUME HandInv, ~Nested, seat_goes
    PROVE  HandInv'
<1>1. \A h \in Hooks : hooks.match[h] \in Matcher
  BY DEF HandInv, HookState
<1>2. \A m \in Matcher : forget_physical_state(m) \in Matcher /\ forget_physical_state(m).down = {}
  BY DEF forget_physical_state, Matcher
<1> DEFINE f == [h \in Hooks |-> forget_physical_state(hooks.match[h])]
<1>3. f \in [Hooks -> Matcher] /\ \A h \in Hooks : f[h].down = {}
  BY <1>1, <1>2
<1>4. /\ hooks' = [match |-> f, switch_held |-> {}]
      /\ fresh' = {} /\ xkb' = {} /\ hand' = hand
  BY DEF seat_goes
<1> HIDE DEF f
<1>5. /\ hooks' \in HookState /\ hooks'.switch_held \subseteq {"F"}
      /\ \A h \in Hooks : hooks'.match[h].down = {}
  BY <1>3, <1>4 DEF HookState
<1>6. here' \in BOOLEAN /\ layout' \in BOOLEAN /\ lock' \in LockState
  BY Zenon DEF HandInv, seat_goes
<1> QED BY <1>4, <1>5, <1>6 DEF HandInv

LEMMA HandSteps ==
    ASSUME ~Nested, SecondLevel \cap Modifiers = {}, HandInv, [Next]_vars
    PROVE  HandInv'
<1>1. ASSUME NEW key \in Keys, NEW rebound \in BOOLEAN, press(key, rebound)
      PROVE  HandInv'
  <2>1. hand' \subseteq Keys /\ fresh' \subseteq hand'
    BY <1>1 DEF press, HandInv
  <2>2. /\ route(event("Physical", key, TRUE), rebound) /\ here
        /\ fresh' = fresh \cup {key} /\ UNCHANGED <<here, layout>>
    BY <1>1 DEF press
  <2> QED BY <2>1, <2>2, RouteFollows
<1>2. ASSUME NEW key \in Keys, NEW rebound \in BOOLEAN, release(key, rebound)
      PROVE  HandInv'
  <2>1. hand' \subseteq Keys /\ fresh' \subseteq hand'
    BY <1>2 DEF release, HandInv
  <2>2. /\ route(event("Physical", key, FALSE), rebound) /\ here
        /\ fresh' = fresh \ {key} /\ UNCHANGED <<here, layout>>
    BY <1>2 DEF release
  <2> QED BY <2>1, <2>2, RouteFollows
<1>3. ASSUME NEW key \in Keys, NEW pressed \in BOOLEAN, emulated(key, pressed)
      PROVE  HandInv'
  BY <1>3, EmulatedFollows
<1>4. ASSUME NEW key \in Keys, unseen(key)
      PROVE  HandInv'
  <2>1. hand' \subseteq Keys /\ fresh' \subseteq hand'
    BY <1>4 DEF unseen, HandInv
  <2> QED BY <1>4, <2>1, Zenon DEF unseen, HandInv
<1>5. CASE seat_goes
  BY <1>5, SeatGoesFollows
<1>6. CASE seat_returns
  <2>1. here' \in BOOLEAN
    BY <1>6 DEF seat_returns
  <2>2. here'
    BY <1>6 DEF seat_returns
  <2> QED BY <1>6, <2>1, <2>2, Zenon DEF seat_returns, HandInv
<1>7. ASSUME NEW what \in {"up", "dark", "prompt"}, screen_changes(what)
      PROVE  HandInv'
  <2>1. \A l \in LockState : [l EXCEPT ![what] = ~l[what]] \in LockState
    BY ZenonT(30) DEF LockState
  <2>2. lock' \in LockState
    BY <1>7, <2>1, Zenon DEF screen_changes, HandInv
  <2> QED BY <1>7, <2>2, Zenon DEF screen_changes, HandInv
<1>8. CASE UNCHANGED vars
  BY <1>8, Zenon DEF vars, HandInv
<1> QED BY <1>1, <1>2, <1>3, <1>4, <1>5, <1>6, <1>7, <1>8 DEF Next

LEMMA HandStart ==
    ASSUME Init, ~Nested
    PROVE  HandInv
<1>1. matcher \in Matcher /\ matcher.down = {}
  BY DEF matcher, Matcher
<1>2. /\ hooks \in HookState /\ hooks.switch_held \subseteq {"F"}
      /\ \A h \in Hooks : hooks.match[h].down = {}
  BY <1>1 DEF Init, HookState
<1>3. lock \in LockState /\ here \in BOOLEAN /\ layout \in BOOLEAN
  BY Zenon DEF Init, LockState
<1>4. hand = {} /\ fresh = {} /\ xkb = {} /\ here
  BY DEF Init
<1> QED BY <1>2, <1>3, <1>4 DEF HandInv

LEMMA HandInvHolds ==
    ASSUME ~Nested, SecondLevel \cap Modifiers = {}
    PROVE  Spec => []HandInv
<1>1. Init => HandInv
  BY HandStart
<1>2. HandInv /\ [Next]_vars => HandInv'
  BY HandSteps
<1> QED BY <1>1, <1>2, PTL DEF Spec

(***************************************************************************)
(* On bare metal, with any keymap that gives the modifier keys no second   *)
(* keysym, every matcher of the stack and the keymap itself believe down   *)
(* exactly the modifiers the human holds and pressed in front of this      *)
(* session, for any number of keys held (ChordMatcher::observe,            *)
(* forget_physical_state, CoreKeymap::resolve).                            *)
(***************************************************************************)
THEOREM MatchersFollowTheHand ==
    ~Nested /\ SecondLevel \cap Modifiers = {} => (Spec => []ChordsFollowTheHand)
<1> SUFFICES ASSUME ~Nested, SecondLevel \cap Modifiers = {}
             PROVE  Spec => []ChordsFollowTheHand
  OBVIOUS
<1>1. HandInv => ChordsFollowTheHand
  BY DEF HandInv, ChordsFollowTheHand, InStack
<1>2. Spec => []HandInv
  BY HandInvHolds
<1> QED BY <1>1, <1>2, PTL

-----------------------------------------------------------------------------
(* What the gates have consumed.  A key whose press was consumed is held   *)
(* by the hook that consumed it, and S is the set of keys that may be.     *)
Kept(k, S) ==
    /\ \A h \in Hooks : k.match[h].consumed \subseteq Triggers(h) \cap S
    /\ layout => k.match["vt"].consumed = {}
    /\ layout /\ "Delete" \in SecondLevel => k.match["lock"].consumed = {}
    /\ k.switch_held \subseteq {"F"} \cap S
    /\ ~layout => k.switch_held = {}

(* The keys of which a hook or the brightness keys may consume one half    *)
(* and miss the other, as the keymap gives it another name under Alt.  Not *)
(* so the function keys and Delete: Alt is part of their chords.           *)
Renamed == SecondLevel \ {"F", "Delete"}

(* A physical event of a key, as the intake builds it.                     *)
Physical(ev, key) ==
    /\ ev \in Event /\ ev.origin = "Physical" /\ ev.key = key /\ key \in Keys
    /\ ev.sym = keysym(key)

LEMMA TriggersAre ==
    /\ Triggers("vt") = {"F"} /\ Triggers("lock") = {"Delete"}
    /\ Triggers("clipboard") = {"Insert"} /\ Triggers("screenshot") = {"Print"}
BY DEF Triggers, bindings

LEMMA OneTrigger ==
    ASSUME NEW h \in Hooks, NEW key \in Triggers(h)
    PROVE  /\ key \in Keys \ Modifiers /\ key # "Brightness"
           /\ \A g \in Hooks \ {h} : key \notin Triggers(g)
           /\ h # "vt" => key # "F"
BY TriggersAre DEF Hooks, Keys, Modifiers

LEMMA KeptPointwise ==
    ASSUME NEW k, NEW l, NEW S, NEW T, Kept(k, S), S \subseteq T,
           l.switch_held = k.switch_held,
           \A h \in Hooks : l.match[h].consumed = k.match[h].consumed
    PROVE  Kept(l, T)
BY DEF Kept, Hooks

(* A press the turn r has met so far.  A hook that has a chord under it    *)
(* knows the modifiers as the keymap does.                                 *)
Pressing(r, ev, S) ==
    /\ r \in Turn
    /\ Kept(r.hooks, IF r.consumed THEN S \cup {ev.key} ELSE S)
    /\ layout /\ ev.sym \notin Modifiers => \A h \in Hooks : r.hooks.match[h].down = xkb

LEMMA MatchedPress ==
    ASSUME NEW r, NEW hook \in Hooks, NEW ev, NEW key, NEW S, Physical(ev, key), ev.pressed,
           Pressing(r, ev, S)
    PROVE  Pressing(matched(r, hook, ev), ev, S)
<1> DEFINE s == matched(r, hook, ev)
           m == r.hooks.match[hook]
<1>1. CASE r.consumed
  BY <1>1 DEF matched
<1>2. CASE ~r.consumed
  <2>1. r \in Turn /\ ev \in Event /\ m \in Matcher /\ ev.key = key /\ ev.sym = keysym(key)
    BY DEF Pressing, Physical, Turn, HookState
  <2>2. s \in Turn /\ s.consumed = consumes(m, hook, ev) /\ SameDown(r, s)
    BY <1>2, <2>1, MatchedEffect, MatchedDown
  <2>3. /\ s.hooks.switch_held = r.hooks.switch_held
        /\ \A h \in Hooks : s.hooks.match[h] =
                IF h = hook THEN gate(m, hook, ev) ELSE r.hooks.match[h]
    BY <1>2, <2>1, MatchedHooks
  <2>4. gate(m, hook, ev).consumed =
            IF ~consumes(m, hook, ev) THEN m.consumed ELSE m.consumed \cup {ev.sym}
    BY <2>1, GateType
  <2>5. Kept(r.hooks, S)
    BY <1>2 DEF Pressing
  <2>6. layout /\ ev.sym \notin Modifiers => \A h \in Hooks : s.hooks.match[h].down = xkb
    BY <2>2 DEF Pressing, SameDown
  <2> HIDE DEF s
  <2>7. CASE ~consumes(m, hook, ev)
    <3>1. \A h \in Hooks : s.hooks.match[h].consumed = r.hooks.match[h].consumed
      BY <2>3, <2>4, <2>7
    <3>2. Kept(s.hooks, S)
      BY <2>3, <2>5, <3>1, KeptPointwise
    <3> QED BY <2>2, <2>6, <2>7, <3>2 DEF Pressing, s
  <2>8. CASE consumes(m, hook, ev)
    <3>1. PICK b \in bindings(hook) : b.sym = ev.sym /\ b.mods = m.down
      BY <2>8 DEF consumes, hit
    <3>2. ev.sym \in Triggers(hook)
      BY <3>1 DEF Triggers
    <3>3. ev.sym = key /\ ev.sym \notin Modifiers
      BY <2>1, <3>2, OneTrigger DEF keysym, Keys
    <3>4. layout => m.down = xkb
      BY <3>3 DEF Pressing
    <3>5. layout => hook # "vt"
      BY <2>1, <3>1, <3>3, <3>4 DEF bindings, keysym
    <3>6. layout /\ "Delete" \in SecondLevel => hook # "lock"
      BY <2>1, <3>1, <3>3, <3>4 DEF bindings, keysym
    <3>7. \A h \in Hooks : s.hooks.match[h].consumed =
                IF h = hook THEN m.consumed \cup {key} ELSE r.hooks.match[h].consumed
      BY <2>3, <2>4, <2>8, <3>3
    <3>8. \A h \in Hooks : s.hooks.match[h].consumed \subseteq Triggers(h) \cap (S \cup {key})
      BY <2>5, <3>2, <3>3, <3>7 DEF Kept
    <3>9. /\ layout => s.hooks.match["vt"].consumed = {}
          /\ layout /\ "Delete" \in SecondLevel => s.hooks.match["lock"].consumed = {}
      BY <2>5, <3>5, <3>6, <3>7 DEF Kept, Hooks
    <3>10. Kept(s.hooks, S \cup {key})
      BY <2>3, <2>5, <3>8, <3>9 DEF Kept
    <3> QED BY <2>1, <2>2, <2>6, <2>8, <3>10 DEF Pressing, s
  <2> QED BY <2>7, <2>8
<1> QED BY <1>1, <1>2

(* A gate that only consumes.                                              *)
LEMMA PressingOn ==
    ASSUME NEW r, NEW s \in Turn, NEW ev, NEW S, Pressing(r, ev, S),
           s.hooks = r.hooks, s.consumed = r.consumed \/ s.consumed
    PROVE  Pressing(s, ev, S)
<1>1. r.consumed => s.consumed
  BY Zenon
<1>2. CASE s.consumed
  <2>1. (IF r.consumed THEN S \cup {ev.key} ELSE S) \subseteq S \cup {ev.key}
    OBVIOUS
  <2>2. Kept(s.hooks, S \cup {ev.key})
    BY <2>1, KeptPointwise DEF Pressing
  <2> QED BY <1>2, <2>2 DEF Pressing
<1>3. CASE ~s.consumed
  BY <1>1, <1>3 DEF Pressing
<1> QED BY <1>2, <1>3

LEMMA VtPress ==
    ASSUME ~Nested, NEW r, NEW ev, NEW key, NEW S, Physical(ev, key), ev.pressed,
           Pressing(r, ev, S), ~r.consumed
    PROVE  Pressing(vt_gate(r, ev), ev, S)
<1> DEFINE s == vt_gate(r, ev)
<1>1. r \in Turn /\ ev \in Event /\ ev.key = key /\ ev.sym = keysym(key) /\ Kept(r.hooks, S)
  BY DEF Pressing, Physical
<1>2. s \in Turn
  BY <1>1, VtEffect
<1>3. r.hooks \in HookState /\ {ev.key} \in SUBSET Keys
  BY <1>1 DEF Turn, Event
<1>4. CASE SwitchPress(ev) /\ s.hooks = [r.hooks EXCEPT !.switch_held = {ev.key}] /\ s.consumed
  <2>1. key = "F" /\ layout
    BY <1>1, <1>4 DEF SwitchPress, keysym, Physical, Keys, Modifiers
  <2>2. s.hooks.match = r.hooks.match /\ s.hooks.switch_held = {ev.key}
    BY <1>3, <1>4, WithHeld
  <2>3. Kept(s.hooks, S \cup {key})
    BY <1>1, <2>1, <2>2 DEF Kept
  <2> QED BY <1>1, <1>2, <1>4, <2>2, <2>3 DEF Pressing
<1>5. CASE SwitchRelease(r, ev)
  BY <1>5 DEF SwitchRelease
<1>6. CASE s = matched(r, "vt", ev)
  BY <1>6, MatchedPress DEF Hooks
<1> QED BY <1>1, <1>4, <1>5, <1>6, VtEffect

LEMMA LockPress ==
    ASSUME NEW r, NEW ev, NEW key, NEW S, Physical(ev, key), ev.pressed, Pressing(r, ev, S)
    PROVE  Pressing(lock_gate(r, ev), ev, S)
<1> DEFINE s == lock_gate(r, ev)
<1>0. /\ r \in Turn /\ ev \in Event /\ ev.origin = "Physical" /\ "lock" \in Hooks
      /\ r.hooks \in HookState /\ r.hooks.match["lock"] \in Matcher
  BY DEF Pressing, Physical, Hooks, Turn, HookState
<1>1. CASE r.consumed
  BY <1>1 DEF lock_gate
<1>2. CASE ~r.consumed
  <2> DEFINE o == observe(r.hooks.match["lock"], ev)
             k == [r.hooks EXCEPT !.match = [r.hooks.match EXCEPT !["lock"] = o]]
  <2>1. PICK seen \in Turn :
            /\ ~seen.consumed /\ seen.hooks = k /\ s \in Turn
            /\ \/ s.hooks = seen.hooks /\ s.consumed
               \/ /\ s.hooks = matched(seen, "lock", ev).hooks
                  /\ s.consumed = matched(seen, "lock", ev).consumed \/ s.consumed
    BY <1>0, <1>2, LockEffect
  <2>2. /\ o \in Matcher /\ o.consumed = r.hooks.match["lock"].consumed
        /\ ev.sym \notin Modifiers => o.down = r.hooks.match["lock"].down
    BY <1>0, ObserveType
  <2> HIDE DEF o
  <2>3. /\ k.switch_held = r.hooks.switch_held
        /\ \A h \in Hooks : k.match[h] = IF h = "lock" THEN o ELSE r.hooks.match[h]
    BY <1>0, <2>2, WithMatch
  <2> HIDE DEF k, s
  <2>4. \A h \in Hooks : k.match[h].consumed = r.hooks.match[h].consumed
    BY <2>2, <2>3
  <2>5. Kept(seen.hooks, S)
    BY <1>2, <2>1, <2>3, <2>4, KeptPointwise DEF Pressing
  <2>6. layout /\ ev.sym \notin Modifiers => \A h \in Hooks : seen.hooks.match[h].down = xkb
    BY <1>0, <2>1, <2>2, <2>3 DEF Pressing
  <2>7. Pressing(seen, ev, S)
    BY <2>1, <2>5, <2>6 DEF Pressing
  <2>8. Pressing(matched(seen, "lock", ev), ev, S)
    BY <1>0, <2>7, MatchedPress
  <2>9. Pressing(s, ev, S)
    BY <2>1, <2>7, <2>8, PressingOn
  <2> QED BY <2>9 DEF s
<1> QED BY <1>1, <1>2

(* A press, through the whole stack: consumed, its key is held by a gate   *)
(* (or was eaten by one that keeps nothing of it); delivered, it is held   *)
(* by none.                                                                *)
LEMMA ThroughPress ==
    ASSUME ~Nested, NEW r, NEW ev, NEW key, NEW S, Physical(ev, key), ev.pressed,
           Pressing(r, ev, S), ~r.consumed
    PROVE  /\ Pressing(through(r, ev), ev, S)
           /\ ~through(r, ev).consumed => key # "Brightness" \/ key \in Renamed
<1> DEFINE a == vt_gate(r, ev)
           b == lock_gate(a, ev)
           c == consent_gate(b, ev)
           d == matched(c, "clipboard", ev)
           e == matched(d, "screenshot", ev)
           f == backlight_gate(e, ev)
<1>0. /\ "clipboard" \in Hooks /\ "screenshot" \in Hooks /\ "lock" \in Hooks
      /\ ev \in Event /\ ev.origin = "Physical"
  BY DEF Hooks, Physical
<1>1. Pressing(a, ev, S)
  BY VtPress
<1>2. f = through(r, ev)
  BY DEF through
<1> HIDE DEF a
<1>3. Pressing(b, ev, S)
  BY <1>1, LockPress
<1> HIDE DEF b
<1>4. Pressing(c, ev, S)
  <2>1. b \in Turn
    BY <1>3 DEF Pressing
  <2>2. c \in Turn /\ c.hooks = b.hooks /\ (c.consumed = b.consumed \/ c.consumed)
    BY <1>0, <2>1, ConsentEffect
  <2> HIDE DEF c
  <2> QED BY <1>3, <2>2, PressingOn
<1> HIDE DEF c
<1>5. Pressing(d, ev, S)
  BY <1>0, <1>4, MatchedPress
<1> HIDE DEF d
<1>6. Pressing(e, ev, S)
  BY <1>0, <1>5, MatchedPress
<1> HIDE DEF e
<1>7. /\ f \in Turn /\ f.hooks = e.hooks /\ (f.consumed = e.consumed \/ f.consumed)
      /\ ev.sym = "Brightness" => f.consumed
  BY <1>0, <1>6, BacklightEffect DEF Pressing
<1> HIDE DEF f
<1>8. Pressing(f, ev, S)
  BY <1>6, <1>7, PressingOn
<1>9. key = "Brightness" /\ key \notin Renamed => ev.sym = "Brightness"
  BY DEF Physical, keysym, Renamed
<1> QED BY <1>2, <1>7, <1>8, <1>9

(* A release the turn r has met so far, past the hooks in passed: once     *)
(* consumed, its press was; before, none of those hooks held its key.      *)
Releasing(r, key, S, passed) ==
    /\ r \in Turn
    /\ IF r.consumed
       THEN Kept(r.hooks, S \ {key}) /\ key \in S
       ELSE /\ Kept(r.hooks, S) /\ key \notin r.hooks.switch_held
            /\ key \notin Renamed => \A h \in passed : key \notin r.hooks.match[h].consumed

(* A trigger that a hook holds is resolved as it was when it was pressed.  *)
LEMMA HeldKeepsItsName ==
    ASSUME NEW k, NEW S, NEW h \in Hooks, NEW key, Kept(k, S), key \in k.match[h].consumed,
           key \notin Renamed
    PROVE  keysym(key) = key
<1>1. key \in Triggers(h)
  BY DEF Kept
<1>2. layout => h # "vt"
  BY DEF Kept
<1>3. layout /\ "Delete" \in SecondLevel => h # "lock"
  BY DEF Kept
<1>4. layout => key # "F"
  BY <1>1, <1>2, OneTrigger
<1>5. layout /\ key = "Delete" => key \notin SecondLevel
  BY <1>1, <1>3, TriggersAre DEF Hooks
<1> QED BY <1>4, <1>5 DEF keysym, Renamed

LEMMA MatchedRelease ==
    ASSUME NEW r, NEW hook \in Hooks, NEW ev, NEW key, NEW S, NEW passed \in SUBSET Hooks,
           Physical(ev, key), ~ev.pressed, Releasing(r, key, S, passed)
    PROVE  Releasing(matched(r, hook, ev), key, S, passed \cup {hook})
<1> DEFINE s == matched(r, hook, ev)
           m == r.hooks.match[hook]
<1>1. CASE r.consumed
  BY <1>1 DEF matched, Releasing
<1>2. CASE ~r.consumed
  <2>1. r \in Turn /\ ev \in Event /\ m \in Matcher /\ ev.key = key /\ ev.sym = keysym(key)
    BY DEF Releasing, Physical, Turn, HookState
  <2>2. s \in Turn /\ s.consumed = consumes(m, hook, ev)
    BY <1>2, <2>1, MatchedEffect
  <2>3. /\ s.hooks.switch_held = r.hooks.switch_held
        /\ \A h \in Hooks : s.hooks.match[h] =
                IF h = hook THEN gate(m, hook, ev) ELSE r.hooks.match[h]
    BY <1>2, <2>1, MatchedHooks
  <2>4. gate(m, hook, ev).consumed =
            IF ~consumes(m, hook, ev) THEN m.consumed ELSE m.consumed \ {ev.sym}
    BY <2>1, GateType
  <2>5. /\ Kept(r.hooks, S) /\ key \notin r.hooks.switch_held
        /\ key \notin Renamed => \A h \in passed : key \notin r.hooks.match[h].consumed
    BY <1>2 DEF Releasing
  <2>6. consumes(m, hook, ev) <=> ev.sym \notin Modifiers /\ ev.sym \in m.consumed
    BY DEF consumes, Physical
  <2>7. key \in m.consumed /\ key \notin Renamed => consumes(m, hook, ev)
    <3> SUFFICES ASSUME key \in m.consumed, key \notin Renamed PROVE consumes(m, hook, ev)
      OBVIOUS
    <3>1. ev.sym = key
      BY <2>1, <2>5, HeldKeepsItsName
    <3>2. key \in Triggers(hook)
      BY <2>5 DEF Kept
    <3> QED BY <2>6, <3>1, <3>2, OneTrigger
  <2> HIDE DEF s
  <2>8. CASE ~consumes(m, hook, ev)
    <3>1. \A h \in Hooks : s.hooks.match[h].consumed = r.hooks.match[h].consumed
      BY <2>3, <2>4, <2>8
    <3>2. Kept(s.hooks, S)
      BY <2>3, <2>5, <3>1, KeptPointwise
    <3>3. key \notin Renamed =>
            \A h \in passed \cup {hook} : key \notin s.hooks.match[h].consumed
      BY <2>5, <2>7, <2>8, <3>1
    <3> QED BY <2>2, <2>3, <2>5, <2>8, <3>2, <3>3 DEF Releasing, s
  <2>9. CASE consumes(m, hook, ev)
    <3>1. ev.sym \in Triggers(hook) /\ ev.sym \in S
      BY <2>5, <2>6, <2>9 DEF Kept
    <3>2. ev.sym = key
      BY <2>1, <3>1, OneTrigger DEF keysym, Keys
    <3>3. \A h \in Hooks : s.hooks.match[h].consumed =
                IF h = hook THEN m.consumed \ {key} ELSE r.hooks.match[h].consumed
      BY <2>3, <2>4, <2>9, <3>2
    <3>4. \A h \in Hooks : s.hooks.match[h].consumed \subseteq Triggers(h) \cap (S \ {key})
      <4> TAKE h \in Hooks
      <4>1. r.hooks.match[h].consumed \subseteq Triggers(h) \cap S
        BY <2>5 DEF Kept
      <4>2. h # hook => key \notin Triggers(h)
        BY <3>1, <3>2, OneTrigger
      <4> QED BY <3>3, <4>1, <4>2
    <3>5. /\ layout => s.hooks.match["vt"].consumed = {}
          /\ layout /\ "Delete" \in SecondLevel => s.hooks.match["lock"].consumed = {}
      BY <2>5, <3>3 DEF Kept, Hooks
    <3>6. Kept(s.hooks, S \ {key})
      BY <2>3, <2>5, <3>4, <3>5 DEF Kept
    <3> QED BY <2>2, <2>9, <3>1, <3>2, <3>6 DEF Releasing, s
  <2> QED BY <2>8, <2>9
<1> QED BY <1>1, <1>2

LEMMA VtRelease ==
    ASSUME ~Nested, NEW r \in Turn, NEW ev, NEW key, NEW S, Physical(ev, key), ~ev.pressed,
           Kept(r.hooks, S), ~r.consumed
    PROVE  Releasing(vt_gate(r, ev), key, S, {"vt"})
<1> DEFINE s == vt_gate(r, ev)
<1>1. ev \in Event /\ ev.key = key /\ ev.origin = "Physical" /\ "vt" \in Hooks
  BY DEF Physical, Hooks
<1>2. s \in Turn
  BY <1>1, VtEffect
<1>3. r.hooks \in HookState
  BY DEF Turn
<1>4. CASE SwitchPress(ev)
  BY <1>4 DEF SwitchPress
<1>5. CASE SwitchRelease(r, ev) /\ s.hooks = [r.hooks EXCEPT !.switch_held = {}] /\ s.consumed
  <2>1. key = "F" /\ key \in S /\ layout
    BY <1>1, <1>5 DEF SwitchRelease, Kept
  <2>2. s.hooks.match = r.hooks.match /\ s.hooks.switch_held = {}
    BY <1>3, <1>5, WithHeld
  <2>3. \A h \in Hooks : r.hooks.match[h].consumed \subseteq Triggers(h) \cap (S \ {key})
    <3> TAKE h \in Hooks
    <3>1. CASE h = "vt"
      BY <2>1, <3>1 DEF Kept
    <3>2. CASE h # "vt"
      <4>1. key \notin Triggers(h)
        BY <2>1, <3>2, OneTrigger
      <4> QED BY <4>1 DEF Kept
    <3> QED BY <3>1, <3>2
  <2>4. Kept(s.hooks, S \ {key})
    BY <2>2, <2>3 DEF Kept
  <2> QED BY <1>2, <1>5, <2>1, <2>4 DEF Releasing
<1>6. CASE ~SwitchRelease(r, ev) /\ s = matched(r, "vt", ev)
  <2>1. Releasing(r, key, S, {})
    BY <1>1, <1>6 DEF Releasing, SwitchRelease
  <2>2. Releasing(matched(r, "vt", ev), key, S, {} \cup {"vt"})
    BY <1>1, <2>1, MatchedRelease
  <2>3. {} \cup {"vt"} = {"vt"}
    OBVIOUS
  <2> QED BY <1>6, <2>2, <2>3
<1> QED BY <1>1, <1>4, <1>5, <1>6, VtEffect

LEMMA LockRelease ==
    ASSUME NEW r, NEW ev, NEW key, NEW S, Physical(ev, key), ~ev.pressed,
           Releasing(r, key, S, {"vt"})
    PROVE  Releasing(lock_gate(r, ev), key, S, {"vt", "lock"})
<1> DEFINE s == lock_gate(r, ev)
<1>0. /\ r \in Turn /\ ev \in Event /\ ev.origin = "Physical" /\ "lock" \in Hooks /\ "vt" \in Hooks
      /\ r.hooks \in HookState /\ r.hooks.match["lock"] \in Matcher
  BY DEF Releasing, Physical, Hooks, Turn, HookState
<1>1. CASE r.consumed
  BY <1>1 DEF lock_gate, Releasing
<1>2. CASE ~r.consumed
  <2> DEFINE o == observe(r.hooks.match["lock"], ev)
             k == [r.hooks EXCEPT !.match = [r.hooks.match EXCEPT !["lock"] = o]]
  <2>1. PICK seen \in Turn :
            /\ ~seen.consumed /\ seen.hooks = k /\ s \in Turn
            /\ s.hooks = matched(seen, "lock", ev).hooks
            /\ s.consumed = matched(seen, "lock", ev).consumed
    BY <1>0, <1>2, LockEffect
  <2>2. o \in Matcher /\ o.consumed = r.hooks.match["lock"].consumed
    BY <1>0, ObserveType
  <2> HIDE DEF o
  <2>3. /\ k.switch_held = r.hooks.switch_held
        /\ \A h \in Hooks : k.match[h] = IF h = "lock" THEN o ELSE r.hooks.match[h]
    BY <1>0, <2>2, WithMatch
  <2> HIDE DEF k, s
  <2>4. \A h \in Hooks : k.match[h].consumed = r.hooks.match[h].consumed
    BY <2>2, <2>3
  <2>5. Kept(seen.hooks, S)
    BY <1>2, <2>1, <2>3, <2>4, KeptPointwise DEF Releasing
  <2>6. Releasing(seen, key, S, {"vt"})
    BY <1>0, <1>2, <2>1, <2>3, <2>4, <2>5 DEF Releasing
  <2>7. Releasing(matched(seen, "lock", ev), key, S, {"vt"} \cup {"lock"})
    BY <1>0, <2>6, MatchedRelease
  <2>8. {"vt"} \cup {"lock"} = {"vt", "lock"}
    OBVIOUS
  <2>9. Releasing(s, key, S, {"vt", "lock"})
    BY <2>1, <2>7, <2>8 DEF Releasing
  <2> QED BY <2>9 DEF s
<1> QED BY <1>1, <1>2

(* A release, through the whole stack: no gate holds its key any more, if  *)
(* it has one name, and it is consumed only where its press was, or for    *)
(* the brightness keys.                                                    *)
LEMMA ThroughRelease ==
    ASSUME ~Nested, NEW r \in Turn, NEW ev, NEW key, NEW S, Physical(ev, key), ~ev.pressed,
           Kept(r.hooks, S), ~r.consumed
    PROVE  /\ Kept(through(r, ev).hooks, S \ ({key} \ Renamed))
           /\ through(r, ev).consumed => key \in S \/ key = "Brightness"
<1> DEFINE a == vt_gate(r, ev)
           b == lock_gate(a, ev)
           c == consent_gate(b, ev)
           d == matched(c, "clipboard", ev)
           e == matched(d, "screenshot", ev)
           f == backlight_gate(e, ev)
<1>0. /\ "clipboard" \in Hooks /\ "screenshot" \in Hooks /\ "lock" \in Hooks
      /\ {"vt", "lock"} \in SUBSET Hooks /\ {"vt", "lock", "clipboard"} \in SUBSET Hooks
      /\ ev \in Event /\ ev.origin = "Physical" /\ ev.sym = keysym(key) /\ key \in Keys
  BY DEF Hooks, Physical
<1>1. Releasing(a, key, S, {"vt"})
  BY VtRelease
<1>2. f = through(r, ev)
  BY DEF through
<1> HIDE DEF a
<1>3. Releasing(b, key, S, {"vt", "lock"})
  BY <1>1, LockRelease
<1> HIDE DEF b
<1>4. Releasing(c, key, S, {"vt", "lock"})
  <2>1. b \in Turn
    BY <1>3 DEF Releasing
  <2>2. c \in Turn /\ c.hooks = b.hooks /\ c.consumed = b.consumed
    BY <1>0, <2>1, ConsentEffect
  <2> HIDE DEF c
  <2> QED BY <1>3, <2>2 DEF Releasing
<1> HIDE DEF c
<1>5. Releasing(d, key, S, {"vt", "lock", "clipboard"})
  <2>1. Releasing(d, key, S, {"vt", "lock"} \cup {"clipboard"})
    BY <1>0, <1>4, MatchedRelease
  <2>2. {"vt", "lock"} \cup {"clipboard"} = {"vt", "lock", "clipboard"}
    OBVIOUS
  <2> QED BY <2>1, <2>2
<1> HIDE DEF d
<1>6. Releasing(e, key, S, Hooks)
  <2>1. Releasing(e, key, S, {"vt", "lock", "clipboard"} \cup {"screenshot"})
    BY <1>0, <1>5, MatchedRelease
  <2>2. {"vt", "lock", "clipboard"} \cup {"screenshot"} = Hooks
    BY DEF Hooks
  <2> QED BY <2>1, <2>2
<1> HIDE DEF e
<1>7. /\ f.hooks = e.hooks
      /\ f.consumed => e.consumed \/ ev.sym = "Brightness"
  BY <1>0, <1>6, BacklightEffect DEF Releasing
<1> HIDE DEF f
<1>8. ev.sym = "Brightness" => key = "Brightness"
  BY <1>0 DEF keysym
<1>9. Kept(e.hooks, S \ ({key} \ Renamed))
  <2>1. CASE e.consumed
    <3>1. Kept(e.hooks, S \ {key}) /\ S \ {key} \subseteq S \ ({key} \ Renamed)
      BY <1>6, <2>1 DEF Releasing
    <3> QED BY <3>1, KeptPointwise
  <2>2. CASE ~e.consumed /\ key \in Renamed
    <3>1. Kept(e.hooks, S) /\ S \ ({key} \ Renamed) = S
      BY <1>6, <2>2 DEF Releasing
    <3> QED BY <3>1
  <2>3. CASE ~e.consumed /\ key \notin Renamed
    BY <1>6, <2>3 DEF Releasing, Kept
  <2> QED BY <2>1, <2>2, <2>3
<1>10. e.consumed => key \in S
  BY <1>6 DEF Releasing
<1> QED BY <1>2, <1>7, <1>8, <1>9, <1>10

-----------------------------------------------------------------------------
(* The second inductive invariant: what the gates hold, the application    *)
(* does not, renamed keys apart.                                           *)
Withheld == (fresh \ app) \cup Renamed

PairInv ==
    /\ HandInv
    /\ Kept(hooks, Withheld)
    /\ table \subseteq app /\ app \ Renamed \subseteq table
    /\ app \ Renamed \subseteq fresh
    /\ "Brightness" \notin app \ Renamed

(* An event on its way into the stack.                                     *)
LEMMA EnteringKeeps ==
    ASSUME PairInv, ~Nested, SecondLevel \cap Modifiers = {}, NEW ev \in Event
    PROVE  /\ Entering(ev) \in Turn /\ ~Entering(ev).consumed
           /\ Kept(Entering(ev).hooks, Withheld)
           /\ layout /\ ev.sym \notin Modifiers =>
                \A h \in Hooks : Entering(ev).hooks.match[h].down = xkb
<1>0. HandInv
  BY DEF PairInv
<1>1. /\ Entering(ev) \in Turn /\ ~Entering(ev).consumed
      /\ Entering(ev).hooks.switch_held = hooks.switch_held
      /\ \A h \in Hooks : Entering(ev).hooks.match[h] =
            IF h = "lock" THEN hooks.match[h] ELSE observe(hooks.match[h], ev)
  BY <1>0, EnteringType
<1>2. \A h \in Hooks : hooks.match[h] \in Matcher
  BY <1>0 DEF HandInv, HookState
<1>3. \A h \in Hooks : observe(hooks.match[h], ev).consumed = hooks.match[h].consumed
  BY <1>2, ObserveType
<1>4. \A h \in Hooks : Entering(ev).hooks.match[h].consumed = hooks.match[h].consumed
  BY <1>1, <1>3
<1>5. Kept(Entering(ev).hooks, Withheld)
  BY <1>1, <1>4, KeptPointwise DEF PairInv
<1>6. ev.sym \notin Modifiers =>
        \A h \in Hooks : observe(hooks.match[h], ev).down = hooks.match[h].down
  BY <1>2, ObserveType
<1>7. layout /\ ev.sym \notin Modifiers =>
        \A h \in Hooks : Entering(ev).hooks.match[h].down = xkb
  BY <1>0, <1>1, <1>6 DEF HandInv
<1> QED BY <1>1, <1>5, <1>7

(* No gate keeps anything of an agent's event.                             *)
LEMMA ThroughEmulated ==
    ASSUME ~Nested, NEW r \in Turn, NEW ev \in Event, NEW S, ev.origin = "Emulated",
           Kept(r.hooks, S), ~r.consumed
    PROVE  Kept(through(r, ev).hooks, S)
<1> DEFINE Passes(t) == t \in Turn /\ Kept(t.hooks, S)
           a == vt_gate(r, ev)
           b == lock_gate(a, ev)
           c == consent_gate(b, ev)
           d == matched(c, "clipboard", ev)
           e == matched(d, "screenshot", ev)
           f == backlight_gate(e, ev)
<1>0. "clipboard" \in Hooks /\ "screenshot" \in Hooks /\ "vt" \in Hooks
  BY DEF Hooks
<1>1. ASSUME NEW t, NEW hook \in Hooks, Passes(t)
      PROVE  Passes(matched(t, hook, ev))
  <2>0. t \in Turn /\ Kept(t.hooks, S) /\ t.hooks.match[hook] \in Matcher
    BY <1>1 DEF Turn, HookState
  <2>1. CASE t.consumed
    BY <1>1, <2>1 DEF matched
  <2>2. CASE ~t.consumed
    <3> DEFINE s == matched(t, hook, ev)
    <3>1. s \in Turn
      BY <2>0, <2>2, MatchedEffect
    <3>2. ~consumes(t.hooks.match[hook], hook, ev)
      BY DEF consumes
    <3>3. gate(t.hooks.match[hook], hook, ev).consumed = t.hooks.match[hook].consumed
      BY <2>0, <3>2, GateType
    <3>4. /\ s.hooks.switch_held = t.hooks.switch_held
          /\ \A h \in Hooks : s.hooks.match[h].consumed = t.hooks.match[h].consumed
      BY <2>0, <2>2, <3>3, MatchedHooks
    <3> HIDE DEF s
    <3>5. Kept(s.hooks, S)
      BY <2>0, <3>4, KeptPointwise
    <3> QED BY <3>1, <3>5 DEF s
  <2> QED BY <2>1, <2>2
<1>2. Passes(a)
  <2>1. a = matched(r, "vt", ev)
    BY VtEffect DEF SwitchPress, SwitchRelease
  <2>2. Passes(r)
    OBVIOUS
  <2> HIDE DEF Passes
  <2> QED BY <1>0, <1>1, <2>1, <2>2
<1>3. f = through(r, ev)
  BY DEF through
<1> HIDE DEF a
<1>4. Passes(b)
  BY <1>2 DEF lock_gate
<1> HIDE DEF b
<1>5. Passes(c)
  BY <1>4, ConsentEffect
<1> HIDE DEF c
<1>6. Passes(d)
  BY <1>0, <1>1, <1>5
<1> HIDE DEF d
<1>7. Passes(e)
  BY <1>0, <1>1, <1>6
<1> HIDE DEF e
<1>8. Kept(f.hooks, S)
  BY <1>7, BacklightEffect
<1> QED BY <1>3, <1>8

LEMMA PressPairs ==
    ASSUME PairInv, HandInv', ~Nested, SecondLevel \cap Modifiers = {}, NEW key \in Keys, NEW rebound \in BOOLEAN,
           press(key, rebound)
    PROVE  PairInv'
<1> DEFINE ev == event("Physical", key, TRUE)
           r == Entering(ev)
           s == through(r, ev)
           held == IF rebound THEN {} ELSE table
           tell == IF rebound THEN app \ table ELSE app
<1>2. Physical(ev, key) /\ ev.pressed
  BY EventType DEF Physical
<1>3. key \notin fresh /\ fresh' = fresh \cup {key} /\ layout' = layout
  BY DEF press, PairInv, HandInv
<1>4. /\ hooks' = s.hooks
      /\ s.consumed => table' = held /\ app' = tell
      /\ ~s.consumed => table' = held \cup {key} /\ app' = tell \cup {key}
  <2>1. route(ev, rebound) /\ ev.key = key
    BY EventType DEF press
  <2>2. /\ hooks' = s.hooks
        /\ s.consumed => table' = held /\ app' = tell
        /\ ~s.consumed => table' = held \cup {ev.key} /\ app' = tell \cup {ev.key}
    BY <1>2, <2>1 DEF route, Entering
  <2> HIDE DEF ev, s
  <2> QED BY <2>1, <2>2
<1> HIDE DEF ev
<1>5. r \in Turn /\ ~r.consumed /\ Pressing(r, ev, Withheld)
  BY <1>2, EnteringKeeps DEF Pressing, Physical
<1> HIDE DEF r
<1>6. Pressing(s, ev, Withheld) /\ (~s.consumed => key # "Brightness" \/ key \in Renamed)
  BY <1>2, <1>5, ThroughPress
<1>7. ev.key = key
  BY <1>2 DEF Physical
<1> HIDE DEF s
<1>8. /\ app \ Renamed \subseteq fresh /\ "Brightness" \notin app \ Renamed
      /\ tell \subseteq app /\ held \subseteq tell /\ tell \ Renamed \subseteq held
  BY DEF PairInv
<1> HIDE DEF held, tell
<1>9. Kept(s.hooks, Withheld')
  <2>1. CASE s.consumed
    <3>1. Kept(s.hooks, Withheld \cup {key})
      BY <1>6, <1>7, <2>1 DEF Pressing
    <3>2. Withheld \cup {key} \subseteq Withheld'
      BY <1>3, <1>4, <1>8, <2>1 DEF Withheld, Renamed
    <3> QED BY <3>1, <3>2, KeptPointwise
  <2>2. CASE ~s.consumed
    <3>1. Kept(s.hooks, Withheld)
      BY <1>6, <2>2 DEF Pressing
    <3>2. Withheld \subseteq Withheld'
      BY <1>3, <1>4, <1>8, <2>2 DEF Withheld, Renamed
    <3> QED BY <3>1, <3>2, KeptPointwise
  <2> QED BY <2>1, <2>2
<1>10. Kept(hooks, Withheld)'
  BY <1>3, <1>4, <1>9 DEF Kept
<1>11. /\ table' \subseteq app' /\ app' \ Renamed \subseteq table'
       /\ app' \ Renamed \subseteq fresh' /\ "Brightness" \notin app' \ Renamed
  BY <1>3, <1>4, <1>6, <1>8
<1> QED BY <1>10, <1>11 DEF PairInv

LEMMA ReleasePairs ==
    ASSUME PairInv, HandInv', ~Nested, SecondLevel \cap Modifiers = {}, NEW key \in Keys, NEW rebound \in BOOLEAN,
           release(key, rebound)
    PROVE  PairInv'
<1> DEFINE ev == event("Physical", key, FALSE)
           r == Entering(ev)
           s == through(r, ev)
           held == IF rebound THEN {} ELSE table
           tell == IF rebound THEN app \ table ELSE app
<1>2. Physical(ev, key) /\ ~ev.pressed
  BY EventType DEF Physical
<1>3. fresh' = fresh \ {key} /\ layout' = layout
  BY DEF release
<1>4. /\ hooks' = s.hooks
      /\ table' = held \ {key}
      /\ app' = IF ~s.consumed /\ key \in held THEN tell \ {key} ELSE tell
  <2>1. route(ev, rebound) /\ ev.key = key
    BY EventType DEF release
  <2>2. /\ hooks' = s.hooks
        /\ table' = held \ {ev.key}
        /\ s.consumed => app' = tell
        /\ ~s.consumed => app' = IF ev.key \in held THEN tell \ {ev.key} ELSE tell
    BY <1>2, <2>1 DEF route, Entering
  <2> HIDE DEF ev, s
  <2> QED BY <2>1, <2>2
<1> HIDE DEF ev
<1>5. r \in Turn /\ ~r.consumed /\ Kept(r.hooks, Withheld)
  BY <1>2, EnteringKeeps DEF Physical
<1> HIDE DEF r
<1>6. /\ Kept(s.hooks, Withheld \ ({key} \ Renamed))
      /\ s.consumed => key \in Withheld \/ key = "Brightness"
  BY <1>2, <1>5, ThroughRelease
<1> HIDE DEF s
<1>7. /\ app \ Renamed \subseteq fresh /\ "Brightness" \notin app \ Renamed
      /\ tell \subseteq app /\ held \subseteq tell /\ tell \ Renamed \subseteq held
  BY DEF PairInv
<1> HIDE DEF held, tell
<1>8. /\ table' \subseteq app' /\ app' \ Renamed \subseteq table'
      /\ app' \ Renamed \subseteq fresh' /\ "Brightness" \notin app' \ Renamed
  BY <1>3, <1>4, <1>6, <1>7 DEF Withheld
<1>9. Withheld \ ({key} \ Renamed) \subseteq Withheld'
  BY <1>3, <1>4, <1>7 DEF Withheld, Renamed
<1>10. Kept(s.hooks, Withheld')
  BY <1>6, <1>9, KeptPointwise
<1>11. Kept(hooks, Withheld)'
  BY <1>3, <1>4, <1>10 DEF Kept
<1> QED BY <1>8, <1>11 DEF PairInv

LEMMA EmulatedPairs ==
    ASSUME PairInv, HandInv', ~Nested, SecondLevel \cap Modifiers = {}, NEW key \in Keys, NEW pressed \in BOOLEAN,
           emulated(key, pressed)
    PROVE  PairInv'
<1> DEFINE ev == event("Emulated", key, pressed)
           r == Entering(ev)
           s == through(r, ev)
<1>2. ev \in Event /\ ev.origin = "Emulated"
  BY EventType
<1>3. hooks' = s.hooks /\ UNCHANGED <<fresh, layout, table, app>>
  BY DEF emulated, Entering
<1> HIDE DEF ev
<1>4. r \in Turn /\ ~r.consumed /\ Kept(r.hooks, Withheld)
  BY <1>2, EnteringKeeps
<1> HIDE DEF r
<1>5. Kept(s.hooks, Withheld)
  BY <1>2, <1>4, ThroughEmulated
<1> HIDE DEF s
<1>6. Kept(hooks, Withheld)'
  BY <1>3, <1>5 DEF Kept, Withheld, Renamed
<1> QED BY <1>3, <1>6 DEF PairInv, Renamed

LEMMA SeatGoesPairs ==
    ASSUME PairInv, HandInv', ~Nested, seat_goes
    PROVE  PairInv'
<1>1. \A h \in Hooks : hooks'.match[h].consumed = {}
  <2>1. \A h \in Hooks : hooks.match[h] \in Matcher
    BY DEF PairInv, HandInv, HookState
  <2>2. \A m \in Matcher : forget_physical_state(m).consumed = {}
    BY DEF forget_physical_state, Matcher
  <2>3. \A h \in Hooks : hooks'.match[h] = forget_physical_state(hooks.match[h])
    BY DEF seat_goes
  <2> QED BY <2>1, <2>2, <2>3
<1>2. hooks'.switch_held = {}
  BY DEF seat_goes
<1>3. table' = {} /\ app' \ Renamed = {} /\ fresh' = {}
  BY DEF seat_goes, PairInv
<1>4. Kept(hooks, Withheld)'
  BY <1>1, <1>2 DEF Kept, Hooks
<1> QED BY <1>3, <1>4 DEF PairInv, Renamed

LEMMA PairSteps ==
    ASSUME ~Nested, SecondLevel \cap Modifiers = {}, PairInv, [Next]_vars
    PROVE  PairInv'
<1>0. HandInv'
  BY HandSteps DEF PairInv
<1>1. ASSUME NEW key \in Keys, NEW rebound \in BOOLEAN, press(key, rebound)
      PROVE  PairInv'
  BY <1>0, <1>1, PressPairs
<1>2. ASSUME NEW key \in Keys, NEW rebound \in BOOLEAN, release(key, rebound)
      PROVE  PairInv'
  BY <1>0, <1>2, ReleasePairs
<1>3. ASSUME NEW key \in Keys, NEW pressed \in BOOLEAN, emulated(key, pressed)
      PROVE  PairInv'
  BY <1>0, <1>3, EmulatedPairs
<1>4. CASE seat_goes
  BY <1>0, <1>4, SeatGoesPairs
<1>5. ASSUME UNCHANGED <<hooks, fresh, layout, table, app>>
      PROVE  PairInv'
  <2>1. Kept(hooks, Withheld)'
    BY <1>5, Zenon DEF PairInv, Kept, Withheld, Renamed
  <2> QED BY <1>0, <1>5, <2>1 DEF PairInv, Renamed
<1>6. (\E key \in Keys : unseen(key)) => UNCHANGED <<hooks, fresh, layout, table, app>>
  BY DEF unseen
<1>7. seat_returns => UNCHANGED <<hooks, fresh, layout, table, app>>
  BY DEF seat_returns
<1>8. (\E what \in {"up", "dark", "prompt"} : screen_changes(what))
        => UNCHANGED <<hooks, fresh, layout, table, app>>
  BY DEF screen_changes
<1>9. UNCHANGED vars => UNCHANGED <<hooks, fresh, layout, table, app>>
  BY DEF vars
<1> QED BY <1>1, <1>2, <1>3, <1>4, <1>5, <1>6, <1>7, <1>8, <1>9 DEF Next

LEMMA PairStart ==
    ASSUME Init, ~Nested
    PROVE  PairInv
<1>1. HandInv
  BY HandStart
<1>2. /\ \A h \in Hooks : hooks.match[h].consumed = {}
      /\ hooks.switch_held = {}
  BY DEF Init, matcher
<1>3. Kept(hooks, Withheld)
  BY <1>2 DEF Kept, Hooks
<1>4. table = {} /\ app = {} /\ fresh = {}
  BY DEF Init
<1> QED BY <1>1, <1>3, <1>4 DEF PairInv

LEMMA PairInvHolds ==
    ASSUME ~Nested, SecondLevel \cap Modifiers = {}
    PROVE  Spec => []PairInv
<1>1. Init => PairInv
  BY PairStart
<1>2. PairInv /\ [Next]_vars => PairInv'
  BY PairSteps
<1> QED BY <1>1, <1>2, PTL DEF Spec

(***************************************************************************)
(* On bare metal, whatever the keymap renames under Alt, the only keys     *)
(* that can stay down in the application after the human let go of them    *)
(* are those whose two halves may have two names, such as Print, which is  *)
(* Sys_Req under Alt: ChordMatcher records what it consumed by keysym.     *)
(***************************************************************************)
THEOREM OnlyRenamedKeysAreStranded ==
    ~Nested /\ SecondLevel \cap Modifiers = {} => (Spec => [](app \ Renamed \subseteq fresh))
<1> SUFFICES ASSUME ~Nested, SecondLevel \cap Modifiers = {}
             PROVE  Spec => [](app \ Renamed \subseteq fresh)
  OBVIOUS
<1>1. PairInv => app \ Renamed \subseteq fresh
  BY DEF PairInv
<1>2. Spec => []PairInv
  BY PairInvHolds
<1> QED BY <1>1, <1>2, PTL

(***************************************************************************)
(* On bare metal, with any keymap that gives a second keysym under Alt to  *)
(* no key but the function keys and Delete, no key stays down in the       *)
(* application after the human let go of it: whatever hook consumed the    *)
(* press, that hook and no other consumes the release, across locks,       *)
(* prompts, realm switches and taken seats (the pairing contract of        *)
(* PreemptionHook, InputRouter::route_into).                               *)
(***************************************************************************)
THEOREM NoKeyIsStranded ==
    ~Nested /\ SecondLevel \subseteq {"F", "Delete"} => (Spec => []NoStrandedKey)
<1> SUFFICES ASSUME ~Nested, SecondLevel \subseteq {"F", "Delete"}
             PROVE  Spec => []NoStrandedKey
  OBVIOUS
<1>1. SecondLevel \cap Modifiers = {} /\ Renamed = {}
  BY DEF Renamed, Modifiers
<1>2. PairInv => NoStrandedKey
  BY <1>1 DEF PairInv, NoStrandedKey
<1>3. Spec => []PairInv
  BY <1>1, PairInvHolds
<1> QED BY <1>2, <1>3, PTL
=============================================================================
