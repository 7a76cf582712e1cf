--------------------------- MODULE TrustedScreen ---------------------------
(***************************************************************************)
(* The human's side of the trusted path on bare metal: the card a human    *)
(* answers (consent/grab.rs), the lock screen (lock/gate.rs), the idle     *)
(* blank (backend/blank.rs) and the rounds of the event loop that raise,   *)
(* lower and uncover the card (session.rs, backend/drm.rs).                *)
(*                                                                         *)
(* A card asks for consent to a petition, or is a file picker for a        *)
(* designation.  It is answered by a press and a release of one button on  *)
(* one of its choices, or by the picker's keys, and nothing it collects    *)
(* counts until it has been up for Guard.  The lock cover, the blank and a *)
(* switch to another VT hide a card that stays up, so the guard has to     *)
(* start again whenever the card comes back into view.                     *)
(*                                                                         *)
(* One callback of the loop is one step: an input event, a vblank, a seat  *)
(* event, a timer, or the whole post-dispatch round.  Any number of        *)
(* callbacks may run before the round.                                     *)
(***************************************************************************)
EXTENDS Naturals, FiniteSets, Sequences

CONSTANTS
    Buttons,            \* pointer buttons
    CardChoices,        \* the choices a consent card offers
    Guard,              \* GUARD_INTERVAL
    ConsentTimeout,     \* PetitionConfig::consent_timeout
    PickerDeadline,     \* the life of a designation
    LockAfter,          \* --lock-idle
    BlankAfter,         \* --blank-idle
    WakeDeadline,       \* WAKE_DEADLINE
    SeatChange,         \* SeatChangePolicy: "Immediate", "Idle" or "Never"
    MaxPetitions,       \* bound: petitions in a behaviour
    MaxDesignations,    \* bound: designations in a behaviour
    MaxInputs,          \* bound: input and seat events in a behaviour
    MaxTime             \* bound: the last instant

ASSUME ScreenAssumption ==
    /\ {Guard, ConsentTimeout, PickerDeadline, LockAfter, BlankAfter, WakeDeadline} \subseteq Nat
    /\ SeatChange \in {"Immediate", "Idle", "Never"}
    /\ {MaxPetitions, MaxDesignations, MaxInputs, MaxTime} \subseteq Nat

VARIABLES
    now,        \* the clock
    grab,       \* ConsentGrab
    lock,       \* LockScreen
    screen,     \* SessionActivity, BlankSurface and the DRM output's flags
    claims,     \* the pending petitions, the open designations, the picker session
    seat,       \* the buttons the human holds, those the application holds
    history     \* since when the card is in view, and what was answered

vars == <<now, grab, lock, screen, claims, seat, history>>

Init ==
    /\ now = 0
    /\ grab = [prompt |-> {}, under |-> "outside", armed |-> {}, decisions |-> {}, steps |-> {}]
    /\ lock = [locked |-> FALSE, journal |-> <<>>, carry |-> 0]
    /\ screen = [phase |-> "Lit", last |-> 0, seat_absent |-> FALSE, cover_queued |-> FALSE,
                 waking_since |-> {}, covering |-> FALSE, active |-> TRUE, flip_pending |-> FALSE]
    /\ claims = [petitions |-> [p \in {} |-> 0], designations |-> [d \in {} |-> 0],
                 picker |-> {}, asked |-> 0, designated |-> 0]
    /\ seat = [held |-> {}, app |-> {}]
    /\ history = [shown |-> {}, late |-> FALSE, answers |-> <<>>, inputs |-> 0, touched |-> 0]

-----------------------------------------------------------------------------
(* The steps compute on the whole state as one record.                     *)
world == [grab |-> grab, lock |-> lock, screen |-> screen, claims |-> claims,
          seat |-> seat, history |-> history]

raised(w) == {p.subject : p \in w.grab.prompt}

(* The card is in view: nothing covers it and the panel is this session's. *)
in_view(w) ==
    /\ w.grab.prompt # {}
    /\ ~w.lock.locked
    /\ w.screen.active
    /\ w.screen.phase = "Lit"

becomes(w) ==
    /\ grab' = w.grab
    /\ lock' = w.lock
    /\ screen' = w.screen
    /\ claims' = w.claims
    /\ seat' = w.seat
    /\ history' = [w.history EXCEPT !.shown =
          IF ~in_view(w) THEN {}
          ELSE IF in_view(world) /\ raised(w) = raised(world) THEN history.shown ELSE {now}]

without(f, gone) == [x \in DOMAIN f \ gone |-> f[x]]

added(f, id, deadline) == [x \in DOMAIN f \cup {id} |-> IF x = id THEN deadline ELSE f[x]]

\* A transition is among those the lock has journalled since the last round.
tells(journal, what) == \E i \in 1 .. Len(journal) : journal[i] = what

-----------------------------------------------------------------------------
(* The grab: ConsentGrab::raise, raise_picker, lower, lower_picker,        *)
(* restart_guard.  Cards are centred, so what the pointer would be on is a *)
(* fact about the pointer alone, and a card can come up under it.  The     *)
(* queues of decisions and picker steps are sets: a round drains each      *)
(* whole, whatever its order.                                              *)

raise(w, subject, deadline) ==
    [w EXCEPT !.grab.prompt = {[subject |-> subject, raised_at |-> now,
                                deadline |-> deadline, answered |-> FALSE]},
              !.grab.armed = {}, !.history.late = FALSE]

lower(w) ==
    [w EXCEPT !.grab.prompt = {}, !.grab.armed = {},
              !.grab.decisions = {d \in @ : d.subject \notin raised(w)},
              !.grab.steps = {s \in @ : s.subject \notin raised(w)}]

restart_guard_stamp(w) ==
    [w EXCEPT !.grab.prompt = {[p EXCEPT !.raised_at = now] : p \in @},
              !.history.late = FALSE]

restart_guard(w) ==
    [w EXCEPT !.grab.prompt = {[p EXCEPT !.raised_at = now] : p \in @},
              !.grab.armed = {}, !.history.late = FALSE]

(* ConsentGrab::hit_test: an answered card and a picker have no choices.   *)
hit_test(w) ==
    {c \in CardChoices : c = w.grab.under
                     /\ \E p \in w.grab.prompt : ~p.answered /\ p.subject[1] = "Petition"}

(* How an answer stood to the card's last appearance: its press came Guard *)
(* or more after it, or it did not ("hasty").  Two cases are set apart: a  *)
(* wake that outran WAKE_DEADLINE ("late"), and events that follow an      *)
(* unlock in the same turn, before the round has seen it ("turn").         *)
grade(w, pressed_at) ==
    IF \E s \in w.history.shown : pressed_at >= s + Guard THEN "deliberate"
    ELSE IF w.history.late THEN "late"
    ELSE IF tells(w.lock.journal, "Unlocked") THEN "turn"
    ELSE "hasty"

(* ConsentGrab::commit: the release of the armed button over the armed     *)
(* choice.  An answer given out of view keeps the grade of its press.      *)
committed(w, button) ==
    {a \in w.grab.armed : a.button = button /\ a.choice \in hit_test(w)}

answer(w, a) ==
    LET subject == CHOOSE s \in raised(w) : TRUE
        care    == IF in_view(w) THEN grade(w, a.at) ELSE a.care
    IN  [w EXCEPT !.grab.decisions = @ \cup {[subject |-> subject, choice |-> a.choice]},
                  !.grab.armed = {},
                  !.history.answers = Append(@, [subject |-> subject, care |-> care,
                                                 locked |-> w.lock.locked])]

commit(w, button) ==
    IF committed(w, button) = {} THEN [w EXCEPT !.grab.armed = {}]
    ELSE [answer(w, CHOOSE a \in committed(w, button) : TRUE)
             EXCEPT !.grab.prompt = {[p EXCEPT !.answered = TRUE] : p \in @}]

-----------------------------------------------------------------------------
(* One physical event through the gates, outermost first: LockScreen::judge*)
(* and ConsentGrab::judge_parts, then the router's seat.  Each returns the *)
(* state it leaves and whether the event goes on.                          *)

Event == [kind : {"press", "release"}, button : Buttons]
         \cup [kind : {"motion"}, under : CardChoices \cup {"outside"}]
         \cup [kind : {"key"}, key : {"Return", "other"}]
         \cup [kind : {"chord"}]

passes(w) == [world |-> w, delivered |-> TRUE]
consumes(w) == [world |-> w, delivered |-> FALSE]

guarded(p) == now - p.raised_at < Guard

(* Inside the guard a press arms nothing and disarms what was armed.       *)
press_on_card(w, p, button) ==
    [w EXCEPT !.grab.armed =
        IF guarded(p) THEN {}
        ELSE {[button |-> button, choice |-> c, at |-> now, care |-> grade(w, now)] :
                  c \in hit_test(w)}]

key_on_card(w, p) ==
    IF p.subject[1] = "Designation" /\ ~guarded(p)
    THEN [w EXCEPT !.grab.steps = @ \cup {[subject |-> p.subject, care |-> grade(w, now)]}]
    ELSE w

pointed(w, e) == IF e.kind = "motion" THEN [w EXCEPT !.grab.under = e.under] ELSE w

judge_parts_grabbing(w, e) ==
    IF w.grab.prompt = {} THEN passes(pointed(w, e))
    ELSE LET p == CHOOSE q \in w.grab.prompt : TRUE IN
         IF now >= p.deadline THEN passes([pointed(w, e) EXCEPT !.grab.armed = {}])
         ELSE CASE e.kind = "press"   -> consumes(press_on_card(w, p, e.button))
                [] e.kind = "release" -> consumes(commit(w, e.button))
                [] e.kind = "motion"  -> consumes(pointed(w, e))
                [] OTHER              -> consumes(key_on_card(w, p))

judge_parts(w, e) ==
    IF w.grab.prompt = {} THEN passes(pointed(w, e))
    ELSE LET p == CHOOSE q \in w.grab.prompt : TRUE IN
         IF now >= p.deadline THEN passes([pointed(w, e) EXCEPT !.grab.armed = {}])
         ELSE CASE e.kind = "press"   -> consumes(press_on_card(w, p, e.button))
                [] e.kind = "release" -> passes(commit(w, e.button))
                [] e.kind = "motion"  -> consumes(pointed(w, e))
                [] OTHER              -> consumes(key_on_card(w, p))

(* SessionActivity::note_physical, with the lock's carry cleared beside    *)
(* it: an event that finds the screen dark starts a wake, and it and those *)
(* that follow are swallowed until the wake ends or is overdue.            *)
overdue(s) == s.phase = "Waking" /\ \E t \in s.waking_since : now - t >= WakeDeadline

noted(w) ==
    LET s    == w.screen
        woke == IF s.phase \in {"Covering", "Dark"}
                THEN [s EXCEPT !.phase = "Waking", !.cover_queued = FALSE,
                               !.waking_since = {now}, !.last = now]
                ELSE [s EXCEPT !.last = now]
    IN  [w EXCEPT !.screen = woke, !.lock.carry = 0,
                  !.history.late = @ \/ (overdue(s) /\ w.grab.prompt # {}),
                  !.history.touched = now]

swallowed(s) == s.phase # "Lit" /\ ~overdue(s)

(* LockScreen::raise and submit; the verifier's answer is an input.        *)
lock_raise(w) ==
    IF w.lock.locked THEN w
    ELSE [w EXCEPT !.lock.locked = TRUE, !.lock.journal = Append(@, "Locked")]

submit(w, accepted) ==
    IF accepted
    THEN [w EXCEPT !.lock.locked = FALSE, !.lock.journal = Append(@, "Unlocked")]
    ELSE w

lock_judge(w, e, accepted) ==
    LET seen == noted(w)
    IN  IF swallowed(w.screen) /\ e.kind # "release" THEN consumes(seen)
        ELSE IF e.kind = "chord" THEN consumes(lock_raise(seen))
        ELSE IF ~w.lock.locked \/ e.kind = "release" THEN passes(seen)
        ELSE IF e = [kind |-> "key", key |-> "Return"] THEN consumes(submit(seen, accepted))
        ELSE consumes(seen)

(* The buttons the bound application has been sent a press of.             *)
routed(w, e) ==
    CASE e.kind = "press"   -> [w EXCEPT !.seat.app = @ \cup {e.button}]
      [] e.kind = "release" -> [w EXCEPT !.seat.app = @ \ {e.button}]
      [] OTHER              -> w

gated(w, e, accepted) ==
    LET outer == lock_judge(w, e, accepted)
        inner == IF outer.delivered THEN judge_parts(outer.world, e) ELSE outer
    IN  IF inner.delivered THEN routed(inner.world, e) ELSE inner.world

moved(w, e) ==
    CASE e.kind = "press"   -> [w EXCEPT !.seat.held = @ \cup {e.button}]
      [] e.kind = "release" -> [w EXCEPT !.seat.held = @ \ {e.button}]
      [] OTHER              -> w

(* The human and the seat stop early enough for every deadline they start  *)
(* to fall within MaxTime.                                                 *)
busy(w) == [w EXCEPT !.history.inputs = @ + 1]

stirs(after) == history.inputs < MaxInputs /\ now + after <= MaxTime

route_physical_inputs(e, accepted) ==
    /\ screen.active
    /\ stirs(WakeDeadline) /\ stirs(LockAfter)
    /\ e.kind = "press" => e.button \notin seat.held
    /\ e.kind = "release" => e.button \in seat.held
    /\ becomes(busy(gated(moved(world, e), e, accepted)))
    /\ UNCHANGED now

-----------------------------------------------------------------------------
(* The post-dispatch round: service_consent_round, service_picker_round,   *)
(* service_lock_round and service_screen, in that order.                   *)

front(claim) == {x \in DOMAIN claim : \A y \in DOMAIN claim : x <= y}

(* DrmState::prompt_visibility reads the cover, not the power state.       *)
reachable_lit(w) == w.screen.active /\ w.screen.phase # "Dark"

reachable(w) == w.screen.active /\ ~w.screen.covering

retire_stale(w) ==
    IF \E p \in w.grab.prompt : p.subject[1] = "Petition"
                                /\ p.subject[2] \notin DOMAIN w.claims.petitions
    THEN lower(w) ELSE w

(* Every decision of the queue resolves its petition if that still waits.  *)
decided(w) ==
    [w EXCEPT !.claims.petitions =
                  without(@, {d.subject[2] : d \in w.grab.decisions}),
              !.grab.decisions = {}]

consent_round_once(w) ==
    LET settled == decided(retire_stale(w))
        waiting == settled.claims.petitions
    IN  IF reachable(w) /\ settled.grab.prompt = {} /\ front(waiting) # {}
        THEN LET p == CHOOSE x \in front(waiting) : TRUE
             IN  raise(settled, <<"Petition", p>>, waiting[p])
        ELSE settled

consent_round(w) ==
    LET settled == retire_stale(decided(retire_stale(w)))
        waiting == settled.claims.petitions
    IN  IF reachable(w) /\ settled.grab.prompt = {} /\ front(waiting) # {}
        THEN LET p == CHOOSE x \in front(waiting) : TRUE
             IN  raise(settled, <<"Petition", p>>, waiting[p])
        ELSE settled

designated(w) == {s[2] : s \in {x \in raised(w) : x[1] = "Designation"}}

settle(w, ids) ==
    [w EXCEPT !.claims.designations = without(@, ids), !.claims.picker = @ \ ids]

(* lower_picker, which forgets the session of the picker too.              *)
lower_picker(w) == [lower(w) EXCEPT !.claims.picker = {}]

picker_lowered(w) ==
    LET ids == designated(w)
    IN  IF ids \ DOMAIN w.claims.designations # {} THEN lower_picker(w)
        ELSE IF ~reachable(w) /\ ids # {} THEN settle(lower_picker(w), ids)
        ELSE [w EXCEPT !.claims.picker = @ \cap ids]

(* The steps a human typed: those of the raised picker may end it, the     *)
(* others are dropped.  `ends' is what the listing makes of a step.        *)
picker_stepped(w, ends) ==
    LET named == {s.subject[2] : s \in w.grab.steps} \cap w.claims.picker
    IN  IF ends /\ named # {} THEN settle(lower_picker(w), named)
        ELSE [w EXCEPT !.grab.steps = {}]

(* raise_picker_for: the picker's root may fail to list.                   *)
picker_raised(w, opens) ==
    IF ~reachable(w) \/ w.grab.prompt # {} \/ front(w.claims.designations) = {} THEN w
    ELSE LET d == CHOOSE x \in front(w.claims.designations) : TRUE
         IN  IF opens
             THEN [raise(w, <<"Designation", d>>, w.claims.designations[d])
                      EXCEPT !.claims.picker = {d}]
             ELSE settle(w, {d})

picker_round(w, ends, opens) == picker_raised(picker_stepped(picker_lowered(w), ends), opens)

picker_holds_the_screen_awake_until_settled(w) ==
    designated(w) \cap DOMAIN w.claims.designations # {}

picker_holds_the_screen_awake(w) ==
    \E d \in designated(w) \cap DOMAIN w.claims.designations : now < w.claims.designations[d]

(* LockScreen::tick.                                                       *)
lock_tick_uncarried(w) ==
    IF \/ w.lock.locked \/ picker_holds_the_screen_awake(w) \/ w.screen.seat_absent
       \/ now - w.screen.last < LockAfter
    THEN w ELSE lock_raise(w)

lock_tick(w) ==
    IF \/ w.lock.locked \/ picker_holds_the_screen_awake(w) \/ w.screen.seat_absent
       \/ now - w.screen.last + w.lock.carry < LockAfter
    THEN w ELSE lock_raise(w)

(* Each lock ends every designation, each unlock restarts the guard.       *)
journaled(w) ==
    LET ended    == IF tells(w.lock.journal, "Locked")
                    THEN [w EXCEPT !.claims.designations = without(@, DOMAIN @),
                                   !.claims.picker = {}]
                    ELSE w
        restored == IF tells(w.lock.journal, "Unlocked")
                    THEN restart_guard(ended) ELSE ended
    IN  [restored EXCEPT !.lock.journal = <<>>]

lock_round(w) == journaled(lock_tick(w))

(* service_blank_round: the idle countdown, a wake given up on, the cover. *)
blanked(w, inhibited) ==
    IF \/ w.screen.phase # "Lit" \/ w.screen.seat_absent
       \/ inhibited \/ picker_holds_the_screen_awake(w)
       \/ now - w.screen.last < BlankAfter
    THEN w
    ELSE [w EXCEPT !.screen.phase = "Covering", !.screen.cover_queued = FALSE]

force_lit(w) ==
    [w EXCEPT !.screen.phase = "Lit", !.screen.cover_queued = FALSE, !.screen.waking_since = {}]

given_up_never(w) == w

given_up(w) ==
    IF overdue(w.screen)
    THEN [force_lit(w) EXCEPT !.history.late = @ \/ w.grab.prompt # {}]
    ELSE w

covered(w) == [w EXCEPT !.screen.covering = w.screen.phase \in {"Covering", "Dark"}]

(* service_screen: a suspend that just ended restarts the guard as well.   *)
screen_round(w, resumed, inhibited) ==
    covered(given_up(blanked(IF resumed THEN restart_guard(w) ELSE w, inhibited)))

(* What a round meets: steps that end a picker, a picker root that lists,  *)
(* a suspend, an application that inhibits the blank.                      *)
Ends      == IF grab.steps = {} THEN {FALSE} ELSE BOOLEAN
Opens     == IF claims.designations = <<>> THEN {TRUE} ELSE BOOLEAN
Resumed   == IF grab.prompt = {} THEN {FALSE} ELSE BOOLEAN
Inhibited == BOOLEAN

post_dispatch ==
    \E asked \in {consent_round(world)} :
    \E picked \in {picker_round(asked, ends, opens) : ends \in Ends, opens \in Opens} :
    \E barred \in {lock_round(picked)} :
    \E done \in {screen_round(barred, resumed, inhibited) :
                    resumed \in Resumed, inhibited \in Inhibited} :
        becomes(done) /\ UNCHANGED now

-----------------------------------------------------------------------------
(* Frames and the seat (backend/drm.rs).                                   *)

(* DrmView::service_present, when a frame is wanted and can be queued.     *)
queueable(s) == ~s.flip_pending /\ s.active /\ s.phase # "Dark"

queued(w) ==
    [w EXCEPT !.screen.flip_pending = TRUE,
              !.screen.cover_queued = @ \/ w.screen.phase = "Covering"]

service_present ==
    /\ queueable(screen)
    /\ becomes(queued(world))
    /\ UNCHANGED now

(* service_screen_power: the flip of the cover powers the panel down, the  *)
(* first flip of a wake ends it.                                           *)
service_screen_power(w) ==
    IF w.screen.phase = "Covering" /\ w.screen.cover_queued
    THEN [w EXCEPT !.screen.phase = "Dark"]
    ELSE IF w.screen.phase = "Waking" THEN restart_guard(force_lit(w))
    ELSE w

on_vblank(wanted) ==
    LET done == service_screen_power([world EXCEPT !.screen.flip_pending = FALSE])
    IN  /\ screen.flip_pending
        /\ becomes(IF wanted /\ queueable(done.screen) THEN queued(done) ELSE done)
        /\ UNCHANGED now

(* LockScreen::set_seat_absent and SessionActivity::set_seat_absent.       *)
seat_leaves(w) ==
    [force_lit(IF SeatChange = "Immediate" THEN lock_raise(w) ELSE w)
        EXCEPT !.screen.seat_absent = TRUE]

seat_returns(w) ==
    [w EXCEPT !.lock.carry = IF SeatChange = "Idle" THEN @ + (now - w.screen.last) ELSE @,
              !.screen.last = now, !.screen.seat_absent = FALSE]

(* The PauseSession arm; suspend_physical_seat pays out what the           *)
(* application still holds.  No release reaches a paused session.          *)
pause_session ==
    /\ screen.active
    /\ stirs(0)
    /\ becomes(busy([seat_leaves(world) EXCEPT !.screen.active = FALSE,
                                               !.seat = [held |-> {}, app |-> {}]]))
    /\ UNCHANGED now

(* The ActivateSession arm, with resume_physical_seat.                     *)
activate_session ==
    /\ ~screen.active
    /\ now + LockAfter <= MaxTime
    /\ becomes(restart_guard([seat_returns(world) EXCEPT !.screen.active = TRUE,
                                                         !.screen.flip_pending = FALSE]))
    /\ UNCHANGED now

-----------------------------------------------------------------------------
(* Claims on the human's attention come and go.                            *)

petition ==
    LET id == claims.asked + 1
    IN  /\ id <= MaxPetitions
        /\ becomes([world EXCEPT !.claims.asked = id,
                                 !.claims.petitions = added(@, id, now + ConsentTimeout)])
        /\ UNCHANGED now

designate ==
    LET id == claims.designated + 1
    IN  /\ id <= MaxDesignations
        /\ now + PickerDeadline <= MaxTime
        /\ becomes([world EXCEPT !.claims.designated = id,
                                 !.claims.designations = added(@, id, now + PickerDeadline)])
        /\ UNCHANGED now

(* The expiry sweep; a connection or a realm that goes away ends some.     *)
due(claim) == {x \in DOMAIN claim : now >= claim[x]}

sweep_at ==
    /\ becomes([world EXCEPT !.claims.petitions = without(@, due(@)),
                             !.claims.designations = without(@, due(@))])
    /\ UNCHANGED now

withdraw ==
    \/ \E p \in DOMAIN claims.petitions :
           becomes([world EXCEPT !.claims.petitions = without(@, {p})]) /\ UNCHANGED now
    \/ \E d \in DOMAIN claims.designations :
           becomes([world EXCEPT !.claims.designations = without(@, {d})]) /\ UNCHANGED now

time_passes ==
    /\ now < MaxTime
    /\ now' = now + 1
    /\ UNCHANGED <<grab, lock, screen, claims, seat, history>>

Next ==
    \/ \E e \in Event, accepted \in BOOLEAN : route_physical_inputs(e, accepted)
    \/ post_dispatch
    \/ service_present
    \/ \E wanted \in BOOLEAN : on_vblank(wanted)
    \/ pause_session
    \/ activate_session
    \/ petition
    \/ designate
    \/ sweep_at
    \/ withdraw
    \/ time_passes

Spec == Init /\ [][Next]_vars

(* The loop keeps turning and time passes.  No frame is promised to be     *)
(* shown, no timer but the loop's own to fire, no human to act.            *)
FairSpec == Spec /\ WF_vars(post_dispatch) /\ WF_vars(time_passes)

-----------------------------------------------------------------------------
(* No card is answered by reflex: the press of every answer, and every key *)
(* a picker acts on, came Guard or more after the card last came into view,*)
(* through locks, blanks, suspends and VT switches.  Excused are wakes     *)
(* that outran WAKE_DEADLINE and events of the very turn of an unlock.     *)
(* And one card collects one decision, whatever buttons are pressed,       *)
(* released and pressed again before the round that takes it down.         *)
DeliberateAnswers ==
    /\ \A i \in DOMAIN history.answers : history.answers[i].care # "hasty"
    /\ \A s \in grab.steps : s.care # "hasty"
    /\ \A i, j \in DOMAIN history.answers :
           history.answers[i].subject = history.answers[j].subject => i = j

(* No application is left believing in a button the human has let go: the  *)
(* gates swallow presses, never the release of one they let through.       *)
NoLatchedButton == seat.app \subseteq seat.held

(* A round takes down every card whose petition or designation is over, so *)
(* that the human's input is not held for nothing.  A lock ends the        *)
(* designations after the picker round has run, and leaves theirs for the  *)
(* next one.                                                               *)
NoOrphanCard ==
    \A ends, opens \in BOOLEAN :
        LET ticked == lock_tick(picker_round(consent_round(world), ends, opens))
            w      == journaled(ticked)
        IN  \A s \in raised(w) :
                \/ s[2] \in DOMAIN (IF s[1] = "Petition" THEN w.claims.petitions
                                    ELSE w.claims.designations)
                \/ s[1] = "Designation" /\ tells(ticked.lock.journal, "Locked")

(* Under the Idle policy a VT switch buys no time: a human who has touched *)
(* nothing for LockAfter, here or away, finds the session locked by the    *)
(* first round after they are back, unless a picker is up.                 *)
IdleIsCarried ==
    (/\ SeatChange = "Idle"
     /\ screen.active
     /\ now - history.touched >= LockAfter
     /\ designated(world) = {}) => lock_tick(world).lock.locked

(* A card is raised only onto a screen that shows it: never for another VT *)
(* and never under the blank's cover, which goes up before the panel is    *)
(* powered down and comes down with the wake.                              *)
CardsRaisedInView ==
    [][raised(world)' \subseteq raised(world)
       \/ (screen.active /\ screen.phase \notin {"Covering", "Dark"})]_vars

(* A wake ends, with or without a frame, so no session is left dark and    *)
(* swallowing what is typed at it.                                         *)
WakeEnds == screen.phase = "Waking" ~> screen.phase # "Waking"

(* A session nobody touches locks, though petitions and designations keep  *)
(* arriving and no sweep ever runs: a picker holds the lock off no longer  *)
(* than its deadline.                                                      *)
IdleSessionLocks == <>[]screen.active => []<>lock.locked

-----------------------------------------------------------------------------
(* Two statements the documentation makes and the code does not keep.      *)

(* lock/gate.rs: "A consent prompt cannot be answered while locked."       *)
NoAnswerWhileLocked == \A i \in DOMAIN history.answers : ~history.answers[i].locked

(* consent/grab.rs: the guard restarts "on every transition from           *)
(* not-visible to visible".  Looked at when the round has seen any unlock. *)
AppearanceRestartsGuard ==
    ~tells(lock.journal, "Unlocked") =>
        \A p \in grab.prompt, s \in history.shown : p.raised_at >= s
=============================================================================
