------------------------- MODULE TrustedScreenRounds -------------------------
(***************************************************************************)
(* The inductive invariant of TrustedScreen, and its preservation by the   *)
(* steps the machine takes on its own: a round of the loop, a presented    *)
(* frame, a vblank.  Those steps compute on the whole state as one record, *)
(* stage by stage; so do the proofs: a lemma says what each stage leaves   *)
(* of a world, and stages compose.                                         *)
(***************************************************************************)
EXTENDS TrustedScreen, TLAPS

(***************************************************************************)
(* Types.                                                                  *)
(***************************************************************************)
Subject == {"Petition", "Designation"} \X Nat
Card == [subject : Subject, raised_at : Nat, deadline : Nat, answered : BOOLEAN]
Care == {"deliberate", "late", "turn", "hasty"}
Answer == [subject : Subject, care : Care, locked : BOOLEAN]

GrabState ==
    [prompt : {{}} \cup {{c} : c \in Card},
     under : CardChoices \cup {"outside"},
     armed : SUBSET [button : Buttons, choice : CardChoices, at : Nat, care : Care],
     decisions : SUBSET [subject : Subject, choice : CardChoices],
     steps : SUBSET [subject : Subject, care : Care]]

LockState == [locked : BOOLEAN, journal : Seq({"Locked", "Unlocked"}), carry : Nat]

ScreenState ==
    [phase : {"Lit", "Covering", "Dark", "Waking"}, last : Nat, seat_absent : BOOLEAN,
     cover_queued : BOOLEAN, waking_since : SUBSET Nat, covering : BOOLEAN,
     active : BOOLEAN, flip_pending : BOOLEAN]

(* Deadlines by id.                                                        *)
Deadlines == UNION {[ids -> Nat] : ids \in SUBSET Nat}

ClaimState ==
    [petitions : Deadlines, designations : Deadlines, picker : SUBSET Nat,
     asked : Nat, designated : Nat]

SeatState == [held : SUBSET Buttons, app : SUBSET Buttons]

HistoryState ==
    [shown : SUBSET Nat, late : BOOLEAN, answers : Seq(Answer), inputs : Nat, touched : Nat]

World == [grab : GrabState, lock : LockState, screen : ScreenState, claims : ClaimState,
          seat : SeatState, history : HistoryState]

(***************************************************************************)
(* What the callbacks keep true of a world w.                              *)
(***************************************************************************)

(* The card is in view and no exception is being made for it.              *)
Clear(w) ==
    /\ in_view(w)
    /\ ~w.history.late
    /\ ~tells(w.lock.journal, "Unlocked")

(* What is armed was pressed when the guard of the card was over.          *)
ArmedAfterGuard(w) ==
    \A a \in w.grab.armed : /\ a.care # "hasty"
                            /\ \A p \in w.grab.prompt : a.at >= p.raised_at + Guard

NothingHasty(w) ==
    /\ \A s \in w.grab.steps : s.care # "hasty"
    /\ \A i \in DOMAIN w.history.answers : w.history.answers[i].care # "hasty"

(* An answered petition is not asked about again: until it leaves the      *)
(* registry its decision waits in the queue.                               *)
AnsweredOnce(w) ==
    /\ \A i, j \in DOMAIN w.history.answers :
          w.history.answers[i].subject = w.history.answers[j].subject => i = j
    /\ \A i \in DOMAIN w.history.answers :
          /\ w.history.answers[i].subject[1] = "Petition"
          /\ w.history.answers[i].subject[2] <= w.claims.asked
          /\ w.history.answers[i].subject[2] \in DOMAIN w.claims.petitions =>
                \E d \in w.grab.decisions : d.subject = w.history.answers[i].subject
    /\ \A p \in w.grab.prompt :
          /\ p.subject[1] = "Petition" => p.subject[2] <= w.claims.asked
          /\ ~p.answered => \A i \in DOMAIN w.history.answers :
                                w.history.answers[i].subject # p.subject
    /\ \A x \in DOMAIN w.claims.petitions : x <= w.claims.asked

CardInv(w) == ArmedAfterGuard(w) /\ NothingHasty(w) /\ AnsweredOnce(w)

(* The guard of a card in view began when it came into view, or later.     *)
GuardInv ==
    /\ \A s \in history.shown : s <= now
    /\ in_view(world) => history.shown # {}
    /\ Clear(world) => \A p \in grab.prompt, s \in history.shown : p.raised_at >= s

(* The cover is up whenever the panel is dark or about to be.              *)
CoverInv == screen.phase \in {"Covering", "Dark"} => screen.covering

(* The seat is absent exactly while the session is paused, and the time    *)
(* away is in the lock's carry.                                            *)
IdleInv ==
    /\ screen.seat_absent <=> ~screen.active
    /\ screen.last <= now
    /\ SeatChange = "Idle" => screen.last <= history.touched + lock.carry

ScreenInv ==
    /\ now \in Nat /\ world \in World
    /\ CardInv(world) /\ GuardInv /\ CoverInv /\ IdleInv /\ NoLatchedButton

-----------------------------------------------------------------------------
(* What the stages leave of a world.                                       *)

LEMMA AppendFacts ==
    ASSUME NEW S, NEW s \in Seq(S), NEW e \in S
    PROVE  /\ Append(s, e) \in Seq(S)
           /\ Len(s) \in Nat /\ Len(Append(s, e)) = Len(s) + 1
           /\ DOMAIN s = 1 .. Len(s) /\ DOMAIN Append(s, e) = 1 .. Len(s) + 1
           /\ \A i \in 1 .. Len(s) : Append(s, e)[i] = s[i]
           /\ Append(s, e)[Len(s) + 1] = e
  OBVIOUS

LEMMA WithScreen ==
    ASSUME NEW w \in World, NEW s \in ScreenState
    PROVE  /\ [w EXCEPT !.screen = s] \in World
           /\ [w EXCEPT !.screen = s].screen = s
           /\ [w EXCEPT !.screen = s].grab = w.grab
           /\ [w EXCEPT !.screen = s].lock = w.lock
           /\ [w EXCEPT !.screen = s].claims = w.claims
           /\ [w EXCEPT !.screen = s].seat = w.seat
           /\ [w EXCEPT !.screen = s].history = w.history
  BY DEF World

LEMMA WithGrab ==
    ASSUME NEW w \in World, NEW g \in GrabState
    PROVE  /\ [w EXCEPT !.grab = g] \in World
           /\ [w EXCEPT !.grab = g].grab = g
           /\ [w EXCEPT !.grab = g].lock = w.lock
           /\ [w EXCEPT !.grab = g].screen = w.screen
           /\ [w EXCEPT !.grab = g].claims = w.claims
           /\ [w EXCEPT !.grab = g].seat = w.seat
           /\ [w EXCEPT !.grab = g].history = w.history
  BY DEF World

LEMMA WithLock ==
    ASSUME NEW w \in World, NEW l \in LockState
    PROVE  /\ [w EXCEPT !.lock = l] \in World
           /\ [w EXCEPT !.lock = l].lock = l
           /\ [w EXCEPT !.lock = l].grab = w.grab
           /\ [w EXCEPT !.lock = l].screen = w.screen
           /\ [w EXCEPT !.lock = l].claims = w.claims
           /\ [w EXCEPT !.lock = l].seat = w.seat
           /\ [w EXCEPT !.lock = l].history = w.history
  BY DEF World

LEMMA WithSeat ==
    ASSUME NEW w \in World, NEW s \in SeatState
    PROVE  /\ [w EXCEPT !.seat = s] \in World
           /\ [w EXCEPT !.seat = s].seat = s
           /\ [w EXCEPT !.seat = s].grab = w.grab
           /\ [w EXCEPT !.seat = s].lock = w.lock
           /\ [w EXCEPT !.seat = s].screen = w.screen
           /\ [w EXCEPT !.seat = s].claims = w.claims
           /\ [w EXCEPT !.seat = s].history = w.history
  BY DEF World

LEMMA WithClaims ==
    ASSUME NEW w \in World, NEW c \in ClaimState
    PROVE  /\ [w EXCEPT !.claims = c] \in World
           /\ [w EXCEPT !.claims = c].claims = c
           /\ [w EXCEPT !.claims = c].grab = w.grab
           /\ [w EXCEPT !.claims = c].lock = w.lock
           /\ [w EXCEPT !.claims = c].screen = w.screen
           /\ [w EXCEPT !.claims = c].seat = w.seat
           /\ [w EXCEPT !.claims = c].history = w.history
  BY DEF World

LEMMA WithHistory ==
    ASSUME NEW w \in World, NEW h \in HistoryState
    PROVE  /\ [w EXCEPT !.history = h] \in World
           /\ [w EXCEPT !.history = h].history = h
           /\ [w EXCEPT !.history = h].grab = w.grab
           /\ [w EXCEPT !.history = h].lock = w.lock
           /\ [w EXCEPT !.history = h].screen = w.screen
           /\ [w EXCEPT !.history = h].claims = w.claims
           /\ [w EXCEPT !.history = h].seat = w.seat
  BY DEF World

LEMMA RestartGuardEffect ==
    ASSUME NEW w \in World, now \in Nat
    PROVE  /\ restart_guard(w) \in World
           /\ restart_guard(w).lock = w.lock /\ restart_guard(w).screen = w.screen
           /\ restart_guard(w).claims = w.claims /\ restart_guard(w).seat = w.seat
           /\ restart_guard(w).grab.prompt = {[p EXCEPT !.raised_at = now] : p \in w.grab.prompt}
           /\ restart_guard(w).grab.armed = {}
           /\ restart_guard(w).grab.decisions = w.grab.decisions
           /\ restart_guard(w).grab.steps = w.grab.steps
           /\ restart_guard(w).history.shown = w.history.shown
           /\ restart_guard(w).history.answers = w.history.answers
           /\ restart_guard(w).history.touched = w.history.touched
<1>1. {[p EXCEPT !.raised_at = now] : p \in w.grab.prompt} \in {{}} \cup {{c} : c \in Card}
  <2>1. \A p \in Card : [p EXCEPT !.raised_at = now] \in Card
    BY DEF Card
  <2>2. CASE w.grab.prompt = {}
    BY <2>2
  <2>3. ASSUME NEW c \in Card, w.grab.prompt = {c}
        PROVE  {[p EXCEPT !.raised_at = now] : p \in w.grab.prompt} = {[c EXCEPT !.raised_at = now]}
    BY <2>3
  <2> QED BY <2>1, <2>2, <2>3, Zenon DEF World, GrabState
<1>2. restart_guard(w) \in World
  BY <1>1, Zenon DEF World, GrabState, restart_guard, HistoryState
<1> QED BY <1>2, Zenon DEF World, GrabState, restart_guard, HistoryState

LEMMA LowerEffect ==
    ASSUME NEW w \in World
    PROVE  /\ lower(w) \in World
           /\ lower(w).lock = w.lock /\ lower(w).screen = w.screen
           /\ lower(w).claims = w.claims /\ lower(w).seat = w.seat /\ lower(w).history = w.history
           /\ lower(w).grab.prompt = {} /\ lower(w).grab.armed = {}
           /\ lower(w).grab.decisions = {d \in w.grab.decisions : d.subject \notin raised(w)}
           /\ lower(w).grab.steps = {s \in w.grab.steps : s.subject \notin raised(w)}
<1>1. lower(w) \in World
  BY Zenon DEF World, GrabState, lower
<1> QED BY <1>1, Zenon DEF World, GrabState, lower

LEMMA RaiseEffect ==
    ASSUME NEW w \in World, now \in Nat, NEW subject \in Subject, NEW deadline \in Nat
    PROVE  /\ raise(w, subject, deadline) \in World
           /\ raise(w, subject, deadline).lock = w.lock
           /\ raise(w, subject, deadline).screen = w.screen
           /\ raise(w, subject, deadline).claims = w.claims
           /\ raise(w, subject, deadline).seat = w.seat
           /\ raise(w, subject, deadline).grab.prompt =
                 {[subject |-> subject, raised_at |-> now, deadline |-> deadline, answered |-> FALSE]}
           /\ raise(w, subject, deadline).grab.armed = {}
           /\ raise(w, subject, deadline).grab.decisions = w.grab.decisions
           /\ raise(w, subject, deadline).grab.steps = w.grab.steps
           /\ raise(w, subject, deadline).history.shown = w.history.shown
           /\ raise(w, subject, deadline).history.answers = w.history.answers
           /\ raise(w, subject, deadline).history.touched = w.history.touched
<1>1. [subject |-> subject, raised_at |-> now, deadline |-> deadline, answered |-> FALSE] \in Card
  BY DEF Card
<1>2. raise(w, subject, deadline) \in World
  BY <1>1, Zenon DEF World, GrabState, HistoryState, raise
<1> QED BY <1>2, Zenon DEF World, GrabState, HistoryState, raise

LEMMA LockRaiseEffect ==
    ASSUME NEW w \in World
    PROVE  /\ lock_raise(w) \in World
           /\ lock_raise(w).grab = w.grab /\ lock_raise(w).screen = w.screen
           /\ lock_raise(w).claims = w.claims /\ lock_raise(w).seat = w.seat
           /\ lock_raise(w).history = w.history
           /\ lock_raise(w).lock.locked
           /\ lock_raise(w).lock.carry = w.lock.carry
<1>1. w.lock.journal \in Seq({"Locked", "Unlocked"})
  BY DEF World, LockState
<1>2. Append(w.lock.journal, "Locked") \in Seq({"Locked", "Unlocked"})
  BY <1>1, AppendFacts
<1>3. lock_raise(w) \in World
  BY <1>2, Zenon DEF World, LockState, lock_raise
<1> QED BY <1>3 DEF World, LockState, lock_raise

LEMMA ForceLitEffect ==
    ASSUME NEW w \in World
    PROVE  /\ force_lit(w) \in World
           /\ force_lit(w).grab = w.grab /\ force_lit(w).lock = w.lock
           /\ force_lit(w).claims = w.claims /\ force_lit(w).seat = w.seat
           /\ force_lit(w).history = w.history
           /\ force_lit(w).screen.phase = "Lit"
           /\ force_lit(w).screen.last = w.screen.last
           /\ force_lit(w).screen.seat_absent = w.screen.seat_absent
           /\ force_lit(w).screen.active = w.screen.active
           /\ force_lit(w).screen.covering = w.screen.covering
<1>1. force_lit(w) \in World
  BY Zenon DEF World, ScreenState, force_lit
<1> QED BY <1>1, Zenon DEF World, ScreenState, force_lit

LEMMA WithoutType ==
    ASSUME NEW f \in Deadlines, NEW gone
    PROVE  /\ without(f, gone) \in Deadlines
           /\ DOMAIN without(f, gone) = DOMAIN f \ gone
<1>1. PICK ids \in SUBSET Nat : f \in [ids -> Nat]
  BY DEF Deadlines
<1>2. without(f, gone) \in [ids \ gone -> Nat]
  BY <1>1, Zenon DEF without
<1> QED BY <1>1, <1>2, Zenon DEF Deadlines, without

LEMMA SettleEffect ==
    ASSUME NEW w \in World, NEW ids
    PROVE  /\ settle(w, ids) \in World
           /\ settle(w, ids).grab = w.grab /\ settle(w, ids).lock = w.lock
           /\ settle(w, ids).screen = w.screen /\ settle(w, ids).seat = w.seat
           /\ settle(w, ids).history = w.history
           /\ settle(w, ids).claims.petitions = w.claims.petitions
           /\ settle(w, ids).claims.asked = w.claims.asked
           /\ settle(w, ids).claims.picker = w.claims.picker \ ids
           /\ DOMAIN settle(w, ids).claims.designations = DOMAIN w.claims.designations \ ids
<1>1. /\ without(w.claims.designations, ids) \in Deadlines
      /\ DOMAIN without(w.claims.designations, ids) = DOMAIN w.claims.designations \ ids
  BY WithoutType, Zenon DEF World, ClaimState
<1>2. settle(w, ids) \in World
  BY <1>1, Zenon DEF World, ClaimState, settle
<1> QED BY <1>1, <1>2, Zenon DEF World, ClaimState, settle

-----------------------------------------------------------------------------
(* A card that is not newly raised was there before, and if nothing covers *)
(* it or excuses it now, nothing did before: only an unlock, a wake or a   *)
(* return from another VT brings it into view, and each restarts its guard *)
(* or is an exception.                                                     *)
Shows(w, v) ==
    \A p \in v.grab.prompt :
        \/ p.raised_at = now
        \/ /\ \E q \in w.grab.prompt : q.subject = p.subject /\ q.raised_at = p.raised_at
           /\ Clear(v) => Clear(w)

(* A stage that is not the human's: it keeps the buttons, the answers and  *)
(* the idle clocks, and the invariants of the card.                        *)
Quiet(w, v) ==
    /\ v \in World
    /\ v.seat = w.seat
    /\ v.history.shown = w.history.shown
    /\ v.history.answers = w.history.answers
    /\ v.history.touched = w.history.touched
    /\ v.lock.carry = w.lock.carry
    /\ v.screen.last = w.screen.last
    /\ v.screen.seat_absent = w.screen.seat_absent
    /\ v.screen.active = w.screen.active
    /\ Shows(w, v)
    /\ CardInv(w) => CardInv(v)

LEMMA ShowsTransitive ==
    ASSUME NEW u, NEW v, NEW w, Shows(u, v), Shows(v, w)
    PROVE  Shows(u, w)
  BY DEF Shows

LEMMA QuietTransitive ==
    ASSUME NEW u, NEW v, NEW w, Quiet(u, v), Quiet(v, w)
    PROVE  Quiet(u, w)
  BY ShowsTransitive DEF Quiet

LEMMA QuietReflexive ==
    ASSUME NEW w \in World
    PROVE  Quiet(w, w)
  BY DEF Quiet, Shows

(* A stage that leaves the card, the answers and what covers them alone.   *)
LEMMA QuietUntouched ==
    ASSUME NEW w \in World, NEW v \in World,
           v.grab = w.grab, v.lock.carry = w.lock.carry, v.seat = w.seat,
           v.history.shown = w.history.shown, v.history.answers = w.history.answers,
           v.history.touched = w.history.touched,
           v.screen.last = w.screen.last, v.screen.seat_absent = w.screen.seat_absent,
           v.screen.active = w.screen.active,
           v.claims.asked >= w.claims.asked,
           \A x \in DOMAIN v.claims.petitions :
              /\ x <= v.claims.asked
              /\ x \in DOMAIN w.claims.petitions \/ x > w.claims.asked,
           w.grab.prompt # {} /\ Clear(v) => Clear(w)
    PROVE  Quiet(w, v)
<1>1. Shows(w, v)
  BY DEF Shows
<1>2. ASSUME CardInv(w) PROVE CardInv(v)
  <2>1. ArmedAfterGuard(v) /\ NothingHasty(v)
    BY <1>2 DEF CardInv, ArmedAfterGuard, NothingHasty
  <2>2. AnsweredOnce(v)
    <3>1. /\ v.claims.asked \in Nat /\ w.claims.asked \in Nat
          /\ \A i \in DOMAIN w.history.answers : w.history.answers[i].subject[2] \in Nat
          /\ \A p \in w.grab.prompt : p.subject[2] \in Nat
      <4>1. w.history.answers \in Seq(Answer)
        BY DEF World, HistoryState
      <4>2. \A i \in DOMAIN w.history.answers : w.history.answers[i].subject \in Subject
        <5>1. \A i \in DOMAIN w.history.answers : w.history.answers[i] \in Answer
          BY <4>1
        <5> QED BY <5>1 DEF Answer
      <4>3. \A p \in w.grab.prompt : p.subject \in Subject
        BY DEF World, GrabState, Card
      <4> QED BY <4>2, <4>3 DEF World, ClaimState, Subject
    <3> QED BY <1>2, <3>1 DEF CardInv, AnsweredOnce
  <2> QED BY <2>1, <2>2 DEF CardInv
<1> QED BY <1>1, <1>2 DEF Quiet

(* The guard restarts: nothing stays armed.                                *)
LEMMA QuietRestart ==
    ASSUME NEW w \in World, now \in Nat
    PROVE  /\ Quiet(w, restart_guard(w))
           /\ \A p \in restart_guard(w).grab.prompt : p.raised_at = now
           /\ raised(restart_guard(w)) = raised(w)
<1> DEFINE v == restart_guard(w)
<1>1. /\ v \in World /\ v.lock = w.lock /\ v.screen = w.screen /\ v.claims = w.claims
      /\ v.seat = w.seat /\ v.grab.armed = {} /\ v.grab.decisions = w.grab.decisions
      /\ v.grab.prompt = {[p EXCEPT !.raised_at = now] : p \in w.grab.prompt}
      /\ v.grab.steps = w.grab.steps /\ v.history.shown = w.history.shown
      /\ v.history.answers = w.history.answers /\ v.history.touched = w.history.touched
  BY RestartGuardEffect
<1> HIDE DEF v
<1>2. w.grab.prompt = {} \/ \E c \in Card : w.grab.prompt = {c}
  BY DEF World, GrabState
<1>3. CASE w.grab.prompt = {}
  <2>1. v.grab.prompt = {}
    BY <1>1, <1>3
  <2>2. Shows(w, v) /\ raised(v) = {} /\ raised(w) = {}
    BY <1>3, <2>1 DEF Shows, raised
  <2>3. CardInv(w) => CardInv(v)
    BY <1>1, <1>3, <2>1 DEF CardInv, ArmedAfterGuard, NothingHasty, AnsweredOnce
  <2> QED BY <1>1, <2>1, <2>2, <2>3 DEF Quiet, v
<1>4. ASSUME NEW c \in Card, w.grab.prompt = {c}
      PROVE  /\ Quiet(w, v) /\ raised(v) = raised(w)
             /\ \A p \in v.grab.prompt : p.raised_at = now
  <2> DEFINE q == [c EXCEPT !.raised_at = now]
  <2>1. v.grab.prompt = {q}
    BY <1>1, <1>4
  <2>2. q.subject = c.subject /\ q.answered = c.answered /\ q.raised_at = now
    BY ZenonT(20) DEF Card
  <2> HIDE DEF q
  <2>3. Shows(w, v) /\ raised(v) = {c.subject} /\ raised(w) = {c.subject}
    BY <1>4, <2>1, <2>2 DEF Shows, raised
  <2>4. CardInv(w) => CardInv(v)
    BY <1>1, <1>4, <2>1, <2>2 DEF CardInv, ArmedAfterGuard, NothingHasty, AnsweredOnce
  <2> QED BY <1>1, <2>1, <2>2, <2>3, <2>4 DEF Quiet
<1> QED BY <1>2, <1>3, <1>4 DEF v

(* A card is taken down.  The decisions that go with it are not needed:    *)
(* its petition is over, or it is a picker.                                *)
LEMMA QuietLower ==
    ASSUME NEW w \in World,
           \A p \in w.grab.prompt : p.subject[1] = "Petition" =>
                                       p.subject[2] \notin DOMAIN w.claims.petitions
    PROVE  Quiet(w, lower(w)) /\ raised(lower(w)) = {}
<1> DEFINE v == lower(w)
<1>1. /\ v \in World /\ v.lock = w.lock /\ v.screen = w.screen /\ v.claims = w.claims
      /\ v.seat = w.seat /\ v.history = w.history
      /\ v.grab.prompt = {} /\ v.grab.armed = {}
      /\ v.grab.decisions = {d \in w.grab.decisions : d.subject \notin raised(w)}
      /\ v.grab.steps = {t \in w.grab.steps : t.subject \notin raised(w)}
  BY LowerEffect
<1> HIDE DEF v
<1>2. Shows(w, v) /\ raised(v) = {}
  BY <1>1 DEF Shows, raised
<1>3. ASSUME CardInv(w) PROVE CardInv(v)
  <2>1. ArmedAfterGuard(v) /\ NothingHasty(v)
    BY <1>1, <1>3 DEF CardInv, ArmedAfterGuard, NothingHasty
  <2>2. AnsweredOnce(v)
    BY <1>1, <1>3 DEF CardInv, AnsweredOnce, raised
  <2> QED BY <2>1, <2>2 DEF CardInv
<1> QED BY <1>1, <1>2, <1>3 DEF Quiet, v

(* A card is raised that has not been answered.                            *)
LEMMA QuietRaise ==
    ASSUME NEW w \in World, now \in Nat, NEW subject \in Subject, NEW deadline \in Nat,
           CardInv(w) => /\ subject[1] = "Petition" => subject[2] <= w.claims.asked
                         /\ \A i \in DOMAIN w.history.answers :
                               w.history.answers[i].subject # subject
    PROVE  /\ Quiet(w, raise(w, subject, deadline))
           /\ raised(raise(w, subject, deadline)) = {subject}
<1> DEFINE v == raise(w, subject, deadline)
<1>1. /\ v \in World /\ v.lock = w.lock /\ v.screen = w.screen /\ v.claims = w.claims
      /\ v.seat = w.seat /\ v.grab.armed = {} /\ v.grab.decisions = w.grab.decisions
      /\ v.grab.prompt = {[subject |-> subject, raised_at |-> now,
                           deadline |-> deadline, answered |-> FALSE]}
      /\ v.grab.steps = w.grab.steps /\ v.history.shown = w.history.shown
      /\ v.history.answers = w.history.answers /\ v.history.touched = w.history.touched
  BY RaiseEffect
<1> HIDE DEF v
<1>2. Shows(w, v) /\ raised(v) = {subject}
  BY <1>1 DEF Shows, raised
<1>3. ASSUME CardInv(w) PROVE CardInv(v)
  <2>1. ArmedAfterGuard(v) /\ NothingHasty(v)
    BY <1>1, <1>3 DEF CardInv, ArmedAfterGuard, NothingHasty
  <2>2. AnsweredOnce(v)
    BY <1>1, <1>3 DEF CardInv, AnsweredOnce
  <2> QED BY <2>1, <2>2 DEF CardInv
<1> QED BY <1>1, <1>2, <1>3 DEF Quiet, v

-----------------------------------------------------------------------------
(* The rounds.                                                             *)

(* The raised petition cards, and the raised pickers, are about something  *)
(* that still waits.                                                       *)
PetitionsWait(w) ==
    \A x \in raised(w) : x[1] = "Petition" => x[2] \in DOMAIN w.claims.petitions

PickersWait(w) ==
    \A x \in raised(w) : x[1] = "Designation" => x[2] \in DOMAIN w.claims.designations

LEMMA DeadlineTypes ==
    ASSUME NEW f \in Deadlines, NEW x \in DOMAIN f
    PROVE  x \in Nat /\ f[x] \in Nat
<1>1. PICK ids \in SUBSET Nat : f \in [ids -> Nat]
  BY DEF Deadlines
<1> QED BY <1>1

LEMMA OneCard ==
    ASSUME NEW w \in World
    PROVE  /\ w.grab.prompt = {} \/ \E c \in Card : w.grab.prompt = {c}
           /\ \A p \in w.grab.prompt : p \in Card /\ p.subject \in Subject
           /\ \A p, q \in w.grab.prompt : p = q
           /\ raised(w) \subseteq Subject
           /\ raised(w) = {} <=> w.grab.prompt = {}
<1>1. w.grab.prompt = {} \/ \E c \in Card : w.grab.prompt = {c}
  BY DEF World, GrabState
<1>2. \A p \in Card : p.subject \in Subject
  BY DEF Card
<1> QED BY <1>1, <1>2 DEF raised

LEMMA RetireStaleStage ==
    ASSUME NEW w \in World
    PROVE  /\ Quiet(w, retire_stale(w))
           /\ retire_stale(w).screen = w.screen
           /\ retire_stale(w).claims = w.claims
           /\ retire_stale(w).grab.decisions \subseteq w.grab.decisions
           /\ raised(retire_stale(w)) \subseteq raised(w)
           /\ PetitionsWait(retire_stale(w))
<1> DEFINE stale == \E p \in w.grab.prompt : /\ p.subject[1] = "Petition"
                                             /\ p.subject[2] \notin DOMAIN w.claims.petitions
<1>1. CASE stale
  <2>1. retire_stale(w) = lower(w)
    BY <1>1, Zenon DEF retire_stale
  <2>2. \A p \in w.grab.prompt : p.subject[1] = "Petition" =>
                                    p.subject[2] \notin DOMAIN w.claims.petitions
    BY <1>1, OneCard
  <2>3. Quiet(w, lower(w)) /\ raised(lower(w)) = {}
    BY <2>2, QuietLower
  <2>4. /\ lower(w).screen = w.screen /\ lower(w).claims = w.claims
        /\ lower(w).grab.decisions \subseteq w.grab.decisions
    BY LowerEffect
  <2> QED BY <2>1, <2>3, <2>4 DEF PetitionsWait
<1>2. CASE ~stale
  <2>1. retire_stale(w) = w
    BY <1>2, Zenon DEF retire_stale
  <2> QED BY <1>2, <2>1, QuietReflexive DEF PetitionsWait, raised
<1> QED BY <1>1, <1>2

LEMMA DecidedStage ==
    ASSUME NEW w \in World
    PROVE  /\ Quiet(w, decided(w))
           /\ decided(w).screen = w.screen
           /\ raised(decided(w)) = raised(w)
           /\ decided(w).grab.decisions = {}
<1> DEFINE over  == {d.subject[2] : d \in w.grab.decisions}
           still == without(w.claims.petitions, over)
           u     == [w EXCEPT !.claims.petitions = still]
           v     == [u EXCEPT !.grab.decisions = {}]
<1>1. decided(w) = v /\ \A d \in w.grab.decisions : d.subject[2] \in over
  BY DEF decided
<1> HIDE DEF over
<1>2. still \in Deadlines /\ DOMAIN still = DOMAIN w.claims.petitions \ over
  <2>1. w.claims.petitions \in Deadlines
    BY DEF World, ClaimState
  <2> QED BY <2>1, WithoutType, Zenon
<1> HIDE DEF still
<1>3. /\ u \in World /\ u.grab = w.grab /\ u.lock = w.lock /\ u.screen = w.screen
      /\ u.seat = w.seat /\ u.history = w.history
      /\ u.claims.petitions = still /\ u.claims.asked = w.claims.asked
  BY <1>2 DEF World, ClaimState
<1> HIDE DEF u
<1>4. /\ v \in World /\ v.lock = w.lock /\ v.screen = w.screen /\ v.seat = w.seat
      /\ v.history = w.history
      /\ v.grab.prompt = w.grab.prompt /\ v.grab.armed = w.grab.armed
      /\ v.grab.steps = w.grab.steps /\ v.grab.decisions = {}
      /\ v.claims.petitions = still /\ v.claims.asked = w.claims.asked
  BY <1>3 DEF World, GrabState
<1> HIDE DEF v
<1>5. Shows(w, v) /\ raised(v) = raised(w)
  BY <1>4 DEF Shows, raised, Clear, in_view
<1>6. ASSUME CardInv(w) PROVE CardInv(v)
  <2>1. ArmedAfterGuard(v) /\ NothingHasty(v)
    BY <1>4, <1>6 DEF CardInv, ArmedAfterGuard, NothingHasty
  <2>2. AnsweredOnce(v)
    BY <1>1, <1>2, <1>4, <1>6 DEF CardInv, AnsweredOnce
  <2> QED BY <2>1, <2>2 DEF CardInv
<1> QED BY <1>1, <1>4, <1>5, <1>6 DEF Quiet

LEMMA ConsentRoundStage ==
    ASSUME NEW w \in World, now \in Nat
    PROVE  /\ Quiet(w, consent_round(w))
           /\ consent_round(w).screen = w.screen
           /\ raised(consent_round(w)) \subseteq raised(w) \/ reachable(w)
           /\ PetitionsWait(consent_round(w))
<1> DEFINE first   == retire_stale(w)
           second  == decided(first)
           settled == retire_stale(second)
           waiting == settled.claims.petitions
           v       == consent_round(w)
<1>1. first \in World /\ Quiet(w, first) /\ first.screen = w.screen /\ raised(first) \subseteq raised(w)
  BY RetireStaleStage DEF Quiet
<1>2. /\ second \in World /\ Quiet(first, second) /\ second.screen = first.screen
      /\ raised(second) = raised(first) /\ second.grab.decisions = {}
  BY <1>1, DecidedStage DEF Quiet
<1>3. /\ settled \in World /\ Quiet(second, settled) /\ settled.screen = second.screen
      /\ raised(settled) \subseteq raised(second) /\ settled.grab.decisions = {}
      /\ PetitionsWait(settled)
  BY <1>2, RetireStaleStage DEF Quiet
<1>4. Quiet(w, settled)
  BY <1>1, <1>2, <1>3, QuietTransitive
<1>5. v = IF reachable(w) /\ settled.grab.prompt = {} /\ front(waiting) # {}
          THEN raise(settled, <<"Petition", CHOOSE x \in front(waiting) : TRUE>>,
                     waiting[CHOOSE x \in front(waiting) : TRUE])
          ELSE settled
  BY DEF consent_round
<1> HIDE DEF first, second, settled, waiting, v
<1>6. CASE reachable(w) /\ settled.grab.prompt = {} /\ front(waiting) # {}
  <2> DEFINE p == CHOOSE x \in front(waiting) : TRUE
  <2>1. v = raise(settled, <<"Petition", p>>, waiting[p])
    BY <1>5, <1>6
  <2>2. p \in DOMAIN waiting
    <3>1. p \in front(waiting)
      BY <1>6, Zenon
    <3> QED BY <3>1 DEF front
  <2> HIDE DEF p
  <2>3. waiting \in Deadlines
    BY <1>3 DEF World, ClaimState, waiting
  <2>4. p \in Nat /\ waiting[p] \in Nat
    BY <2>2, <2>3, DeadlineTypes
  <2>5. <<"Petition", p>> \in Subject /\ <<"Petition", p>>[1] = "Petition" /\ <<"Petition", p>>[2] = p
    BY <2>4 DEF Subject
  <2>6. CardInv(settled) => /\ p <= settled.claims.asked
                            /\ \A i \in DOMAIN settled.history.answers :
                                  settled.history.answers[i].subject # <<"Petition", p>>
    BY <1>3, <2>2, <2>5 DEF CardInv, AnsweredOnce, waiting
  <2>7. Quiet(settled, v) /\ raised(v) = {<<"Petition", p>>}
    BY <1>3, <2>1, <2>4, <2>5, <2>6, QuietRaise
  <2>8. v.screen = settled.screen /\ v.claims = settled.claims
    BY <1>3, <2>1, <2>4, <2>5, RaiseEffect
  <2>9. Quiet(w, v)
    BY <1>4, <2>7, QuietTransitive
  <2>10. PetitionsWait(v)
    BY <2>2, <2>5, <2>7, <2>8 DEF PetitionsWait, waiting
  <2> QED BY <1>1, <1>2, <1>3, <1>6, <2>8, <2>9, <2>10 DEF v
<1>7. CASE ~(reachable(w) /\ settled.grab.prompt = {} /\ front(waiting) # {})
  <2>1. v = settled
    BY <1>5, <1>7
  <2> QED BY <1>1, <1>2, <1>3, <1>4, <2>1 DEF v
<1> QED BY <1>6, <1>7

(* lower_picker, on a picker.                                              *)
LEMMA LowerPickerStage ==
    ASSUME NEW w \in World,
           \A p \in w.grab.prompt : p.subject[1] = "Petition" =>
                                       p.subject[2] \notin DOMAIN w.claims.petitions
    PROVE  /\ Quiet(w, lower_picker(w))
           /\ lower_picker(w).screen = w.screen
           /\ raised(lower_picker(w)) = {}
           /\ lower_picker(w).claims.picker = {}
<1> DEFINE u == lower(w)
           v == [u EXCEPT !.claims.picker = {}]
<1>1. lower_picker(w) = v
  BY DEF lower_picker
<1>2. Quiet(w, u) /\ raised(u) = {}
  BY QuietLower
<1>3. u \in World /\ u.screen = w.screen
  BY LowerEffect
<1> HIDE DEF u
<1>4. /\ v \in World /\ v.grab = u.grab /\ v.lock = u.lock /\ v.screen = u.screen
      /\ v.seat = u.seat /\ v.history = u.history /\ v.claims.picker = {}
      /\ v.claims.petitions = u.claims.petitions /\ v.claims.asked = u.claims.asked
  BY <1>3 DEF World, ClaimState
<1> HIDE DEF v
<1>5. Shows(u, v) /\ raised(v) = {}
  BY <1>2, <1>4 DEF Shows, raised, Clear, in_view
<1>6. CardInv(u) => CardInv(v)
  BY <1>4 DEF CardInv, ArmedAfterGuard, NothingHasty, AnsweredOnce
<1>7. Quiet(u, v)
  BY <1>4, <1>5, <1>6 DEF Quiet
<1> QED BY <1>1, <1>2, <1>3, <1>4, <1>5, <1>7, QuietTransitive

LEMMA SettleStage ==
    ASSUME NEW w \in World, NEW ids
    PROVE  /\ Quiet(w, settle(w, ids))
           /\ settle(w, ids).screen = w.screen
           /\ raised(settle(w, ids)) = raised(w)
           /\ settle(w, ids).claims.petitions = w.claims.petitions
           /\ settle(w, ids).claims.picker = w.claims.picker \ ids
<1> DEFINE v == settle(w, ids)
<1>1. /\ v \in World /\ v.grab = w.grab /\ v.lock = w.lock /\ v.screen = w.screen
      /\ v.seat = w.seat /\ v.history = w.history
      /\ v.claims.petitions = w.claims.petitions /\ v.claims.asked = w.claims.asked
      /\ v.claims.picker = w.claims.picker \ ids
  BY SettleEffect
<1> HIDE DEF v
<1>2. Shows(w, v) /\ raised(v) = raised(w)
  BY <1>1 DEF Shows, raised, Clear, in_view
<1>3. CardInv(w) => CardInv(v)
  BY <1>1 DEF CardInv, ArmedAfterGuard, NothingHasty, AnsweredOnce
<1> QED BY <1>1, <1>2, <1>3 DEF Quiet, v

(* What a stage of the picker round keeps.                                 *)
PickerStage(w, v) ==
    /\ Quiet(w, v)
    /\ v.screen = w.screen
    /\ PetitionsWait(w) => PetitionsWait(v)

LEMMA DesignatedCard ==
    ASSUME NEW w \in World
    PROVE  /\ designated(w) # {} => \A p \in w.grab.prompt : p.subject[1] # "Petition"
           /\ \A p \in w.grab.prompt : p.subject[1] = "Designation" => p.subject[2] \in designated(w)
           /\ \A x \in designated(w) : \E s \in raised(w) : s[1] = "Designation" /\ s[2] = x
<1>1. /\ \A x \in designated(w) : \E p \in w.grab.prompt : p.subject[1] = "Designation" /\ p.subject[2] = x
      /\ \A p \in w.grab.prompt : p.subject[1] = "Designation" => p.subject[2] \in designated(w)
  BY DEF designated, raised
<1> QED BY <1>1, OneCard DEF raised

LEMMA PickerLoweredStage ==
    ASSUME NEW w \in World
    PROVE  /\ PickerStage(w, picker_lowered(w))
           /\ raised(picker_lowered(w)) \subseteq raised(w)
           /\ PickersWait(picker_lowered(w))
           /\ picker_lowered(w).claims.picker \subseteq designated(picker_lowered(w))
<1> DEFINE ids == designated(w)
           v   == picker_lowered(w)
           u   == lower_picker(w)
<1>1. ASSUME ids # {}
      PROVE  /\ u \in World /\ Quiet(w, u) /\ u.screen = w.screen /\ raised(u) = {}
             /\ u.claims.picker = {}
  <2>1. \A p \in w.grab.prompt : p.subject[1] = "Petition" =>
                                    p.subject[2] \notin DOMAIN w.claims.petitions
    BY <1>1, DesignatedCard
  <2> QED BY <2>1, LowerPickerStage DEF Quiet
<1>2. v = IF ids \ DOMAIN w.claims.designations # {} THEN u
          ELSE IF ~reachable(w) /\ ids # {} THEN settle(u, ids)
          ELSE [w EXCEPT !.claims.picker = @ \cap ids]
  BY DEF picker_lowered
<1>3. \A x \in World : raised(x) = {} => PetitionsWait(x) /\ PickersWait(x)
  BY DEF PetitionsWait, PickersWait
<1> HIDE DEF v, u, ids
<1>4. CASE ids \ DOMAIN w.claims.designations # {}
  <2>1. ids # {} /\ v = u
    BY <1>2, <1>4
  <2> QED BY <1>1, <1>3, <2>1 DEF PickerStage, v
<1>5. CASE ids \ DOMAIN w.claims.designations = {} /\ ~reachable(w) /\ ids # {}
  <2>1. ids # {} /\ v = settle(u, ids)
    BY <1>2, <1>5
  <2>2. /\ Quiet(u, v) /\ v.screen = u.screen /\ raised(v) = raised(u)
        /\ v.claims.picker = u.claims.picker \ ids
    BY <1>1, <2>1, SettleStage
  <2>3. v \in World /\ Quiet(w, v)
    BY <1>1, <2>1, <2>2, QuietTransitive DEF Quiet
  <2> QED BY <1>1, <1>3, <2>1, <2>2, <2>3 DEF PickerStage, v
<1>6. CASE ids \ DOMAIN w.claims.designations = {} /\ ~(~reachable(w) /\ ids # {})
  <2>1. v = [w EXCEPT !.claims.picker = @ \cap ids]
    BY <1>2, <1>6
  <2>2. /\ v \in World /\ v.grab = w.grab /\ v.lock = w.lock /\ v.screen = w.screen
        /\ v.seat = w.seat /\ v.history = w.history
        /\ v.claims.petitions = w.claims.petitions /\ v.claims.asked = w.claims.asked
        /\ v.claims.designations = w.claims.designations
        /\ v.claims.picker \subseteq ids
    BY <2>1 DEF World, ClaimState
  <2>3. Shows(w, v) /\ raised(v) = raised(w)
    BY <2>2 DEF Shows, raised, Clear, in_view
  <2>4. CardInv(w) => CardInv(v)
    BY <2>2 DEF CardInv, ArmedAfterGuard, NothingHasty, AnsweredOnce
  <2>5. Quiet(w, v)
    BY <2>2, <2>3, <2>4 DEF Quiet
  <2>6. designated(v) = ids
    BY <2>3 DEF designated, ids
  <2>7. PickersWait(v)
    BY <1>6, <2>2, <2>3, <2>6 DEF PickersWait, designated
  <2>8. PetitionsWait(w) => PetitionsWait(v)
    BY <2>2, <2>3 DEF PetitionsWait
  <2> QED BY <2>2, <2>3, <2>5, <2>6, <2>7, <2>8 DEF PickerStage, v
<1> QED BY <1>4, <1>5, <1>6

LEMMA PickerSteppedStage ==
    ASSUME NEW w \in World, NEW ends, w.claims.picker \subseteq designated(w)
    PROVE  /\ PickerStage(w, picker_stepped(w, ends))
           /\ raised(picker_stepped(w, ends)) \subseteq raised(w)
           /\ PickersWait(w) => PickersWait(picker_stepped(w, ends))
<1> DEFINE named == {s.subject[2] : s \in w.grab.steps} \cap w.claims.picker
           v     == picker_stepped(w, ends)
           u     == lower_picker(w)
<1>1. v = IF ends /\ named # {} THEN settle(u, named) ELSE [w EXCEPT !.grab.steps = {}]
  BY DEF picker_stepped
<1>2. named \subseteq designated(w)
  OBVIOUS
<1> HIDE DEF v, named
<1>3. CASE ends /\ named # {}
  <2>1. \A p \in w.grab.prompt : p.subject[1] = "Petition" =>
                                    p.subject[2] \notin DOMAIN w.claims.petitions
    BY <1>2, <1>3, DesignatedCard
  <2>2. u \in World /\ Quiet(w, u) /\ u.screen = w.screen /\ raised(u) = {}
    BY <2>1, LowerPickerStage DEF Quiet
  <2> HIDE DEF u
  <2>3. v = settle(u, named)
    BY <1>1, <1>3
  <2>4. Quiet(u, v) /\ v.screen = u.screen /\ raised(v) = {}
    BY <2>2, <2>3, SettleStage
  <2>5. Quiet(w, v)
    BY <2>2, <2>4, QuietTransitive
  <2> QED BY <2>2, <2>4, <2>5 DEF PickerStage, PetitionsWait, PickersWait, v
<1>4. CASE ~(ends /\ named # {})
  <2>1. v = [w EXCEPT !.grab.steps = {}]
    BY <1>1, <1>4
  <2>2. /\ v \in World /\ v.lock = w.lock /\ v.screen = w.screen /\ v.claims = w.claims
        /\ v.seat = w.seat /\ v.history = w.history /\ v.grab.steps = {}
        /\ v.grab.prompt = w.grab.prompt /\ v.grab.armed = w.grab.armed
        /\ v.grab.decisions = w.grab.decisions
    BY <2>1 DEF World, GrabState
  <2>3. Shows(w, v) /\ raised(v) = raised(w)
    BY <2>2 DEF Shows, raised, Clear, in_view
  <2>4. CardInv(w) => CardInv(v)
    BY <2>2 DEF CardInv, ArmedAfterGuard, NothingHasty, AnsweredOnce
  <2>5. Quiet(w, v)
    BY <2>2, <2>3, <2>4 DEF Quiet
  <2>6. (PetitionsWait(w) => PetitionsWait(v)) /\ (PickersWait(w) => PickersWait(v))
    BY <2>2, <2>3 DEF PetitionsWait, PickersWait
  <2> QED BY <2>2, <2>3, <2>5, <2>6 DEF PickerStage, v
<1> QED BY <1>3, <1>4

LEMMA PickerRaisedStage ==
    ASSUME NEW w \in World, now \in Nat, NEW opens
    PROVE  /\ PickerStage(w, picker_raised(w, opens))
           /\ raised(picker_raised(w, opens)) \subseteq raised(w) \/ reachable(w)
           /\ PickersWait(w) => PickersWait(picker_raised(w, opens))
<1> DEFINE waiting == w.claims.designations
           bars    == ~reachable(w) \/ w.grab.prompt # {} \/ front(waiting) = {}
           d       == CHOOSE x \in front(waiting) : TRUE
           u       == raise(w, <<"Designation", d>>, waiting[d])
           v       == picker_raised(w, opens)
<1>1. v = IF bars THEN w
          ELSE IF opens THEN [u EXCEPT !.claims.picker = {d}] ELSE settle(w, {d})
  BY DEF picker_raised
<1>2. CASE bars
  <2>1. v = w
    BY <1>1, <1>2
  <2> QED BY <2>1, QuietReflexive DEF PickerStage
<1>3. CASE ~bars
  <2>1. reachable(w) /\ w.grab.prompt = {} /\ d \in DOMAIN waiting
    <3>1. d \in front(waiting)
      BY <1>3, Zenon
    <3> QED BY <1>3, <3>1 DEF front
  <2>2. waiting \in Deadlines
    BY DEF World, ClaimState
  <2>3. v = IF opens THEN [u EXCEPT !.claims.picker = {d}] ELSE settle(w, {d})
    BY <1>1, <1>3
  <2> HIDE DEF d, waiting, v
  <2>4. d \in Nat /\ waiting[d] \in Nat
    BY <2>1, <2>2, DeadlineTypes
  <2>5. CASE ~opens
    <3>1. v = settle(w, {d})
      BY <2>3, <2>5
    <3>2. Quiet(w, v) /\ v.screen = w.screen /\ raised(v) = raised(w)
      BY <3>1, SettleStage
    <3>3. raised(w) = {}
      BY <2>1 DEF raised
    <3> QED BY <3>2, <3>3 DEF PickerStage, PetitionsWait, PickersWait, v
  <2>6. CASE opens
    <3>1. /\ <<"Designation", d>> \in Subject
          /\ <<"Designation", d>>[1] = "Designation" /\ <<"Designation", d>>[2] = d
      BY <2>4 DEF Subject
    <3>2. \A x \in Subject : x[1] = "Petition" => x # <<"Designation", d>>
      BY <3>1
    <3>3. CardInv(w) => \A i \in DOMAIN w.history.answers :
                           w.history.answers[i].subject # <<"Designation", d>>
      BY <3>1 DEF CardInv, AnsweredOnce
    <3>4. Quiet(w, u) /\ raised(u) = {<<"Designation", d>>}
      BY <2>4, <3>1, <3>3, QuietRaise
    <3>5. u \in World /\ u.screen = w.screen /\ u.claims = w.claims
      BY <2>4, <3>1, RaiseEffect
    <3>6. v = [u EXCEPT !.claims.picker = {d}]
      BY <2>3, <2>6
    <3> HIDE DEF u
    <3>7. /\ v \in World /\ v.grab = u.grab /\ v.lock = u.lock /\ v.screen = u.screen
          /\ v.seat = u.seat /\ v.history = u.history
          /\ v.claims.petitions = u.claims.petitions /\ v.claims.asked = u.claims.asked
          /\ v.claims.designations = u.claims.designations
      BY <2>4, <3>5, <3>6 DEF World, ClaimState
    <3>8. Shows(u, v) /\ raised(v) = raised(u)
      BY <3>7 DEF Shows, raised, Clear, in_view
    <3>9. CardInv(u) => CardInv(v)
      BY <3>7 DEF CardInv, ArmedAfterGuard, NothingHasty, AnsweredOnce
    <3>10. Quiet(w, v)
      BY <3>4, <3>7, <3>8, <3>9, QuietTransitive DEF Quiet
    <3>11. PetitionsWait(v) /\ PickersWait(v)
      BY <2>1, <3>1, <3>4, <3>5, <3>7, <3>8 DEF PetitionsWait, PickersWait, waiting
    <3> QED BY <2>1, <3>5, <3>7, <3>10, <3>11 DEF PickerStage, v
  <2> QED BY <2>5, <2>6
<1> QED BY <1>2, <1>3

LEMMA PickerRoundStage ==
    ASSUME NEW w \in World, now \in Nat, NEW ends, NEW opens
    PROVE  /\ PickerStage(w, picker_round(w, ends, opens))
           /\ raised(picker_round(w, ends, opens)) \subseteq raised(w) \/ reachable(w)
           /\ PickersWait(picker_round(w, ends, opens))
<1> DEFINE u == picker_lowered(w)
           t == picker_stepped(u, ends)
           v == picker_raised(t, opens)
<1>1. /\ u \in World /\ PickerStage(w, u) /\ raised(u) \subseteq raised(w) /\ PickersWait(u)
      /\ u.claims.picker \subseteq designated(u)
  BY PickerLoweredStage DEF PickerStage, Quiet
<1>2. v = picker_round(w, ends, opens)
  BY DEF picker_round
<1> HIDE DEF u
<1>3. t \in World /\ PickerStage(u, t) /\ raised(t) \subseteq raised(u) /\ PickersWait(t)
  BY <1>1, PickerSteppedStage DEF PickerStage, Quiet
<1> HIDE DEF t
<1>4. PickerStage(t, v) /\ (raised(v) \subseteq raised(t) \/ reachable(t)) /\ PickersWait(v)
  BY <1>3, PickerRaisedStage
<1> HIDE DEF v
<1>5. Quiet(w, v) /\ t.screen = w.screen
  BY <1>1, <1>3, <1>4, QuietTransitive DEF PickerStage
<1> QED BY <1>1, <1>2, <1>3, <1>4, <1>5 DEF PickerStage, reachable

LEMMA LockTickStage ==
    ASSUME NEW w \in World
    PROVE  /\ Quiet(w, lock_tick(w))
           /\ lock_tick(w).grab = w.grab
           /\ lock_tick(w).screen = w.screen
           /\ lock_tick(w).claims = w.claims
<1> DEFINE v == lock_tick(w)
           u == lock_raise(w)
<1>1. /\ u \in World /\ u.grab = w.grab /\ u.screen = w.screen /\ u.claims = w.claims
      /\ u.seat = w.seat /\ u.history = w.history /\ u.lock.locked /\ u.lock.carry = w.lock.carry
  BY LockRaiseEffect
<1>2. v = w \/ v = u
  BY Zenon DEF lock_tick
<1> HIDE DEF v, u
<1>3. Quiet(w, w)
  BY QuietReflexive
<1>4. Quiet(w, u)
  <2>1. Shows(w, u)
    BY <1>1 DEF Shows, Clear, in_view
  <2>2. CardInv(w) => CardInv(u)
    BY <1>1 DEF CardInv, ArmedAfterGuard, NothingHasty, AnsweredOnce
  <2> QED BY <1>1, <2>1, <2>2 DEF Quiet
<1> QED BY <1>1, <1>2, <1>3, <1>4 DEF v

LEMMA JournaledStage ==
    ASSUME NEW w \in World, now \in Nat
    PROVE  /\ Quiet(w, journaled(w))
           /\ journaled(w).screen = w.screen
           /\ raised(journaled(w)) = raised(w)
           /\ journaled(w).claims.petitions = w.claims.petitions
           /\ ~tells(w.lock.journal, "Locked") =>
                 journaled(w).claims.designations = w.claims.designations
<1> DEFINE none     == without(w.claims.designations, DOMAIN w.claims.designations)
           ended    == IF tells(w.lock.journal, "Locked")
                       THEN [w EXCEPT !.claims.designations = none, !.claims.picker = {}]
                       ELSE w
           restored == IF tells(w.lock.journal, "Unlocked")
                       THEN restart_guard(ended) ELSE ended
           seen     == <<>>
           v        == [restored EXCEPT !.lock.journal = seen]
<1>1. v = journaled(w)
  BY DEF journaled
<1>2. none \in Deadlines
  <2>1. w.claims.designations \in Deadlines
    BY DEF World, ClaimState
  <2> QED BY <2>1, WithoutType, Zenon
<1> HIDE DEF none
<1>3. /\ ended \in World /\ ended.grab = w.grab /\ ended.lock = w.lock /\ ended.screen = w.screen
      /\ ended.seat = w.seat /\ ended.history = w.history
      /\ ended.claims.petitions = w.claims.petitions /\ ended.claims.asked = w.claims.asked
      /\ ~tells(w.lock.journal, "Locked") =>
            ended.claims.designations = w.claims.designations
  <2>1. CASE tells(w.lock.journal, "Locked")
    <3> DEFINE y == [w EXCEPT !.claims.designations = none]
               x == [y EXCEPT !.claims.picker = {}]
    <3>1. ended = x
      BY <2>1
    <3>2. /\ y \in World /\ y.grab = w.grab /\ y.lock = w.lock /\ y.screen = w.screen
          /\ y.seat = w.seat /\ y.history = w.history
          /\ y.claims.petitions = w.claims.petitions /\ y.claims.asked = w.claims.asked
      BY <1>2 DEF World, ClaimState
    <3> HIDE DEF y
    <3>3. /\ x \in World /\ x.grab = y.grab /\ x.lock = y.lock /\ x.screen = y.screen
          /\ x.seat = y.seat /\ x.history = y.history
          /\ x.claims.petitions = y.claims.petitions /\ x.claims.asked = y.claims.asked
      BY <3>2 DEF World, ClaimState
    <3> HIDE DEF x, ended
    <3> QED BY <2>1, <3>1, <3>2, <3>3
  <2>2. CASE ~tells(w.lock.journal, "Locked")
    <3>1. ended = w
      BY <2>2
    <3> QED BY <3>1
  <2> QED BY <2>1, <2>2
<1> HIDE DEF ended
<1>4. Quiet(w, ended) /\ raised(ended) = raised(w)
  <2>1. Shows(w, ended) /\ raised(ended) = raised(w)
    BY <1>3 DEF Shows, raised, Clear, in_view
  <2>2. CardInv(w) => CardInv(ended)
    BY <1>3 DEF CardInv, ArmedAfterGuard, NothingHasty, AnsweredOnce
  <2> QED BY <1>3, <2>1, <2>2 DEF Quiet
<1>5. /\ restored \in World /\ restored.claims = ended.claims /\ restored.screen = ended.screen
      /\ restored.lock = ended.lock
      /\ Quiet(ended, restored) /\ raised(restored) = raised(ended)
      /\ tells(w.lock.journal, "Unlocked") => \A p \in restored.grab.prompt : p.raised_at = now
  <2>1. CASE tells(w.lock.journal, "Unlocked")
    <3>1. restored = restart_guard(ended)
      BY <2>1
    <3> HIDE DEF restored
    <3> QED BY <1>3, <3>1, RestartGuardEffect, QuietRestart
  <2>2. CASE ~tells(w.lock.journal, "Unlocked")
    <3>1. restored = ended
      BY <2>2
    <3> HIDE DEF restored
    <3> QED BY <1>3, <2>2, <3>1, QuietReflexive
  <2> QED BY <2>1, <2>2
<1>s. seen \in Seq({"Locked", "Unlocked"}) /\ ~tells(seen, "Unlocked")
  BY DEF tells
<1> HIDE DEF restored, seen
<1>6. /\ v \in World /\ v.grab = restored.grab /\ v.screen = restored.screen
      /\ v.claims = restored.claims /\ v.seat = restored.seat /\ v.history = restored.history
      /\ v.lock.carry = restored.lock.carry /\ v.lock.locked = restored.lock.locked
  <2>1. restored \in World /\ seen \in Seq({"Locked", "Unlocked"})
    BY <1>s, <1>5
  <2>2. v \in World
    BY <2>1, SMTT(15) DEF World, LockState
  <2> QED BY <2>1, <2>2 DEF World, LockState
<1> HIDE DEF v
<1>7. Shows(restored, v) /\ raised(v) = raised(restored)
  <2>1. CASE tells(w.lock.journal, "Unlocked")
    BY <1>5, <1>6, <2>1 DEF Shows, raised
  <2>2. CASE ~tells(w.lock.journal, "Unlocked")
    BY <1>3, <1>5, <1>6, <2>2 DEF Shows, raised, Clear, in_view
  <2> QED BY <2>1, <2>2
<1>8. CardInv(restored) => CardInv(v)
  BY <1>6 DEF CardInv, ArmedAfterGuard, NothingHasty, AnsweredOnce
<1>9. Quiet(w, v)
  <2>1. Quiet(restored, v)
    BY <1>6, <1>7, <1>8 DEF Quiet
  <2> QED BY <1>4, <1>5, <2>1, QuietTransitive
<1> QED BY <1>1, <1>3, <1>4, <1>5, <1>6, <1>7, <1>9

(* A stage that leaves all but the screen alone, and makes no card clear   *)
(* that was not.                                                           *)
LEMMA ScreenStage ==
    ASSUME NEW w \in World, NEW v \in World,
           v.grab = w.grab, v.lock = w.lock, v.claims = w.claims, v.seat = w.seat,
           v.history.shown = w.history.shown, v.history.answers = w.history.answers,
           v.history.touched = w.history.touched,
           v.screen.last = w.screen.last, v.screen.seat_absent = w.screen.seat_absent,
           v.screen.active = w.screen.active,
           w.grab.prompt # {} /\ Clear(v) => Clear(w)
    PROVE  Quiet(w, v) /\ raised(v) = raised(w)
<1>1. Shows(w, v) /\ raised(v) = raised(w)
  BY DEF Shows, raised
<1>2. CardInv(w) => CardInv(v)
  BY DEF CardInv, ArmedAfterGuard, NothingHasty, AnsweredOnce
<1> QED BY <1>1, <1>2 DEF Quiet

LEMMA BlankedStage ==
    ASSUME NEW w \in World, NEW inhibited
    PROVE  /\ blanked(w, inhibited) \in World
           /\ Quiet(w, blanked(w, inhibited))
           /\ raised(blanked(w, inhibited)) = raised(w)
<1> DEFINE v == blanked(w, inhibited)
           r == [w.screen EXCEPT !.phase = "Covering"]
           u == [w EXCEPT !.screen = r]
           s == [u.screen EXCEPT !.cover_queued = FALSE]
           t == [u EXCEPT !.screen = s]
<1>1. v = w \/ v = t
  BY Zenon DEF blanked
<1>2. /\ r \in ScreenState /\ r.phase = "Covering" /\ r.last = w.screen.last
      /\ r.seat_absent = w.screen.seat_absent /\ r.active = w.screen.active
  <2>1. w.screen \in ScreenState
    BY DEF World
  <2> QED BY <2>1 DEF ScreenState
<1> HIDE DEF r
<1>3. /\ u \in World /\ u.grab = w.grab /\ u.lock = w.lock /\ u.claims = w.claims
      /\ u.seat = w.seat /\ u.history = w.history /\ u.screen = r
  BY <1>2, WithScreen
<1> HIDE DEF u
<1>4. /\ s \in ScreenState /\ s.phase = u.screen.phase /\ s.last = u.screen.last
      /\ s.seat_absent = u.screen.seat_absent /\ s.active = u.screen.active
  <2>1. u.screen \in ScreenState
    BY <1>2, <1>3
  <2>2. ASSUME NEW x \in ScreenState
        PROVE  LET y == [x EXCEPT !.cover_queued = FALSE]
               IN  /\ y \in ScreenState /\ y.phase = x.phase /\ y.last = x.last
                   /\ y.seat_absent = x.seat_absent /\ y.active = x.active
    BY ZenonT(20) DEF ScreenState
  <2> QED BY <2>1, <2>2
<1> HIDE DEF s
<1>5. /\ t \in World /\ t.grab = u.grab /\ t.lock = u.lock /\ t.claims = u.claims
      /\ t.seat = u.seat /\ t.history = u.history /\ t.screen = s
  BY <1>3, <1>4, WithScreen
<1> HIDE DEF t, v
<1>6. ~Clear(t)
  BY <1>2, <1>3, <1>4, <1>5 DEF Clear, in_view
<1>7. Quiet(w, t) /\ raised(t) = raised(w)
  BY <1>2, <1>3, <1>4, <1>5, <1>6, ScreenStage
<1> QED BY <1>1, <1>5, <1>7, QuietReflexive DEF v

LEMMA GivenUpStage ==
    ASSUME NEW w \in World
    PROVE  /\ given_up(w) \in World
           /\ Quiet(w, given_up(w))
           /\ raised(given_up(w)) = raised(w)
<1> DEFINE v == given_up(w)
           u == force_lit(w)
           l == u.history.late \/ w.grab.prompt # {}
           h == [u.history EXCEPT !.late = l]
           t == [u EXCEPT !.history = h]
<1>1. v = w \/ v = t
  BY Zenon DEF given_up
<1>2. /\ u \in World /\ u.grab = w.grab /\ u.lock = w.lock /\ u.claims = w.claims
      /\ u.seat = w.seat /\ u.history = w.history
      /\ u.screen.last = w.screen.last /\ u.screen.seat_absent = w.screen.seat_absent
      /\ u.screen.active = w.screen.active
  BY ForceLitEffect
<1> HIDE DEF u
<1>3. l \in BOOLEAN /\ (w.grab.prompt # {} => l)
  OBVIOUS
<1> HIDE DEF l
<1>4. /\ h \in HistoryState /\ h.shown = w.history.shown /\ h.answers = w.history.answers
      /\ h.touched = w.history.touched /\ h.late = l
  <2>1. u.history \in HistoryState /\ u.history = w.history
    BY <1>2 DEF World
  <2> QED BY <1>3, <2>1 DEF HistoryState
<1> HIDE DEF h
<1>5. /\ t \in World /\ t.grab = u.grab /\ t.lock = u.lock /\ t.claims = u.claims
      /\ t.seat = u.seat /\ t.screen = u.screen /\ t.history = h
  BY <1>2, <1>4, WithHistory
<1> HIDE DEF t, v
<1>6. w.grab.prompt # {} => ~Clear(t)
  BY <1>3, <1>4, <1>5 DEF Clear
<1>7. Quiet(w, t) /\ raised(t) = raised(w)
  BY <1>2, <1>4, <1>5, <1>6, ScreenStage
<1> QED BY <1>1, <1>5, <1>7, QuietReflexive DEF v

LEMMA CoveredStage ==
    ASSUME NEW w \in World
    PROVE  /\ Quiet(w, covered(w))
           /\ raised(covered(w)) = raised(w)
           /\ covered(w).screen.phase \in {"Covering", "Dark"} => covered(w).screen.covering
<1> DEFINE up == w.screen.phase \in {"Covering", "Dark"}
           v  == [w EXCEPT !.screen.covering = up]
<1>1. covered(w) = v
  BY DEF covered
<1>2. up \in BOOLEAN /\ (up <=> w.screen.phase \in {"Covering", "Dark"})
  OBVIOUS
<1> HIDE DEF up
<1>3. /\ v \in World /\ v.grab = w.grab /\ v.lock = w.lock /\ v.claims = w.claims
      /\ v.seat = w.seat /\ v.history = w.history
      /\ v.screen.last = w.screen.last /\ v.screen.seat_absent = w.screen.seat_absent
      /\ v.screen.active = w.screen.active /\ v.screen.phase = w.screen.phase
      /\ v.screen.covering = up
  <2>1. v \in World
    BY <1>2 DEF World, ScreenState
  <2> QED BY <2>1 DEF World, ScreenState
<1> HIDE DEF v
<1>4. Clear(v) => Clear(w)
  BY <1>3 DEF Clear, in_view
<1>5. Quiet(w, v) /\ raised(v) = raised(w)
  BY <1>3, <1>4, ScreenStage
<1> QED BY <1>1, <1>2, <1>3, <1>5

LEMMA ScreenRoundStage ==
    ASSUME NEW w \in World, now \in Nat, NEW resumed, NEW inhibited
    PROVE  /\ Quiet(w, screen_round(w, resumed, inhibited))
           /\ raised(screen_round(w, resumed, inhibited)) = raised(w)
           /\ screen_round(w, resumed, inhibited).screen.phase \in {"Covering", "Dark"} =>
                 screen_round(w, resumed, inhibited).screen.covering
<1> DEFINE a == IF resumed THEN restart_guard(w) ELSE w
           b == blanked(a, inhibited)
           c == given_up(b)
<1>1. screen_round(w, resumed, inhibited) = covered(c)
  BY DEF screen_round
<1>2. Quiet(w, a) /\ raised(a) = raised(w)
  <2>1. Quiet(w, restart_guard(w)) /\ raised(restart_guard(w)) = raised(w)
    BY QuietRestart
  <2>2. Quiet(w, w)
    BY QuietReflexive
  <2> QED BY <2>1, <2>2
<1> HIDE DEF a
<1>3. b \in World /\ Quiet(a, b) /\ raised(b) = raised(a)
  BY <1>2, BlankedStage DEF Quiet
<1> HIDE DEF b
<1>4. c \in World /\ Quiet(b, c) /\ raised(c) = raised(b)
  BY <1>3, GivenUpStage
<1> HIDE DEF c
<1>5. /\ Quiet(c, covered(c)) /\ raised(covered(c)) = raised(c)
      /\ covered(c).screen.phase \in {"Covering", "Dark"} => covered(c).screen.covering
  BY <1>4, CoveredStage
<1>6. Quiet(w, covered(c))
  BY <1>2, <1>3, <1>4, <1>5, QuietTransitive
<1> QED BY <1>1, <1>2, <1>3, <1>4, <1>5, <1>6

-----------------------------------------------------------------------------
(* A step takes the world to w, and dates the appearance of the card.      *)

LEMMA BecomesFields ==
    ASSUME NEW w \in World, now \in Nat, becomes(w), now' = now,
           w.history.shown = history.shown
    PROVE  /\ world' \in World
           /\ grab' = w.grab /\ lock' = w.lock /\ screen' = w.screen /\ claims' = w.claims
           /\ seat' = w.seat
           /\ history'.answers = w.history.answers /\ history'.late = w.history.late
           /\ history'.touched = w.history.touched
           /\ history'.shown = IF ~in_view(w) THEN {}
                               ELSE IF in_view(world) /\ raised(w) = raised(world)
                               THEN history.shown ELSE {now}
<1> DEFINE since == IF ~in_view(w) THEN {}
                    ELSE IF in_view(world) /\ raised(w) = raised(world)
                    THEN history.shown ELSE {now}
<1>1. /\ w.grab \in GrabState /\ w.lock \in LockState /\ w.screen \in ScreenState
      /\ w.claims \in ClaimState /\ w.seat \in SeatState /\ w.history \in HistoryState
  BY DEF World
<1>2. /\ grab' = w.grab /\ lock' = w.lock /\ screen' = w.screen /\ claims' = w.claims
      /\ seat' = w.seat /\ history' = [w.history EXCEPT !.shown = since]
  BY DEF becomes
<1>3. w.history.shown \in SUBSET Nat
  BY <1>1 DEF HistoryState
<1>4. since \in SUBSET Nat
  BY <1>3
<1> HIDE DEF since
<1>5. \A h \in HistoryState : /\ [h EXCEPT !.shown = since] \in HistoryState
                              /\ [h EXCEPT !.shown = since].shown = since
                              /\ [h EXCEPT !.shown = since].answers = h.answers
                              /\ [h EXCEPT !.shown = since].late = h.late
                              /\ [h EXCEPT !.shown = since].touched = h.touched
  BY <1>4 DEF HistoryState
<1>6. /\ history' \in HistoryState /\ history'.shown = since
      /\ history'.answers = w.history.answers /\ history'.late = w.history.late
      /\ history'.touched = w.history.touched
  BY <1>1, <1>2, <1>5
<1>7. world' \in World
  BY <1>1, <1>2, <1>6 DEF world, World
<1> QED BY <1>2, <1>6, <1>7 DEF since

LEMMA BecomesKeepsTheCard ==
    ASSUME NEW w \in World, now \in Nat, world \in World, GuardInv, becomes(w), now' = now,
           w.history.shown = history.shown, Shows(world, w), CardInv(w)
    PROVE  CardInv(world)' /\ GuardInv'
<1> DEFINE v == world'
<1>1. /\ v \in World /\ v.grab = w.grab /\ v.lock = w.lock /\ v.screen = w.screen
      /\ v.claims = w.claims /\ v.seat = w.seat
      /\ v.history.answers = w.history.answers /\ v.history.late = w.history.late
      /\ v.history.shown = IF ~in_view(w) THEN {}
                           ELSE IF in_view(world) /\ raised(w) = raised(world)
                           THEN history.shown ELSE {now}
  BY BecomesFields DEF world
<1>2. v = world' /\ grab' = v.grab /\ history' = v.history
  BY DEF world
<1> HIDE DEF v
<1>3. CardInv(v)
  BY <1>1 DEF CardInv, ArmedAfterGuard, NothingHasty, AnsweredOnce
<1>4. in_view(v) <=> in_view(w)
  BY <1>1 DEF in_view
<1>5. Clear(v) <=> Clear(w)
  BY <1>1, <1>4 DEF Clear
<1>6. history.shown \subseteq Nat /\ \A s \in history.shown : s <= now
  BY DEF GuardInv, World, HistoryState, world
<1>7. \A s \in v.history.shown : s <= now
  BY <1>1, <1>6
<1>8. in_view(v) => v.history.shown # {}
  BY <1>1, <1>4 DEF GuardInv
<1>9. ASSUME Clear(v), NEW p \in v.grab.prompt, NEW s \in v.history.shown
      PROVE  p.raised_at >= s
  <2>1. p \in w.grab.prompt /\ in_view(w) /\ Clear(w)
    BY <1>1, <1>4, <1>5, <1>9 DEF Clear
  <2>2. CASE p.raised_at = now
    BY <1>1, <1>6, <2>2
  <2>3. ASSUME NEW q \in grab.prompt, q.subject = p.subject, q.raised_at = p.raised_at, Clear(world)
        PROVE  p.raised_at >= s
    <3>1. world.grab = grab /\ world.history = history
      BY DEF world
    <3>2. raised(world) = {q.subject} /\ raised(w) = {p.subject}
      BY <2>1, <2>3, <3>1, OneCard DEF raised
    <3>3. s \in history.shown
      BY <1>1, <1>9, <2>1, <2>3, <3>2 DEF Clear
    <3> QED BY <2>3, <3>3 DEF GuardInv
  <2>4. world.grab.prompt = grab.prompt
    BY DEF world
  <2> QED BY <2>1, <2>2, <2>3, <2>4 DEF Shows
<1>10. GuardInv'
  BY <1>2, <1>7, <1>8, <1>9 DEF GuardInv
<1> QED BY <1>2, <1>3, <1>10

Covered(w) == w.screen.phase \in {"Covering", "Dark"} => w.screen.covering

LEMMA QuietStep ==
    ASSUME ScreenInv, NEW w, Quiet(world, w), Covered(w), becomes(w), now' = now
    PROVE  ScreenInv'
<1>1. now \in Nat /\ world \in World /\ w \in World
  BY DEF ScreenInv, Quiet
<1>2. /\ w.seat = seat /\ w.history.shown = history.shown
      /\ w.history.touched = history.touched /\ w.lock.carry = lock.carry
      /\ w.screen.last = screen.last /\ w.screen.seat_absent = screen.seat_absent
      /\ w.screen.active = screen.active
  BY DEF Quiet, world
<1>3. Shows(world, w) /\ CardInv(w)
  BY DEF Quiet, ScreenInv
<1>4. CardInv(world)' /\ GuardInv'
  BY <1>1, <1>2, <1>3, BecomesKeepsTheCard DEF ScreenInv
<1>5. /\ world' \in World /\ lock' = w.lock /\ screen' = w.screen /\ seat' = w.seat
      /\ history'.touched = w.history.touched
  BY <1>1, <1>2, BecomesFields
<1>6. CoverInv'
  BY <1>5 DEF CoverInv, Covered
<1>7. IdleInv'
  BY <1>2, <1>5 DEF IdleInv, ScreenInv
<1>8. NoLatchedButton'
  BY <1>2, <1>5 DEF NoLatchedButton, ScreenInv
<1> QED BY <1>1, <1>4, <1>5, <1>6, <1>7, <1>8 DEF ScreenInv

(* The whole post-dispatch round.                                          *)
LEMMA RoundStep ==
    ASSUME ScreenInv, post_dispatch
    PROVE  /\ ScreenInv'
           /\ raised(world)' \subseteq raised(world) \/ reachable(world)
<1>1. now \in Nat /\ world \in World
  BY DEF ScreenInv
<1>2. PICK asked, picked, barred, done :
        /\ asked = consent_round(world)
        /\ \E e, o : picked = picker_round(asked, e, o)
        /\ barred = lock_round(picked)
        /\ \E r, i : done = screen_round(barred, r, i)
        /\ becomes(done)
        /\ now' = now
  BY DEF post_dispatch
<1>3. /\ asked \in World /\ Quiet(world, asked) /\ asked.screen = world.screen
      /\ raised(asked) \subseteq raised(world) \/ reachable(world)
  BY <1>1, <1>2, ConsentRoundStage DEF Quiet
<1>4. /\ picked \in World /\ Quiet(asked, picked)
      /\ raised(picked) \subseteq raised(asked) \/ reachable(asked)
  BY <1>1, <1>2, <1>3, PickerRoundStage DEF PickerStage, Quiet
<1>5. barred \in World /\ Quiet(picked, barred) /\ raised(barred) = raised(picked)
  <2> DEFINE ticked == lock_tick(picked)
  <2>1. ticked \in World /\ Quiet(picked, ticked) /\ raised(ticked) = raised(picked)
    BY <1>4, LockTickStage DEF raised, Quiet
  <2>2. barred = journaled(ticked)
    BY <1>2 DEF lock_round
  <2> HIDE DEF ticked
  <2>3. barred \in World /\ Quiet(ticked, barred) /\ raised(barred) = raised(ticked)
    BY <1>1, <2>1, <2>2, JournaledStage DEF Quiet
  <2> QED BY <2>1, <2>3, QuietTransitive
<1>6. Quiet(barred, done) /\ raised(done) = raised(barred) /\ Covered(done)
  BY <1>1, <1>2, <1>5, ScreenRoundStage DEF Covered
<1>7. Quiet(world, done)
  BY <1>3, <1>4, <1>5, <1>6, QuietTransitive
<1>8. ScreenInv'
  BY <1>2, <1>6, <1>7, QuietStep
<1>9. raised(world)' = raised(done)
  BY <1>2 DEF becomes, raised, world
<1>10. reachable(asked) => reachable(world)
  BY <1>3 DEF reachable
<1> QED BY <1>3, <1>4, <1>5, <1>6, <1>8, <1>9, <1>10

-----------------------------------------------------------------------------
(* Frames.                                                                 *)

LEMMA FlagStage ==
    ASSUME NEW w \in World, NEW s \in ScreenState,
           s.phase = w.screen.phase, s.last = w.screen.last,
           s.seat_absent = w.screen.seat_absent, s.active = w.screen.active,
           s.covering = w.screen.covering
    PROVE  LET v == [w EXCEPT !.screen = s]
           IN  /\ v \in World /\ v.screen = s
               /\ Quiet(w, v) /\ raised(v) = raised(w) /\ (Covered(w) => Covered(v))
<1> DEFINE v == [w EXCEPT !.screen = s]
<1>1. /\ v \in World /\ v.screen = s /\ v.grab = w.grab /\ v.lock = w.lock
      /\ v.claims = w.claims /\ v.seat = w.seat /\ v.history = w.history
  BY WithScreen
<1> HIDE DEF v
<1>2. Clear(v) => Clear(w)
  BY <1>1 DEF Clear, in_view
<1>3. Quiet(w, v) /\ raised(v) = raised(w)
  BY <1>1, <1>2, ScreenStage
<1>4. Covered(w) => Covered(v)
  BY <1>1 DEF Covered
<1> QED BY <1>1, <1>3, <1>4 DEF v

LEMMA ScreenFlags ==
    ASSUME NEW s \in ScreenState, NEW b \in BOOLEAN
    PROVE  /\ LET x == [s EXCEPT !.flip_pending = b]
              IN  /\ x \in ScreenState /\ x.phase = s.phase /\ x.last = s.last
                  /\ x.seat_absent = s.seat_absent /\ x.active = s.active /\ x.covering = s.covering
           /\ LET x == [s EXCEPT !.cover_queued = b]
              IN  /\ x \in ScreenState /\ x.phase = s.phase /\ x.last = s.last
                  /\ x.seat_absent = s.seat_absent /\ x.active = s.active /\ x.covering = s.covering
<1> DEFINE x == [s EXCEPT !.flip_pending = b]
           y == [s EXCEPT !.cover_queued = b]
<1>1. x \in ScreenState /\ y \in ScreenState
  BY DEF ScreenState
<1>2. /\ x.phase = s.phase /\ x.last = s.last
      /\ x.seat_absent = s.seat_absent /\ x.active = s.active /\ x.covering = s.covering
  BY <1>1, ZenonT(20) DEF ScreenState
<1>3. /\ y.phase = s.phase /\ y.last = s.last
      /\ y.seat_absent = s.seat_absent /\ y.active = s.active /\ y.covering = s.covering
  BY <1>1, ZenonT(20) DEF ScreenState
<1> QED BY <1>1, <1>2, <1>3

(* DrmView::service_present queues a frame.                                *)
LEMMA QueuedStage ==
    ASSUME NEW w \in World
    PROVE  /\ Quiet(w, queued(w)) /\ raised(queued(w)) = raised(w)
           /\ Covered(w) => Covered(queued(w))
<1> DEFINE r == [w.screen EXCEPT !.flip_pending = TRUE]
           u == [w EXCEPT !.screen = r]
           b == u.screen.cover_queued \/ w.screen.phase = "Covering"
           s == [u.screen EXCEPT !.cover_queued = b]
           v == [u EXCEPT !.screen = s]
<1>1. queued(w) = v
  BY Zenon DEF queued
<1>2. w.screen \in ScreenState
  BY DEF World
<1>3. /\ r \in ScreenState /\ r.phase = w.screen.phase /\ r.last = w.screen.last
      /\ r.seat_absent = w.screen.seat_absent /\ r.active = w.screen.active
      /\ r.covering = w.screen.covering
  BY <1>2, ScreenFlags, Zenon
<1> HIDE DEF r
<1>4. /\ u \in World /\ u.screen = r /\ Quiet(w, u) /\ raised(u) = raised(w)
      /\ Covered(w) => Covered(u)
  BY <1>3, FlagStage
<1> HIDE DEF u
<1>5. b \in BOOLEAN
  OBVIOUS
<1> HIDE DEF b
<1>6. u.screen \in ScreenState
  BY <1>3, <1>4
<1>7. /\ s \in ScreenState /\ s.phase = u.screen.phase /\ s.last = u.screen.last
      /\ s.seat_absent = u.screen.seat_absent /\ s.active = u.screen.active
      /\ s.covering = u.screen.covering
  BY <1>5, <1>6, ScreenFlags, Zenon
<1> HIDE DEF s
<1>8. Quiet(u, v) /\ raised(v) = raised(u) /\ (Covered(u) => Covered(v))
  BY <1>4, <1>7, FlagStage
<1> HIDE DEF v
<1> QED BY <1>1, <1>4, <1>8, QuietTransitive

(* A flip completes: the panel goes dark under the cover, or a wake ends   *)
(* and the guard of the card restarts.                                     *)
LEMMA ScreenPowerStage ==
    ASSUME NEW w \in World, now \in Nat
    PROVE  /\ Quiet(w, service_screen_power(w))
           /\ raised(service_screen_power(w)) = raised(w)
           /\ Covered(w) => Covered(service_screen_power(w))
<1> DEFINE v == service_screen_power(w)
           s == [w.screen EXCEPT !.phase = "Dark"]
           t == [w EXCEPT !.screen = s]
           u == force_lit(w)
<1>1. \/ v = t /\ w.screen.phase = "Covering"
      \/ v = restart_guard(u)
      \/ v = w
  BY Zenon DEF service_screen_power
<1>2. ASSUME w.screen.phase = "Covering"
      PROVE  Quiet(w, t) /\ raised(t) = raised(w) /\ (Covered(w) => Covered(t))
  <2>1. \A x \in ScreenState :
           LET y == [x EXCEPT !.phase = "Dark"]
           IN  /\ y \in ScreenState /\ y.phase = "Dark" /\ y.last = x.last
               /\ y.seat_absent = x.seat_absent /\ y.active = x.active /\ y.covering = x.covering
    BY ZenonT(20) DEF ScreenState
  <2>2. w.screen \in ScreenState
    BY DEF World
  <2>3. /\ s \in ScreenState /\ s.phase = "Dark" /\ s.last = w.screen.last
        /\ s.seat_absent = w.screen.seat_absent /\ s.active = w.screen.active
        /\ s.covering = w.screen.covering
    BY <2>1, <2>2
  <2> HIDE DEF s
  <2>4. /\ t \in World /\ t.grab = w.grab /\ t.lock = w.lock /\ t.claims = w.claims
        /\ t.seat = w.seat /\ t.history = w.history /\ t.screen = s
    BY <2>3, WithScreen
  <2> HIDE DEF t
  <2>5. ~Clear(t)
    BY <2>3, <2>4 DEF Clear, in_view
  <2>6. Quiet(w, t) /\ raised(t) = raised(w)
    BY <2>3, <2>4, <2>5, ScreenStage
  <2>7. Covered(w) => Covered(t)
    BY <1>2, <2>3, <2>4 DEF Covered
  <2> QED BY <2>6, <2>7
<1>3. /\ Quiet(w, restart_guard(u)) /\ raised(restart_guard(u)) = raised(w)
      /\ Covered(restart_guard(u))
  <2> DEFINE x == restart_guard(u)
  <2>1. /\ u \in World /\ u.grab = w.grab /\ u.lock = w.lock /\ u.claims = w.claims
        /\ u.seat = w.seat /\ u.history = w.history /\ u.screen.phase = "Lit"
        /\ u.screen.last = w.screen.last /\ u.screen.seat_absent = w.screen.seat_absent
        /\ u.screen.active = w.screen.active
    BY ForceLitEffect
  <2> HIDE DEF u
  <2>2. Quiet(u, x) /\ raised(x) = raised(u) /\ \A p \in x.grab.prompt : p.raised_at = now
    BY <2>1, QuietRestart
  <2>3. x.screen = u.screen
    BY <2>1, RestartGuardEffect
  <2> HIDE DEF x
  <2>4. CardInv(w) => CardInv(u)
    BY <2>1 DEF CardInv, ArmedAfterGuard, NothingHasty, AnsweredOnce
  <2>5. Shows(w, x)
    BY <2>2 DEF Shows
  <2>6. Quiet(w, x)
    BY <2>1, <2>2, <2>4, <2>5 DEF Quiet
  <2>7. Covered(x) /\ raised(u) = raised(w)
    BY <2>1, <2>3 DEF Covered, raised
  <2> QED BY <2>2, <2>6, <2>7 DEF x
<1> HIDE DEF v, t, u
<1> QED BY <1>1, <1>2, <1>3, QuietReflexive DEF v

LEMMA PresentStep ==
    ASSUME ScreenInv, service_present
    PROVE  ScreenInv' /\ raised(world)' = raised(world)
<1>1. world \in World /\ Covered(world)
  BY DEF ScreenInv, CoverInv, Covered, world
<1>2. becomes(queued(world)) /\ now' = now
  BY DEF service_present
<1>3. /\ Quiet(world, queued(world)) /\ raised(queued(world)) = raised(world)
      /\ Covered(queued(world))
  BY <1>1, QueuedStage
<1>4. raised(world)' = raised(queued(world))
  BY <1>2 DEF becomes, raised, world
<1> QED BY <1>2, <1>3, <1>4, QuietStep

LEMMA VblankStep ==
    ASSUME ScreenInv, NEW wanted \in BOOLEAN, on_vblank(wanted)
    PROVE  ScreenInv' /\ raised(world)' = raised(world)
<1> DEFINE s    == [world.screen EXCEPT !.flip_pending = FALSE]
           seen == [world EXCEPT !.screen = s]
           done == service_screen_power(seen)
           w    == IF wanted /\ queueable(done.screen) THEN queued(done) ELSE done
<1>1. now \in Nat /\ world \in World /\ Covered(world)
  BY DEF ScreenInv, CoverInv, Covered, world
<1>2. becomes(w) /\ now' = now
  BY DEF on_vblank
<1>3. world.screen \in ScreenState
  BY <1>1 DEF World
<1>4. /\ s \in ScreenState /\ s.phase = world.screen.phase /\ s.last = world.screen.last
      /\ s.seat_absent = world.screen.seat_absent /\ s.active = world.screen.active
      /\ s.covering = world.screen.covering
  BY <1>3, ScreenFlags, Zenon
<1> HIDE DEF s
<1>5. seen \in World /\ Quiet(world, seen) /\ raised(seen) = raised(world) /\ Covered(seen)
  BY <1>1, <1>4, FlagStage
<1> HIDE DEF seen
<1>6. done \in World /\ Quiet(seen, done) /\ raised(done) = raised(seen) /\ Covered(done)
  BY <1>1, <1>5, ScreenPowerStage DEF Quiet
<1> HIDE DEF done
<1>7. Quiet(done, w) /\ raised(w) = raised(done) /\ Covered(w)
  BY <1>6, QueuedStage, QuietReflexive
<1> HIDE DEF w
<1>8. Quiet(world, w)
  BY <1>5, <1>6, <1>7, QuietTransitive
<1>9. raised(world)' = raised(w)
  BY <1>2 DEF becomes, raised, world
<1> QED BY <1>2, <1>5, <1>6, <1>7, <1>8, <1>9, QuietStep

=============================================================================
