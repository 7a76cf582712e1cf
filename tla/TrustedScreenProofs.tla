------------------------- MODULE TrustedScreenProofs -------------------------
(***************************************************************************)
(* The safety properties of TrustedScreen, for every value of its          *)
(* constants: the steps of petitioners, of the clock, of the session and   *)
(* of the human's hand keep the invariant of TrustedScreenRounds, and the  *)
(* properties follow from it.                                              *)
(***************************************************************************)
EXTENDS TrustedScreenRounds

-----------------------------------------------------------------------------
(* Claims come and go.                                                     *)

LEMMA ClaimStep ==
    ASSUME ScreenInv, NEW c \in ClaimState, c.asked >= claims.asked,
           \A x \in DOMAIN c.petitions : /\ x <= c.asked
                                         /\ x \in DOMAIN claims.petitions \/ x > claims.asked,
           becomes([world EXCEPT !.claims = c]), now' = now
    PROVE  ScreenInv' /\ raised(world)' = raised(world)
<1> DEFINE w == [world EXCEPT !.claims = c]
<1>1. world \in World /\ Covered(world) /\ world.claims = claims
  BY DEF ScreenInv, CoverInv, Covered, world
<1>2. /\ w \in World /\ w.claims = c /\ w.grab = world.grab /\ w.lock = world.lock
      /\ w.screen = world.screen /\ w.seat = world.seat /\ w.history = world.history
  BY <1>1, WithClaims
<1>3. becomes(w)
  OBVIOUS
<1> HIDE DEF w
<1>4. Clear(w) => Clear(world)
  BY <1>2 DEF Clear, in_view
<1>5. Quiet(world, w)
  BY <1>1, <1>2, <1>4, QuietUntouched
<1>6. Covered(w)
  BY <1>1, <1>2 DEF Covered
<1>7. raised(world)' = raised(world)
  BY <1>2, <1>3 DEF becomes, raised, world
<1> QED BY <1>3, <1>5, <1>6, <1>7, QuietStep

LEMMA ExtendedDeadlines ==
    ASSUME NEW f \in Deadlines, NEW id \in Nat, NEW t \in Nat
    PROVE  /\ added(f, id, t) \in Deadlines
           /\ DOMAIN added(f, id, t) = DOMAIN f \cup {id}
<1>1. PICK ids \in SUBSET Nat : f \in [ids -> Nat]
  BY DEF Deadlines
<1>2. added(f, id, t) \in [ids \cup {id} -> Nat]
  BY <1>1 DEF added
<1> QED BY <1>1, <1>2 DEF Deadlines

LEMMA PetitionStep ==
    ASSUME ScreenInv, petition
    PROVE  ScreenInv' /\ raised(world)' = raised(world)
<1> DEFINE id == claims.asked + 1
           a  == [claims EXCEPT !.asked = id]
           f  == added(claims.petitions, id, now + ConsentTimeout)
           c  == [a EXCEPT !.petitions = f]
<1>1. now \in Nat /\ claims \in ClaimState /\ now + ConsentTimeout \in Nat
  BY ScreenAssumption DEF ScreenInv, World, world
<1>2. id \in Nat /\ claims.petitions \in Deadlines /\ claims.asked \in Nat
  BY <1>1 DEF ClaimState
<1>3. f \in Deadlines /\ DOMAIN f = DOMAIN claims.petitions \cup {id}
  BY <1>1, <1>2, ExtendedDeadlines, Zenon
<1>4. /\ c \in ClaimState /\ c.asked = id /\ c.petitions = f
  <2> HIDE DEF id, f
  <2> QED BY <1>1, <1>2, <1>3, Zenon DEF ClaimState
<1>5. becomes([world EXCEPT !.claims = c]) /\ now' = now
  <2>1. [world EXCEPT !.claims.asked = id,
                      !.claims.petitions = added(@, id, now + ConsentTimeout)]
           = [world EXCEPT !.claims = c]
    BY <1>1, Zenon DEF world, ClaimState
  <2>2. becomes([world EXCEPT !.claims.asked = id,
                              !.claims.petitions = added(@, id, now + ConsentTimeout)])
        /\ now' = now
    BY DEF petition
  <2> QED BY <2>1, <2>2
<1>6. \A x \in DOMAIN claims.petitions : x \in Nat /\ x <= claims.asked
  <2>1. \A x \in DOMAIN claims.petitions : x <= claims.asked
    BY DEF ScreenInv, CardInv, AnsweredOnce, world
  <2> QED BY <1>2, <2>1, DeadlineTypes
<1>7. c.asked >= claims.asked
  BY <1>2, <1>4
<1>8. \A x \in DOMAIN c.petitions : /\ x <= c.asked
                                    /\ x \in DOMAIN claims.petitions \/ x > claims.asked
  BY <1>2, <1>3, <1>4, <1>6
<1> HIDE DEF c
<1> QED BY <1>4, <1>5, <1>7, <1>8, ClaimStep

(* Fewer petitions, other designations, the same counters.                 *)
LEMMA FewerPetitions ==
    ASSUME ScreenInv, NEW c \in ClaimState, c.asked = claims.asked,
           DOMAIN c.petitions \subseteq DOMAIN claims.petitions,
           becomes([world EXCEPT !.claims = c]), now' = now
    PROVE  ScreenInv' /\ raised(world)' = raised(world)
<1>1. claims.asked \in Nat /\ \A x \in DOMAIN claims.petitions : x <= claims.asked
  BY DEF ScreenInv, CardInv, AnsweredOnce, world, World, ClaimState
<1> QED BY <1>1, ClaimStep

LEMMA DesignateStep ==
    ASSUME ScreenInv, designate
    PROVE  ScreenInv' /\ raised(world)' = raised(world)
<1> DEFINE id == claims.designated + 1
           a  == [claims EXCEPT !.designated = id]
           f  == added(claims.designations, id, now + PickerDeadline)
           c  == [a EXCEPT !.designations = f]
<1>1. now \in Nat /\ claims \in ClaimState /\ now + PickerDeadline \in Nat
  BY ScreenAssumption DEF ScreenInv, World, world
<1>2. id \in Nat /\ claims.designations \in Deadlines
  BY <1>1 DEF ClaimState
<1>3. f \in Deadlines
  BY <1>1, <1>2, ExtendedDeadlines, Zenon
<1>4. /\ c \in ClaimState /\ c.asked = claims.asked /\ c.petitions = claims.petitions
  <2> HIDE DEF id, f
  <2> QED BY <1>1, <1>2, <1>3, Zenon DEF ClaimState
<1>5. becomes([world EXCEPT !.claims = c]) /\ now' = now
  <2>1. [world EXCEPT !.claims.designated = id,
                      !.claims.designations = added(@, id, now + PickerDeadline)]
           = [world EXCEPT !.claims = c]
    BY <1>1, Zenon DEF world, ClaimState
  <2>2. becomes([world EXCEPT !.claims.designated = id,
                              !.claims.designations = added(@, id, now + PickerDeadline)])
        /\ now' = now
    BY DEF designate
  <2> QED BY <2>1, <2>2
<1> HIDE DEF c
<1> QED BY <1>4, <1>5, FewerPetitions

LEMMA SweepStep ==
    ASSUME ScreenInv, sweep_at
    PROVE  ScreenInv' /\ raised(world)' = raised(world)
<1> DEFINE f == without(claims.petitions, due(claims.petitions))
           g == without(claims.designations, due(claims.designations))
           a == [claims EXCEPT !.petitions = f]
           c == [a EXCEPT !.designations = g]
<1>1. claims \in ClaimState
  BY DEF ScreenInv, World, world
<1>2. claims.petitions \in Deadlines /\ claims.designations \in Deadlines
  BY <1>1 DEF ClaimState
<1>3. f \in Deadlines /\ DOMAIN f \subseteq DOMAIN claims.petitions /\ g \in Deadlines
  <2>1. f \in Deadlines /\ DOMAIN f = DOMAIN claims.petitions \ due(claims.petitions)
    BY <1>2, WithoutType, Zenon
  <2>2. g \in Deadlines
    BY <1>2, WithoutType, Zenon
  <2> QED BY <2>1, <2>2
<1>4. becomes([world EXCEPT !.claims = c]) /\ now' = now
  <2>1. [world EXCEPT !.claims.petitions = without(@, due(@)),
                      !.claims.designations = without(@, due(@))]
           = [world EXCEPT !.claims = c]
    BY <1>1, Zenon DEF world, ClaimState
  <2>2. becomes([world EXCEPT !.claims.petitions = without(@, due(@)),
                              !.claims.designations = without(@, due(@))])
        /\ now' = now
    BY DEF sweep_at
  <2> QED BY <2>1, <2>2
<1> HIDE DEF f, g
<1>5. c \in ClaimState /\ c.asked = claims.asked /\ c.petitions = f
  BY <1>1, <1>3, Zenon DEF ClaimState
<1> HIDE DEF c
<1> QED BY <1>3, <1>4, <1>5, FewerPetitions

LEMMA WithdrawStep ==
    ASSUME ScreenInv, withdraw
    PROVE  ScreenInv' /\ raised(world)' = raised(world)
<1>1. /\ claims \in ClaimState /\ claims.petitions \in Deadlines
      /\ claims.designations \in Deadlines /\ world.claims = claims
  BY DEF ScreenInv, World, world, ClaimState
<1>2. ASSUME NEW p, becomes([world EXCEPT !.claims.petitions = without(@, {p})]), now' = now
      PROVE  ScreenInv' /\ raised(world)' = raised(world)
  <2> DEFINE f == without(claims.petitions, {p})
             c == [claims EXCEPT !.petitions = f]
  <2>1. f \in Deadlines /\ DOMAIN f = DOMAIN claims.petitions \ {p}
    BY <1>1, WithoutType, Zenon
  <2>2. becomes([world EXCEPT !.claims = c])
    BY <1>1, <1>2
  <2> HIDE DEF f
  <2>3. c \in ClaimState /\ c.asked = claims.asked /\ c.petitions = f
    BY <1>1, <2>1 DEF ClaimState
  <2>4. DOMAIN c.petitions \subseteq DOMAIN claims.petitions
    BY <2>1, <2>3
  <2> HIDE DEF c
  <2> QED BY <1>2, <2>2, <2>3, <2>4, FewerPetitions
<1>3. ASSUME NEW d, becomes([world EXCEPT !.claims.designations = without(@, {d})]), now' = now
      PROVE  ScreenInv' /\ raised(world)' = raised(world)
  <2> DEFINE f == without(claims.designations, {d})
             c == [claims EXCEPT !.designations = f]
  <2>1. f \in Deadlines
    BY <1>1, WithoutType, Zenon
  <2>2. becomes([world EXCEPT !.claims = c])
    BY <1>1, <1>3
  <2> HIDE DEF f
  <2>3. c \in ClaimState /\ c.asked = claims.asked /\ c.petitions = claims.petitions
    BY <1>1, <2>1 DEF ClaimState
  <2> HIDE DEF c
  <2> QED BY <1>3, <2>2, <2>3, FewerPetitions
<1> QED BY <1>2, <1>3, Zenon DEF withdraw

LEMMA TimeStep ==
    ASSUME ScreenInv, time_passes
    PROVE  ScreenInv' /\ raised(world)' = raised(world)
<1>1. /\ now \in Nat /\ now' = now + 1 /\ world' = world
      /\ grab' = grab /\ screen' = screen /\ history' = history /\ lock' = lock /\ seat' = seat
  BY DEF ScreenInv, time_passes, world
<1>2. world' \in World /\ CardInv(world)' /\ raised(world)' = raised(world)
  BY <1>1 DEF ScreenInv, CardInv, ArmedAfterGuard, NothingHasty, AnsweredOnce, raised, world
<1>3. GuardInv'
  <2>1. history.shown \subseteq Nat
    BY DEF ScreenInv, World, HistoryState, world
  <2>2. (in_view(world)' <=> in_view(world)) /\ (Clear(world)' <=> Clear(world))
    BY <1>1 DEF in_view, Clear, world
  <2> QED BY <1>1, <2>1, <2>2 DEF ScreenInv, GuardInv
<1>4. CoverInv' /\ NoLatchedButton'
  BY <1>1 DEF ScreenInv, CoverInv, NoLatchedButton
<1>5. IdleInv'
  <2>1. screen.last \in Nat
    BY DEF ScreenInv, World, ScreenState, world
  <2> QED BY <1>1, <2>1 DEF ScreenInv, IdleInv
<1> QED BY <1>1, <1>2, <1>3, <1>4, <1>5 DEF ScreenInv

-----------------------------------------------------------------------------
(* The seat leaves and comes back.                                         *)

LEMMA BusyEffect ==
    ASSUME NEW w \in World
    PROVE  /\ busy(w) \in World
           /\ busy(w).grab = w.grab /\ busy(w).lock = w.lock /\ busy(w).screen = w.screen
           /\ busy(w).claims = w.claims /\ busy(w).seat = w.seat
           /\ busy(w).history.shown = w.history.shown
           /\ busy(w).history.answers = w.history.answers
           /\ busy(w).history.late = w.history.late
           /\ busy(w).history.touched = w.history.touched
<1> DEFINE h == [w.history EXCEPT !.inputs = @ + 1]
<1>1. w.history \in HistoryState
  BY DEF World
<1>2. /\ h \in HistoryState /\ h.shown = w.history.shown /\ h.answers = w.history.answers
      /\ h.late = w.history.late /\ h.touched = w.history.touched
  BY <1>1 DEF HistoryState
<1>3. busy(w) = [w EXCEPT !.history = h]
  BY DEF busy
<1> HIDE DEF h
<1> QED BY <1>2, <1>3, WithHistory

(* The lines of the state that no step of the seat touches keep the card.  *)
LEMMA SameCard ==
    ASSUME NEW w, NEW v, v.grab = w.grab, v.history.answers = w.history.answers,
           v.claims = w.claims, CardInv(w)
    PROVE  CardInv(v)
  BY DEF CardInv, ArmedAfterGuard, NothingHasty, AnsweredOnce

LEMMA PauseStep ==
    ASSUME ScreenInv, pause_session
    PROVE  ScreenInv' /\ raised(world)' = raised(world)
<1> DEFINE a == IF SeatChange = "Immediate" THEN lock_raise(world) ELSE world
           b == force_lit(a)
           r == [b.screen EXCEPT !.seat_absent = TRUE]
           c == [b EXCEPT !.screen = r]
           s == [c.screen EXCEPT !.active = FALSE]
           d == [c EXCEPT !.screen = s]
           t == [held |-> {}, app |-> {}]
           e == [d EXCEPT !.seat = t]
           w == busy(e)
<1>1. now \in Nat /\ world \in World
  BY DEF ScreenInv
<1>2. becomes(w) /\ now' = now
  BY DEF pause_session, seat_leaves
<1>3. /\ a \in World /\ a.grab = world.grab /\ a.screen = world.screen /\ a.claims = world.claims
      /\ a.history = world.history /\ a.lock.carry = world.lock.carry
  BY <1>1, LockRaiseEffect
<1> HIDE DEF a
<1>4. /\ b \in World /\ b.grab = a.grab /\ b.lock = a.lock /\ b.claims = a.claims
      /\ b.history = a.history /\ b.screen.phase = "Lit" /\ b.screen.last = a.screen.last
  BY <1>3, ForceLitEffect
<1> HIDE DEF b
<1>5. \A x \in ScreenState :
         LET y == [x EXCEPT !.seat_absent = TRUE]
             z == [x EXCEPT !.active = FALSE]
         IN  /\ y \in ScreenState /\ y.phase = x.phase /\ y.last = x.last /\ y.seat_absent = TRUE
             /\ z \in ScreenState /\ z.phase = x.phase /\ z.last = x.last /\ z.active = FALSE
             /\ z.seat_absent = x.seat_absent
  BY ZenonT(30) DEF ScreenState
<1>6. r \in ScreenState /\ r.phase = "Lit" /\ r.last = world.screen.last /\ r.seat_absent = TRUE
  BY <1>3, <1>4, <1>5, Zenon DEF World
<1> HIDE DEF r
<1>7. /\ c \in World /\ c.grab = b.grab /\ c.lock = b.lock /\ c.claims = b.claims
      /\ c.history = b.history /\ c.screen = r
  BY <1>4, <1>6, WithScreen
<1> HIDE DEF c
<1>8. /\ s \in ScreenState /\ s.phase = "Lit" /\ s.last = world.screen.last /\ s.seat_absent = TRUE
      /\ s.active = FALSE
  BY <1>5, <1>6, <1>7, Zenon
<1> HIDE DEF s
<1>9. /\ d \in World /\ d.grab = c.grab /\ d.lock = c.lock /\ d.claims = c.claims
      /\ d.history = c.history /\ d.screen = s
  BY <1>7, <1>8, WithScreen
<1> HIDE DEF d
<1>10. t \in SeatState /\ t.app \subseteq t.held
  BY DEF SeatState
<1> HIDE DEF t
<1>11. /\ e \in World /\ e.grab = d.grab /\ e.lock = d.lock /\ e.claims = d.claims
       /\ e.history = d.history /\ e.screen = d.screen /\ e.seat = t
  BY <1>9, <1>10, WithSeat
<1> HIDE DEF e
<1>12. /\ w \in World /\ w.grab = e.grab /\ w.lock = e.lock /\ w.claims = e.claims
       /\ w.screen = e.screen /\ w.seat = e.seat
       /\ w.history.shown = e.history.shown /\ w.history.answers = e.history.answers
       /\ w.history.touched = e.history.touched
  BY <1>11, BusyEffect
<1> HIDE DEF w
<1>13. /\ w.grab = world.grab /\ w.claims = world.claims /\ w.lock.carry = world.lock.carry
       /\ w.history.shown = world.history.shown /\ w.history.answers = world.history.answers
       /\ w.history.touched = world.history.touched /\ w.screen = s /\ w.seat = t
  BY <1>3, <1>4, <1>7, <1>9, <1>11, <1>12
<1>14. CardInv(w)
  BY <1>13, SameCard DEF ScreenInv
<1>15. Shows(world, w)
  <2>1. ~Clear(w)
    BY <1>8, <1>13 DEF Clear, in_view
  <2> QED BY <1>13, <2>1 DEF Shows
<1>16. w.history.shown = history.shown /\ w.history.touched = history.touched
       /\ w.lock.carry = lock.carry /\ s.last = screen.last
  BY <1>8, <1>13 DEF world
<1>17. CardInv(world)' /\ GuardInv'
  BY <1>1, <1>2, <1>12, <1>14, <1>15, <1>16, BecomesKeepsTheCard DEF ScreenInv
<1>18. /\ world' \in World /\ grab' = w.grab /\ lock' = w.lock /\ screen' = s /\ seat' = t
       /\ history'.touched = history.touched
  BY <1>1, <1>2, <1>12, <1>13, <1>16, BecomesFields
<1>19. CoverInv' /\ NoLatchedButton'
  BY <1>8, <1>10, <1>18 DEF CoverInv, NoLatchedButton
<1>20. IdleInv'
  <2>1. now' = now /\ lock'.carry = lock.carry /\ screen'.last = screen.last
    BY <1>2, <1>16, <1>18
  <2> QED BY <1>8, <1>18, <2>1 DEF IdleInv, ScreenInv
<1>21. raised(world)' = raised(world)
  BY <1>13, <1>18 DEF raised, world
<1> QED BY <1>1, <1>2, <1>17, <1>18, <1>19, <1>20, <1>21 DEF ScreenInv

LEMMA ActivateStep ==
    ASSUME ScreenInv, activate_session
    PROVE  ScreenInv' /\ raised(world)' = raised(world)
<1> DEFINE k == IF SeatChange = "Idle" THEN world.lock.carry + (now - world.screen.last)
                ELSE world.lock.carry
           l == [world.lock EXCEPT !.carry = k]
           a == [world EXCEPT !.lock = l]
           f == [a.screen EXCEPT !.last = now]
           b == [a EXCEPT !.screen = f]
           g == [b.screen EXCEPT !.seat_absent = FALSE]
           c == [b EXCEPT !.screen = g]
           h == [c.screen EXCEPT !.active = TRUE]
           d == [c EXCEPT !.screen = h]
           m == [d.screen EXCEPT !.flip_pending = FALSE]
           e == [d EXCEPT !.screen = m]
           w == restart_guard(e)
<1>1. now \in Nat /\ world \in World
  BY DEF ScreenInv
<1>2. becomes(w) /\ now' = now
  BY Zenon DEF activate_session, seat_returns
<1>3. k \in Nat
  BY <1>1 DEF ScreenInv, IdleInv, World, LockState, ScreenState, world
<1>4. (SeatChange = "Idle" => now <= history.touched + k) /\ world.lock \in LockState
  <2>1. history.touched \in Nat /\ lock.carry \in Nat /\ screen.last \in Nat /\ lock \in LockState
    BY <1>1 DEF World, LockState, ScreenState, HistoryState, world
  <2>2. SeatChange = "Idle" => screen.last <= history.touched + lock.carry /\ screen.last <= now
    BY DEF ScreenInv, IdleInv
  <2> QED BY <1>1, <2>1, <2>2 DEF world
<1> HIDE DEF k
<1>5. l \in LockState /\ l.carry = k
  BY <1>3, <1>4 DEF LockState
<1> HIDE DEF l
<1>6. /\ a \in World /\ a.grab = world.grab /\ a.screen = world.screen /\ a.claims = world.claims
      /\ a.seat = world.seat /\ a.history = world.history /\ a.lock = l
  BY <1>1, <1>5, WithLock
<1> HIDE DEF a
<1>7. \A x \in ScreenState :
         LET y == [x EXCEPT !.last = now]
             z == [x EXCEPT !.seat_absent = FALSE]
         IN  /\ y \in ScreenState /\ y.phase = x.phase /\ y.covering = x.covering /\ y.last = now
             /\ z \in ScreenState /\ z.phase = x.phase /\ z.covering = x.covering
             /\ z.last = x.last /\ z.seat_absent = FALSE
  BY <1>1, ZenonT(30) DEF ScreenState
<1>8. \A x \in ScreenState :
         LET y == [x EXCEPT !.active = TRUE]
             z == [x EXCEPT !.flip_pending = FALSE]
         IN  /\ y \in ScreenState /\ y.phase = x.phase /\ y.covering = x.covering
             /\ y.last = x.last /\ y.seat_absent = x.seat_absent /\ y.active = TRUE
             /\ z \in ScreenState /\ z.phase = x.phase /\ z.covering = x.covering
             /\ z.last = x.last /\ z.seat_absent = x.seat_absent /\ z.active = x.active
  BY ZenonT(30) DEF ScreenState
<1>9. a.screen \in ScreenState
  BY <1>6 DEF World
<1>10. /\ f \in ScreenState /\ f.phase = a.screen.phase /\ f.covering = a.screen.covering /\ f.last = now
  BY <1>7, <1>9, Zenon
<1> HIDE DEF f
<1>11. /\ b \in World /\ b.grab = a.grab /\ b.lock = a.lock /\ b.claims = a.claims
       /\ b.seat = a.seat /\ b.history = a.history /\ b.screen = f
  BY <1>6, <1>10, WithScreen
<1> HIDE DEF b
<1>12. /\ g \in ScreenState /\ g.phase = f.phase /\ g.covering = f.covering /\ g.last = f.last
      /\ g.seat_absent = FALSE
  BY <1>7, <1>10, <1>11, Zenon
<1> HIDE DEF g
<1>13. /\ c \in World /\ c.grab = b.grab /\ c.lock = b.lock /\ c.claims = b.claims
       /\ c.seat = b.seat /\ c.history = b.history /\ c.screen = g
  BY <1>11, <1>12, WithScreen
<1> HIDE DEF c
<1>14. /\ h \in ScreenState /\ h.phase = g.phase /\ h.covering = g.covering /\ h.last = g.last
      /\ h.seat_absent = g.seat_absent /\ h.active = TRUE
  BY <1>8, <1>12, <1>13, Zenon
<1> HIDE DEF h
<1>15. /\ d \in World /\ d.grab = c.grab /\ d.lock = c.lock /\ d.claims = c.claims
       /\ d.seat = c.seat /\ d.history = c.history /\ d.screen = h
  BY <1>13, <1>14, WithScreen
<1> HIDE DEF d
<1>16. /\ m \in ScreenState /\ m.phase = h.phase /\ m.covering = h.covering /\ m.last = h.last
      /\ m.seat_absent = h.seat_absent /\ m.active = h.active
  BY <1>8, <1>14, <1>15, Zenon
<1> HIDE DEF m
<1>17. /\ e \in World /\ e.grab = d.grab /\ e.lock = d.lock /\ e.claims = d.claims
       /\ e.seat = d.seat /\ e.history = d.history /\ e.screen = m
  BY <1>15, <1>16, WithScreen
<1> HIDE DEF e
<1>18. /\ e.grab = world.grab /\ e.lock = l /\ e.claims = world.claims /\ e.seat = world.seat
       /\ e.history = world.history /\ e.screen.last = now
       /\ e.screen.phase = screen.phase /\ e.screen.covering = screen.covering
       /\ e.screen.seat_absent = FALSE /\ e.screen.active = TRUE
  BY <1>6, <1>10, <1>11, <1>12, <1>13, <1>14, <1>15, <1>16, <1>17 DEF world
<1>19. CardInv(e)
  BY <1>18, SameCard DEF ScreenInv
<1>20. /\ w \in World /\ CardInv(w) /\ raised(w) = raised(e)
       /\ w.history.shown = e.history.shown /\ w.history.touched = e.history.touched
       /\ \A p \in w.grab.prompt : p.raised_at = now
  BY <1>1, <1>17, <1>19, QuietRestart DEF Quiet
<1>21. w.lock = e.lock /\ w.screen = e.screen /\ w.seat = e.seat
  BY <1>1, <1>17, RestartGuardEffect
<1> HIDE DEF w
<1>22. Shows(world, w) /\ w.history.shown = history.shown
  BY <1>18, <1>20 DEF Shows, world
<1>23. CardInv(world)' /\ GuardInv'
  BY <1>1, <1>2, <1>20, <1>22, BecomesKeepsTheCard DEF ScreenInv
<1>24. /\ world' \in World /\ grab' = w.grab /\ lock' = l /\ screen' = e.screen
       /\ seat' = seat /\ history'.touched = history.touched
  <2>1. w.lock = l /\ w.seat = seat /\ w.history.touched = history.touched
    BY <1>18, <1>20, <1>21 DEF world
  <2> QED BY <1>1, <1>2, <1>20, <1>21, <1>22, <2>1, BecomesFields
<1>25. CoverInv' /\ NoLatchedButton'
  BY <1>18, <1>24 DEF CoverInv, NoLatchedButton, ScreenInv
<1>26. IdleInv'
  BY <1>1, <1>2, <1>4, <1>5, <1>18, <1>24 DEF IdleInv
<1>27. raised(world)' = raised(world)
  BY <1>18, <1>20, <1>24, Zenon DEF raised, world
<1> QED BY <1>1, <1>2, <1>23, <1>24, <1>25, <1>26, <1>27 DEF ScreenInv

-----------------------------------------------------------------------------
(* One physical event.                                                     *)

LEMMA EventKinds ==
    ASSUME NEW e \in Event
    PROVE  /\ e.kind \in {"press", "release", "motion", "key", "chord"}
           /\ e.kind \in {"press", "release"} => e.button \in Buttons
           /\ e.kind = "motion" => e.under \in CardChoices \cup {"outside"}
  BY DEF Event

LEMMA MovedEffect ==
    ASSUME NEW w \in World, NEW e \in Event
    PROVE  /\ moved(w, e) \in World
           /\ moved(w, e).grab = w.grab /\ moved(w, e).lock = w.lock
           /\ moved(w, e).screen = w.screen /\ moved(w, e).claims = w.claims
           /\ moved(w, e).history = w.history /\ moved(w, e).seat.app = w.seat.app
           /\ moved(w, e).seat.held = IF e.kind = "press" THEN w.seat.held \cup {e.button}
                                      ELSE IF e.kind = "release" THEN w.seat.held \ {e.button}
                                      ELSE w.seat.held
<1> DEFINE s == [w.seat EXCEPT !.held = @ \cup {e.button}]
           t == [w.seat EXCEPT !.held = @ \ {e.button}]
<1>1. w.seat \in SeatState
  BY DEF World
<1>2. CASE e.kind = "press"
  <2>1. moved(w, e) = [w EXCEPT !.seat = s]
    BY <1>2 DEF moved
  <2>2. s \in SeatState /\ s.app = w.seat.app /\ s.held = w.seat.held \cup {e.button}
    BY <1>1, <1>2, EventKinds DEF SeatState
  <2> HIDE DEF s
  <2> QED BY <1>2, <2>1, <2>2, WithSeat
<1>3. CASE e.kind = "release"
  <2>1. moved(w, e) = [w EXCEPT !.seat = t]
    BY <1>3 DEF moved
  <2>2. t \in SeatState /\ t.app = w.seat.app /\ t.held = w.seat.held \ {e.button}
    BY <1>1, <1>3, EventKinds DEF SeatState
  <2> HIDE DEF t
  <2> QED BY <1>3, <2>1, <2>2, WithSeat
<1>4. CASE e.kind # "press" /\ e.kind # "release"
  <2>1. moved(w, e) = w
    BY <1>4 DEF moved
  <2> QED BY <1>4, <2>1
<1> QED BY <1>2, <1>3, <1>4

LEMMA RoutedEffect ==
    ASSUME NEW w \in World, NEW e \in Event
    PROVE  /\ routed(w, e) \in World
           /\ routed(w, e).grab = w.grab /\ routed(w, e).lock = w.lock
           /\ routed(w, e).screen = w.screen /\ routed(w, e).claims = w.claims
           /\ routed(w, e).history = w.history /\ routed(w, e).seat.held = w.seat.held
           /\ routed(w, e).seat.app = IF e.kind = "press" THEN w.seat.app \cup {e.button}
                                      ELSE IF e.kind = "release" THEN w.seat.app \ {e.button}
                                      ELSE w.seat.app
<1> DEFINE s == [w.seat EXCEPT !.app = @ \cup {e.button}]
           t == [w.seat EXCEPT !.app = @ \ {e.button}]
<1>1. w.seat \in SeatState
  BY DEF World
<1>2. CASE e.kind = "press"
  <2>1. routed(w, e) = [w EXCEPT !.seat = s]
    BY <1>2 DEF routed
  <2>2. s \in SeatState /\ s.held = w.seat.held /\ s.app = w.seat.app \cup {e.button}
    BY <1>1, <1>2, EventKinds DEF SeatState
  <2> HIDE DEF s
  <2> QED BY <1>2, <2>1, <2>2, WithSeat
<1>3. CASE e.kind = "release"
  <2>1. routed(w, e) = [w EXCEPT !.seat = t]
    BY <1>3 DEF routed
  <2>2. t \in SeatState /\ t.held = w.seat.held /\ t.app = w.seat.app \ {e.button}
    BY <1>1, <1>3, EventKinds DEF SeatState
  <2> HIDE DEF t
  <2> QED BY <1>3, <2>1, <2>2, WithSeat
<1>4. CASE e.kind # "press" /\ e.kind # "release"
  <2>1. routed(w, e) = w
    BY <1>4 DEF routed
  <2> QED BY <1>4, <2>1
<1> QED BY <1>2, <1>3, <1>4

(* SessionActivity::note_physical.                                         *)
LEMMA NotedEffect ==
    ASSUME NEW w \in World, now \in Nat
    PROVE  /\ noted(w) \in World
           /\ noted(w).grab = w.grab /\ noted(w).claims = w.claims /\ noted(w).seat = w.seat
           /\ noted(w).lock.locked = w.lock.locked /\ noted(w).lock.journal = w.lock.journal
           /\ noted(w).lock.carry = 0
           /\ noted(w).screen.last = now
           /\ noted(w).screen.active = w.screen.active
           /\ noted(w).screen.seat_absent = w.screen.seat_absent
           /\ noted(w).screen.covering = w.screen.covering
           /\ noted(w).screen.phase = IF w.screen.phase \in {"Covering", "Dark"} THEN "Waking"
                                      ELSE w.screen.phase
           /\ noted(w).history.late <=> (w.history.late \/ (overdue(w.screen) /\ w.grab.prompt # {}))
           /\ noted(w).history.shown = w.history.shown
           /\ noted(w).history.answers = w.history.answers
           /\ noted(w).history.touched = now
<1> DEFINE s == IF w.screen.phase \in {"Covering", "Dark"}
                THEN [w.screen EXCEPT !.phase = "Waking", !.cover_queued = FALSE,
                                      !.waking_since = {now}, !.last = now]
                ELSE [w.screen EXCEPT !.last = now]
           a == [w EXCEPT !.screen = s]
           k == [a.lock EXCEPT !.carry = 0]
           b == [a EXCEPT !.lock = k]
           l == b.history.late \/ (overdue(w.screen) /\ w.grab.prompt # {})
           g == [b.history EXCEPT !.late = l]
           c == [b EXCEPT !.history = g]
           h == [c.history EXCEPT !.touched = now]
           v == [c EXCEPT !.history = h]
<1>1. noted(w) = v
  BY DEF noted
<1>2. /\ s \in ScreenState /\ s.last = now /\ s.active = w.screen.active
      /\ s.seat_absent = w.screen.seat_absent /\ s.covering = w.screen.covering
      /\ s.phase = IF w.screen.phase \in {"Covering", "Dark"} THEN "Waking" ELSE w.screen.phase
  <2>1. ASSUME NEW x \in ScreenState
        PROVE  LET y == [x EXCEPT !.phase = "Waking", !.cover_queued = FALSE,
                                  !.waking_since = {now}, !.last = now]
               IN  /\ y \in ScreenState /\ y.last = now /\ y.active = x.active
                   /\ y.seat_absent = x.seat_absent /\ y.covering = x.covering
                   /\ y.phase = "Waking"
    BY ZenonT(30) DEF ScreenState
  <2>2. ASSUME NEW x \in ScreenState
        PROVE  LET y == [x EXCEPT !.last = now]
               IN  /\ y \in ScreenState /\ y.last = now /\ y.active = x.active
                   /\ y.seat_absent = x.seat_absent /\ y.covering = x.covering
                   /\ y.phase = x.phase
    BY ZenonT(30) DEF ScreenState
  <2>3. w.screen \in ScreenState
    BY DEF World
  <2>4. CASE w.screen.phase \in {"Covering", "Dark"}
    <3>1. s = [w.screen EXCEPT !.phase = "Waking", !.cover_queued = FALSE,
                               !.waking_since = {now}, !.last = now]
      BY <2>4
    <3> HIDE DEF s
    <3> QED BY <2>1, <2>3, <2>4, <3>1, Zenon
  <2>5. CASE w.screen.phase \notin {"Covering", "Dark"}
    <3>1. s = [w.screen EXCEPT !.last = now]
      BY <2>5
    <3> HIDE DEF s
    <3> QED BY <2>2, <2>3, <2>5, <3>1
  <2> QED BY <2>4, <2>5
<1> HIDE DEF s
<1>3. /\ a \in World /\ a.screen = s /\ a.grab = w.grab /\ a.lock = w.lock
      /\ a.claims = w.claims /\ a.seat = w.seat /\ a.history = w.history
  BY <1>2, WithScreen
<1> HIDE DEF a
<1>4. k \in LockState /\ k.locked = w.lock.locked /\ k.journal = w.lock.journal /\ k.carry = 0
  BY <1>3 DEF World, LockState
<1> HIDE DEF k
<1>5. /\ b \in World /\ b.lock = k /\ b.grab = a.grab /\ b.screen = a.screen
      /\ b.claims = a.claims /\ b.seat = a.seat /\ b.history = a.history
  BY <1>3, <1>4, WithLock
<1> HIDE DEF b
<1>6. l \in BOOLEAN /\ (l <=> (w.history.late \/ (overdue(w.screen) /\ w.grab.prompt # {})))
  BY <1>3, <1>5
<1> HIDE DEF l
<1>7. /\ g \in HistoryState /\ g.late = l /\ g.shown = w.history.shown
      /\ g.answers = w.history.answers
  <2>1. b.history \in HistoryState /\ b.history = w.history
    BY <1>3, <1>5 DEF World
  <2> QED BY <1>6, <2>1 DEF HistoryState
<1> HIDE DEF g
<1>8. /\ c \in World /\ c.history = g /\ c.grab = b.grab /\ c.lock = b.lock
      /\ c.screen = b.screen /\ c.claims = b.claims /\ c.seat = b.seat
  BY <1>5, <1>7, WithHistory
<1> HIDE DEF c
<1>9. h \in HistoryState /\ h.late = g.late /\ h.shown = g.shown /\ h.answers = g.answers
      /\ h.touched = now
  <2>1. c.history \in HistoryState /\ c.history = g
    BY <1>7, <1>8
  <2> QED BY <2>1 DEF HistoryState
<1> HIDE DEF h
<1>10. /\ v \in World /\ v.history = h /\ v.grab = c.grab /\ v.lock = c.lock
       /\ v.screen = c.screen /\ v.claims = c.claims /\ v.seat = c.seat
  BY <1>8, <1>9, WithHistory
<1> HIDE DEF v
<1> QED BY <1>1, <1>2, <1>3, <1>4, <1>5, <1>6, <1>7, <1>8, <1>9, <1>10

(* LockScreen::submit.                                                     *)
LEMMA SubmitEffect ==
    ASSUME NEW w \in World, NEW accepted \in BOOLEAN
    PROVE  /\ submit(w, accepted) \in World
           /\ submit(w, accepted).grab = w.grab /\ submit(w, accepted).screen = w.screen
           /\ submit(w, accepted).claims = w.claims /\ submit(w, accepted).seat = w.seat
           /\ submit(w, accepted).history = w.history
           /\ submit(w, accepted).lock.carry = w.lock.carry
           /\ submit(w, accepted) = w \/ ~Clear(submit(w, accepted))
<1> DEFINE k == [w.lock EXCEPT !.locked = FALSE]
           a == [w EXCEPT !.lock = k]
           j == Append(a.lock.journal, "Unlocked")
           l == [a.lock EXCEPT !.journal = j]
           v == [a EXCEPT !.lock = l]
<1>1. submit(w, accepted) = IF accepted THEN v ELSE w
  BY Zenon DEF submit
<1>2. \A x \in LockState : LET y == [x EXCEPT !.locked = FALSE]
                           IN  y \in LockState /\ y.journal = x.journal /\ y.carry = x.carry
  BY ZenonT(20) DEF LockState
<1>3. k \in LockState /\ k.journal = w.lock.journal /\ k.carry = w.lock.carry
  BY <1>2 DEF World
<1> HIDE DEF k
<1>4. /\ a \in World /\ a.lock = k /\ a.grab = w.grab /\ a.screen = w.screen
      /\ a.claims = w.claims /\ a.seat = w.seat /\ a.history = w.history
  BY <1>3, WithLock
<1> HIDE DEF a
<1>5. a.lock \in LockState /\ a.lock.journal \in Seq({"Locked", "Unlocked"})
  BY <1>3, <1>4 DEF LockState
<1>6. j \in Seq({"Locked", "Unlocked"}) /\ tells(j, "Unlocked")
  BY <1>5, AppendFacts DEF tells
<1> HIDE DEF j
<1>7. \A x \in LockState : LET y == [x EXCEPT !.journal = j]
                           IN  y \in LockState /\ y.journal = j /\ y.carry = x.carry
  BY <1>6 DEF LockState
<1>8. l \in LockState /\ l.journal = j /\ l.carry = w.lock.carry
  BY <1>3, <1>4, <1>5, <1>7
<1> HIDE DEF l
<1>9. /\ v \in World /\ v.lock = l /\ v.grab = a.grab /\ v.screen = a.screen
      /\ v.claims = a.claims /\ v.seat = a.seat /\ v.history = a.history
  BY <1>4, <1>8, WithLock
<1> HIDE DEF v
<1>10. ~Clear(v)
  BY <1>6, <1>8, <1>9 DEF Clear
<1> QED BY <1>1, <1>3, <1>4, <1>8, <1>9, <1>10

(* LockScreen::judge lets through every release, and while the screen is   *)
(* awake and unlocked the rest.                                            *)
LEMMA LockJudgeEffect ==
    ASSUME NEW w \in World, now \in Nat, NEW e \in Event, NEW accepted \in BOOLEAN
    PROVE  LET x == lock_judge(w, e, accepted)
           IN  /\ x.world \in World
               /\ x.world.grab = w.grab /\ x.world.claims = w.claims /\ x.world.seat = w.seat
               /\ x.world.screen = noted(w).screen /\ x.world.history = noted(w).history
               /\ x.world.lock.carry = 0
               /\ Clear(x.world) => Clear(w)
               /\ x.delivered => /\ x.world = noted(w)
                                 /\ \/ e.kind = "release"
                                    \/ ~swallowed(w.screen) /\ ~w.lock.locked
               /\ e.kind = "release" => x.delivered
<1> DEFINE seen == noted(w)
           x    == lock_judge(w, e, accepted)
<1>1. /\ seen \in World /\ seen.grab = w.grab /\ seen.claims = w.claims /\ seen.seat = w.seat
      /\ seen.lock.carry = 0
  BY NotedEffect
<1>2. Clear(seen) => Clear(w)
  BY NotedEffect DEF Clear, in_view
<1>3. x = IF swallowed(w.screen) /\ e.kind # "release" THEN consumes(seen)
          ELSE IF e.kind = "chord" THEN consumes(lock_raise(seen))
          ELSE IF ~w.lock.locked \/ e.kind = "release" THEN passes(seen)
          ELSE IF e = [kind |-> "key", key |-> "Return"] THEN consumes(submit(seen, accepted))
          ELSE consumes(seen)
  BY DEF lock_judge
<1> HIDE DEF seen, x
<1>4. \A y : /\ passes(y).world = y /\ passes(y).delivered = TRUE
             /\ consumes(y).world = y /\ consumes(y).delivered = FALSE
  BY DEF passes, consumes
<1>5. \/ x = consumes(seen) /\ e.kind # "release"
      \/ x = consumes(lock_raise(seen)) /\ e.kind # "release"
      \/ x = consumes(submit(seen, accepted)) /\ e.kind # "release"
      \/ x = passes(seen) /\ (e.kind = "release" \/ (~swallowed(w.screen) /\ ~w.lock.locked))
  BY <1>3
<1>6. CASE x = consumes(seen) /\ e.kind # "release"
  BY <1>1, <1>2, <1>4, <1>6 DEF x, seen
<1>7. CASE x = consumes(lock_raise(seen)) /\ e.kind # "release"
  <2>1. x.world = lock_raise(seen) /\ x.delivered = FALSE
    BY <1>4, <1>7
  <2>2. /\ x.world \in World /\ x.world.grab = seen.grab /\ x.world.claims = seen.claims
        /\ x.world.seat = seen.seat /\ x.world.screen = seen.screen
        /\ x.world.history = seen.history /\ x.world.lock.carry = seen.lock.carry
        /\ x.world.lock.locked
    BY <1>1, <2>1, LockRaiseEffect
  <2>3. ~Clear(x.world)
    BY <2>2 DEF Clear, in_view
  <2> QED BY <1>1, <1>7, <2>1, <2>2, <2>3 DEF x, seen
<1>8. CASE x = consumes(submit(seen, accepted)) /\ e.kind # "release"
  <2>1. x.world = submit(seen, accepted) /\ x.delivered = FALSE
    BY <1>4, <1>8
  <2>2. /\ x.world \in World /\ x.world.grab = seen.grab /\ x.world.claims = seen.claims
        /\ x.world.seat = seen.seat /\ x.world.screen = seen.screen
        /\ x.world.history = seen.history /\ x.world.lock.carry = seen.lock.carry
        /\ x.world = seen \/ ~Clear(x.world)
    BY <1>1, <2>1, SubmitEffect
  <2> QED BY <1>1, <1>2, <1>8, <2>1, <2>2 DEF x, seen
<1>9. CASE x = passes(seen) /\ (e.kind = "release" \/ (~swallowed(w.screen) /\ ~w.lock.locked))
  BY <1>1, <1>2, <1>4, <1>9 DEF x, seen
<1> QED BY <1>5, <1>6, <1>7, <1>8, <1>9

-----------------------------------------------------------------------------
(* What ConsentGrab::judge_parts does with an event on a card.             *)

GuardHolds(w) ==
    /\ in_view(w) => w.history.shown # {}
    /\ Clear(w) => \A p \in w.grab.prompt, s \in w.history.shown : p.raised_at >= s

(* A press after the guard of a card in view, or of one that a late wake   *)
(* excuses, is not hasty.                                                  *)
LEMMA GradeAfterGuard ==
    ASSUME NEW w \in World, GuardHolds(w), in_view(w) \/ w.history.late,
           NEW at \in Nat, NEW p \in w.grab.prompt, at >= p.raised_at + Guard
    PROVE  grade(w, at) # "hasty"
<1>1. p.raised_at \in Nat /\ w.history.shown \subseteq Nat /\ Guard \in Nat
  <2>1. p.raised_at \in Nat
    BY OneCard DEF Card
  <2>2. w.history.shown \subseteq Nat
    BY DEF World, HistoryState
  <2> QED BY <2>1, <2>2, ScreenAssumption
<1>2. CASE \E s \in w.history.shown : at >= s + Guard
  BY <1>2 DEF grade
<1>3. CASE ~\E s \in w.history.shown : at >= s + Guard
  <2>1. CASE w.history.late
    BY <1>3, <2>1 DEF grade
  <2>2. CASE ~w.history.late /\ tells(w.lock.journal, "Unlocked")
    BY <1>3, <2>2 DEF grade
  <2>3. CASE ~w.history.late /\ ~tells(w.lock.journal, "Unlocked")
    <3>1. in_view(w) /\ Clear(w)
      BY <2>3 DEF Clear
    <3>2. PICK s \in w.history.shown : p.raised_at >= s
      BY <3>1 DEF GuardHolds
    <3>3. at >= s + Guard
      BY <1>1, <3>2
    <3> QED BY <1>3, <3>3
  <2> QED BY <2>1, <2>2, <2>3
<1> QED BY <1>2, <1>3

LEMMA GradeType ==
    ASSUME NEW w, NEW at
    PROVE  grade(w, at) \in Care
  BY DEF grade, Care

(* An event on a card changes the grab and the answers, keeps the card and *)
(* its guard.                                                              *)
CardStage(w, v) ==
    /\ v \in World
    /\ v.lock = w.lock /\ v.screen = w.screen /\ v.claims = w.claims /\ v.seat = w.seat
    /\ v.history.shown = w.history.shown
    /\ v.history.late = w.history.late
    /\ v.history.touched = w.history.touched
    /\ raised(v) = raised(w)
    /\ \A p \in v.grab.prompt : \E q \in w.grab.prompt : /\ q.subject = p.subject
                                                         /\ q.raised_at = p.raised_at
    /\ CardInv(w) => CardInv(v)

LEMMA CardStageReflexive ==
    ASSUME NEW w \in World
    PROVE  CardStage(w, w)
  BY DEF CardStage

LEMMA CardStageTransitive ==
    ASSUME NEW u, NEW v, NEW w, CardStage(u, v), CardStage(v, w)
    PROVE  CardStage(u, w)
  BY DEF CardStage

LEMMA GrabStage ==
    ASSUME NEW w \in World, NEW g \in GrabState,
           g.prompt = w.grab.prompt, g.decisions = w.grab.decisions,
           CardInv(w) => /\ \A a \in g.armed : a \in w.grab.armed
                                               \/ /\ a.care # "hasty"
                                                  /\ \A p \in g.prompt : a.at >= p.raised_at + Guard
                         /\ \A s \in g.steps : s \in w.grab.steps \/ s.care # "hasty"
    PROVE  CardStage(w, [w EXCEPT !.grab = g])
<1> DEFINE v == [w EXCEPT !.grab = g]
<1>1. /\ v \in World /\ v.grab = g /\ v.lock = w.lock /\ v.screen = w.screen
      /\ v.claims = w.claims /\ v.seat = w.seat /\ v.history = w.history
  BY WithGrab
<1> HIDE DEF v
<1>2. raised(v) = raised(w)
  BY <1>1 DEF raised
<1>3. ASSUME CardInv(w) PROVE CardInv(v)
  <2>1. ArmedAfterGuard(v) /\ NothingHasty(v)
    BY <1>1, <1>3 DEF CardInv, ArmedAfterGuard, NothingHasty
  <2>2. AnsweredOnce(v)
    BY <1>1, <1>3 DEF CardInv, AnsweredOnce
  <2> QED BY <2>1, <2>2 DEF CardInv
<1>4. CardStage(w, v)
  BY <1>1, <1>2, <1>3 DEF CardStage
<1> QED BY <1>4 DEF v

LEMMA PointedStage ==
    ASSUME NEW w \in World, NEW e \in Event
    PROVE  CardStage(w, pointed(w, e)) /\ pointed(w, e).grab.prompt = w.grab.prompt
<1> DEFINE g == [w.grab EXCEPT !.under = e.under]
<1>1. CASE e.kind = "motion"
  <2>1. /\ g \in GrabState /\ g.prompt = w.grab.prompt /\ g.decisions = w.grab.decisions
        /\ g.armed = w.grab.armed /\ g.steps = w.grab.steps
    BY <1>1, EventKinds DEF World, GrabState
  <2>2. pointed(w, e) = [w EXCEPT !.grab = g]
    BY <1>1 DEF pointed
  <2> HIDE DEF g
  <2>3. CardStage(w, [w EXCEPT !.grab = g])
    BY <2>1, GrabStage
  <2> QED BY <2>1, <2>2, <2>3, WithGrab
<1>2. CASE e.kind # "motion"
  <2>1. pointed(w, e) = w
    BY <1>2 DEF pointed
  <2> QED BY <2>1, CardStageReflexive
<1> QED BY <1>1, <1>2

LEMMA DisarmStage ==
    ASSUME NEW w \in World
    PROVE  CardStage(w, [w EXCEPT !.grab.armed = {}])
<1> DEFINE g == [w.grab EXCEPT !.armed = {}]
<1>1. /\ g \in GrabState /\ g.prompt = w.grab.prompt /\ g.decisions = w.grab.decisions
      /\ g.armed = {} /\ g.steps = w.grab.steps
  BY DEF World, GrabState
<1> HIDE DEF g
<1>2. CardStage(w, [w EXCEPT !.grab = g])
  BY <1>1, GrabStage
<1> QED BY <1>2 DEF g

LEMMA PressStage ==
    ASSUME NEW w \in World, now \in Nat, GuardHolds(w), in_view(w) \/ w.history.late,
           NEW p \in w.grab.prompt, NEW button \in Buttons
    PROVE  CardStage(w, press_on_card(w, p, button))
<1> DEFINE new == IF guarded(p) THEN {}
                  ELSE {[button |-> button, choice |-> c, at |-> now, care |-> grade(w, now)] :
                            c \in hit_test(w)}
           g   == [w.grab EXCEPT !.armed = new]
<1>1. press_on_card(w, p, button) = [w EXCEPT !.grab = g]
  BY DEF press_on_card
<1>2. new \subseteq [button : Buttons, choice : CardChoices, at : Nat, care : Care]
  BY GradeType DEF hit_test
<1>3. \A a \in new : a.at = now /\ a.care = grade(w, now) /\ ~guarded(p)
  OBVIOUS
<1>4. \A a \in new : a.care # "hasty" /\ \A q \in w.grab.prompt : a.at >= q.raised_at + Guard
  <2>1. p.raised_at \in Nat /\ Guard \in Nat /\ \A q \in w.grab.prompt : q = p
    BY OneCard, ScreenAssumption DEF Card
  <2>2. ~guarded(p) => now >= p.raised_at + Guard
    BY <2>1 DEF guarded
  <2>3. ~guarded(p) => grade(w, now) # "hasty"
    BY <2>2, GradeAfterGuard
  <2> QED BY <1>3, <2>1, <2>2, <2>3
<1> HIDE DEF new
<1>5. /\ g \in GrabState /\ g.prompt = w.grab.prompt /\ g.decisions = w.grab.decisions
      /\ g.armed = new /\ g.steps = w.grab.steps
  BY <1>2 DEF World, GrabState
<1> HIDE DEF g
<1>6. CardStage(w, [w EXCEPT !.grab = g])
  BY <1>4, <1>5, GrabStage
<1> QED BY <1>1, <1>6

LEMMA KeyStage ==
    ASSUME NEW w \in World, now \in Nat, GuardHolds(w), in_view(w) \/ w.history.late,
           NEW p \in w.grab.prompt
    PROVE  CardStage(w, key_on_card(w, p))
<1> DEFINE step == [subject |-> p.subject, care |-> grade(w, now)]
           g    == [w.grab EXCEPT !.steps = @ \cup {step}]
<1>1. CASE p.subject[1] = "Designation" /\ ~guarded(p)
  <2>1. key_on_card(w, p) = [w EXCEPT !.grab = g]
    BY <1>1 DEF key_on_card
  <2>2. p.raised_at \in Nat /\ p.subject \in Subject /\ Guard \in Nat
    BY OneCard, ScreenAssumption DEF Card
  <2>3. now >= p.raised_at + Guard
    BY <1>1, <2>2 DEF guarded
  <2>4. step \in [subject : Subject, care : Care] /\ step.care # "hasty"
    BY <2>2, <2>3, GradeAfterGuard, GradeType
  <2> HIDE DEF step
  <2>5. /\ g \in GrabState /\ g.prompt = w.grab.prompt /\ g.decisions = w.grab.decisions
        /\ g.armed = w.grab.armed /\ g.steps = w.grab.steps \cup {step}
    BY <2>4 DEF World, GrabState
  <2> HIDE DEF g
  <2>6. CardStage(w, [w EXCEPT !.grab = g])
    BY <2>4, <2>5, GrabStage
  <2> QED BY <2>1, <2>6
<1>2. CASE ~(p.subject[1] = "Designation" /\ ~guarded(p))
  <2>1. key_on_card(w, p) = w
    BY <1>2 DEF key_on_card
  <2> QED BY <2>1, CardStageReflexive
<1> QED BY <1>1, <1>2

(* ConsentGrab::commit.                                                    *)
LEMMA AnswerStage ==
    ASSUME NEW w \in World, now \in Nat, GuardHolds(w), NEW p, w.grab.prompt = {p},
           p.subject[1] = "Petition", ~p.answered,
           NEW a \in w.grab.armed
    PROVE  CardStage(w, [answer(w, a) EXCEPT !.grab.prompt = {[q EXCEPT !.answered = TRUE] : q \in @}])
<1> DEFINE subject == CHOOSE s \in raised(w) : TRUE
           care    == IF in_view(w) THEN grade(w, a.at) ELSE a.care
           dec     == [subject |-> subject, choice |-> a.choice]
           ans     == [subject |-> subject, care |-> care, locked |-> w.lock.locked]
           f       == [w.grab EXCEPT !.decisions = @ \cup {dec}]
           b       == [w EXCEPT !.grab = f]
           g       == [b.grab EXCEPT !.armed = {}]
           c       == [b EXCEPT !.grab = g]
           h       == [c.history EXCEPT !.answers = Append(@, ans)]
           d       == [c EXCEPT !.history = h]
           card    == [p EXCEPT !.answered = TRUE]
           m       == [d.grab EXCEPT !.prompt = {[q EXCEPT !.answered = TRUE] : q \in @}]
           v       == [d EXCEPT !.grab = m]
<1>1. v = [answer(w, a) EXCEPT !.grab.prompt = {[q EXCEPT !.answered = TRUE] : q \in @}]
  BY DEF answer
<1>2. /\ p \in Card /\ p.subject \in Subject /\ subject = p.subject
      /\ a \in [button : Buttons, choice : CardChoices, at : Nat, care : Care]
  <2>1. p \in Card /\ p.subject \in Subject
    BY OneCard
  <2>2. raised(w) = {p.subject}
    BY DEF raised
  <2>3. subject = p.subject
    BY <2>2
  <2>4. a \in [button : Buttons, choice : CardChoices, at : Nat, care : Care]
    BY DEF World, GrabState
  <2> QED BY <2>1, <2>3, <2>4
<1> HIDE DEF subject
<1>3. care \in Care /\ (CardInv(w) => care # "hasty")
  <2>1. care \in Care
    BY <1>2, GradeType
  <2>2. ASSUME CardInv(w) PROVE care # "hasty"
    <3>1. a.care # "hasty" /\ a.at >= p.raised_at + Guard /\ a.at \in Nat
      BY <1>2, <2>2 DEF CardInv, ArmedAfterGuard
    <3>2. in_view(w) => grade(w, a.at) # "hasty"
      BY <3>1, GradeAfterGuard
    <3> QED BY <3>1, <3>2
  <2> QED BY <2>1, <2>2
<1> HIDE DEF care
<1>4. dec \in [subject : Subject, choice : CardChoices] /\ dec.subject = p.subject
  BY <1>2
<1> HIDE DEF dec
<1>5. ans \in Answer /\ ans.subject = p.subject /\ ans.care = care
  <2>1. w.lock.locked \in BOOLEAN
    BY DEF World, LockState
  <2> QED BY <1>2, <1>3, <2>1 DEF Answer
<1> HIDE DEF ans
<1>6. /\ f \in GrabState /\ f.prompt = {p} /\ f.decisions = w.grab.decisions \cup {dec}
      /\ f.steps = w.grab.steps
  BY <1>4 DEF World, GrabState
<1> HIDE DEF f
<1>7. /\ b \in World /\ b.grab = f /\ b.lock = w.lock /\ b.screen = w.screen
      /\ b.claims = w.claims /\ b.seat = w.seat /\ b.history = w.history
  BY <1>6, WithGrab
<1> HIDE DEF b
<1>8. /\ g \in GrabState /\ g.prompt = {p} /\ g.decisions = w.grab.decisions \cup {dec}
      /\ g.steps = w.grab.steps /\ g.armed = {}
  BY <1>6, <1>7 DEF GrabState
<1> HIDE DEF g
<1>9. /\ c \in World /\ c.grab = g /\ c.lock = w.lock /\ c.screen = w.screen
      /\ c.claims = w.claims /\ c.seat = w.seat /\ c.history = w.history
  BY <1>7, <1>8, WithGrab
<1> HIDE DEF c
<1>10. /\ h \in HistoryState /\ h.answers = Append(w.history.answers, ans)
       /\ h.shown = w.history.shown /\ h.late = w.history.late /\ h.touched = w.history.touched
  <2>1. c.history \in HistoryState /\ c.history = w.history /\ w.history.answers \in Seq(Answer)
    BY <1>9 DEF World, HistoryState
  <2>2. Append(w.history.answers, ans) \in Seq(Answer)
    BY <1>5, <2>1, AppendFacts
  <2>3. h \in HistoryState
    BY <2>1, <2>2, Zenon DEF HistoryState
  <2> QED BY <2>1, <2>2, <2>3, SMTT(15) DEF HistoryState
<1> HIDE DEF h
<1>11. /\ d \in World /\ d.grab = g /\ d.lock = w.lock /\ d.screen = w.screen
       /\ d.claims = w.claims /\ d.seat = w.seat /\ d.history = h
  BY <1>9, <1>10, WithHistory
<1> HIDE DEF d
<1>12. /\ card \in Card /\ card.subject = p.subject /\ card.raised_at = p.raised_at
       /\ card.answered = TRUE
  BY <1>2, ZenonT(20) DEF Card
<1>13. {[q EXCEPT !.answered = TRUE] : q \in d.grab.prompt} = {card}
  BY <1>8, <1>11
<1> HIDE DEF card
<1>14. /\ m \in GrabState /\ m.prompt = {card} /\ m.decisions = g.decisions
       /\ m.steps = g.steps /\ m.armed = {}
  <2>1. m = [d.grab EXCEPT !.prompt = {card}]
    BY <1>13
  <2> HIDE DEF m
  <2>2. d.grab \in GrabState /\ d.grab = g /\ {card} \in {{}} \cup {{x} : x \in Card}
    BY <1>8, <1>11, <1>12
  <2> QED BY <1>8, <2>1, <2>2 DEF GrabState
<1> HIDE DEF m
<1>15. /\ v \in World /\ v.grab = m /\ v.lock = w.lock /\ v.screen = w.screen
       /\ v.claims = w.claims /\ v.seat = w.seat /\ v.history = h
  BY <1>11, <1>14, WithGrab
<1> HIDE DEF v
<1>16. raised(v) = raised(w)
  BY <1>12, <1>14, <1>15 DEF raised
<1>17. ASSUME CardInv(w) PROVE CardInv(v)
  <2> DEFINE old == w.history.answers
  <2>1. old \in Seq(Answer)
    BY DEF World, HistoryState
  <2>2. /\ v.history.answers = Append(old, ans)
        /\ DOMAIN v.history.answers = 1 .. Len(old) + 1 /\ DOMAIN old = 1 .. Len(old)
        /\ Len(old) \in Nat
        /\ \A i \in 1 .. Len(old) : v.history.answers[i] = old[i]
        /\ v.history.answers[Len(old) + 1] = ans
    BY <1>5, <1>10, <1>15, <2>1, AppendFacts
  <2>3. \A i \in 1 .. Len(old) : old[i].subject # p.subject
    BY <1>17, <2>2 DEF CardInv, AnsweredOnce
  <2>4. p.subject[2] <= w.claims.asked
    BY <1>17 DEF CardInv, AnsweredOnce
  <2>5. ArmedAfterGuard(v) /\ NothingHasty(v)
    BY <1>3, <1>5, <1>8, <1>14, <1>15, <1>17, <2>2 DEF CardInv, ArmedAfterGuard, NothingHasty
  <2>6. \A i \in DOMAIN v.history.answers :
           \/ i = Len(old) + 1 /\ v.history.answers[i].subject = p.subject
           \/ i \in DOMAIN old /\ v.history.answers[i].subject = old[i].subject
    BY <1>5, <2>2
  <2>7. \A i, j \in DOMAIN v.history.answers :
           v.history.answers[i].subject = v.history.answers[j].subject => i = j
    <3>1. \A i, j \in DOMAIN old : old[i].subject = old[j].subject => i = j
      BY <1>17 DEF CardInv, AnsweredOnce
    <3> QED BY <2>2, <2>3, <2>6, <3>1
  <2>8. ASSUME NEW i \in DOMAIN v.history.answers
        PROVE  /\ v.history.answers[i].subject[1] = "Petition"
               /\ v.history.answers[i].subject[2] <= v.claims.asked
               /\ v.history.answers[i].subject[2] \in DOMAIN v.claims.petitions =>
                     \E x \in v.grab.decisions : x.subject = v.history.answers[i].subject
    <3>1. v.grab.decisions = w.grab.decisions \cup {dec} /\ v.claims = w.claims
      BY <1>8, <1>14, <1>15
    <3>2. CASE i = Len(old) + 1 /\ v.history.answers[i].subject = p.subject
      BY <1>4, <2>4, <3>1, <3>2
    <3>3. CASE i \in DOMAIN old /\ v.history.answers[i].subject = old[i].subject
      <4>1. /\ old[i].subject[1] = "Petition" /\ old[i].subject[2] <= w.claims.asked
            /\ old[i].subject[2] \in DOMAIN w.claims.petitions =>
                  \E x \in w.grab.decisions : x.subject = old[i].subject
        BY <1>17, <3>3 DEF CardInv, AnsweredOnce
      <4> QED BY <3>1, <3>3, <4>1
    <3> QED BY <2>6, <3>2, <3>3
  <2>9. /\ \A x \in v.grab.prompt : /\ x.subject[1] = "Petition" => x.subject[2] <= v.claims.asked
                                    /\ x.answered
        /\ \A x \in DOMAIN v.claims.petitions : x <= v.claims.asked
    BY <1>12, <1>14, <1>15, <1>17, <2>4 DEF CardInv, AnsweredOnce
  <2>10. AnsweredOnce(v)
    BY <2>7, <2>8, <2>9 DEF AnsweredOnce
  <2> QED BY <2>5, <2>10 DEF CardInv
<1>18. CardStage(w, v)
  BY <1>10, <1>12, <1>14, <1>15, <1>16, <1>17 DEF CardStage
<1> QED BY <1>1, <1>18

LEMMA CommitStage ==
    ASSUME NEW w \in World, now \in Nat, GuardHolds(w), NEW p, w.grab.prompt = {p}, NEW button
    PROVE  CardStage(w, commit(w, button))
<1>1. CASE committed(w, button) = {}
  <2>1. commit(w, button) = [w EXCEPT !.grab.armed = {}]
    BY <1>1 DEF commit
  <2> QED BY <2>1, DisarmStage
<1>2. CASE committed(w, button) # {}
  <2> DEFINE a == CHOOSE x \in committed(w, button) : TRUE
  <2>1. commit(w, button) =
           [answer(w, a) EXCEPT !.grab.prompt = {[q EXCEPT !.answered = TRUE] : q \in @}]
    BY <1>2 DEF commit
  <2>2. a \in committed(w, button)
    BY <1>2
  <2> HIDE DEF a
  <2>3. a \in w.grab.armed /\ a.choice \in hit_test(w)
    BY <2>2 DEF committed
  <2>4. p.subject[1] = "Petition" /\ ~p.answered
    BY <2>3 DEF hit_test
  <2> QED BY <2>1, <2>3, <2>4, AnswerStage
<1> QED BY <1>1, <1>2

LEMMA JudgePartsStage ==
    ASSUME NEW w \in World, now \in Nat, GuardHolds(w), NEW e \in Event,
           e.kind = "release" \/ w.grab.prompt = {} \/ in_view(w) \/ w.history.late
    PROVE  /\ CardStage(w, judge_parts(w, e).world)
           /\ e.kind = "release" => judge_parts(w, e).delivered
<1> DEFINE x == judge_parts(w, e)
           p == CHOOSE q \in w.grab.prompt : TRUE
           u == pointed(w, e)
<1>1. x = IF w.grab.prompt = {} THEN passes(u)
          ELSE IF now >= p.deadline THEN passes([u EXCEPT !.grab.armed = {}])
          ELSE CASE e.kind = "press"   -> consumes(press_on_card(w, p, e.button))
                 [] e.kind = "release" -> passes(commit(w, e.button))
                 [] e.kind = "motion"  -> consumes(u)
                 [] OTHER              -> consumes(key_on_card(w, p))
  BY DEF judge_parts
<1>2. \A y : /\ passes(y).world = y /\ passes(y).delivered = TRUE
             /\ consumes(y).world = y /\ consumes(y).delivered = FALSE
  BY DEF passes, consumes
<1>3. CardStage(w, u) /\ u \in World
  BY PointedStage DEF CardStage
<1>4. w.grab.prompt # {} => p \in w.grab.prompt /\ w.grab.prompt = {p}
  <2>1. w.grab.prompt # {} => p \in w.grab.prompt
    OBVIOUS
  <2> QED BY <2>1, OneCard
<1> HIDE DEF x, p, u
<1>5. CASE w.grab.prompt = {}
  <2>1. x = passes(u)
    BY <1>1, <1>5
  <2> QED BY <1>2, <1>3, <2>1 DEF x
<1>6. CASE w.grab.prompt # {} /\ now >= p.deadline
  <2>1. x = passes([u EXCEPT !.grab.armed = {}])
    BY <1>1, <1>6
  <2>2. CardStage(u, [u EXCEPT !.grab.armed = {}])
    BY <1>3, DisarmStage
  <2>3. CardStage(w, [u EXCEPT !.grab.armed = {}])
    BY <1>3, <2>2, CardStageTransitive
  <2>4. x.world = [u EXCEPT !.grab.armed = {}] /\ x.delivered = TRUE
    BY <1>2, <2>1
  <2> QED BY <2>3, <2>4 DEF x
<1>7. CASE w.grab.prompt # {} /\ ~(now >= p.deadline)
  <2>1. x = CASE e.kind = "press"   -> consumes(press_on_card(w, p, e.button))
              [] e.kind = "release" -> passes(commit(w, e.button))
              [] e.kind = "motion"  -> consumes(u)
              [] OTHER              -> consumes(key_on_card(w, p))
    BY <1>1, <1>7
  <2>2. CASE e.kind = "press"
    <3>1. x.world = press_on_card(w, p, e.button)
      BY <1>2, <2>1, <2>2
    <3>2. CardStage(w, press_on_card(w, p, e.button))
      BY <1>4, <1>7, <2>2, EventKinds, PressStage
    <3> QED BY <2>2, <3>1, <3>2 DEF x
  <2>3. CASE e.kind = "release"
    <3>1. x.world = commit(w, e.button) /\ x.delivered = TRUE
      BY <1>2, <2>1, <2>3
    <3>2. CardStage(w, commit(w, e.button))
      BY <1>4, <1>7, CommitStage, Zenon
    <3> QED BY <3>1, <3>2 DEF x
  <2>4. CASE e.kind = "motion"
    <3>1. x.world = u
      BY <1>2, <2>1, <2>4
    <3> QED BY <1>3, <2>4, <3>1 DEF x
  <2>5. CASE e.kind \notin {"press", "release", "motion"}
    <3>1. x.world = key_on_card(w, p)
      BY <1>2, <2>1, <2>5
    <3>2. CardStage(w, key_on_card(w, p))
      BY <1>4, <1>7, <2>5, KeyStage
    <3> QED BY <2>5, <3>1, <3>2 DEF x
  <2> QED BY <2>2, <2>3, <2>4, <2>5
<1> QED BY <1>5, <1>6, <1>7

(* What the two gates leave of a world: the idle clocks are reset, the     *)
(* card and the claims are there still.                                    *)
LEMMA GatesEffect ==
    ASSUME NEW w \in World, now \in Nat, GuardHolds(w), w.screen.active,
           NEW e \in Event, NEW accepted \in BOOLEAN
    PROVE  LET outer == lock_judge(w, e, accepted)
               inner == IF outer.delivered THEN judge_parts(outer.world, e) ELSE outer
               v     == inner.world
           IN  /\ v \in World /\ v.claims = w.claims /\ v.seat = w.seat /\ v.lock.carry = 0
               /\ v.screen = noted(w).screen
               /\ v.history.shown = w.history.shown /\ v.history.touched = now
               /\ raised(v) = raised(w) /\ Shows(w, v) /\ (CardInv(w) => CardInv(v))
               /\ e.kind = "release" => inner.delivered
<1> DEFINE outer == lock_judge(w, e, accepted)
           o     == outer.world
           inner == IF outer.delivered THEN judge_parts(o, e) ELSE outer
           v     == inner.world
<1>1. /\ o \in World /\ o.grab = w.grab /\ o.claims = w.claims /\ o.seat = w.seat
      /\ o.screen = noted(w).screen /\ o.history = noted(w).history /\ o.lock.carry = 0
      /\ Clear(o) => Clear(w)
      /\ outer.delivered => /\ o = noted(w)
                            /\ e.kind = "release" \/ (~swallowed(w.screen) /\ ~w.lock.locked)
      /\ e.kind = "release" => outer.delivered
  BY LockJudgeEffect
<1> HIDE DEF outer, o
<1>2. /\ o.history.shown = w.history.shown /\ o.history.answers = w.history.answers
      /\ o.history.touched = now
  BY <1>1, NotedEffect
<1>3. raised(o) = raised(w) /\ (CardInv(w) => CardInv(o))
  <2>1. raised(o) = raised(w)
    BY <1>1 DEF raised
  <2> QED BY <1>1, <1>2, <2>1, SameCard
<1>4. CASE ~outer.delivered
  <2>1. inner = outer /\ v = o
    BY <1>4 DEF o
  <2>2. Shows(w, o)
    BY <1>1 DEF Shows
  <2> HIDE DEF inner, v
  <2> QED BY <1>1, <1>2, <1>3, <1>4, <2>1, <2>2 DEF inner, v, outer, o
<1>5. CASE outer.delivered
  <2>1. inner = judge_parts(o, e) /\ o = noted(w)
    BY <1>1, <1>5
  <2>2. /\ in_view(o) => in_view(w)
        /\ o.screen.phase = "Lit" \/ o.screen.phase = "Waking" \/ swallowed(w.screen)
    BY <2>1, NotedEffect DEF in_view, swallowed, overdue
  <2>3. GuardHolds(o)
    BY <1>1, <1>2, <2>2 DEF GuardHolds
  <2>4. e.kind = "release" \/ o.grab.prompt = {} \/ in_view(o) \/ o.history.late
    <3>1. ASSUME ~swallowed(w.screen), ~w.lock.locked, w.grab.prompt # {}
          PROVE  in_view(o) \/ o.history.late
      <4>1. w.screen.phase = "Lit" \/ overdue(w.screen)
        BY <3>1 DEF swallowed
      <4>2. CASE w.screen.phase = "Lit"
        BY <2>1, <3>1, <4>2, NotedEffect DEF in_view
      <4>3. CASE overdue(w.screen)
        BY <2>1, <3>1, <4>3, NotedEffect
      <4> QED BY <4>1, <4>2, <4>3
    <3> QED BY <1>1, <1>5, <3>1
  <2> HIDE DEF inner
  <2>5. CardStage(o, v) /\ (e.kind = "release" => inner.delivered)
    BY <1>1, <2>1, <2>3, <2>4, JudgePartsStage
  <2> HIDE DEF v
  <2>6. Clear(v) => Clear(w)
    <3>1. v.grab.prompt # {} => o.grab.prompt # {}
      BY <2>5 DEF CardStage
    <3>2. Clear(v) => Clear(o)
      BY <2>5, <3>1 DEF CardStage, Clear, in_view
    <3> QED BY <1>1, <3>2
  <2>7. Shows(w, v)
    BY <1>1, <2>5, <2>6 DEF Shows, CardStage
  <2> QED BY <1>1, <1>2, <1>3, <2>5, <2>7, Zenon DEF CardStage, inner, v, outer, o
<1> QED BY <1>4, <1>5, Zenon DEF inner, v, outer, o

LEMMA InputStep ==
    ASSUME ScreenInv, NEW e \in Event, NEW accepted \in BOOLEAN, route_physical_inputs(e, accepted)
    PROVE  ScreenInv' /\ raised(world)' = raised(world)
<1> DEFINE m     == moved(world, e)
           outer == lock_judge(m, e, accepted)
           inner == IF outer.delivered THEN judge_parts(outer.world, e) ELSE outer
           i     == inner.world
           r     == IF inner.delivered THEN routed(i, e) ELSE i
           w     == busy(r)
<1>1. /\ now \in Nat /\ world \in World /\ world.screen.active /\ Covered(world)
      /\ world.grab = grab /\ world.seat = seat /\ world.history = history
      /\ world.screen = screen
  BY DEF ScreenInv, route_physical_inputs, world, CoverInv, Covered
<1>2. becomes(w) /\ now' = now
  BY DEF route_physical_inputs, gated
<1>3. /\ m \in World /\ m.grab = world.grab /\ m.lock = world.lock /\ m.screen = world.screen
      /\ m.claims = world.claims /\ m.history = world.history /\ m.seat.app = seat.app
      /\ m.seat.held = IF e.kind = "press" THEN seat.held \cup {e.button}
                       ELSE IF e.kind = "release" THEN seat.held \ {e.button}
                       ELSE seat.held
  BY <1>1, MovedEffect
<1> HIDE DEF m
<1>4. (in_view(m) <=> in_view(world)) /\ (Clear(m) <=> Clear(world)) /\ raised(m) = raised(world)
  BY <1>3 DEF in_view, Clear, raised
<1>5. GuardHolds(m)
  BY <1>1, <1>3, <1>4 DEF GuardHolds, ScreenInv, GuardInv
<1>6. CardInv(m)
  BY <1>3, SameCard DEF ScreenInv
<1>7. /\ i \in World /\ i.claims = m.claims /\ i.seat = m.seat /\ i.lock.carry = 0
      /\ i.screen = noted(m).screen
      /\ i.history.shown = m.history.shown /\ i.history.touched = now
      /\ raised(i) = raised(m) /\ Shows(m, i) /\ CardInv(i)
      /\ e.kind = "release" => inner.delivered
  BY <1>1, <1>3, <1>5, <1>6, GatesEffect, ZenonT(30)
<1> HIDE DEF outer, inner, i
<1>8. /\ r \in World /\ r.grab = i.grab /\ r.lock = i.lock /\ r.screen = i.screen
      /\ r.claims = i.claims /\ r.history = i.history /\ r.seat.held = i.seat.held
      /\ r.seat.app = IF e.kind = "press" /\ inner.delivered THEN i.seat.app \cup {e.button}
                      ELSE IF e.kind = "release" THEN i.seat.app \ {e.button}
                      ELSE i.seat.app
  <2>1. CASE inner.delivered
    <3>1. r = routed(i, e)
      BY <2>1
    <3> HIDE DEF r
    <3> QED BY <1>7, <2>1, <3>1, RoutedEffect, Zenon
  <2>2. CASE ~inner.delivered
    <3>1. r = i
      BY <2>2
    <3> HIDE DEF r
    <3> QED BY <1>7, <2>2, <3>1
  <2> QED BY <2>1, <2>2
<1> HIDE DEF r
<1>9. /\ w \in World /\ w.grab = r.grab /\ w.lock = r.lock /\ w.screen = r.screen
      /\ w.claims = r.claims /\ w.seat = r.seat
      /\ w.history.shown = r.history.shown /\ w.history.answers = r.history.answers
      /\ w.history.late = r.history.late /\ w.history.touched = r.history.touched
  BY <1>8, BusyEffect
<1> HIDE DEF w
<1>10. CardInv(w)
  BY <1>7, <1>8, <1>9, SameCard
<1>11. Shows(world, w)
  <2>1. Clear(w) <=> Clear(i)
    BY <1>8, <1>9 DEF Clear, in_view
  <2> QED BY <1>3, <1>4, <1>7, <1>8, <1>9, <2>1 DEF Shows
<1>12. w.history.shown = history.shown
  BY <1>1, <1>3, <1>7, <1>8, <1>9
<1>13. CardInv(world)' /\ GuardInv'
  BY <1>1, <1>2, <1>9, <1>10, <1>11, <1>12, BecomesKeepsTheCard DEF ScreenInv
<1>14. /\ world' \in World /\ grab' = w.grab /\ lock' = w.lock /\ screen' = w.screen
       /\ seat' = w.seat /\ history'.touched = w.history.touched
  BY <1>1, <1>2, <1>9, <1>12, BecomesFields
<1>15. /\ screen'.phase = IF screen.phase \in {"Covering", "Dark"} THEN "Waking" ELSE screen.phase
       /\ screen'.covering = screen.covering /\ screen'.last = now
       /\ screen'.active = screen.active /\ screen'.seat_absent = screen.seat_absent
       /\ lock'.carry = 0 /\ history'.touched = now
  <2>1. /\ noted(m).screen.phase = IF m.screen.phase \in {"Covering", "Dark"} THEN "Waking"
                                   ELSE m.screen.phase
        /\ noted(m).screen.covering = m.screen.covering /\ noted(m).screen.last = now
        /\ noted(m).screen.active = m.screen.active
        /\ noted(m).screen.seat_absent = m.screen.seat_absent
    BY <1>1, <1>3, NotedEffect
  <2> QED BY <1>1, <1>3, <1>7, <1>8, <1>9, <1>14, <2>1
<1>16. CoverInv'
  BY <1>15 DEF CoverInv, ScreenInv
<1>17. IdleInv'
  BY <1>1, <1>2, <1>15 DEF IdleInv, ScreenInv
<1>18. NoLatchedButton'
  BY <1>3, <1>7, <1>8, <1>9, <1>14 DEF NoLatchedButton, ScreenInv
<1>19. raised(world)' = raised(world)
  <2>1. raised(w) = raised(world)
    BY <1>4, <1>7, <1>8, <1>9, Zenon DEF raised
  <2> QED BY <1>14, <2>1 DEF raised, world
<1> QED BY <1>1, <1>2, <1>13, <1>14, <1>16, <1>17, <1>18, <1>19 DEF ScreenInv

-----------------------------------------------------------------------------
(* The invariant, and what follows from it.                                *)

LEMMA ScreenStart == Init => ScreenInv
<1> SUFFICES ASSUME Init PROVE ScreenInv
  OBVIOUS
<1>1. now \in Nat /\ grab \in GrabState /\ grab.prompt = {} /\ grab.armed = {} /\ grab.steps = {}
  BY DEF Init, GrabState
<1>2. lock \in LockState /\ lock.carry = 0
  BY DEF Init, LockState
<1>3. screen \in ScreenState
  BY DEF Init, ScreenState
<1>4. claims \in ClaimState /\ DOMAIN claims.petitions = {}
  <2>1. [p \in {} |-> 0] \in Deadlines
    <3>1. [p \in {} |-> 0] \in [{} -> Nat]
      OBVIOUS
    <3> QED BY <3>1 DEF Deadlines
  <2> QED BY <2>1 DEF Init, ClaimState
<1>5. seat \in SeatState /\ NoLatchedButton
  BY DEF Init, SeatState, NoLatchedButton
<1>6. history \in HistoryState /\ history.answers = <<>> /\ history.shown = {}
  BY DEF Init, HistoryState
<1>7. world \in World
  BY <1>1, <1>2, <1>3, <1>4, <1>5, <1>6 DEF World, world
<1>8. CardInv(world)
  BY <1>1, <1>4, <1>6 DEF world, CardInv, ArmedAfterGuard, NothingHasty, AnsweredOnce
<1>9. GuardInv
  BY <1>1, <1>6 DEF GuardInv, in_view, Clear, world
<1>10. CoverInv /\ IdleInv
  BY <1>1, <1>2 DEF Init, CoverInv, IdleInv
<1> QED BY <1>1, <1>5, <1>7, <1>8, <1>9, <1>10 DEF ScreenInv

LEMMA ScreenSteps ==
    ASSUME ScreenInv, [Next]_vars
    PROVE  /\ ScreenInv'
           /\ raised(world)' \subseteq raised(world) \/ reachable(world)
<1>1. ASSUME NEW e \in Event, NEW accepted \in BOOLEAN, route_physical_inputs(e, accepted)
      PROVE  ScreenInv' /\ raised(world)' = raised(world)
  BY <1>1, InputStep
<1>2. ASSUME NEW wanted \in BOOLEAN, on_vblank(wanted)
      PROVE  ScreenInv' /\ raised(world)' = raised(world)
  BY <1>2, VblankStep
<1>3. CASE post_dispatch
  BY <1>3, RoundStep
<1>4. CASE service_present
  BY <1>4, PresentStep
<1>5. CASE pause_session
  BY <1>5, PauseStep
<1>6. CASE activate_session
  BY <1>6, ActivateStep
<1>7. CASE petition
  BY <1>7, PetitionStep
<1>8. CASE designate
  BY <1>8, DesignateStep
<1>9. CASE sweep_at
  BY <1>9, SweepStep
<1>10. CASE withdraw
  BY <1>10, WithdrawStep
<1>11. CASE time_passes
  BY <1>11, TimeStep
<1>12. CASE UNCHANGED vars
  <2>1. /\ now' = now /\ grab' = grab /\ lock' = lock /\ screen' = screen /\ claims' = claims
        /\ seat' = seat /\ history' = history /\ world' = world
    BY <1>12 DEF vars, world
  <2>4. /\ now \in Nat /\ world \in World
        /\ CardInv(world) /\ GuardInv /\ CoverInv /\ IdleInv /\ NoLatchedButton
    BY DEF ScreenInv
  <2>5. (now \in Nat /\ world \in World)'
    BY <2>1, <2>4
  <2>6. CardInv(world)'
    BY <2>1, <2>4, Zenon DEF CardInv, ArmedAfterGuard, NothingHasty, AnsweredOnce
  <2>7. GuardInv'
    BY <2>1, <2>4, Zenon DEF GuardInv, in_view, Clear, world
  <2>8. CoverInv'
    BY <2>1, <2>4, Zenon DEF CoverInv, Covered, world
  <2>9. IdleInv'
    BY <2>1, <2>4, Zenon DEF IdleInv
  <2>10. NoLatchedButton'
    BY <2>1, <2>4, Zenon DEF NoLatchedButton
  <2>2. ScreenInv'
    BY <2>5, <2>6, <2>7, <2>8, <2>9, <2>10 DEF ScreenInv
  <2>3. raised(world)' = raised(world)
    BY <2>1, Zenon DEF raised, world
  <2> QED BY <2>2, <2>3
<1> QED BY <1>1, <1>2, <1>3, <1>4, <1>5, <1>6, <1>7, <1>8, <1>9, <1>10, <1>11, <1>12 DEF Next

LEMMA ScreenInvHolds == Spec => []ScreenInv
<1>1. ScreenInv /\ [Next]_vars => ScreenInv'
  BY ScreenSteps
<1> QED BY <1>1, ScreenStart, PTL DEF Spec

(* Whatever the human does and however locks, blanks, wakes, suspends, VT  *)
(* switches and rounds fall in between, no answer and no picker step is a  *)
(* reflex, and one card is answered once (grab.rs, judge_parts and commit).*)
THEOREM AnswersAreDeliberate == Spec => []DeliberateAnswers
<1>1. ScreenInv => DeliberateAnswers
  <2> SUFFICES ASSUME ScreenInv PROVE DeliberateAnswers
    OBVIOUS
  <2>1. world.grab = grab /\ world.history = history /\ CardInv(world)
    BY DEF world, ScreenInv
  <2>2. NothingHasty(world) /\ AnsweredOnce(world)
    BY <2>1 DEF CardInv
  <2>3. /\ \A s \in grab.steps : s.care # "hasty"
        /\ \A i \in DOMAIN history.answers : history.answers[i].care # "hasty"
    BY <2>1, <2>2 DEF NothingHasty
  <2>4. \A i, j \in DOMAIN history.answers :
           history.answers[i].subject = history.answers[j].subject => i = j
    BY <2>1, <2>2 DEF AnsweredOnce
  <2> QED BY <2>3, <2>4 DEF DeliberateAnswers
<1> QED BY <1>1, ScreenInvHolds, PTL

(* No gate keeps from an application the release of a button whose press   *)
(* it was sent (gate.rs and grab.rs let every release through).            *)
THEOREM NoButtonStaysLatched == Spec => []NoLatchedButton
<1>1. ScreenInv => NoLatchedButton
  BY DEF ScreenInv
<1> QED BY <1>1, ScreenInvHolds, PTL

(* In every reachable state the rounds of session.rs would take down each  *)
(* card whose petition or designation is over.                             *)
THEOREM RoundsLeaveNoOrphan == Spec => []NoOrphanCard
<1>1. ScreenInv => NoOrphanCard
  <2> SUFFICES ASSUME ScreenInv, NEW ends \in BOOLEAN, NEW opens \in BOOLEAN
               PROVE  LET ticked == lock_tick(picker_round(consent_round(world), ends, opens))
                          w      == journaled(ticked)
                      IN  \A s \in raised(w) :
                             \/ s[2] \in DOMAIN (IF s[1] = "Petition" THEN w.claims.petitions
                                                 ELSE w.claims.designations)
                             \/ s[1] = "Designation" /\ tells(ticked.lock.journal, "Locked")
    BY Zenon DEF NoOrphanCard
  <2> DEFINE asked  == consent_round(world)
             picked == picker_round(asked, ends, opens)
             ticked == lock_tick(picked)
             w      == journaled(ticked)
  <2>1. now \in Nat /\ world \in World
    BY DEF ScreenInv
  <2>2. asked \in World /\ PetitionsWait(asked)
    BY <2>1, ConsentRoundStage DEF Quiet
  <2> HIDE DEF asked
  <2>3. picked \in World /\ PetitionsWait(picked) /\ PickersWait(picked)
    BY <2>1, <2>2, PickerRoundStage DEF PickerStage, Quiet
  <2> HIDE DEF picked
  <2>4. ticked \in World /\ ticked.grab = picked.grab /\ ticked.claims = picked.claims
    BY <2>3, LockTickStage DEF Quiet
  <2> HIDE DEF ticked
  <2>5. /\ w \in World /\ raised(w) = raised(ticked)
        /\ w.claims.petitions = ticked.claims.petitions
        /\ ~tells(ticked.lock.journal, "Locked") =>
              w.claims.designations = ticked.claims.designations
    BY <2>1, <2>4, JournaledStage DEF Quiet
  <2> HIDE DEF w
  <2>6. raised(w) = raised(picked) /\ raised(picked) \subseteq Subject
    BY <2>3, <2>4, <2>5, OneCard DEF raised
  <2>7. ASSUME NEW s \in raised(w)
        PROVE  \/ s[2] \in DOMAIN (IF s[1] = "Petition" THEN w.claims.petitions
                                   ELSE w.claims.designations)
               \/ s[1] = "Designation" /\ tells(ticked.lock.journal, "Locked")
    <3>1. s \in raised(picked) /\ s[1] \in {"Petition", "Designation"}
      BY <2>6 DEF Subject
    <3>2. CASE s[1] = "Petition"
      <4>1. s[2] \in DOMAIN w.claims.petitions
        BY <2>3, <2>4, <2>5, <3>1, <3>2 DEF PetitionsWait
      <4> QED BY <3>2, <4>1
    <3>3. CASE s[1] = "Designation"
      <4>1. s[2] \in DOMAIN ticked.claims.designations
        BY <2>3, <2>4, <3>1, <3>3 DEF PickersWait
      <4> QED BY <2>5, <3>3, <4>1
    <3> QED BY <3>1, <3>2, <3>3
  <2> QED BY <2>7 DEF w, ticked, picked, asked
<1> QED BY <1>1, ScreenInvHolds, PTL

(* LockScreen::tick locks whoever has touched nothing for LockAfter, the   *)
(* time spent on another VT included (set_seat_absent, the carry).         *)
THEOREM IdleTimeIsCarried == Spec => []IdleIsCarried
<1>1. ScreenInv => IdleIsCarried
  <2> SUFFICES ASSUME ScreenInv, SeatChange = "Idle", screen.active,
                      now - history.touched >= LockAfter, designated(world) = {}
               PROVE  lock_tick(world).lock.locked
    BY DEF IdleIsCarried
  <2>1. world \in World /\ world.lock = lock /\ world.screen = screen
    BY DEF ScreenInv, world
  <2>2. /\ now \in Nat /\ history.touched \in Nat /\ lock.carry \in Nat /\ screen.last \in Nat
        /\ LockAfter \in Nat
    BY ScreenAssumption DEF ScreenInv, World, LockState, ScreenState, HistoryState, world
  <2>3. ~screen.seat_absent /\ screen.last <= history.touched + lock.carry
    BY DEF ScreenInv, IdleInv
  <2>4. ~(now - screen.last + lock.carry < LockAfter)
    BY <2>2, <2>3
  <2>5. ~picker_holds_the_screen_awake(world)
    BY DEF picker_holds_the_screen_awake
  <2>6. CASE lock.locked
    <3>1. lock_tick(world) = world
      BY <2>1, <2>6 DEF lock_tick
    <3> QED BY <2>1, <2>6, <3>1
  <2>7. CASE ~lock.locked
    <3>1. lock_tick(world) = lock_raise(world)
      BY <2>1, <2>3, <2>4, <2>5, <2>7 DEF lock_tick
    <3> QED BY <2>1, <3>1, LockRaiseEffect
  <2> QED BY <2>6, <2>7
<1> QED BY <1>1, ScreenInvHolds, PTL

(* Only the round raises a card, and only where prompt_visibility finds    *)
(* the screen this session's and uncovered; the cover is up whenever the   *)
(* panel is dark or about to be.                                           *)
THEOREM CardsComeUpInView == Spec => CardsRaisedInView
<1> DEFINE Lit == screen.active /\ screen.phase \notin {"Covering", "Dark"}
<1>1. ScreenInv /\ [Next]_vars => [raised(world)' \subseteq raised(world) \/ Lit]_vars
  <2> SUFFICES ASSUME ScreenInv, [Next]_vars
               PROVE  raised(world)' \subseteq raised(world) \/ Lit
    OBVIOUS
  <2>1. raised(world)' \subseteq raised(world) \/ reachable(world)
    BY ScreenSteps
  <2>2. reachable(world) => Lit
    BY DEF ScreenInv, CoverInv, reachable, world
  <2> QED BY <2>1, <2>2
<1>2. []ScreenInv /\ [][Next]_vars => CardsRaisedInView
  BY <1>1, PTL DEF CardsRaisedInView
<1> QED BY <1>2, ScreenInvHolds, PTL DEF Spec
=============================================================================
