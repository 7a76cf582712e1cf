------------------------------ MODULE VtEscape ------------------------------
(***************************************************************************)
(* Leaving this virtual terminal on bare metal (backend/drm.rs): the       *)
(* request a chord of vt.rs makes of the seat, the watchdog for a switch   *)
(* that was accepted and never happened, and the notice that says so on    *)
(* the panel (notice.rs) with its own timer.                               *)
(*                                                                         *)
(* A deadline is the time left until it, and a timer may fire late.        *)
(***************************************************************************)
EXTENDS Naturals

CONSTANTS
    SelfKnown,          \* the session's own VT was resolved (self_vt)
    Arms,               \* what registering a timer may give: success, failure
    VT_SWITCH_TIMEOUT,
    NOTICE_DEADLINE

VARIABLES
    here,           \* the seat is ours
    vt_pending,     \* a request the seat accepted is waiting for its pause
    vt_timer,       \* the watchdog in the loop
    notice,         \* the notice on the panel
    notice_timer,
    last            \* history: what the last step showed or learned

vars == <<here, vt_pending, vt_timer, notice, notice_timer, last>>

Init ==
    /\ here = TRUE
    /\ vt_pending = FALSE /\ vt_timer = {}
    /\ notice = {} /\ notice_timer = {}
    /\ last = "nothing"

(* raise_trapped_notice, with arm_notice_timer.                            *)
raise_trapped_notice(arms) ==
    /\ notice' = {NOTICE_DEADLINE}
    /\ notice_timer' = IF notice_timer # {} \/ ~arms THEN notice_timer ELSE {NOTICE_DEADLINE}

\* Each request starts the timer again.
arm_vt_timer_again(arms) ==
    vt_timer' = IF ~SelfKnown \/ ~arms THEN vt_timer ELSE {VT_SWITCH_TIMEOUT}

(* arm_vt_timer, for the request of this step.                             *)
arm_vt_timer(arms) ==
    vt_timer' = IF vt_timer # {} \/ ~SelfKnown \/ ~arms THEN vt_timer ELSE {VT_SWITCH_TIMEOUT}

(* drain_vt_requests: the chord named this VT, or the seat accepted the    *)
(* request, or refused it.                                                 *)
drain_vt_requests(seat, arms) ==
    /\ here
    /\ \/ /\ seat = "own" /\ SelfKnown
          /\ last' = "nothing"
          /\ UNCHANGED <<vt_pending, vt_timer, notice, notice_timer>>
       \/ /\ seat = "accepts"
          /\ vt_pending' = TRUE
          /\ arm_vt_timer(arms)
          /\ last' = "nothing"
          /\ UNCHANGED <<notice, notice_timer>>
       \/ /\ seat = "refuses"
          /\ raise_trapped_notice(arms)
          /\ last' = "raised"
          /\ UNCHANGED <<vt_pending, vt_timer>>
    /\ UNCHANGED here

(* The watchdog: whatever is pending has stalled.                          *)
vt_timer_fires(arms) ==
    /\ vt_timer = {0} /\ vt_timer' = {}
    /\ vt_pending' = FALSE
    /\ IF ~vt_pending THEN last' = "nothing" /\ UNCHANGED <<notice, notice_timer>>
       ELSE last' = "raised" /\ raise_trapped_notice(arms)
    /\ UNCHANGED here

(* notice_tick; a notice raised again meanwhile moves the timer.           *)
notice_timer_fires ==
    /\ notice_timer = {0}
    /\ notice' = notice \ {0} /\ notice_timer' = notice'
    /\ last' = "nothing"
    /\ UNCHANGED <<here, vt_pending, vt_timer>>

(* PauseSession: the acknowledgement.                                      *)
pause ==
    /\ here /\ here' = FALSE
    /\ vt_pending' = FALSE
    /\ last' = "paused"
    /\ UNCHANGED <<vt_timer, notice, notice_timer>>

activate ==
    /\ ~here /\ here' = TRUE
    /\ last' = "nothing"
    /\ UNCHANGED <<vt_pending, vt_timer, notice, notice_timer>>

less(deadline) == {IF d > 0 THEN d - 1 ELSE 0 : d \in deadline}

tick ==
    /\ vt_timer' = less(vt_timer)
    /\ notice' = less(notice) /\ notice_timer' = less(notice_timer)
    /\ last' = "nothing"
    /\ UNCHANGED <<here, vt_pending>>

Next ==
    \/ \E seat \in {"own", "accepts", "refuses"}, arms \in Arms : drain_vt_requests(seat, arms)
    \/ \E arms \in Arms : vt_timer_fires(arms)
    \/ notice_timer_fires
    \/ pause \/ activate
    \/ tick

Spec == Init /\ [][Next]_vars

(* The clock runs and calloop fires the timers that are due; nothing is    *)
(* promised of the human or of the seat.                                   *)
FairSpec ==
    /\ Spec
    /\ WF_vars(tick)
    /\ WF_vars(\E arms \in Arms : vt_timer_fires(arms))
    /\ WF_vars(notice_timer_fires)

-----------------------------------------------------------------------------
(* A chord the seat accepted is answered: the session is paused or the     *)
(* panel says it was not, though the human goes on chording, the seat      *)
(* pauses and returns in between and only one watchdog is ever armed       *)
(* (arm_vt_timer, vt_timer_fires).  And the answer does not stay on the    *)
(* panel unless the human keeps raising it, though one timer serves every  *)
(* raise (arm_notice_timer).                                               *)
EscapeIsAnswered ==
    /\ vt_pending ~> (last \in {"paused", "raised"})
    /\ []<>(notice = {} \/ last = "raised")
=============================================================================
