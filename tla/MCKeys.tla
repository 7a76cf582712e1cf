------------------------------- MODULE MCKeys -------------------------------
(***************************************************************************)
(* Small instances of what the core does with keys of its own: the         *)
(* attention key, the chords and the way off the terminal.  They share no  *)
(* state, so they are checked side by side: a behaviour is about one part, *)
(* and the others stay as they started.  The constants of Chords are in    *)
(* the cfg, and its properties are checked as they stand.                  *)
(***************************************************************************)
EXTENDS Chords

VARIABLES
    part,
    clock, switch, timer, filter, seat, key_app, finger, last, clean,
    vt_here, vt_pending, vt_timer, notice, notice_timer, vt_last

Key == INSTANCE DeadManSwitch WITH Hold <- 2, MaxClock <- 5, app <- key_app

Escape == INSTANCE VtEscape WITH
    SelfKnown <- TRUE, Arms <- {TRUE}, VT_SWITCH_TIMEOUT <- 2, NOTICE_DEADLINE <- 3,
    here <- vt_here, last <- vt_last

ASSUME Key!HoldAssumption

key_vars    == <<clock, switch, timer, filter, seat, key_app, finger, last, clean>>
escape_vars == <<vt_here, vt_pending, vt_timer, notice, notice_timer, vt_last>>

all_vars == <<part, key_vars, vars, escape_vars>>

Start ==
    /\ part \in {"key", "chord", "escape"}
    /\ Key!Init /\ Init /\ Escape!Init

in_key(A)    == part = "key" /\ A /\ UNCHANGED <<part, vars, escape_vars>>
in_chord(A)  == part = "chord" /\ A /\ UNCHANGED <<part, key_vars, escape_vars>>
in_escape(A) == part = "escape" /\ A /\ UNCHANGED <<part, key_vars, vars>>

Step == in_key(Key!Next) \/ in_chord(Next) \/ in_escape(Escape!Next)

(* The fairness of each part, as its module states and justifies it.       *)
FairSpec ==
    /\ Start /\ [][Step]_all_vars
    /\ WF_all_vars(in_key(Key!frame)) /\ WF_all_vars(in_key(Key!time_passes))
    /\ WF_all_vars(in_escape(Escape!tick))
    /\ WF_all_vars(in_escape(Escape!notice_timer_fires))
    /\ WF_all_vars(in_escape(Escape!vt_timer_fires(TRUE)))

-----------------------------------------------------------------------------
(* The application never holds the chord key between turns                 *)
(* (DeadManSwitch).                                                        *)
NoLatchedKey == Key!NoLatchedKey

(* A press of the chord key is judged by how long it lasted                *)
(* (DeadManSwitch).                                                        *)
HoldsAreJudgedByLength == Key!HoldsAreJudgedByLength

(* A hold that is kept ends in a trigger with no further input             *)
(* (DeadManSwitch).                                                        *)
HoldEndsInTrigger == Key!HoldEndsInTrigger

(* A request to leave this terminal is answered, and the answer goes       *)
(* (VtEscape).                                                             *)
EscapeIsAnswered == Escape!EscapeIsAnswered
=============================================================================
