------------------------------ MODULE Lifecycle -----------------------------
(***************************************************************************)
(* The death of a realm (vitrin-core/src/lifecycle.rs).  A realm l is the  *)
(* RealmLifecycle, the RealmRuntime around it and its row of the registry  *)
(* in one record; proc is the kernel's side of the shim process, which the *)
(* core only learns of by waiting.  The operators take and return realms.  *)
(*                                                                         *)
(*   death, exit     Options: the latched cause, the class of the exit     *)
(*   child           the Child is still held, that is, not reaped          *)
(*   registered      the hangup is held: the source is in the loop         *)
(*   serving         the ShimServer is there                               *)
(*   row             the state of the registry row                         *)
(*   core_signals    signals the core sent with success                    *)
(*   died, exited    journal: RealmDied and RealmExited records            *)
(***************************************************************************)
EXTENDS Naturals, Sequences

ExitClasses == {"Exited", "SIGTERM", "SIGKILL"}

adopted ==
    [death |-> {}, exit |-> {}, child |-> TRUE, registered |-> TRUE, serving |-> TRUE,
     row |-> "Running", core_signals |-> {}, died |-> 0, exited |-> <<>>]

core_initiated(l) == \E class \in l.exit : class \in l.core_signals

(* Everything a death means, behind its latch; the hangup goes last.       *)
die_unlatched(l, cause) ==
    [l EXCEPT !.death = {cause}, !.serving = FALSE, !.row = "Exited",
              !.died = @ + 1, !.registered = FALSE]

die(l, cause) ==
    IF l.death # {} THEN l
    ELSE [l EXCEPT !.death = {cause},
                   !.serving = FALSE,
                   !.row = "Exited",
                   !.died = @ + 1,
                   !.registered = FALSE]

collect_exit(l, class) ==
    LET dead == die([l EXCEPT !.child = FALSE, !.exit = {class}], "ProcessExit")
    IN  [dead EXCEPT !.exited = Append(@, [class |-> class, core |-> core_initiated(dead)])]

(* try_wait: the class of a process that can be reaped.                    *)
poll_exit(l, proc) ==
    IF l.child /\ proc.state = "zombie" THEN collect_exit(l, proc.class) ELSE l

signal(l, sig) == IF l.child THEN [l EXCEPT !.core_signals = @ \cup {sig}] ELSE l

note_connection_closed(l, cause, proc) ==
    signal(poll_exit(die(l, cause), proc), "SIGTERM")

(* The ladder, for a shim that goes when `until` says: before anything is  *)
(* sent, in the grace of SIGTERM, or not before SIGKILL; each rung waits.  *)
shutdown(l, proc, until, class) ==
    LET dead   == poll_exit(die(l, "Shutdown"), proc)
        termed == signal(dead, "SIGTERM")
        killed == signal(termed, "SIGKILL")
    IN  CASE ~dead.child      -> dead
          [] until = "Hangup" -> collect_exit(dead, class)
          [] until = "Term"   -> collect_exit(termed, class)
          [] until = "Kill"   -> collect_exit(killed, "SIGKILL")
=============================================================================
