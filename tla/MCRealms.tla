------------------------------ MODULE MCRealms ------------------------------
(***************************************************************************)
(* Small instances of what the core does with its realms, the files it     *)
(* designates to them and the journal it keeps.  They are checked side by  *)
(* side: a behaviour is about one scenario, and the state of the others    *)
(* stays as it started.                                                    *)
(***************************************************************************)
EXTENDS Naturals

CONSTANTS c1, c2, a, b

VARIABLES part, w, now, p_w, proc, p_now, over, v, v_now

-----------------------------------------------------------------------------
(* Two declared realms.  "clip": both run and the human copies between     *)
(* them.  "launch": the second is a template, launched three times with    *)
(* room for two.  "pointer": the first asks twice for the pointer, the     *)
(* second once.                                                            *)

Clip == INSTANCE Realms WITH
    Roots <- {1, 2}, Templates <- {}, MAX_REALMS <- 2, CLIPBOARD_LIFETIME <- 1,
    MaxLaunches <- 0, MaxPromotions <- 2, MaxAsks <- 0, Eager <- {}, MaxTime <- 2

Launch == INSTANCE Realms WITH
    Roots <- {1, 2}, Templates <- {2}, MAX_REALMS <- 3, CLIPBOARD_LIFETIME <- 1,
    MaxLaunches <- 3, MaxPromotions <- 0, MaxAsks <- 0, Eager <- {}, MaxTime <- 0

Pointer == INSTANCE Realms WITH
    Roots <- {1, 2}, Templates <- {}, MAX_REALMS <- 2, CLIPBOARD_LIFETIME <- 1,
    MaxLaunches <- 0, MaxPromotions <- 0, MaxAsks <- 2, Eager <- {1}, MaxTime <- 0

(* "files": two agents, one of them under a once grant, and one realm.     *)
Files == INSTANCE Powerbox WITH
    w <- p_w, now <- p_now, Connections <- {c1, c2}, Together <- {}, Once <- {c1},
    MAX_OUTSTANDING <- 2, PICKER_DEADLINE <- 1, DELIVERY_DEADLINE <- 1,
    MaxAsks <- 2, MaxSteps <- 1, MaxTime <- 1

(* "journal": two runs of refusals where one may be open.                  *)
Journal == INSTANCE Recorder WITH
    now <- v_now, Connections <- {c1}, Wires <- {1, 2}, Codes <- {a, b},
    RECOVERY_ATTEMPTS <- 2, RECOVERY_BACKOFF <- 1, REFUSAL_SUMMARY_INTERVAL <- 1,
    MAX_REFUSAL_RUNS <- 1, MaxCalls <- 3, MaxTime <- 1

-----------------------------------------------------------------------------
realm_vars   == <<w, now>>
file_vars    == <<p_w, proc, p_now, over>>
journal_vars == <<v, v_now>>

vars == <<part, realm_vars, file_vars, journal_vars>>

Init ==
    /\ part \in {"clip", "launch", "pointer", "files", "journal"}
    /\ CASE part = "launch"  -> Launch!Init
         [] part = "pointer" -> Pointer!Init
         [] OTHER            -> Clip!Init
    /\ Files!Init /\ Journal!Init

in_realms(scenario, A) ==
    part = scenario /\ A /\ UNCHANGED <<part, file_vars, journal_vars>>
in_files(A)   == part = "files" /\ A /\ UNCHANGED <<part, realm_vars, journal_vars>>
in_journal(A) == part = "journal" /\ A /\ UNCHANGED <<part, realm_vars, file_vars>>

Next ==
    \/ in_realms("clip", Clip!Next) \/ in_realms("launch", Launch!Next)
    \/ in_realms("pointer", Pointer!Next)
    \/ in_files(Files!Next) \/ in_journal(Journal!Next)

Spec == Init /\ [][Next]_vars

-----------------------------------------------------------------------------
(* The output shows a serving realm while there is one, and the human's    *)
(* input goes to no other (rebind_output_after_death, bind_to).            *)
InputFollowsTheOutput == Clip!InputFollowsTheOutput

(* An id that named a realm never names another (mint_instance).           *)
NamesAreNotReused == Launch!NamesAreNotReused

(* What the human pastes is what they copied, from a live realm and in     *)
(* time (claim_answer, fill, peek, forget_realm, clear).                   *)
OffersAreTheHumans == part = "clip" => Clip!OffersAreTheHumans

(* An app the core can reach knows what became of every ask for the        *)
(* pointer (ask, withdraw, reconcile).                                     *)
AppsKnowTheirConstraint == part = "pointer" => Pointer!AppsKnowTheirConstraint

(* A designation runs its course under live authority, answered at most    *)
(* once and journalled exactly once (redeem, journal_abandoned).           *)
ImplementsDesignation == Files!ImplementsDesignation

(* No delivery waits for a turn that is not coming (deliver_realm_copy,    *)
(* owed_by_connection).                                                    *)
OwedHalvesHaveATurn == Files!OwedHalvesHaveATurn

(* The observers of a death bury the realm once (die, collect_exit).       *)
BuriedOnce == Files!BuriedOnce

(* The journal alone tells what it lost (write_line, try_recover).         *)
JournalIsAccounted == Journal!JournalIsAccounted

(* No refusal goes uncounted (note_refusal, flush_refusal_run).            *)
RefusalsAddUp == Journal!RefusalsAddUp
=============================================================================
