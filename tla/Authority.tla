----------------------------- MODULE Authority ------------------------------
(***************************************************************************)
(* What the capability kernel promises, with no clock, connection, prompt  *)
(* or petition in sight: a set of live rights, each with a holder and      *)
(* verbs.  A right is granted under an id never used before, at most one   *)
(* right arranges the layout, rights only ever end, and once the dead-man  *)
(* switch has fired none is granted again.                                 *)
(***************************************************************************)
EXTENDS Naturals

CONSTANTS Identities, Verbs, LayoutArrange

VARIABLES
    rights,     \* id -> [holder, verbs] of the rights that are live
    issued,     \* how many ids have been used
    sealed      \* whether the dead-man switch has fired

avars == <<rights, issued, sealed>>

Right == [holder : Identities, verbs : SUBSET Verbs]

Init ==
    /\ rights = [g \in {} |-> {}]
    /\ issued = 0
    /\ sealed = FALSE

Grant(right) ==
    /\ ~sealed
    /\ LayoutArrange \in right.verbs =>
           \A g \in DOMAIN rights : LayoutArrange \notin rights[g].verbs
    /\ issued' = issued + 1
    /\ rights' = [g \in DOMAIN rights \cup {issued'} |->
                     IF g = issued' THEN right ELSE rights[g]]
    /\ UNCHANGED sealed

(* A grant that confers nothing: its id is used, no right appears.         *)
GrantDead ==
    /\ issued' = issued + 1
    /\ UNCHANGED <<rights, sealed>>

End(some) ==
    /\ rights' = [g \in DOMAIN rights \ some |-> rights[g]]
    /\ UNCHANGED <<issued, sealed>>

Seal ==
    /\ rights' = [g \in {} |-> {}]
    /\ sealed' = TRUE
    /\ UNCHANGED issued

Next ==
    \/ \E right \in Right : Grant(right)
    \/ GrantDead
    \/ \E some \in SUBSET DOMAIN rights : End(some)
    \/ Seal

Spec == Init /\ [][Next]_avars
=============================================================================
