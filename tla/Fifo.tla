-------------------------------- MODULE Fifo --------------------------------
(***************************************************************************)
(* What one direction of a connection promises: messages handed to it come *)
(* out once, in order and with their own descriptor, until it is cut, and  *)
(* after the cut what still comes out is a prefix of what was handed over. *)
(***************************************************************************)
EXTENDS SequencesExt

VARIABLES
    accepted,       \* every message the connection has taken, in order
    queue,          \* taken and not yet received
    received,
    open            \* FALSE once the sending end is gone

vars == <<accepted, queue, received, open>>

fresh == SubSeq(accepted', Len(accepted) + 1, Len(accepted'))

Init == accepted = <<>> /\ queue = <<>> /\ received = <<>> /\ open = TRUE

Accept ==
    /\ open /\ open'
    /\ IsPrefix(accepted, accepted')
    /\ queue' = queue \o fresh
    /\ UNCHANGED received

Receive ==
    /\ queue # <<>>
    /\ queue' = Tail(queue)
    /\ received' = Append(received, Head(queue))
    /\ UNCHANGED <<accepted, open>>

(* The sending end goes, perhaps in the step in which it took more, and    *)
(* with it what it had not yet written.                                    *)
Cut ==
    /\ open /\ ~open'
    /\ IsPrefix(accepted, accepted')
    /\ IsPrefix(queue', queue \o fresh)
    /\ UNCHANGED received

Next == Accept \/ Receive \/ Cut

Spec == Init /\ [][Next]_vars
=============================================================================
