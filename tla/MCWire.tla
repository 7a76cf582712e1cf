------------------------------- MODULE MCWire -------------------------------
(***************************************************************************)
(* Small instances of the transport: one connection, and the processes     *)
(* that start on one socket path.  They share no state, so they are        *)
(* checked side by side; the constants of SocketLock are in the cfg, and   *)
(* its ListenerOwnsThePath is checked as it stands.                        *)
(***************************************************************************)
EXTENDS SocketLock

VARIABLES
    part,
    outbox, ping, wake, writable, registered, conn, stream, peer, reading,
    inbound, hung_up, next_id, says, wakes, accepted, received

Wire == INSTANCE Transport WITH
    HEADER_LEN <- 2, MAX_MESSAGE_SIZE <- 3, MAX_UNCLAIMED_FDS <- 2,
    MAX_SEND_QUEUE_BYTES <- 4, MAX_SEND_QUEUE_FDS <- 1, MAX_OUTBOX_FRAMES <- 1,
    SocketRoom <- 3, Sizes <- {2, 3}, MaxFrames <- 3, MaxSays <- 1, MaxWakes <- 1

wire_vars == <<outbox, ping, wake, writable, registered, conn, stream, peer, reading,
               inbound, hung_up, next_id, says, wakes, accepted, received>>

all_vars == <<part, wire_vars, vars>>

Start == part \in {"wire", "socket"} /\ Wire!Init /\ Init

in_wire(A)   == part = "wire" /\ A /\ UNCHANGED <<part, vars>>
in_socket(A) == part = "socket" /\ A /\ UNCHANGED <<part, wire_vars>>

Step == in_wire(Wire!Next) \/ in_socket(Next)

(* The loop polls and the peer reads, as Transport states and justifies.   *)
FairSpec ==
    /\ Start /\ [][Step]_all_vars
    /\ WF_all_vars(in_wire(Wire!drain_outbox))
    /\ WF_all_vars(in_wire(Wire!dispatch_connection))
    /\ WF_all_vars(in_wire(Wire!recv_message))

-----------------------------------------------------------------------------
(* The byte and descriptor counts of the send queue are those of the       *)
(* queue, within the caps (Transport).                                     *)
QueueIsAccounted == Wire!QueueIsAccounted

(* A connection under partial writes and reads is a queue of messages that *)
(* loses, repeats and reorders none (Transport implements Fifo).           *)
ImplementsFifo == Wire!ImplementsFifo

(* Neither a parked message nor a requested turn waits for the peer to     *)
(* speak (Transport).                                                      *)
NothingIsLeftWaiting == Wire!NothingIsLeftWaiting
=============================================================================
