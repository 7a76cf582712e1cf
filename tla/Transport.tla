------------------------------ MODULE Transport -----------------------------
(***************************************************************************)
(* One connection of vitrin-ipc, from the core to a peer: the outbox and   *)
(* the calloop source that drains it (event_loop.rs), the bounded send     *)
(* queue of the connection and its receive half (connection.rs) at the     *)
(* other end, and between them the kernel's stream, which carries bytes in *)
(* segments and a descriptor on the first byte of one.                     *)
(*                                                                         *)
(* A frame is [id, size, fd], fd holding the descriptor it declares, if    *)
(* any, named by the frame's id.  Its bytes are the pairs <<frame, k>>;    *)
(* the first HEADER_LEN are its header, and the last one stands for the    *)
(* message.  One dispatch of the source is one step; the peer is another   *)
(* process and steps between dispatches.                                   *)
(***************************************************************************)
EXTENDS Naturals, SequencesExt, FiniteSetsExt

CONSTANTS
    HEADER_LEN,
    MAX_MESSAGE_SIZE,       \* bytes one recvmsg asks for
    MAX_UNCLAIMED_FDS,
    MAX_SEND_QUEUE_BYTES,
    MAX_SEND_QUEUE_FDS,
    MAX_OUTBOX_FRAMES,
    SocketRoom,             \* bytes the kernel holds for the peer
    Sizes,                  \* sizes of the frames the core sends
    MaxFrames,              \* bound: frames the core tries to send, and one more
    MaxSays,                \* bound: messages the peer sends
    MaxWakes                \* bound: turns the core asks for, and one more

VARIABLES
    outbox,         \* OutboxSink::queue
    ping,           \* the outbox's eventfd is readable
    wake,           \* ConnectionSource::wake
    writable,       \* inner.interest.writable
    registered,     \* the source is in the loop and the socket open
    conn,           \* the send half of Connection
    stream,         \* the kernel's buffer towards the peer
    peer,           \* the receive half at the peer: Connection
    reading,        \* the peer has not shut its read side
    inbound,        \* messages of the peer the core has not received
    hung_up,        \* the peer closed its end
    next_id, says, wakes,   \* bounds
    accepted,       \* messages the connection took
    received        \* messages recv_message returned to the peer

vars == <<outbox, ping, wake, writable, registered, conn, stream, peer, reading,
          inbound, hung_up, next_id, says, wakes, accepted, received>>

peer_vars == <<peer, reading, inbound, hung_up, says, received>>

(* The one element of a set.  the({f(x) : x \in {e}}) is f(e), with e       *)
(* evaluated once.                                                         *)
the(S) == CHOOSE x \in S : TRUE

Frame(id, size, fd) == [id |-> id, size |-> size, fd |-> IF fd THEN {id} ELSE {}]

bytes_of(f, from) == [k \in 1 .. f.size - from |-> <<f, from + k>>]

message(f) == <<f, f.size>>

-----------------------------------------------------------------------------
(* The kernel.  sendmsg takes what fits, in one segment; recvmsg glues     *)
(* segments together up to its buffer, but not past one that carries a     *)
(* descriptor.                                                             *)

segment(bytes, fd) == [bytes |-> bytes, fd |-> fd]

glued(segments) == FlattenSeq([i \in DOMAIN segments |-> segments[i].bytes])

room(segments) == SocketRoom - Len(glued(segments))

(* The bytes one recvmsg returns of those before it has to stop, and the   *)
(* descriptors that come with them.                                        *)
recvmsg(segments) ==
    LET carriers == {i \in DOMAIN segments : segments[i].fd # {}}
        last     == IF carriers = {} THEN Len(segments) ELSE Min(carriers)
        n        == Min({Len(glued(SubSeq(segments, 1, last))), MAX_MESSAGE_SIZE})
        before(i) == Len(glued(SubSeq(segments, 1, i - 1)))
        taken(i) == Min({n - before(i), Len(segments[i].bytes)})
        touched  == {i \in 1 .. last : before(i) < n}
    IN  the({[bytes |-> SubSeq(glued(segments), 1, n),
              fds   |-> UNION {segments[i].fd : i \in touched},
              left  |-> IF k = Len(segments[cut].bytes)
                        THEN SubSeq(segments, cut + 1, Len(segments))
                        ELSE <<segment(SubSeq(segments[cut].bytes, k + 1, Len(segments[cut].bytes)), {})>>
                             \o SubSeq(segments, cut + 1, Len(segments))] :
                cut \in {Max(touched)}, k \in {taken(Max(touched))}})

-----------------------------------------------------------------------------
(* The send half of Connection.  A connection and its stream travel        *)
(* together as s = [conn, stream].                                         *)

queued(f, offset, fd) == [frame |-> f, offset |-> offset, fd |-> fd]

poison_send(s) == [s EXCEPT !.conn.send_poisoned = TRUE]

park(s, f, offset) ==
    LET fd   == IF offset = 0 THEN f.fd ELSE {}
        size == f.size - offset
        fds  == Cardinality(fd)
    IN  IF \/ s.conn.queued_send_bytes + size > MAX_SEND_QUEUE_BYTES
           \/ s.conn.queued_send_fds + fds > MAX_SEND_QUEUE_FDS
        THEN [s EXCEPT !.conn.send_overflowed = TRUE]
        ELSE [s EXCEPT !.conn.queued_send_bytes = @ + size,
                       !.conn.queued_send_fds = @ + fds,
                       !.conn.send_queue = Append(@, queued(f, offset, fd))]

(* A mistaken turn of the loop that keeps counting a descriptor it wrote.  *)
flush_one_counting(s, q) ==
    LET n    == Min({room(s.stream), q.frame.size - q.offset})
        rest == queued(q.frame, q.offset + n, {})
    IN  IF s.conn.send_queue # <<>> \/ n = 0
        THEN [s EXCEPT !.conn.send_queue = Append(@, q)]
        ELSE [s EXCEPT
                !.stream = Append(@, segment(SubSeq(bytes_of(q.frame, q.offset), 1, n), q.fd)),
                !.conn.queued_send_bytes = @ - n,
                !.conn.send_queue = IF rest.offset = q.frame.size THEN <<>> ELSE <<rest>>]

(* One turn of the loop of flush_send_queue: write what the kernel takes   *)
(* of the frame q, unless an earlier frame is still parked.                *)
flush_one(s, q) ==
    LET n    == Min({room(s.stream), q.frame.size - q.offset})
        rest == queued(q.frame, q.offset + n, {})
    IN  IF s.conn.send_queue # <<>> \/ n = 0
        THEN [s EXCEPT !.conn.send_queue = Append(@, q)]
        ELSE [s EXCEPT
                !.stream = Append(@, segment(SubSeq(bytes_of(q.frame, q.offset), 1, n), q.fd)),
                !.conn.queued_send_fds = @ - Cardinality(q.fd),
                !.conn.queued_send_bytes = @ - n,
                !.conn.send_queue = IF rest.offset = q.frame.size THEN <<>> ELSE <<rest>>]

flush_send_queue(s) ==
    LET one(acc, q) == the({flush_one(a, q) : a \in {acc}})
    IN  IF s.conn.send_queue = <<>> THEN s
        ELSE IF ~reading THEN poison_send(s)
        ELSE FoldLeft(one, [s EXCEPT !.conn.send_queue = <<>>], s.conn.send_queue)

(* try_send_now, and parking what it could not write.                      *)
send_now(s, f) ==
    LET n == Min({room(s.stream), f.size})
        w == IF n = 0 THEN s
             ELSE [s EXCEPT !.stream =
                     Append(@, segment(SubSeq(bytes_of(f, 0), 1, n), f.fd))]
    IN  IF ~reading THEN poison_send(s)
        ELSE IF n = f.size THEN w
        ELSE park(w, f, n)

failed(s) == s.conn.send_overflowed \/ s.conn.send_poisoned

(* A mistaken send that does not look at what is parked.                   *)
send_or_queue_jumping(s, f) == IF failed(s) THEN s ELSE send_now(s, f)

send_or_queue(s, f) ==
    LET send(flushed) == IF failed(flushed) THEN flushed
                         ELSE IF flushed.conn.send_queue = <<>> THEN send_now(flushed, f)
                         ELSE park(flushed, f, 0)
    IN  IF failed(s) THEN s
        ELSE the({send(flushed) : flushed \in {flush_send_queue(s)}})

(* Handing frames over one by one, stopping at the first refusal; taken    *)
(* collects those the connection accepted.                                 *)
hand_over(s, frames) ==
    LET send(acc, f) ==
            the({[s |-> t, taken |-> IF failed(t) THEN acc.taken ELSE Append(acc.taken, message(f))] :
                    t \in {send_or_queue(acc.s, f)}})
        one(acc, f) == the({send(a, f) : a \in {acc}})
    IN  FoldLeft(one, [s |-> s, taken |-> <<>>], frames)

-----------------------------------------------------------------------------
(* The receive half: one turn of the loop of recv_message.                 *)

fill(p, got) ==
    LET start == p.consumed + Len(p.recv_buf)
        new   == [span_start |-> start, span_end |-> start + Len(got.bytes)]
        added == {[span |-> new, fd |-> fd] : fd \in got.fds}
    IN  IF Len(p.pending_fds) + Cardinality(added) > MAX_UNCLAIMED_FDS
        THEN [p EXCEPT !.poisoned = {"UnclaimedFdOverflow"}]
        ELSE [p EXCEPT !.pending_fds = @ \o SetToSeq(added),
                       !.recv_buf = @ \o got.bytes]

header(p) == p.recv_buf[1][1]

complete(p) == Len(p.recv_buf) >= HEADER_LEN /\ Len(p.recv_buf) >= header(p).size

(* The frame at the front of the buffer is taken off and matched with the  *)
(* descriptor it declares.                                                 *)
take_frame(p) ==
    LET f     == header(p)
        first == p.consumed
        last  == first + f.size
        mine  == f.fd # {} /\ p.pending_fds # <<>> /\ Head(p.pending_fds).span.span_start <= first
        rest  == IF mine THEN Tail(p.pending_fds) ELSE p.pending_fds
        why   == IF f.fd # {} /\ ~mine THEN {"MissingFd"}
                 ELSE IF rest # <<>> /\ Head(rest).span.span_end <= last
                 THEN {"UnsolicitedFd"} ELSE {}
    IN  [peer |-> [p EXCEPT !.recv_buf = SubSeq(@, f.size + 1, Len(@)),
                            !.consumed = last,
                            !.pending_fds = rest,
                            !.poisoned = why],
         message |-> message([f EXCEPT !.fd = IF mine THEN {Head(p.pending_fds).fd} ELSE {}])]

-----------------------------------------------------------------------------
(* The core between dispatches: Outbox::send and Outbox::wake.             *)

Init ==
    /\ outbox = <<>> /\ ping = FALSE /\ wake = FALSE
    /\ writable = FALSE /\ registered = TRUE
    /\ conn = [send_queue |-> <<>>, queued_send_bytes |-> 0, queued_send_fds |-> 0,
               send_overflowed |-> FALSE, send_poisoned |-> FALSE]
    /\ stream = <<>>
    /\ peer = [recv_buf |-> <<>>, pending_fds |-> <<>>, consumed |-> 0, poisoned |-> {}]
    /\ reading = TRUE /\ inbound = 0 /\ hung_up = FALSE
    /\ next_id = 1 /\ says = 0 /\ wakes = 0
    /\ accepted = <<>> /\ received = <<>>

outbox_send(size) ==
    /\ registered /\ next_id <= MaxFrames
    /\ next_id' = next_id + 1
    /\ IF Len(outbox) >= MAX_OUTBOX_FRAMES
       THEN UNCHANGED <<outbox, ping>>
       ELSE /\ outbox' = Append(outbox, Frame(next_id, size, FALSE))
            /\ ping' = TRUE
    /\ UNCHANGED <<wake, writable, registered, conn, stream, wakes, accepted, peer_vars>>

outbox_wake ==
    /\ registered /\ wakes < MaxWakes
    /\ wakes' = wakes + 1
    /\ wake' = TRUE /\ ping' = TRUE
    /\ UNCHANGED <<outbox, writable, registered, conn, stream, next_id, accepted, peer_vars>>

-----------------------------------------------------------------------------
(* ConnectionSource::process_events.                                       *)

(* A mistaken interest that forgets the second reason.                     *)
want_write_parked(c, woken) == c.queued_send_bytes > 0

want_write(c, woken) == c.queued_send_bytes > 0 \/ woken

(* Its ping is ready: drain the outbox.  The callback of the connection is *)
(* not reached on this token.                                              *)
drain_outbox ==
    /\ registered /\ ping
    /\ \E done \in {hand_over([conn |-> conn, stream |-> stream], outbox)} :
           /\ conn' = done.s.conn /\ stream' = done.s.stream
           /\ accepted' = accepted \o done.taken
           /\ writable' = want_write(done.s.conn, wake)
    /\ outbox' = <<>> /\ ping' = FALSE
    /\ UNCHANGED <<wake, registered, next_id, wakes, peer_vars>>

nothing == [do |-> "nothing"]

(* What the dispatch callback may do with a message, or with its turn:     *)
(* write nothing, reply one frame, or ask for another turn.                *)
Effects ==
    {nothing}
    \cup (IF wakes < MaxWakes THEN {[do |-> "wake"]} ELSE {})
    \cup (IF next_id <= MaxFrames
          THEN {[do |-> "reply", size |-> n, fd |-> fd] : n \in Sizes, fd \in BOOLEAN} ELSE {})

replies(effect, id) ==
    IF effect.do = "reply" THEN <<Frame(id, effect.size, effect.fd)>> ELSE <<>>

count(effect, do) == IF effect.do = do THEN 1 ELSE 0

(* The source leaves the loop and the connection is dropped with what it   *)
(* had parked; what the kernel holds stays readable.                       *)
remove(s) ==
    /\ registered' = FALSE
    /\ conn' = [s.conn EXCEPT !.send_queue = <<>>, !.queued_send_bytes = 0,
                              !.queued_send_fds = 0]
    /\ stream' = s.stream
    /\ outbox' = <<>> /\ ping' = FALSE /\ wake' = FALSE /\ writable' = FALSE

keep(s, woken, pinged) ==
    /\ conn' = s.conn /\ stream' = s.stream
    /\ wake' = woken /\ ping' = pinged
    /\ writable' = want_write(s.conn, woken)
    /\ UNCHANGED <<registered, outbox>>

readable == inbound > 0 \/ hung_up

write_ready == room(stream) > 0 \/ hung_up

(* Its socket is ready: flush, receive everything, hand out the turn that  *)
(* was asked for, and remove the connection if sending has failed.         *)
dispatch_connection ==
    /\ registered
    /\ readable \/ (writable /\ write_ready)
    /\ \E s \in {flush_send_queue([conn |-> conn, stream |-> stream])},
          m \in IF inbound > 0 THEN Effects ELSE {nothing} :
       \E a \in {hand_over(s, replies(m, next_id))} :
       \E woken \in {wake \/ m.do = "wake"} :
       \E t \in IF woken /\ ~hung_up THEN Effects ELSE {nothing} :
       \E b \in {hand_over(a.s, replies(t, next_id + count(m, "reply")))} :
          IF conn.send_queue # <<>> /\ s.conn.send_poisoned
          THEN /\ m = nothing /\ t = nothing
               /\ remove(s)
               /\ UNCHANGED <<inbound, next_id, wakes, accepted>>
          ELSE /\ inbound' = 0
               /\ next_id' = next_id + count(m, "reply") + count(t, "reply")
               /\ wakes' = wakes + count(m, "wake") + count(t, "wake")
               /\ accepted' = accepted \o a.taken \o b.taken
               /\ IF hung_up \/ failed(b.s) THEN remove(b.s)
                  ELSE keep(b.s, t.do = "wake", ping \/ m.do = "wake" \/ t.do = "wake")
    /\ UNCHANGED <<peer, reading, hung_up, says, received>>

-----------------------------------------------------------------------------
(* The peer.                                                               *)

core_vars == <<outbox, ping, wake, writable, registered, conn, next_id, wakes, accepted>>

peer_says ==
    /\ ~hung_up /\ inbound = 0 /\ says < MaxSays
    /\ inbound' = 1 /\ says' = says + 1
    /\ UNCHANGED <<core_vars, stream, peer, reading, hung_up, received>>

peer_shuts_reading ==
    /\ reading /\ reading' = FALSE
    /\ UNCHANGED <<core_vars, stream, peer, inbound, hung_up, says, received>>

peer_hangs_up ==
    /\ ~hung_up
    /\ hung_up' = TRUE /\ reading' = FALSE
    /\ UNCHANGED <<core_vars, stream, peer, inbound, says, received>>

recv_message ==
    /\ reading /\ peer.poisoned = {}
    /\ IF complete(peer)
       THEN \E got \in {take_frame(peer)} :
               /\ peer' = got.peer
               /\ received' = IF got.peer.poisoned = {}
                              THEN Append(received, got.message) ELSE received
               /\ UNCHANGED stream
       ELSE /\ stream # <<>>
            /\ \E got \in {recvmsg(stream)} :
                  peer' = fill(peer, got) /\ stream' = got.left
            /\ UNCHANGED received
    /\ UNCHANGED <<core_vars, reading, inbound, hung_up, says>>

Next ==
    \/ \E size \in Sizes : outbox_send(size)
    \/ outbox_wake
    \/ drain_outbox
    \/ dispatch_connection
    \/ peer_says
    \/ peer_shuts_reading
    \/ peer_hangs_up
    \/ recv_message

Spec == Init /\ [][Next]_vars

(* The loop polls: a source that stays ready is dispatched.                *)
LoopFair == WF_vars(drain_outbox) /\ WF_vars(dispatch_connection)

LoopSpec == Spec /\ LoopFair

(* The peer, too, keeps reading for as long as it has not shut its read    *)
(* side.                                                                   *)
FairSpec == LoopSpec /\ WF_vars(recv_message)

-----------------------------------------------------------------------------
(* The messages taken and not yet received, read off the buffers they sit  *)
(* in: those whose last byte is in the peer's buffer, in the kernel or     *)
(* parked, in that order.                                                  *)
in_flight ==
    LET parked == FlattenSeq([i \in DOMAIN conn.send_queue |->
                      bytes_of(conn.send_queue[i].frame, conn.send_queue[i].offset)])
    IN  SelectSeq(peer.recv_buf \o glued(stream) \o parked, LAMBDA b : b = message(b[1]))

Channel == INSTANCE Fifo WITH queue <- in_flight, open <- registered

(* Through partial writes, parked frames, glued reads and descriptors that *)
(* travel beside the bytes, a connection is a FIFO channel: the peer       *)
(* receives each accepted frame once, in order and with its own descriptor *)
(* (send_or_queue, flush_send_queue, recv_message), and a stream written   *)
(* by this code never poisons a reader that runs it.                       *)
ImplementsFifo == Channel!Spec

(* The two caps of the send queue are caps on what is really parked: the   *)
(* running totals park and flush_send_queue keep never drift from the      *)
(* queue, whatever was written in part.                                    *)
QueueIsAccounted ==
    LET left(i) == conn.send_queue[i].frame.size - conn.send_queue[i].offset
    IN  /\ conn.queued_send_bytes = MapThenSumSet(left, DOMAIN conn.send_queue)
        /\ conn.queued_send_fds = Cardinality(UNION {conn.send_queue[i].fd : i \in DOMAIN conn.send_queue})
        /\ conn.queued_send_bytes <= MAX_SEND_QUEUE_BYTES
        /\ conn.queued_send_fds <= MAX_SEND_QUEUE_FDS

(* Nothing waits for the peer to speak.  What the connection accepted      *)
(* reaches a peer that goes on reading, and a turn the core asked for with *)
(* Outbox::wake comes, unless the connection is removed first: the ping    *)
(* cannot carry the wake, the write interest it leaves behind does.        *)
NothingIsLeftWaiting ==
    /\ in_flight # <<>> ~> (in_flight = <<>> \/ ~reading \/ ~registered)
    /\ wake ~> (~wake \/ ~reading \/ ~registered)

(* "send failures are just as terminal as receive failures, even when      *)
(* nothing is parked" (event_loop.rs): a connection whose send path        *)
(* overflowed or broke is removed.                                         *)
SendFailuresAreTerminal == (conn.send_overflowed \/ conn.send_poisoned) ~> ~registered
=============================================================================
