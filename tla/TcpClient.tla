------------------------------ MODULE TcpClient -----------------------------
(***************************************************************************)
(* The far end of a TCP connection and the network between, as the network *)
(* service uses them (both external).  A segment the client sends arrives  *)
(* at once or is lost; a segment of the peer may be lost, delayed,         *)
(* overtaken or delivered twice.  One payload unit takes one sequence      *)
(* number.                                                                 *)
(***************************************************************************)
EXTENDS Integers, Sequences, FiniteSets

CONSTANTS Reply,        \* the units the peer answers with, then it closes
          MaxInFlight,  \* bound on the segments under way to the client
          RETRIES       \* attempts of every loop of the service

VARIABLES peer,         \* [up, next, una, got]: what the peer knows
          wire          \* the segments under way to the client

ASSUME WireAssumption == RETRIES \in Nat \ {0} /\ MaxInFlight \in Nat

Segment(seq, ack, flags, data) == [seq |-> seq, ack |-> ack, flags |-> flags, data |-> data]

WireInit ==
    /\ peer = [up |-> FALSE, next |-> 0, una |-> 0, got |-> <<>>]
    /\ wire = {}

\* The peer takes in-order data, and what acknowledges its own.
Arrived(p, segment) ==
    IF "SYN" \in segment.flags THEN [p EXCEPT !.up = TRUE, !.next = IF @ = 0 THEN 1 ELSE @]
    ELSE LET acked == [p EXCEPT !.una = IF segment.ack > @ THEN segment.ack ELSE @]
         IN  IF p.up /\ segment.seq = p.next
             THEN [acked EXCEPT !.got = @ \o segment.data, !.next = @ + Len(segment.data)]
             ELSE acked

Sent(p, segment, lost) == IF lost THEN p ELSE Arrived(p, segment)

\* The segments the peer may send: its SYN, a reset, and any run of units from
\* the first unacknowledged on, empty or not, with the FIN at the end.
Offers ==
    LET first == IF peer.una = 0 THEN 1 ELSE peer.una
        last == Len(Reply)
    IN  {Segment(0, peer.next, {"SYN", "ACK"}, <<>>), Segment(0, peer.next, {"RST"}, <<>>)}
        \cup {Segment(i, peer.next, {"ACK"}, SubSeq(Reply, i, j)) : i \in first..last, j \in 0..last}
        \cup {Segment(i, peer.next, {"ACK", "FIN"}, SubSeq(Reply, i, last)) : i \in first..(last + 1)}

PeerSends ==
    /\ peer.up
    /\ Cardinality(wire) < MaxInFlight
    /\ \E segment \in Offers : wire' = wire \cup {segment}
    /\ UNCHANGED peer

Loses ==
    /\ \E segment \in wire : wire' = wire \ {segment}
    /\ UNCHANGED peer

\* A segment that is delivered may come again.
Delivered(segment) == \E again \in BOOLEAN : wire' = IF again THEN wire ELSE wire \ {segment}

IsPrefixOf(s, t) == Len(s) <= Len(t) /\ s = SubSeq(t, 1, Len(s))

-----------------------------------------------------------------------------
(* The streaming TCP client under TLS (ports/services/network/src/lib.rs,  *)
(* TcpConnection and tcp_connect).  The caller writes one unit at a time   *)
(* and reads in any order; a poll loop that runs out is a timeout, which   *)
(* may come whenever no segment is taken.                                  *)

CONSTANT MaxWrites

VARIABLE tcp   \* TcpConnection, and what the running call has done

NoJob == "none"

StreamInit ==
    /\ WireInit
    /\ tcp = [job |-> "connect", tries |-> 0, local |-> 0, remote |-> 0, pending |-> <<>>,
              remote_closed |-> FALSE, local_closed |-> FALSE,
              written |-> 0, got |-> <<>>, ended |-> FALSE]

Fails == tcp' = [tcp EXCEPT !.job = "failed"]

-----------------------------------------------------------------------------
(* tcp_connect.                                                            *)
SendSyn(lost) ==
    /\ tcp.job = "connect"
    /\ IF tcp.tries = RETRIES THEN Fails /\ UNCHANGED peer
       ELSE /\ tcp' = [tcp EXCEPT !.job = "syn", !.tries = @ + 1]
            /\ peer' = Sent(peer, Segment(0, 0, {"SYN"}, <<>>), lost)
    /\ UNCHANGED wire

SynTimeout ==
    /\ tcp.job = "syn"
    /\ tcp' = [tcp EXCEPT !.job = "connect"]
    /\ UNCHANGED <<peer, wire>>

SynAnswered(segment, lost) ==
    /\ tcp.job = "syn" /\ segment \in wire
    /\ Delivered(segment)
    /\ IF "RST" \in segment.flags THEN Fails /\ UNCHANGED peer
       ELSE IF {"SYN", "ACK"} \subseteq segment.flags /\ segment.ack = 1
       THEN /\ tcp' = [tcp EXCEPT !.job = NoJob, !.local = 1, !.remote = segment.seq + 1]
            /\ peer' = Sent(peer, Segment(1, segment.seq + 1, {"ACK"}, <<>>), lost)
       ELSE UNCHANGED <<tcp, peer>>

-----------------------------------------------------------------------------
(* receive_into_pending.                                                   *)

\* In-order data is taken when nothing is pending.
TakeSegment(t, segment) ==
    IF segment.seq = t.remote /\ segment.data # <<>> /\ t.pending = <<>>
    THEN [t EXCEPT !.pending = segment.data, !.remote = @ + Len(segment.data)]
    ELSE t

\* The FIN of a segment that was in order is taken, its data or not.
receive_into_pending(t, segment) ==
    LET taken == TakeSegment(t, segment)
    IN  IF segment.seq = t.remote /\ "FIN" \in segment.flags
        THEN [taken EXCEPT !.remote = @ + 1, !.remote_closed = TRUE]
        ELSE taken

\* An acknowledgement answers what was taken, and data that was out of order.
Answers(before, after, segment) ==
    after # before \/ (segment.data # <<>> /\ segment.seq # after.remote)

send_ack(p, t, lost) == Sent(p, Segment(t.local, t.remote, {"ACK"}, <<>>), lost)

drain_pending(t, capacity) ==
    LET copied == IF Len(t.pending) < capacity THEN Len(t.pending) ELSE capacity
    IN  [t EXCEPT !.got = @ \o SubSeq(t.pending, 1, copied),
                  !.pending = SubSeq(@, copied + 1, Len(@))]

-----------------------------------------------------------------------------
(* write_stream: one unit, sent until it is acknowledged.                  *)
Payload == <<tcp.written + 1>>

WriteStart ==
    /\ tcp.job = NoJob /\ ~tcp.local_closed
    /\ tcp.written < MaxWrites
    /\ IF tcp.remote_closed THEN Fails
       ELSE tcp' = [tcp EXCEPT !.job = "write", !.tries = 0]
    /\ UNCHANGED <<peer, wire>>

WriteSend(lost) ==
    /\ tcp.job = "write"
    /\ IF tcp.tries = RETRIES THEN Fails /\ UNCHANGED peer
       ELSE /\ tcp' = [tcp EXCEPT !.job = "written", !.tries = @ + 1]
            /\ peer' = Sent(peer, Segment(tcp.local, tcp.remote, {"ACK"}, Payload), lost)
    /\ UNCHANGED wire

WriteTimeout ==
    /\ tcp.job = "written"
    /\ tcp' = [tcp EXCEPT !.job = "write"]
    /\ UNCHANGED <<peer, wire>>

\* local is moved first when the acknowledgement is the expected one, so the
\* comparison after it is with the old or the new local.
WriteReceive(segment, lost) ==
    /\ tcp.job = "written" /\ segment \in wire
    /\ Delivered(segment)
    /\ IF "RST" \in segment.flags THEN Fails /\ UNCHANGED peer
       ELSE LET expected == tcp.local + Len(Payload)
                moved == [tcp EXCEPT !.local =
                              IF "ACK" \in segment.flags /\ segment.ack = expected
                              THEN expected ELSE @]
                after == receive_into_pending(moved, segment)
                acked == "ACK" \in segment.flags /\ segment.ack = moved.local
            IN  /\ peer' = IF Answers(moved, after, segment) THEN send_ack(peer, after, lost)
                           ELSE peer
                /\ tcp' = IF acked
                          THEN [after EXCEPT !.local = expected, !.job = NoJob,
                                             !.written = @ + Len(Payload)]
                          ELSE after

-----------------------------------------------------------------------------
(* read_stream.                                                            *)
ReadStart(capacity) ==
    /\ tcp.job = NoJob /\ ~tcp.local_closed /\ ~tcp.ended
    /\ tcp' = LET t == drain_pending(tcp, capacity)
              IN  IF t.got # tcp.got THEN t
                  ELSE IF t.remote_closed THEN [t EXCEPT !.ended = TRUE]
                  ELSE [t EXCEPT !.job = "read", !.tries = 0]
    /\ UNCHANGED <<peer, wire>>

ReadReceive(segment, capacity, lost) ==
    /\ tcp.job = "read" /\ segment \in wire
    /\ Delivered(segment)
    /\ IF "RST" \in segment.flags THEN Fails /\ UNCHANGED peer
       ELSE LET after == receive_into_pending(tcp, segment)
                t == drain_pending(after, capacity)
            IN  /\ peer' = IF Answers(tcp, after, segment) THEN send_ack(peer, after, lost)
                           ELSE peer
                /\ tcp' = IF t.got # tcp.got THEN [t EXCEPT !.job = NoJob]
                          ELSE IF t.remote_closed THEN [t EXCEPT !.job = NoJob, !.ended = TRUE]
                          ELSE t

ReadTimeout(lost) ==
    /\ tcp.job = "read"
    /\ IF tcp.tries + 1 < RETRIES
       THEN /\ tcp' = [tcp EXCEPT !.tries = @ + 1]
            /\ peer' = send_ack(peer, tcp, lost)
       ELSE Fails /\ UNCHANGED peer
    /\ UNCHANGED wire

close_stream(lost) ==
    /\ tcp.job \in {NoJob, "failed"} /\ tcp.local > 0 /\ ~tcp.local_closed
    /\ tcp' = [tcp EXCEPT !.job = "failed", !.local_closed = TRUE, !.local = @ + 1]
    /\ peer' = Sent(peer, Segment(tcp.local, tcp.remote, {"FIN", "ACK"}, <<>>), lost)
    /\ UNCHANGED wire

StreamNext ==
    \/ (PeerSends \/ Loses) /\ UNCHANGED tcp
    \/ SynTimeout \/ WriteStart \/ WriteTimeout
    \/ \E lost \in BOOLEAN :
         \/ SendSyn(lost) \/ WriteSend(lost) \/ ReadTimeout(lost) \/ close_stream(lost)
         \/ \E segment \in wire : SynAnswered(segment, lost) \/ WriteReceive(segment, lost)
         \/ \E segment \in wire, capacity \in 1..2 : ReadReceive(segment, capacity, lost)
    \/ \E capacity \in 1..2 : ReadStart(capacity)

-----------------------------------------------------------------------------
(* "Ordered receive" (FORM_ABI_V1.md:179-180): whatever the network loses, *)
(* repeats or reorders, the caller reads the peer's units in order and     *)
(* none twice, and the peer receives the caller's writes in order.         *)
StreamsAgree ==
    /\ IsPrefixOf(tcp.got \o tcp.pending, Reply)
    /\ \A i \in DOMAIN peer.got : peer.got[i] = i

-----------------------------------------------------------------------------
(* The one-shot plain TCP exchange (ports/services/network/src/lib.rs,     *)
(* tcp_exchange): handshake, one request, the reply collected up to the    *)
(* capacity of the output, close.  The request is one unit.                *)

CONSTANT Capacities   \* the lengths of the caller's output

VARIABLE call

ExchangeInit ==
    /\ WireInit
    /\ \E capacity \in Capacities :
         call = [step |-> "start", tries |-> 0, remote |-> 0, acked |-> FALSE, retries |-> 0,
                 out |-> <<>>, capacity |-> capacity, truncated |-> FALSE, closed |-> FALSE]

Abandon == call' = [call EXCEPT !.step = "error"]

RequestUnits == <<1>>
\* Mutant: the request does not count in the sequence number.
MutantLocalNext == 1
LocalNext == 1 + Len(RequestUnits)

\* The handshake: a SYN, then segments until its answer or the next try.
Syn(lost) ==
    /\ call.step = "start"
    /\ IF call.tries = RETRIES THEN Abandon /\ UNCHANGED peer
       ELSE /\ call' = [call EXCEPT !.step = "syn", !.tries = @ + 1]
            /\ peer' = Sent(peer, Segment(0, 0, {"SYN"}, <<>>), lost)
    /\ UNCHANGED wire

SynExpired ==
    /\ call.step = "syn"
    /\ call' = [call EXCEPT !.step = "start"]
    /\ UNCHANGED <<peer, wire>>

\* The acknowledgement of the handshake and the request leave together.
Established(segment, ackLost, requestLost) ==
    /\ call.step = "syn" /\ segment \in wire
    /\ Delivered(segment)
    /\ IF "RST" \in segment.flags THEN Abandon /\ UNCHANGED peer
       ELSE IF {"SYN", "ACK"} \subseteq segment.flags /\ segment.ack = 1
       THEN LET remote == segment.seq + 1
            IN  /\ call' = [call EXCEPT !.step = "reply", !.remote = remote]
                /\ peer' = Sent(Sent(peer, Segment(1, remote, {"ACK"}, <<>>), ackLost),
                                Segment(1, remote, {"ACK"}, RequestUnits), requestLost)
       ELSE UNCHANGED <<call, peer>>

\* RECEIVE_POLLS polls without a segment: the request again, or a bare
\* acknowledgement once the peer has shown that it has it.
Retransmit(lost) ==
    /\ call.step = "reply"
    /\ IF call.retries + 1 >= RETRIES THEN Abandon /\ UNCHANGED peer
       ELSE /\ call' = [call EXCEPT !.retries = @ + 1]
            /\ peer' = Sent(peer, IF call.acked \/ call.out # <<>>
                                  THEN Segment(LocalNext, call.remote, {"ACK"}, <<>>)
                                  ELSE Segment(1, call.remote, {"ACK"}, RequestUnits), lost)
    /\ UNCHANGED wire

\* The data of an in-order segment, as far as the output holds it.
Copied(c, segment) ==
    LET remaining == c.capacity - Len(c.out)
        copied == IF Len(segment.data) < remaining THEN Len(segment.data) ELSE remaining
    IN  [c EXCEPT !.out = @ \o SubSeq(segment.data, 1, copied),
                  !.remote = @ + Len(segment.data),
                  !.truncated = copied # Len(segment.data)]

InOrder(c, segment) ==
    IF segment.seq # c.remote THEN c
    ELSE LET taken == IF segment.data # <<>> THEN Copied(c, segment) ELSE c
         IN  IF "FIN" \in segment.flags
             THEN [taken EXCEPT !.remote = @ + 1, !.closed = TRUE]
             ELSE taken

\* Data and a FIN are acknowledged, in order or not; the loop ends with the
\* peer's FIN or a full output, and answers with a FIN of its own.
ReplySegment(segment, ackLost, finLost) ==
    /\ call.step = "reply" /\ segment \in wire
    /\ Delivered(segment)
    /\ IF "RST" \in segment.flags THEN Abandon /\ UNCHANGED peer
       ELSE LET seen == [call EXCEPT !.acked = @ \/ ("ACK" \in segment.flags
                                                     /\ segment.ack = LocalNext)]
                after == InOrder(seen, segment)
                answered == IF segment.data # <<>> \/ "FIN" \in segment.flags
                            THEN Sent(peer, Segment(LocalNext, after.remote, {"ACK"}, <<>>), ackLost)
                            ELSE peer
            IN  IF after.closed \/ after.truncated
                THEN /\ call' = [after EXCEPT !.step = "done"]
                     /\ peer' = Sent(answered, Segment(LocalNext, after.remote, {"FIN", "ACK"}, <<>>),
                                     finLost)
                ELSE call' = after /\ peer' = answered

ExchangeNext ==
    \/ (PeerSends \/ Loses) /\ UNCHANGED call
    \/ SynExpired
    \/ \E lost \in BOOLEAN : Syn(lost) \/ Retransmit(lost)
    \/ \E segment \in wire, one, two \in BOOLEAN :
         Established(segment, one, two) \/ ReplySegment(segment, one, two)

-----------------------------------------------------------------------------
(* tcp_exchange answers Ok((length, truncated)): the reply is whole when   *)
(* it is not truncated, and otherwise the output is filled with its        *)
(* beginning, whatever the network loses, repeats or reorders.             *)
ExchangeExact ==
    call.step = "done" =>
        IF call.truncated
        THEN call.out = SubSeq(Reply, 1, call.capacity) /\ call.capacity < Len(Reply)
        ELSE call.out = Reply

(* A request is repeated until the peer is known to have it: the client    *)
(* stops sending it only when it has arrived (lib.rs:1301-1305).           *)
RequestArrives == call.acked => peer.got = RequestUnits

\* Both TCP clients deliver what the other end sent, and nothing else.
TcpExact == StreamsAgree /\ ExchangeExact /\ RequestArrives
=============================================================================
