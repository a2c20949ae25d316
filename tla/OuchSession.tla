----------------------------- MODULE OuchSession -----------------------------
(***************************************************************************)
(* bist::ouch::OuchSession (include/bist/ouch/session.hpp) over one TCP    *)
(* connection (include/bist/net/tcp_socket.hpp) to a SoupBinTCP gateway.   *)
(*                                                                         *)
(* The session runs on one thread; the kernel and the gateway run beside   *)
(* it.  poll_io() is split between read_some(), each packet of             *)
(* parse_pending(), and tick_timers().                                     *)
(*                                                                         *)
(* Every packet and every buffer handed to write_bytes() is two bytes      *)
(* long, so that it can be cut in the middle.  The inbound byte stream is  *)
(* `inbound' with two positions in it: `received' bytes were read into     *)
(* in_buffer_ so far, `dispatched' packets were parsed and erased from it. *)
(* Clock readings are kept as the time since, capped at the value that     *)
(* triggers something.                                                     *)
(***************************************************************************)
EXTENDS Naturals, Sequences

CONSTANTS
    FirstSeq,       \* the sequence number the gateway accepts the login with
    HbSend,         \* heartbeat_send_ns_
    HbTimeout,      \* heartbeat_timeout_ns_
    MaxPackets,     \* bound of the model: packets the gateway sends
    MaxWrites       \* bound of the model: writes that are followed to the wire

ASSUME SessionAssumption ==
    /\ FirstSeq \in Nat
    /\ HbSend \in Nat \ {0} /\ HbTimeout \in Nat \ {0}
    /\ MaxPackets \in Nat /\ MaxWrites \in Nat

VARIABLES
    state,              \* state_
    pc,                 \* where poll_io is
    received,           \* bytes read into in_buffer_
    dispatched,         \* packets parsed and erased from in_buffer_
    nextInboundSeq,     \* next_inbound_seq_
    assigned,           \* assigned_session_ is set
    rejected,           \* last_login_reject_reason_ is set
    sinceSend,          \* now - last_send_ns_, capped at HbSend
    sinceRecv,          \* now - last_recv_ns_, capped at HbTimeout
    recvYet,            \* last_recv_ns_ # 0
    out,                \* what write_bytes did: see Write and Tear
    \* the other side of the connection
    inbound,            \* packets the gateway sent, each with its next number
    srv,                \* the gateway's view of the session
    srvSeq,             \* number of the next sequenced message
    peer                \* the TCP connection as the client's kernel sees it

session == <<state, received, dispatched, nextInboundSeq, assigned, rejected>>
timers  == <<sinceSend, sinceRecv, recvYet>>
gateway == <<inbound, srv, srvSeq, peer>>
vars    == <<state, received, dispatched, nextInboundSeq, assigned, rejected,
             pc, sinceSend, sinceRecv, recvYet, out, inbound, srv, srvSeq, peer>>

States  == {"Disconnected", "LoggingIn", "Active", "Disconnecting", "Failed"}

\* LoginAccepted, LoginRejected, Heartbeat (or Debug), EndOfSession, Sequenced
\* Data, Sequenced Data whose OUCH message does not decode, any other type
Types      == {"A", "J", "H", "Z", "S", "Sbad", "other"}
Sequenced  == {"S", "Sbad"}
Packets    == [type : Types, seq : Nat]

Init ==
    /\ state = "Disconnected" /\ pc = "idle"
    /\ received = 0 /\ dispatched = 0
    /\ nextInboundSeq = 0 /\ assigned = FALSE /\ rejected = FALSE
    /\ sinceSend = HbSend /\ sinceRecv = HbTimeout /\ recvYet = FALSE
    /\ out = [wire |-> <<>>, pending |-> <<>>, issued |-> 0, torn |-> 0]
    /\ inbound = <<>> /\ srv = "wait" /\ srvSeq = FirstSeq /\ peer = "open"

-----------------------------------------------------------------------------
\* Faulty forms of definitions below, for the mutation checks.
WriteStashesAll(o, k) ==        \* stashes from buf, not from buf + off
    LET n == o.issued + 1
    IN  [wire    |-> o.wire \o SubSeq(<<<<n, 1>>, <<n, 2>>>>, 1, k),
         pending |-> o.pending \o (IF k < 2 THEN <<<<n, 1>>, <<n, 2>>>> ELSE <<>>),
         issued  |-> n,
         torn    |-> o.torn]

CompleteHeader == received > 2 * dispatched     \* asks for the header only

SilentSinceSend ==                              \* the wrong timestamp
    state = "Active" /\ recvYet /\ sinceSend >= HbTimeout

CountedWhenDecoded ==           \* next_inbound_seq_ counted after dispatch_ouch
    /\ pc = "parse" /\ received >= 2 * (dispatched + 1)
    /\ inbound[dispatched + 1].type \in Sequenced
    /\ dispatched' = dispatched + 1
    /\ LET ok == inbound[dispatched + 1].type = "S"
       IN  /\ pc' = IF ok THEN "parse" ELSE "idle"
           /\ nextInboundSeq' = IF ok THEN nextInboundSeq + 1 ELSE nextInboundSeq
    /\ UNCHANGED <<received, timers, out, gateway, state, assigned, rejected>>

-----------------------------------------------------------------------------
(* Output *)

CanSend == peer \notin {"reset", "dead"}     \* socket_.send does not fail

Bytes(n) == <<<<n, 1>>, <<n, 2>>>>           \* the n-th buffer written

\* write_bytes(): the socket takes the first k bytes and then, when bytes are
\* left, would block: they are appended to out_pending_.  Only a buffer that
\* went out whole is audited and counts as the last send.
Write(o, k) ==
    LET n == o.issued + 1
    IN  [wire    |-> o.wire \o SubSeq(Bytes(n), 1, k),
         pending |-> o.pending \o SubSeq(Bytes(n), k + 1, 2),
         issued  |-> n,
         torn    |-> o.torn]

\* The same, but after k bytes send() fails: the error is returned, what is left of
\* the buffer is neither sent nor stashed.  A buffer of which nothing was sent is not
\* counted.
Tear(o, k) ==
    IF k = 0 THEN o
    ELSE [wire    |-> Append(o.wire, <<o.issued + 1, 1>>),
          pending |-> o.pending,
          issued  |-> o.issued + 1,
          torn    |-> 1]

\* flush_pending(): the socket takes the first k bytes of out_pending_.
Flush(o, k) ==
    [wire    |-> o.wire \o SubSeq(o.pending, 1, k),
     pending |-> SubSeq(o.pending, k + 1, Len(o.pending)),
     issued  |-> o.issued,
     torn    |-> o.torn]

\* A write ends with an error: the connection is gone, and whether the kernel has
\* told of it by that is its own affair.
Breaks(o, k) == k < 2 /\ out' = Tear(o, k) /\ peer' \in {"reset", "dead"}

Writes(o, k) ==
    \/ out' = Write(o, k) /\ UNCHANGED peer
    \/ Breaks(o, k)

\* begin_login(); with the connection gone the write fails, the state stays.
BeginLogin(k) ==
    /\ pc = "idle" /\ state = "Disconnected" /\ out.issued = 0 /\ MaxWrites > 0
    /\ state' = "LoggingIn"
    /\ IF CanSend
       THEN /\ Writes(out, k)
            /\ sinceSend' = IF k = 2 THEN 0 ELSE sinceSend
       ELSE UNCHANGED <<out, sinceSend, peer>>
    /\ UNCHANGED <<pc, received, dispatched, nextInboundSeq, assigned, rejected,
                   sinceRecv, recvYet, inbound, srv, srvSeq>>

\* send_unsequenced(): the header and the payload are two writes.
SendUnsequenced(k1, k2) ==
    /\ pc = "idle" /\ state = "Active"
    /\ out.issued + 2 <= MaxWrites
    /\ CanSend
    /\ Writes(Write(out, k1), k2)
    /\ sinceSend' = IF 2 \in {k1, k2} THEN 0 ELSE sinceSend
    /\ UNCHANGED <<session, pc, sinceRecv, recvYet, inbound, srv, srvSeq>>

\* The write of the header fails: the payload is not written, the state stays Active.
SendHeaderFails(k) ==
    /\ pc = "idle" /\ state = "Active"
    /\ out.issued + 2 <= MaxWrites
    /\ CanSend
    /\ Breaks(out, k)
    /\ UNCHANGED <<session, pc, timers, inbound, srv, srvSeq>>

\* request_logout(), which asks for no particular state.
RequestLogout(k) ==
    /\ pc = "idle" /\ out.issued \in 1 .. MaxWrites - 1
    /\ state' = "Disconnecting"
    /\ IF CanSend
       THEN /\ Writes(out, k)
            /\ sinceSend' = IF k = 2 THEN 0 ELSE sinceSend
       ELSE UNCHANGED <<out, sinceSend, peer>>
    /\ UNCHANGED <<pc, received, dispatched, nextInboundSeq, assigned, rejected,
                   sinceRecv, recvYet, inbound, srv, srvSeq>>

-----------------------------------------------------------------------------
(* poll_io(), part one: read_some() *)

Sent  == 2 * Len(inbound)        \* bytes the gateway sent
Begun == state # "Disconnected" \/ out.issued > 0     \* begin_login was called

Received(n) ==
    /\ received' = n
    /\ sinceRecv' = IF n > received THEN 0 ELSE sinceRecv
    /\ recvYet' = (recvYet \/ n > received)

\* Reads whatever has arrived, until the socket would block.
ReadSome(n) ==
    /\ pc = "idle" /\ Begun /\ peer = "open"
    /\ n >= received
    /\ Received(n)
    /\ pc' = "parse"
    /\ UNCHANGED <<state, dispatched, nextInboundSeq, assigned, rejected, sinceSend,
                   out, gateway>>

\* recv() returns 0 after the last byte: poll_io ends with the error "eof",
\* without parsing what the same call may have read.
ReadEof ==
    /\ pc = "idle" /\ Begun /\ peer \in {"closed", "dead"}
    /\ Received(Sent)
    /\ state' = "Disconnected"
    /\ UNCHANGED <<pc, dispatched, nextInboundSeq, assigned, rejected, sinceSend,
                   out, gateway>>

\* recv() fails: poll_io returns that error in the state it found; the kernel
\* reports a connection's error once and end-of-file afterwards.
ReadError ==
    /\ pc = "idle" /\ Begun /\ peer = "reset"
    /\ Received(Sent)
    /\ peer' = "dead"
    /\ UNCHANGED <<state, pc, dispatched, nextInboundSeq, assigned, rejected, sinceSend,
                   out, inbound, srv, srvSeq>>

-----------------------------------------------------------------------------
(* poll_io(), part two: parse_pending(), one packet at a time *)

Complete == received >= 2 * (dispatched + 1)     \* a whole packet is buffered
Packet   == inbound[dispatched + 1]

\* dispatch_packet() of a packet whose type is in T; the packet is erased from
\* in_buffer_ whether it is an error (poll_io ends) or not (the loop goes on).
Dispatch(T, ok) ==
    /\ pc = "parse" /\ Complete /\ Packet.type \in T
    /\ dispatched' = dispatched + 1
    /\ pc' = IF ok THEN "parse" ELSE "idle"
    /\ UNCHANGED <<received, timers, out, gateway>>

LoginAccepted ==
    /\ Dispatch({"A"}, TRUE)
    /\ assigned' = TRUE
    /\ nextInboundSeq' = Packet.seq
    /\ rejected' = FALSE
    /\ state' = "Active"

LoginRejected ==
    /\ Dispatch({"J"}, TRUE)
    /\ rejected' = TRUE
    /\ state' = "Failed"
    /\ UNCHANGED <<nextInboundSeq, assigned>>

ServerHeartbeat ==
    /\ Dispatch({"H"}, TRUE)
    /\ UNCHANGED <<state, nextInboundSeq, assigned, rejected>>

EndOfSession ==
    /\ Dispatch({"Z"}, TRUE)
    /\ state' = "Disconnected"
    /\ UNCHANGED <<nextInboundSeq, assigned, rejected>>

\* The number is counted before dispatch_ouch() looks at the message.
SequencedData ==
    /\ Dispatch(Sequenced, Packet.type = "S")
    /\ nextInboundSeq' = nextInboundSeq + 1
    /\ UNCHANGED <<state, assigned, rejected>>

UnknownPacket ==
    /\ Dispatch({"other"}, FALSE)
    /\ UNCHANGED <<state, nextInboundSeq, assigned, rejected>>

\* No complete packet is left.
ParseDone ==
    /\ pc = "parse" /\ ~Complete
    /\ pc' = "tick"
    /\ UNCHANGED <<session, timers, out, gateway>>

-----------------------------------------------------------------------------
(* poll_io(), part three: tick_timers() *)

HeartbeatDue == state = "Active" /\ sinceSend >= HbSend
PeerSilent   == state = "Active" /\ recvYet /\ sinceRecv >= HbTimeout

\* flush_pending() gets f bytes out, then the heartbeat, of which k bytes go
\* out, then the watchdog, unless the heartbeat fails.  Heartbeats beyond MaxWrites
\* are not followed.
TickTimers(f, k) ==
    /\ pc = "tick" /\ CanSend
    /\ pc' = "idle"
    /\ IF HeartbeatDue /\ out.issued < MaxWrites
       THEN Writes(Flush(out, f), k)
       ELSE out' = Flush(out, f) /\ UNCHANGED peer
    /\ sinceSend' = IF HeartbeatDue /\ k = 2 THEN 0 ELSE sinceSend
    /\ state' = IF PeerSilent /\ peer' = peer THEN "Failed" ELSE state
    /\ UNCHANGED <<received, dispatched, nextInboundSeq, assigned, rejected,
                   sinceRecv, recvYet, inbound, srv, srvSeq>>

\* Nothing can be sent: flush_pending() gives up, and a heartbeat that is due
\* returns its error before the watchdog is looked at.
TickTimersFails ==
    /\ pc = "tick" /\ ~CanSend
    /\ pc' = "idle"
    /\ state' = IF PeerSilent /\ ~HeartbeatDue THEN "Failed" ELSE state
    /\ UNCHANGED <<received, dispatched, nextInboundSeq, assigned, rejected,
                   timers, out, gateway>>

\* Time passes.
Clock ==
    /\ sinceSend < HbSend \/ sinceRecv < HbTimeout
    /\ sinceSend' = IF sinceSend < HbSend THEN sinceSend + 1 ELSE sinceSend
    /\ sinceRecv' = IF sinceRecv < HbTimeout THEN sinceRecv + 1 ELSE sinceRecv
    /\ UNCHANGED <<session, pc, recvYet, out, gateway>>

-----------------------------------------------------------------------------
(* The gateway (external): the SoupBinTCP server side *)

GatewaySends(type) ==
    /\ peer = "open" /\ Len(inbound) < MaxPackets
    /\ inbound' = Append(inbound, [type |-> type, seq |-> srvSeq])
    /\ srvSeq' = IF type \in Sequenced THEN srvSeq + 1 ELSE srvSeq
    /\ UNCHANGED <<session, pc, timers, out, peer>>

\* The login request is the first buffer written; it is answered once, when
\* its bytes arrived unbroken.
GatewayAnswersLogin ==
    /\ srv = "wait" /\ Len(out.wire) >= 2 /\ SubSeq(out.wire, 1, 2) = Bytes(1)
    /\ \/ GatewaySends("A") /\ srv' = "in"
       \/ GatewaySends("J") /\ srv' = "out"

GatewayTalks ==
    /\ srv = "in"
    /\ \/ \E type \in {"H", "S", "Sbad", "other"} : GatewaySends(type) /\ srv' = srv
       \/ GatewaySends("Z") /\ srv' = "out"

\* The client's kernel sees the connection closed, or reset, by the peer.
ConnectionEnds ==
    /\ \/ peer = "open" /\ peer' = "closed"
       \/ peer \in {"open", "closed"} /\ peer' = "reset"
    /\ UNCHANGED <<session, pc, timers, out, inbound, srv, srvSeq>>

-----------------------------------------------------------------------------
Poll ==
    \/ \E n \in 0 .. Sent : ReadSome(n)
    \/ ReadEof \/ ReadError
    \/ LoginAccepted \/ LoginRejected \/ ServerHeartbeat \/ EndOfSession
    \/ SequencedData \/ UnknownPacket \/ ParseDone
    \/ \E f \in 0 .. Len(out.pending), k \in 0 .. 2 : TickTimers(f, k)
    \/ TickTimersFails

Calls ==
    \/ \E k \in 0 .. 2 : BeginLogin(k) \/ RequestLogout(k) \/ SendHeaderFails(k)
    \/ \E k1, k2 \in 0 .. 2 : SendUnsequenced(k1, k2)

Environment == GatewayAnswersLogin \/ GatewayTalks \/ ConnectionEnds

Next == Poll \/ Calls \/ Clock \/ Environment

Spec == Init /\ [][Next]_vars

\* The application polls in a loop (every 5 ms in resident mode) and time
\* goes on.  Nothing is assumed of the gateway, the network or the calls.
FairSpec == Spec /\ WF_vars(Poll) /\ WF_vars(Clock)

-----------------------------------------------------------------------------
Outputs == [wire : Seq(Nat \X {1, 2}), pending : Seq(Nat \X {1, 2}),
            issued : Nat, torn : {0, 1}]

\* Every variable keeps its type, and the positions in the inbound stream do
\* not overtake one another.
TypeOK ==
    /\ state \in States /\ pc \in {"idle", "parse", "tick"}
    /\ received \in 0 .. Sent /\ dispatched \in 0 .. received \div 2
    /\ nextInboundSeq \in Nat /\ assigned \in BOOLEAN /\ rejected \in BOOLEAN
    /\ sinceSend \in 0 .. HbSend /\ sinceRecv \in 0 .. HbTimeout /\ recvYet \in BOOLEAN
    /\ out \in Outputs
    /\ inbound \in Seq(Packets)
    /\ srv \in {"wait", "in", "out"} /\ srvSeq \in Nat
    /\ peer \in {"open", "closed", "reset", "dead"}

\* The number the gateway gives the next sequenced message after packet i - 1.
NumberAt(i) == IF i <= Len(inbound) THEN inbound[i].seq ELSE srvSeq

\* The session and the gateway count alike: next_inbound_seq_ is the gateway's
\* number of the first message this session has not dispatched, whatever was
\* cut, buffered, undecodable or left unparsed by an error.  It is the cursor
\* the next login resumes with.
SequenceAgreement ==
    assigned => nextInboundSeq = NumberAt(dispatched + 1)

\* What SequenceAgreement rests on: the gateway's numbers advance by one over
\* each sequenced message and by nothing over any other packet.
StreamInv ==
    \A i \in 1 .. Len(inbound) :
        NumberAt(i + 1) = IF inbound[i].type \in Sequenced
                          THEN NumberAt(i) + 1 ELSE NumberAt(i)

SessionInv == TypeOK /\ StreamInv /\ SequenceAgreement

\* No byte handed to write_bytes() is lost or sent twice: each is either on
\* the wire or stashed, once.  What a failing send() leaves of a buffer is all that is
\* dropped, and nothing is written behind it: the connection is gone.
EveryByteOnce ==
    LET all == out.wire \o out.pending
        lost(n, b) == out.torn = 1 /\ n = out.issued /\ b = 2
    IN  /\ Len(all) = 2 * out.issued - out.torn
        /\ \A n \in 1 .. out.issued, b \in {1, 2} :
              lost(n, b) \/ \E i \in DOMAIN all : all[i] = <<n, b>>
        /\ out.torn = 1 => ~CanSend

\* A peer that has been silent for the timeout is noticed: poll_io hears from
\* it or takes the session out of Active.
SilentPeerDetected ==
    (state = "Active" /\ sinceRecv = HbTimeout)
       ~> (state # "Active" \/ sinceRecv < HbTimeout)

-----------------------------------------------------------------------------
(* What comments of the code say and the code does not do *)

\* "Wrap an OUCH message in a SoupBinTCP UnsequencedDataPacket and write it
\* through the socket" (session.hpp:169-170): what leaves is the packets, in
\* the order they were written.
WireInOrder ==
    LET all == out.wire \o out.pending
    IN  \A i, j \in DOMAIN all : i < j =>
           \/ all[i][1] < all[j][1]
           \/ all[i][1] = all[j][1] /\ all[i][2] < all[j][2]
=============================================================================
