-------------------------- MODULE OuchSessionProofs --------------------------
(***************************************************************************)
(* Proofs about OuchSession, for every first number, timeout and number of *)
(* packets and writes: the client and the gateway agree on the numbers of  *)
(* the sequenced messages, no byte written is lost or doubled, and bytes   *)
(* change their order only where a write leaves some of them stashed.      *)
(***************************************************************************)
EXTENDS OuchSession, SequenceTheorems, TLAPS

-----------------------------------------------------------------------------
\* Cutting a buffer (write_bytes, flush_pending) gives buffers.
LEMMA Cut ==
    ASSUME NEW S, NEW s \in Seq(S), NEW k \in Nat, k <= Len(s)
    PROVE  /\ SubSeq(s, 1, k) \in Seq(S)
           /\ SubSeq(s, k + 1, Len(s)) \in Seq(S)
  <1>1. SubSeq(s, 1, k) \in Seq(S)
    BY SubSeqProperties
  <1>2. CASE k = Len(s)
    <2>1. SubSeq(s, k + 1, Len(s)) = <<>>
      BY <1>2, LenProperties, SubSeqEmpty
    <2>2. QED  BY <1>1, <2>1
  <1>3. CASE k < Len(s)
    <2>1. SubSeq(s, k + 1, Len(s)) \in Seq(S)
      BY <1>3, LenProperties, SubSeqProperties
    <2>2. QED  BY <1>1, <2>1
  <1>4. QED  BY <1>2, <1>3, LenProperties

\* write_bytes() keeps the type of what it works on.
LEMMA WriteType ==
    ASSUME NEW o \in Outputs, NEW k \in 0 .. 2
    PROVE  Write(o, k) \in Outputs
  <1> DEFINE B == Nat \X {1, 2}
             n == o.issued + 1
  <1>1. n \in Nat /\ Bytes(n) \in Seq(B) /\ Len(Bytes(n)) = 2
    BY DEF Outputs, Bytes
  <1>2. SubSeq(Bytes(n), 1, k) \in Seq(B) /\ SubSeq(Bytes(n), k + 1, 2) \in Seq(B)
    BY <1>1, Cut
  <1>3. o.wire \in Seq(B) /\ o.pending \in Seq(B)
    BY DEF Outputs
  <1>4. o.wire \o SubSeq(Bytes(n), 1, k) \in Seq(B)
    BY <1>2, <1>3, ConcatProperties
  <1>5. o.pending \o SubSeq(Bytes(n), k + 1, 2) \in Seq(B)
    BY <1>2, <1>3, ConcatProperties
  <1>6. QED  BY <1>1, <1>4, <1>5 DEF Write, Outputs

\* flush_pending() does, too.
LEMMA FlushType ==
    ASSUME NEW o \in Outputs, NEW k \in 0 .. Len(o.pending)
    PROVE  Flush(o, k) \in Outputs
  <1> DEFINE B == Nat \X {1, 2}
  <1>1. o.wire \in Seq(B) /\ o.pending \in Seq(B)
    BY DEF Outputs
  <1>2. /\ SubSeq(o.pending, 1, k) \in Seq(B)
        /\ SubSeq(o.pending, k + 1, Len(o.pending)) \in Seq(B)
    BY <1>1, Cut, LenProperties
  <1>3. o.wire \o SubSeq(o.pending, 1, k) \in Seq(B)
    BY <1>1, <1>2, ConcatProperties
  <1>4. QED  BY <1>2, <1>3 DEF Flush, Outputs

\* So does a send() that fails on the way.
LEMMA TearType ==
    ASSUME NEW o \in Outputs, NEW k \in 0 .. 2
    PROVE  Tear(o, k) \in Outputs
  <1> DEFINE B == Nat \X {1, 2}
             n == o.issued + 1
  <1>1. o.wire \in Seq(B) /\ o.pending \in Seq(B) /\ n \in Nat /\ <<n, 1>> \in B
    BY DEF Outputs
  <1>2. Append(o.wire, <<n, 1>>) \in Seq(B)
    BY <1>1, AppendProperties
  <1>3. QED  BY <1>1, <1>2 DEF Tear, Outputs

\* Whatever becomes of a write.
LEMMA WritesType ==
    ASSUME TypeOK, NEW o \in Outputs, NEW k \in 0 .. 2, Writes(o, k) \/ Breaks(o, k)
    PROVE  out' \in Outputs /\ peer' \in {"open", "closed", "reset", "dead"}
  BY WriteType, TearType DEF Writes, Breaks, TypeOK

-----------------------------------------------------------------------------
\* A fresh session (session.hpp:409-425) satisfies the invariant.
LEMMA SessionInit == Init => SessionInv
  <1> SUFFICES ASSUME Init PROVE SessionInv
    OBVIOUS
  <1> USE SessionAssumption DEF Init
  <1>1. out \in Outputs
    BY DEF Outputs
  <1>2. inbound \in Seq(Packets) /\ Len(inbound) = 0
    OBVIOUS
  <1>3. TypeOK
    <2>1. received \in 0 .. Sent /\ dispatched \in 0 .. received \div 2
      BY <1>2 DEF Sent
    <2>2. assigned \in BOOLEAN /\ rejected \in BOOLEAN /\ recvYet \in BOOLEAN
      OBVIOUS
    <2>3. /\ sinceSend \in 0 .. HbSend /\ sinceRecv \in 0 .. HbTimeout
          /\ nextInboundSeq \in Nat /\ srvSeq \in Nat
      OBVIOUS
    <2>4. /\ state \in States /\ pc \in {"idle", "parse", "tick"}
          /\ srv \in {"wait", "in", "out"} /\ peer \in {"open", "closed", "reset", "dead"}
      BY DEF States
    <2>5. QED  BY <1>1, <1>2, <2>1, <2>2, <2>3, <2>4 DEF TypeOK
  <1>4. StreamInv /\ SequenceAgreement
    BY <1>2 DEF StreamInv, SequenceAgreement
  <1>5. QED  BY <1>3, <1>4 DEF SessionInv

-----------------------------------------------------------------------------
(* Types.  The positions in the stream are the part that needs an argument: *)
(* the gateway only appends, read_some() never passes what was sent, and a  *)
(* packet is dispatched only when all of it was read.                       *)

\* What a packet the gateway sends adds to its stream.
LEMMA Append1 ==
    ASSUME TypeOK, NEW t \in Types, GatewaySends(t)
    PROVE  /\ inbound' \in Seq(Packets) /\ Len(inbound') = Len(inbound) + 1
           /\ srvSeq' \in Nat
           /\ \A i \in 1 .. Len(inbound) : inbound'[i] = inbound[i]
           /\ inbound'[Len(inbound) + 1] = [type |-> t, seq |-> srvSeq]
  <1>1. [type |-> t, seq |-> srvSeq] \in Packets
    BY DEF TypeOK, Packets
  <1>2. inbound' = Append(inbound, [type |-> t, seq |-> srvSeq])
    BY DEF GatewaySends
  <1>3. inbound \in Seq(Packets) /\ srvSeq \in Nat
    BY DEF TypeOK
  <1>4. srvSeq' \in Nat
    BY <1>3 DEF GatewaySends
  <1>5. QED  BY <1>1, <1>2, <1>3, <1>4, AppendProperties

\* A packet the gateway sends keeps the types.
LEMMA GatewayType ==
    ASSUME TypeOK, NEW t \in Types, GatewaySends(t), srv' \in {"wait", "in", "out"}
    PROVE  TypeOK'
  <1>1. /\ inbound' \in Seq(Packets) /\ Len(inbound') = Len(inbound) + 1
        /\ srvSeq' \in Nat
    BY Append1
  <1>2. Len(inbound) \in Nat
    BY LenProperties DEF TypeOK
  <1>3. /\ received' \in 0 .. Sent' /\ dispatched' \in 0 .. received' \div 2
        /\ UNCHANGED <<state, pc, nextInboundSeq, assigned, rejected, sinceSend,
                       sinceRecv, recvYet, out, peer>>
    BY <1>1, <1>2 DEF TypeOK, GatewaySends, session, timers, Sent
  <1>4. QED  BY <1>1, <1>3 DEF TypeOK

\* A complete packet at the head of the inbound buffer is one the gateway sent.
LEMMA PacketType ==
    ASSUME TypeOK, Complete
    PROVE  /\ Packet \in Packets /\ dispatched + 1 \in 1 .. Len(inbound)
           /\ dispatched + 1 \in 0 .. received \div 2
  <1>1. /\ inbound \in Seq(Packets) /\ Len(inbound) \in Nat
        /\ received \in 0 .. 2 * Len(inbound) /\ dispatched \in Nat
    BY LenProperties DEF TypeOK, Sent
  <1>2. dispatched + 1 \in 1 .. Len(inbound) /\ dispatched + 1 \in 0 .. received \div 2
    BY <1>1 DEF Complete
  <1>3. QED  BY <1>1, <1>2, ElementOfSeq DEF Packet

\* The dispatch of a packet (session.hpp:228-254) keeps the types.
LEMMA DispatchType ==
    ASSUME TypeOK, NEW T, NEW ok \in BOOLEAN, Dispatch(T, ok),
           state' \in States, nextInboundSeq' \in Nat,
           assigned' \in BOOLEAN, rejected' \in BOOLEAN
    PROVE  TypeOK'
  BY PacketType DEF TypeOK, Dispatch, timers, gateway, Sent

\* Every step keeps the types.
LEMMA TypeStep ==
    ASSUME TypeOK, [Next]_vars
    PROVE  TypeOK'
  <1> USE SessionAssumption
  <1>1. CASE UNCHANGED vars
    BY <1>1 DEF vars, TypeOK, Sent
  <1>2. CASE Calls
    <2> USE DEF States, timers, gateway, session
    <2>0. out \in Outputs
      BY DEF TypeOK
    <2>1. ASSUME NEW k \in 0 .. 2, BeginLogin(k)  PROVE TypeOK'
      <3>1. out' \in Outputs /\ peer' \in {"open", "closed", "reset", "dead"}
        BY <2>0, <2>1, WritesType DEF BeginLogin, TypeOK
      <3>2. QED  BY <2>1, <3>1 DEF TypeOK, BeginLogin, Sent
    <2>2. ASSUME NEW k \in 0 .. 2, RequestLogout(k)  PROVE TypeOK'
      <3>1. out' \in Outputs /\ peer' \in {"open", "closed", "reset", "dead"}
        BY <2>0, <2>2, WritesType DEF RequestLogout, TypeOK
      <3>2. QED  BY <2>2, <3>1 DEF TypeOK, RequestLogout, Sent
    <2>3. ASSUME NEW k \in 0 .. 2, SendHeaderFails(k)  PROVE TypeOK'
      <3>1. out' \in Outputs /\ peer' \in {"open", "closed", "reset", "dead"}
        BY <2>0, <2>3, WritesType DEF SendHeaderFails
      <3>2. QED  BY <2>3, <3>1 DEF TypeOK, SendHeaderFails, Sent
    <2>4. ASSUME NEW k1 \in 0 .. 2, NEW k2 \in 0 .. 2, SendUnsequenced(k1, k2)
          PROVE  TypeOK'
      <3>1. out' \in Outputs /\ peer' \in {"open", "closed", "reset", "dead"}
        BY <2>0, <2>4, WriteType, WritesType DEF SendUnsequenced
      <3>2. QED  BY <2>4, <3>1 DEF TypeOK, SendUnsequenced, Sent
    <2>5. QED  BY <1>2, <2>1, <2>2, <2>3, <2>4 DEF Calls
  <1>3. CASE Poll
    <2> USE DEF States, Types, timers, gateway, session
    <2>1. ASSUME NEW n \in 0 .. Sent, ReadSome(n)  PROVE TypeOK'
      BY <2>1, LenProperties DEF TypeOK, ReadSome, Received, Sent
    <2>2. CASE ReadEof
      BY <2>2, LenProperties DEF TypeOK, ReadEof, Received, Sent
    <2>3. CASE ReadError
      BY <2>3, LenProperties DEF TypeOK, ReadError, Received, Sent
    <2>4. CASE LoginAccepted
      BY <2>4, DispatchType, PacketType DEF LoginAccepted, Dispatch, Packets, TypeOK
    <2>5. CASE LoginRejected
      BY <2>5, DispatchType DEF LoginRejected, TypeOK
    <2>6. CASE ServerHeartbeat
      BY <2>6, DispatchType DEF ServerHeartbeat, TypeOK
    <2>7. CASE EndOfSession
      BY <2>7, DispatchType DEF EndOfSession, TypeOK
    <2>8. CASE SequencedData
      <3>1. /\ state' \in States /\ nextInboundSeq' \in Nat
            /\ assigned' \in BOOLEAN /\ rejected' \in BOOLEAN
        BY <2>8 DEF SequencedData, TypeOK
      <3>2. PICK ok \in BOOLEAN : Dispatch(Sequenced, ok)
        BY <2>8 DEF SequencedData
      <3>3. QED  BY <3>1, <3>2, DispatchType
    <2>9. CASE UnknownPacket
      BY <2>9, DispatchType DEF UnknownPacket, TypeOK
    <2>10. CASE ParseDone
      BY <2>10 DEF TypeOK, ParseDone, Sent
    <2>11. ASSUME NEW f \in 0 .. Len(out.pending), NEW k \in 0 .. 2, TickTimers(f, k)
           PROVE  TypeOK'
      <3>1. out' \in Outputs /\ peer' \in {"open", "closed", "reset", "dead"}
        <4>1. Flush(out, f) \in Outputs
          BY <2>11, FlushType DEF TypeOK
        <4>2. QED  BY <2>11, <4>1, WritesType DEF TickTimers, TypeOK
      <3>2. QED  BY <2>11, <3>1 DEF TypeOK, TickTimers, Sent
    <2>12. CASE TickTimersFails
      BY <2>12 DEF TypeOK, TickTimersFails, Sent
    <2>13. QED  BY <1>3, <2>1, <2>2, <2>3, <2>4, <2>5, <2>6, <2>7, <2>8, <2>9,
                  <2>10, <2>11, <2>12 DEF Poll
  <1>4. CASE Clock
    BY <1>4 DEF TypeOK, Clock, session, gateway, Sent
  <1>5. CASE Environment
    <2>1. CASE GatewayAnswersLogin
      BY <2>1, GatewayType DEF GatewayAnswersLogin, Types
    <2>2. CASE GatewayTalks
      BY <2>2, GatewayType DEF GatewayTalks, Types
    <2>3. CASE ConnectionEnds
      BY <2>3 DEF TypeOK, ConnectionEnds, session, timers, Sent
    <2>4. QED  BY <1>5, <2>1, <2>2, <2>3 DEF Environment
  <1>6. QED  BY <1>1, <1>2, <1>3, <1>4, <1>5 DEF Next

-----------------------------------------------------------------------------
(* The numbers *)

\* The gateway numbers what it appends; what it sent before keeps its number.
LEMMA GatewayStream ==
    ASSUME TypeOK, StreamInv, SequenceAgreement, NEW t \in Types, GatewaySends(t)
    PROVE  StreamInv' /\ SequenceAgreement'
  <1>0. PICK n \in Nat : n = Len(inbound)
    BY LenProperties DEF TypeOK
  <1>1. /\ n \in Nat /\ Len(inbound') = n + 1
        /\ \A i \in 1 .. n : inbound'[i] = inbound[i]
        /\ inbound'[n + 1] = [type |-> t, seq |-> srvSeq]
    BY <1>0, Append1
  <1>2. \A i \in 1 .. n + 1 : NumberAt(i)' = NumberAt(i)
    BY <1>0, <1>1 DEF NumberAt
  <1>3. NumberAt(n + 1)' = srvSeq /\ NumberAt(n + 2)' = srvSeq'
    BY <1>1 DEF NumberAt
  <1>4. srvSeq' = IF t \in Sequenced THEN srvSeq + 1 ELSE srvSeq
    BY DEF GatewaySends
  <1>5. StreamInv'
    <2> SUFFICES ASSUME NEW i \in 1 .. n + 1
                 PROVE  NumberAt(i + 1)' = IF inbound'[i].type \in Sequenced
                                           THEN NumberAt(i)' + 1 ELSE NumberAt(i)'
      BY <1>1 DEF StreamInv
    <2>1. CASE i = n + 1
      <3>1. i + 1 = n + 2
        BY <1>1, <2>1
      <3>2. inbound'[i].type = t
        BY <1>1, <2>1
      <3>3. QED  BY <1>3, <1>4, <2>1, <3>1, <3>2
    <2>2. CASE i # n + 1
      <3>1. i \in 1 .. n /\ i + 1 \in 1 .. n + 1
        BY <1>1, <2>2
      <3>2. NumberAt(i)' = NumberAt(i) /\ NumberAt(i + 1)' = NumberAt(i + 1)
        BY <1>2, <3>1
      <3>3. inbound'[i] = inbound[i]
        BY <1>1, <3>1
      <3>4. QED  BY <1>0, <3>1, <3>2, <3>3 DEF StreamInv
    <2>3. QED  BY <2>1, <2>2
  <1>6. SequenceAgreement'
    <2>1. /\ received \in 0 .. 2 * n /\ dispatched \in 0 .. received \div 2
          /\ UNCHANGED <<dispatched, nextInboundSeq, assigned>>
      BY <1>0 DEF TypeOK, Sent, GatewaySends, session
    <2>2. dispatched + 1 \in 1 .. n + 1
      BY <1>1, <2>1
    <2>3. QED  BY <1>2, <2>1, <2>2 DEF SequenceAgreement
  <1>7. QED  BY <1>5, <1>6

\* A step that leaves the stream alone and advances the position over one
\* packet keeps the agreement if it counts that packet as the gateway did.
LEMMA DispatchStream ==
    ASSUME TypeOK, StreamInv, SequenceAgreement,
           NEW T, NEW ok \in BOOLEAN, Dispatch(T, ok),
           \/ /\ assigned' = assigned
              /\ nextInboundSeq' = IF Packet.type \in Sequenced
                                   THEN nextInboundSeq + 1 ELSE nextInboundSeq
           \/ Packet.type \notin Sequenced /\ nextInboundSeq' = Packet.seq
    PROVE  StreamInv' /\ SequenceAgreement'
  <1>1. dispatched + 1 \in 1 .. Len(inbound) /\ dispatched \in Nat
    BY PacketType DEF Dispatch, TypeOK
  <1>2. /\ dispatched' = dispatched + 1
        /\ UNCHANGED <<inbound, srvSeq>>
    BY DEF Dispatch, gateway
  <1>3. NumberAt(dispatched + 1) = Packet.seq
    BY <1>1 DEF NumberAt, Packet
  <1>4. NumberAt(dispatched + 2) = IF Packet.type \in Sequenced
                                   THEN Packet.seq + 1 ELSE Packet.seq
    <2>1. (dispatched + 1) + 1 = dispatched + 2
      BY <1>1
    <2>2. QED  BY <1>1, <1>3, <2>1 DEF StreamInv, Packet
  <1>5. NumberAt(dispatched + 1)' = NumberAt(dispatched + 2)
    <2>1. dispatched' + 1 = dispatched + 2
      BY <1>1, <1>2
    <2>2. QED  BY <1>2, <2>1 DEF NumberAt
  <1>6. StreamInv'
    BY <1>2 DEF StreamInv, NumberAt
  <1>7. SequenceAgreement'
    BY <1>3, <1>4, <1>5 DEF SequenceAgreement
  <1>8. QED  BY <1>6, <1>7

\* Every step keeps the agreement of the two cursors over the stream.
LEMMA StreamStep ==
    ASSUME SessionInv, [Next]_vars
    PROVE  StreamInv' /\ SequenceAgreement'
  <1>1. CASE UNCHANGED <<inbound, srvSeq, dispatched, nextInboundSeq, assigned>>
    BY <1>1 DEF SessionInv, StreamInv, SequenceAgreement, NumberAt
  <1> USE DEF SessionInv, gateway, session, timers
  <1>2. CASE LoginAccepted
    BY <1>2, DispatchStream DEF LoginAccepted, Dispatch, Sequenced
  <1>3. CASE LoginRejected
    BY <1>3, DispatchStream DEF LoginRejected, Dispatch, Sequenced
  <1>4. CASE ServerHeartbeat
    BY <1>4, DispatchStream DEF ServerHeartbeat, Dispatch, Sequenced
  <1>5. CASE EndOfSession
    BY <1>5, DispatchStream DEF EndOfSession, Dispatch, Sequenced
  <1>6. CASE SequencedData
    <2>1. (Packet.type = "S") \in BOOLEAN
      OBVIOUS
    <2>2. QED  BY <1>6, <2>1, DispatchStream DEF SequencedData, Dispatch
  <1>7. CASE UnknownPacket
    BY <1>7, DispatchStream DEF UnknownPacket, Dispatch, Sequenced
  <1>8. CASE GatewayAnswersLogin
    BY <1>8, GatewayStream DEF GatewayAnswersLogin, Types
  <1>9. CASE GatewayTalks
    BY <1>9, GatewayStream DEF GatewayTalks, Types
  <1>10. CASE Calls
    BY <1>1, <1>10 DEF Calls, BeginLogin, RequestLogout, SendUnsequenced,
                       SendHeaderFails
  <1>11. CASE Clock \/ ConnectionEnds \/ UNCHANGED vars
    BY <1>1, <1>11 DEF Clock, ConnectionEnds, vars
  <1>12. CASE \/ \E n \in 0 .. Sent : ReadSome(n)
              \/ ReadEof \/ ReadError \/ ParseDone \/ TickTimersFails
    BY <1>1, <1>12 DEF ReadSome, ReadEof, ReadError, ParseDone, TickTimersFails
  <1>13. CASE \E f \in 0 .. Len(out.pending), k \in 0 .. 2 : TickTimers(f, k)
    BY <1>1, <1>13 DEF TickTimers
  <1>14. QED  BY <1>2, <1>3, <1>4, <1>5, <1>6, <1>7, <1>8, <1>9, <1>10, <1>11,
                <1>12, <1>13 DEF Next, Poll, Environment

-----------------------------------------------------------------------------
\* Every variable of the session keeps its type, the positions in the inbound
\* stream keep their order (session.hpp:206-254), and the client and the
\* gateway count the sequenced messages alike.
THEOREM SessionInvariant == Spec => []SessionInv
  <1>1. ASSUME SessionInv, [Next]_vars  PROVE SessionInv'
    BY <1>1, TypeStep, StreamStep DEF SessionInv
  <1>2. QED  BY SessionInit, <1>1, PTL DEF Spec

\* The type part of it, for every behaviour of the session.
THEOREM SessionTypes == Spec => []TypeOK
  <1>1. SessionInv => TypeOK
    BY DEF SessionInv
  <1>2. QED  BY SessionInvariant, <1>1, PTL

\* next_inbound_seq_ is the gateway's number of the first message that was not
\* dispatched, however the stream was cut, whatever packet did not decode and
\* whichever call of poll_io ended early (session.hpp:293-295, 245-251).
THEOREM SequencesAgree == Spec => []SequenceAgreement
  <1>1. SessionInv => SequenceAgreement
    BY DEF SessionInv
  <1>2. QED  BY SessionInvariant, <1>1, PTL

-----------------------------------------------------------------------------
(* The bytes written *)

\* x is somewhere in s.
Has(s, x) == \E i \in 1 .. Len(s) : s[i] = x

\* EveryByteOnce, of the two buffers: as many bytes as were handed over, and each of them.
Kept(o) ==
    /\ Len(o.wire) + Len(o.pending) = 2 * o.issued
    /\ \A n \in 1 .. o.issued, b \in {1, 2} : Has(o.wire, <<n, b>>) \/ Has(o.pending, <<n, b>>)

\* Appending bytes to a buffer loses none.
LEMMA Joined ==
    ASSUME NEW S, NEW s \in Seq(S), NEW t \in Seq(S)
    PROVE  /\ Len(s \o t) = Len(s) + Len(t)
           /\ \A x : Has(s \o t, x) <=> Has(s, x) \/ Has(t, x)
  <1> DEFINE a == s \o t
  <1>1. /\ Len(s) \in Nat /\ Len(t) \in Nat /\ Len(a) = Len(s) + Len(t)
        /\ \A i \in 1 .. Len(a) : a[i] = IF i <= Len(s) THEN s[i] ELSE t[i - Len(s)]
    BY ConcatProperties, LenProperties
  <1> HIDE DEF a
  <1>2. ASSUME NEW x, Has(s, x)  PROVE Has(a, x)
    <2>1. PICK i \in 1 .. Len(s) : s[i] = x
      BY <1>2 DEF Has
    <2>2. i \in 1 .. Len(a) /\ a[i] = x
      BY <1>1, <2>1
    <2>3. QED  BY <2>2 DEF Has
  <1>3. ASSUME NEW x, Has(t, x)  PROVE Has(a, x)
    <2>1. PICK i \in 1 .. Len(t) : t[i] = x
      BY <1>3 DEF Has
    <2>2. i + Len(s) \in 1 .. Len(a) /\ ~(i + Len(s) <= Len(s)) /\ (i + Len(s)) - Len(s) = i
      BY <1>1
    <2>3. a[i + Len(s)] = x
      BY <1>1, <2>1, <2>2
    <2>4. QED  BY <2>2, <2>3 DEF Has
  <1>4. ASSUME NEW x, Has(a, x)  PROVE Has(s, x) \/ Has(t, x)
    <2>1. PICK i \in 1 .. Len(a) : a[i] = x
      BY <1>4 DEF Has
    <2>2. CASE i <= Len(s)
      <3>1. i \in 1 .. Len(s) /\ s[i] = x
        BY <1>1, <2>1, <2>2
      <3>2. QED  BY <3>1 DEF Has
    <2>3. CASE ~(i <= Len(s))
      <3>1. i - Len(s) \in 1 .. Len(t) /\ t[i - Len(s)] = x
        BY <1>1, <2>1, <2>3
      <3>2. QED  BY <3>1 DEF Has
    <2>4. QED  BY <2>2, <2>3
  <1>5. QED  BY <1>1, <1>2, <1>3, <1>4 DEF a

\* Cutting a buffer loses none either.
LEMMA Parted ==
    ASSUME NEW S, NEW s \in Seq(S), NEW k \in Nat, k <= Len(s)
    PROVE  /\ Len(SubSeq(s, 1, k)) + Len(SubSeq(s, k + 1, Len(s))) = Len(s)
           /\ \A x : Has(s, x) => Has(SubSeq(s, 1, k), x) \/ Has(SubSeq(s, k + 1, Len(s)), x)
  <1> DEFINE a == SubSeq(s, 1, k)
             b == SubSeq(s, k + 1, Len(s))
  <1>0. Len(s) \in Nat
    BY LenProperties
  <1>1. Len(a) = k /\ \A i \in 1 .. k : a[i] = s[i]
    BY <1>0
  <1>2. Len(b) = Len(s) - k /\ \A i \in 1 .. Len(s) - k : b[i] = s[i + k]
    BY <1>0
  <1> HIDE DEF a, b
  <1>3. ASSUME NEW x, Has(s, x)  PROVE Has(a, x) \/ Has(b, x)
    <2>1. PICK i \in 1 .. Len(s) : s[i] = x
      BY <1>3 DEF Has
    <2>2. CASE i <= k
      <3>1. i \in 1 .. Len(a) /\ a[i] = x
        BY <1>0, <1>1, <2>1, <2>2
      <3>2. QED  BY <3>1 DEF Has
    <2>3. CASE ~(i <= k)
      <3>1. i - k \in 1 .. Len(s) - k /\ (i - k) + k = i
        BY <1>0, <2>1, <2>3
      <3>2. i - k \in 1 .. Len(b) /\ b[i - k] = x
        BY <1>2, <2>1, <3>1
      <3>3. QED  BY <3>2 DEF Has
    <2>4. QED  BY <2>2, <2>3
  <1>4. Len(a) + Len(b) = Len(s)
    BY <1>0, <1>1, <1>2
  <1>5. QED  BY <1>3, <1>4 DEF a, b

\* write_bytes(): what the socket takes goes to the wire, the rest is stashed.
LEMMA WriteKeeps ==
    ASSUME NEW o \in Outputs, NEW k \in 0 .. 2, Kept(o)
    PROVE  Kept(Write(o, k))
  <1> DEFINE B == Nat \X {1, 2}
             n == o.issued + 1
             out1 == SubSeq(Bytes(n), 1, k)
             rest == SubSeq(Bytes(n), k + 1, 2)
             w == o.wire \o out1
             p == o.pending \o rest
  <1>1. /\ n \in Nat /\ Bytes(n) \in Seq(B) /\ Len(Bytes(n)) = 2
        /\ Bytes(n)[1] = <<n, 1>> /\ Bytes(n)[2] = <<n, 2>>
    BY DEF Outputs, Bytes
  <1>2. out1 \in Seq(B) /\ rest \in Seq(B)
    BY <1>1, Cut
  <1>3. o.wire \in Seq(B) /\ o.pending \in Seq(B) /\ o.issued \in Nat
    BY DEF Outputs
  <1>l. Len(o.wire) \in Nat /\ Len(o.pending) \in Nat /\ Len(out1) \in Nat /\ Len(rest) \in Nat
    BY <1>2, <1>3, LenProperties
  <1>4. \A b \in {1, 2} : Has(Bytes(n), <<n, b>>)
    BY <1>1 DEF Has
  <1>5. Len(out1) + Len(rest) = 2 /\ \A x : Has(Bytes(n), x) => Has(out1, x) \/ Has(rest, x)
    <2> DEFINE buf == Bytes(n)
    <2>1. buf \in Seq(B) /\ Len(buf) = 2 /\ k \in Nat /\ k <= Len(buf)
      BY <1>1
    <2> HIDE DEF buf, B
    <2>2. /\ Len(SubSeq(buf, 1, k)) + Len(SubSeq(buf, k + 1, Len(buf))) = Len(buf)
          /\ \A x : Has(buf, x) => Has(SubSeq(buf, 1, k), x) \/ Has(SubSeq(buf, k + 1, Len(buf)), x)
      BY <2>1, Parted, Zenon
    <2>3. QED  BY <2>1, <2>2, Zenon DEF buf
  <1> HIDE DEF out1, rest
  <1>6. Len(w) = Len(o.wire) + Len(out1) /\ \A x : Has(w, x) <=> Has(o.wire, x) \/ Has(out1, x)
    BY <1>2, <1>3, Joined
  <1>7. Len(p) = Len(o.pending) + Len(rest)
        /\ \A x : Has(p, x) <=> Has(o.pending, x) \/ Has(rest, x)
    BY <1>2, <1>3, Joined
  <1>8. Write(o, k).wire = w /\ Write(o, k).pending = p /\ Write(o, k).issued = n
    BY DEF Write, out1, rest
  <1> HIDE DEF w, p
  <1>9. Len(w) + Len(p) = 2 * n
    <2>1. /\ Len(o.wire) + Len(o.pending) = 2 * o.issued /\ Len(out1) + Len(rest) = 2
          /\ Len(w) = Len(o.wire) + Len(out1) /\ Len(p) = Len(o.pending) + Len(rest)
      BY <1>5, <1>6, <1>7 DEF Kept
    <2>2. PICK a \in Nat, b \in Nat, c \in Nat, d \in Nat, i \in Nat :
              /\ a = Len(o.wire) /\ b = Len(o.pending) /\ c = Len(out1) /\ d = Len(rest)
              /\ i = o.issued
      BY <1>3, <1>l
    <2>3. a + b = 2 * i /\ c + d = 2 /\ Len(w) = a + c /\ Len(p) = b + d
      BY <2>1, <2>2
    <2>4. (a + c) + (b + d) = 2 * (i + 1)
      BY <2>3
    <2>5. QED  BY <2>2, <2>3, <2>4
  <1>10. ASSUME NEW m \in 1 .. n, NEW b \in {1, 2}  PROVE Has(w, <<m, b>>) \/ Has(p, <<m, b>>)
    <2>1. CASE m = n
      BY <1>4, <1>5, <1>6, <1>7, <2>1
    <2>2. CASE m # n
      <3>1. m \in 1 .. o.issued
        BY <1>3, <2>2
      <3>2. QED  BY <1>6, <1>7, <3>1 DEF Kept
    <2>3. QED  BY <2>1, <2>2
  <1>11. QED  BY <1>8, <1>9, <1>10 DEF Kept

\* flush_pending(): what the socket takes leaves the stash.
LEMMA FlushKeeps ==
    ASSUME NEW o \in Outputs, NEW k \in 0 .. Len(o.pending), Kept(o)
    PROVE  Kept(Flush(o, k))
  <1> DEFINE B == Nat \X {1, 2}
             out1 == SubSeq(o.pending, 1, k)
             rest == SubSeq(o.pending, k + 1, Len(o.pending))
             w == o.wire \o out1
  <1>1. o.wire \in Seq(B) /\ o.pending \in Seq(B) /\ o.issued \in Nat
    BY DEF Outputs
  <1>2. k \in Nat /\ k <= Len(o.pending)
    BY <1>1, LenProperties
  <1>3. out1 \in Seq(B) /\ rest \in Seq(B)
    BY <1>1, <1>2, Cut
  <1>l. Len(o.wire) \in Nat /\ Len(o.pending) \in Nat /\ Len(out1) \in Nat /\ Len(rest) \in Nat
    BY <1>1, <1>3, LenProperties
  <1>4. /\ Len(out1) + Len(rest) = Len(o.pending)
        /\ \A x : Has(o.pending, x) => Has(out1, x) \/ Has(rest, x)
    BY <1>1, <1>2, Parted
  <1> HIDE DEF out1, rest
  <1>5. Len(w) = Len(o.wire) + Len(out1) /\ \A x : Has(w, x) <=> Has(o.wire, x) \/ Has(out1, x)
    BY <1>1, <1>3, Joined
  <1>6. Flush(o, k).wire = w /\ Flush(o, k).pending = rest /\ Flush(o, k).issued = o.issued
    BY DEF Flush, out1, rest
  <1> HIDE DEF w
  <1>7. Len(w) + Len(rest) = 2 * o.issued
    <2>1. /\ Len(o.wire) + Len(o.pending) = 2 * o.issued
          /\ Len(out1) + Len(rest) = Len(o.pending) /\ Len(w) = Len(o.wire) + Len(out1)
      BY <1>4, <1>5 DEF Kept
    <2>2. PICK a \in Nat, b \in Nat, c \in Nat, d \in Nat :
              a = Len(o.wire) /\ b = Len(o.pending) /\ c = Len(out1) /\ d = Len(rest)
      BY <1>l
    <2>3. a + b = 2 * o.issued /\ c + d = b /\ Len(w) = a + c
      BY <2>1, <2>2
    <2>4. (a + c) + d = a + b
      BY <2>3
    <2>5. QED  BY <2>2, <2>3, <2>4
  <1>8. QED  BY <1>4, <1>5, <1>6, <1>7 DEF Kept

\* What out may have become before the last write of a step.
Between(o) ==
    \/ o = out
    \/ \E k \in 0 .. 2 : o = Write(out, k)
    \/ \E f \in 0 .. Len(out.pending) : o = Flush(out, f)

\* A step writes over a connection that stands, or it writes nothing and mends nothing.
LEMMA OutStep ==
    ASSUME TypeOK, [Next]_vars
    PROVE  \/ out' = out /\ (~CanSend => ~CanSend')
           \/ /\ CanSend
              /\ \E o : Between(o) /\ ((out' = o /\ peer' = peer) \/ (\E k \in 0 .. 2 : Writes(o, k)))
  <1>1. CASE UNCHANGED <<out, peer>>
    BY <1>1 DEF CanSend
  <1>2. CASE Calls
    <2>1. ASSUME NEW k \in 0 .. 2, BeginLogin(k) \/ RequestLogout(k)
          PROVE  UNCHANGED <<out, peer>> \/ (CanSend /\ Writes(out, k))
      BY <2>1 DEF BeginLogin, RequestLogout
    <2>2. ASSUME NEW k \in 0 .. 2, SendHeaderFails(k)
          PROVE  CanSend /\ Writes(out, k)
      BY <2>2 DEF SendHeaderFails, Writes
    <2>3. ASSUME NEW k1 \in 0 .. 2, NEW k2 \in 0 .. 2, SendUnsequenced(k1, k2)
          PROVE  CanSend /\ Writes(Write(out, k1), k2)
      BY <2>3 DEF SendUnsequenced
    <2>4. QED  BY <1>1, <1>2, <2>1, <2>2, <2>3 DEF Calls, Between
  <1>3. ASSUME NEW f \in 0 .. Len(out.pending), NEW k \in 0 .. 2, TickTimers(f, k)
        PROVE  /\ CanSend
               /\ \/ Writes(Flush(out, f), k)
                  \/ out' = Flush(out, f) /\ peer' = peer
    BY <1>3, Zenon DEF TickTimers
  <1>4. CASE ReadError
    BY <1>4 DEF ReadError, CanSend
  <1>5. CASE \/ \E n \in 0 .. Sent : ReadSome(n)
             \/ ReadEof \/ LoginAccepted \/ LoginRejected \/ ServerHeartbeat
             \/ EndOfSession \/ SequencedData \/ UnknownPacket \/ ParseDone \/ TickTimersFails
    BY <1>1, <1>5 DEF ReadSome, ReadEof, LoginAccepted, LoginRejected,
                      ServerHeartbeat, EndOfSession, SequencedData, UnknownPacket, ParseDone,
                      TickTimersFails, Dispatch, gateway
  <1>6. CASE ConnectionEnds
    BY <1>6 DEF ConnectionEnds, CanSend
  <1>7. CASE Clock \/ GatewayAnswersLogin \/ GatewayTalks \/ UNCHANGED vars
    BY <1>1, <1>7 DEF Clock, GatewayAnswersLogin, GatewayTalks, GatewaySends, gateway, vars
  <1>8. QED  BY <1>2, <1>3, <1>4, <1>5, <1>6, <1>7 DEF Next, Poll, Environment, Between

\* Every byte is kept, but for the end of a buffer whose send() failed; behind that one
\* nothing is written any more.
ByteInv ==
    /\ \/ out.torn = 0 /\ Kept(out)
       \/ \E o \in Outputs : o.torn = 0 /\ Kept(o) /\ out = Tear(o, 1)
    /\ out.torn = 1 => ~CanSend

\* Every call, every timer and every loss of the connection keeps the bytes.
LEMMA ByteStep ==
    ASSUME TypeOK, ByteInv, [Next]_vars
    PROVE  ByteInv'
  <1>0. out \in Outputs /\ out.torn \in {0, 1}
    BY DEF TypeOK, Outputs
  <1>1. CASE out' = out /\ (~CanSend => ~CanSend')
    BY <1>1 DEF ByteInv
  <1>2. ASSUME CanSend, NEW o, Between(o), (out' = o /\ peer' = peer) \/ (\E k \in 0 .. 2 : Writes(o, k))
        PROVE  ByteInv'
    <2>1. out.torn = 0 /\ Kept(out)
      BY <1>0, <1>2 DEF ByteInv, Tear
    <2>2. o \in Outputs /\ Kept(o)
      BY <1>0, <1>2, <2>1, WriteType, WriteKeeps, FlushType, FlushKeeps DEF Between
    <2>3. o.torn = 0
      BY <1>2, <2>1 DEF Between, Write, Flush
    <2>4. CASE out' = o
      BY <2>2, <2>3, <2>4 DEF ByteInv
    <2>5. ASSUME NEW k \in 0 .. 2, out' = Write(o, k)  PROVE ByteInv'
      <3>1. out'.torn = 0
        BY <2>3, <2>5 DEF Write
      <3>2. Kept(out')
        BY <2>2, <2>5, WriteKeeps
      <3>3. QED  BY <3>1, <3>2 DEF ByteInv
    <2>6. ASSUME NEW k \in 0 .. 2, Breaks(o, k)  PROVE ByteInv'
      <3>1. CASE k = 0
        BY <2>4, <2>6, <3>1 DEF Breaks, Tear
      <3>2. CASE k # 0
        <4>1. out' = Tear(o, 1) /\ ~CanSend'
          BY <2>6, <3>2 DEF Breaks, Tear, CanSend
        <4>2. QED  BY <2>2, <2>3, <4>1 DEF ByteInv
      <3>3. QED  BY <3>1, <3>2
    <2>7. QED  BY <1>2, <2>4, <2>5, <2>6 DEF Writes
  <1>3. QED  BY <1>1, <1>2, OutStep

\* It holds of every behaviour of the session, beside its types.
LEMMA BytesInvariant == Spec => [](TypeOK /\ ByteInv)
  <1>1. Init => ByteInv
    <2>1. SUFFICES ASSUME Init  PROVE ByteInv
      OBVIOUS
    <2>2. out.wire = <<>> /\ out.pending = <<>> /\ out.issued = 0 /\ out.torn = 0
      BY <2>1 DEF Init
    <2>3. Kept(out)
      BY <2>2 DEF Kept
    <2>4. QED  BY <2>2, <2>3 DEF ByteInv
  <1>2. ASSUME SessionInv /\ ByteInv, [Next]_vars  PROVE ByteInv'
    BY <1>2, ByteStep DEF SessionInv
  <1>3. SessionInv => TypeOK
    BY DEF SessionInv
  <1>4. QED  BY SessionInvariant, <1>1, <1>2, <1>3, PTL DEF Spec

\* What is kept is EveryByteOnce; the buffer that was torn lacks its second byte.
LEMMA KeptMeansOnce == ASSUME TypeOK, ByteInv  PROVE EveryByteOnce
  <1>0. out \in Outputs
    BY DEF TypeOK
  <1> DEFINE all == out.wire \o out.pending
  <1>1. /\ out.wire \in Seq(Nat \X {1, 2}) /\ out.pending \in Seq(Nat \X {1, 2})
        /\ out.issued \in Nat
    BY <1>0 DEF Outputs
  <1>2. /\ Len(all) = Len(out.wire) + Len(out.pending)
        /\ \A x : Has(all, x) <=> Has(out.wire, x) \/ Has(out.pending, x)
    BY <1>1, Joined
  <1>3. DOMAIN all = 1 .. Len(all)
    BY <1>1, ConcatProperties, LenProperties
  <1> HIDE DEF all
  <1>4. CASE out.torn = 0 /\ Kept(out)
    <2>1. Len(all) = 2 * out.issued - out.torn
      <3>1. Len(all) = 2 * out.issued
        BY <1>2, <1>4 DEF Kept
      <3>2. 2 * out.issued - 0 = 2 * out.issued
        BY <1>1
      <3>3. QED  BY <1>4, <3>1, <3>2
    <2>2. \A n \in 1 .. out.issued, b \in {1, 2} : \E i \in DOMAIN all : all[i] = <<n, b>>
      BY <1>2, <1>3, <1>4 DEF Kept, Has
    <2>3. out.torn = 1 => ~CanSend
      BY <1>4
    <2>4. QED  BY <2>1, <2>2, <2>3 DEF EveryByteOnce, all
  <1>5. ASSUME NEW o \in Outputs, o.torn = 0, Kept(o), out = Tear(o, 1), out.torn = 1 => ~CanSend
        PROVE  EveryByteOnce
    <2> DEFINE n == o.issued + 1
    <2>1. /\ o.wire \in Seq(Nat \X {1, 2}) /\ o.pending \in Seq(Nat \X {1, 2}) /\ o.issued \in Nat
          /\ <<n, 1>> \in Nat \X {1, 2}
      BY <1>5 DEF Outputs
    <2>2. /\ out.wire = Append(o.wire, <<n, 1>>) /\ out.pending = o.pending
          /\ out.issued = n /\ out.torn = 1
      BY <1>5 DEF Tear
    <2>3. /\ Len(out.wire) = Len(o.wire) + 1 /\ out.wire[Len(out.wire)] = <<n, 1>>
          /\ Len(o.wire) \in Nat /\ Len(o.pending) \in Nat
      BY <2>1, <2>2, AppendProperties, LenProperties
    <2>4. \A x : Has(o.wire, x) => Has(out.wire, x)
      BY <2>1, <2>2, AppendProperties DEF Has
    <2>5. Has(out.wire, <<n, 1>>)
      BY <2>3 DEF Has
    <2>6. Len(all) = 2 * out.issued - out.torn
      <3>1. Len(all) = Len(o.wire) + 1 + Len(o.pending) /\ Len(o.wire) + Len(o.pending) = 2 * o.issued
        BY <1>2, <1>5, <2>2, <2>3 DEF Kept
      <3>2. PICK x \in Nat, y \in Nat, z \in Nat :
               Len(o.wire) = x /\ Len(o.pending) = y /\ o.issued = z
        BY <2>1, <2>3
      <3>3. Len(all) = 2 * (z + 1) - 1
        BY <3>1, <3>2
      <3>4. out.issued = z + 1 /\ out.torn = 1
        BY <2>2, <3>2
      <3>5. QED  BY <3>3, <3>4
    <2>7. ASSUME NEW m \in 1 .. out.issued, NEW b \in {1, 2}, ~(m = out.issued /\ b = 2)
          PROVE  \E i \in DOMAIN all : all[i] = <<m, b>>
      <3>1. CASE m = n
        BY <1>2, <1>3, <2>2, <2>5, <2>7, <3>1 DEF Has
      <3>2. CASE m # n
        <4>1. m \in 1 .. o.issued
          BY <2>1, <2>2, <3>2
        <4>2. Has(o.wire, <<m, b>>) \/ Has(out.pending, <<m, b>>)
          BY <1>5, <2>2, <4>1 DEF Kept
        <4>3. QED  BY <1>2, <1>3, <2>4, <4>2 DEF Has
      <3>3. QED  BY <3>1, <3>2
    <2>8. \A m \in 1 .. out.issued, b \in {1, 2} :
             (out.torn = 1 /\ m = out.issued /\ b = 2) \/ \E i \in DOMAIN all : all[i] = <<m, b>>
      BY <2>2, <2>7
    <2>9. QED  BY <1>5, <2>6, <2>8 DEF EveryByteOnce, all
  <1>6. QED  BY <1>4, <1>5 DEF ByteInv

\* No byte handed to write_bytes() is lost or doubled: whatever the socket takes of it,
\* however often the rest is flushed, stashed and flushed again (session.hpp:184-204, 397-407), each
\* is on the wire or in out_pending_; an error of send() (session.hpp:188) drops the rest of one
\* buffer, and there is none behind it.
THEOREM EveryByteOnceHolds == Spec => []EveryByteOnce
  <1>1. TypeOK /\ ByteInv => EveryByteOnce
    BY KeptMeansOnce
  <1>2. QED  BY BytesInvariant, <1>1, PTL

-----------------------------------------------------------------------------
\* s is the buffers 1 to m of the calls of write_bytes(), one behind the other, or the beginning
\* of that.
InPlace(s, m) ==
    /\ Len(s) <= 2 * m
    /\ \A n \in 1 .. m : /\ 2 * n - 1 <= Len(s) => s[2 * n - 1] = <<n, 1>>
                         /\ 2 * n <= Len(s) => s[2 * n] = <<n, 2>>

\* What went out and what out_pending_ holds behind it are the buffers of write_bytes(), in the
\* order of its calls, but for the end of one that was torn.
Faithful(o) ==
    LET all == o.wire \o o.pending
    IN  Len(all) = 2 * o.issued - o.torn /\ InPlace(all, o.issued)

\* write_bytes() (session.hpp:184-204) that sends its buffer behind all the others keeps their
\* order.
LEMMA OneMore ==
    ASSUME NEW S, NEW s \in Seq(S), NEW m \in Nat, Len(s) = 2 * m, InPlace(s, m),
           Bytes(m + 1) \in Seq(S)
    PROVE  Len(s \o Bytes(m + 1)) = 2 * (m + 1) /\ InPlace(s \o Bytes(m + 1), m + 1)
  <1> DEFINE t == Bytes(m + 1)
             a == s \o t
  <1>1. Len(t) = 2 /\ t[1] = <<m + 1, 1>> /\ t[2] = <<m + 1, 2>>
    BY DEF Bytes
  <1> HIDE DEF t
  <1>2. t \in Seq(S)
    BY DEF t
  <1>3. /\ Len(a) = Len(s) + Len(t)
        /\ \A i \in 1 .. Len(a) : a[i] = IF i <= Len(s) THEN s[i] ELSE t[i - Len(s)]
    BY <1>2, ConcatProperties
  <1> HIDE DEF a
  <1>4. Len(s) = 2 * m /\ Len(a) = 2 * (m + 1)
    BY <1>1, <1>3
  <1>5. ASSUME NEW n \in 1 .. m + 1  PROVE a[2 * n - 1] = <<n, 1>> /\ a[2 * n] = <<n, 2>>
    <2>1. 2 * n - 1 \in 1 .. Len(a) /\ 2 * n \in 1 .. Len(a)
      BY <1>4
    <2>2. CASE n \in 1 .. m
      <3>1. 2 * n - 1 <= Len(s) /\ 2 * n <= Len(s)
        BY <1>4, <2>2
      <3>2. QED  BY <1>3, <2>1, <2>2, <3>1 DEF InPlace
    <2>3. CASE n = m + 1
      <3>1. /\ ~(2 * n - 1 <= Len(s)) /\ ~(2 * n <= Len(s))
            /\ (2 * n - 1) - Len(s) = 1 /\ 2 * n - Len(s) = 2
        BY <1>4, <2>3
      <3>2. QED  BY <1>1, <1>3, <2>1, <2>3, <3>1
    <2>4. QED  BY <2>2, <2>3
  <1>6. Len(a) = 2 * (m + 1) /\ Len(a) <= 2 * (m + 1)
    BY <1>4
  <1>7. InPlace(a, m + 1)
    BY <1>5, <1>6 DEF InPlace
  <1>8. QED  BY <1>6, <1>7 DEF a, t

\* One whose send() fails after the first byte keeps the order as well.
LEMMA HalfMore ==
    ASSUME NEW S, NEW s \in Seq(S), NEW m \in Nat, Len(s) = 2 * m, InPlace(s, m),
           <<m + 1, 1>> \in S
    PROVE  /\ Len(Append(s, <<m + 1, 1>>)) = 2 * (m + 1) - 1
           /\ InPlace(Append(s, <<m + 1, 1>>), m + 1)
  <1> DEFINE a == Append(s, <<m + 1, 1>>)
  <1>1. /\ Len(a) = 2 * m + 1 /\ a[2 * m + 1] = <<m + 1, 1>>
        /\ \A i \in 1 .. 2 * m : a[i] = s[i]
    BY AppendProperties
  <1> HIDE DEF a
  <1>2. ASSUME NEW n \in 1 .. m + 1
        PROVE  /\ 2 * n - 1 <= Len(a) => a[2 * n - 1] = <<n, 1>>
               /\ 2 * n <= Len(a) => a[2 * n] = <<n, 2>>
    <2>1. CASE n \in 1 .. m
      <3>1. 2 * n - 1 \in 1 .. 2 * m /\ 2 * n \in 1 .. 2 * m
        BY <2>1
      <3>2. s[2 * n - 1] = <<n, 1>> /\ s[2 * n] = <<n, 2>>
        BY <2>1, <3>1 DEF InPlace
      <3>3. QED  BY <1>1, <3>1, <3>2
    <2>2. CASE n = m + 1
      <3>1. 2 * n - 1 = 2 * m + 1 /\ ~(2 * n <= Len(a))
        BY <1>1, <2>2
      <3>2. QED  BY <1>1, <2>2, <3>1
    <2>3. QED  BY <2>1, <2>2
  <1>3. Len(a) = 2 * (m + 1) - 1 /\ Len(a) <= 2 * (m + 1)
    BY <1>1
  <1>4. InPlace(a, m + 1)
    BY <1>2, <1>3 DEF InPlace
  <1>5. QED  BY <1>3, <1>4 DEF a

\* A write_bytes() that leaves nothing in out_pending_ found nothing there and sent its buffer
\* whole, behind the others.
LEMMA WholeWrite ==
    ASSUME NEW o \in Outputs, NEW k \in 0 .. 2, o.torn = 0, Write(o, k).pending = <<>>
    PROVE  o.pending = <<>> /\ (Faithful(o) => Faithful(Write(o, k)))
  <1> DEFINE B == Nat \X {1, 2}
             n == o.issued + 1
             rest == SubSeq(Bytes(n), k + 1, 2)
  <1>1. /\ n \in Nat /\ Bytes(n) \in Seq(B) /\ Len(Bytes(n)) = 2
        /\ o.wire \in Seq(B) /\ o.pending \in Seq(B) /\ o.issued \in Nat
    BY DEF Outputs, Bytes
  <1>2. rest \in Seq(B) /\ Len(rest) = 2 - k
    <2>1. k = 0 \/ k = 1 \/ k = 2
      OBVIOUS
    <2>2. rest \in Seq(B)
      BY <1>1, Cut
    <2>3. Len(rest) = 2 - k
      BY <1>1, <2>1
    <2>4. QED  BY <2>2, <2>3
  <1>3. o.pending \o rest = <<>>
    BY DEF Write
  <1> HIDE DEF rest
  <1>4. Len(o.pending) + Len(rest) = 0 /\ Len(o.pending) \in Nat
    <2>1. Len(o.pending \o rest) = Len(o.pending) + Len(rest)
      BY <1>1, <1>2, ConcatProperties
    <2>2. QED  BY <1>1, <1>3, <2>1, LenProperties
  <1>5. Len(o.pending) = 0 /\ k = 2
    BY <1>2, <1>4
  <1>6. o.pending = <<>>
    BY <1>1, <1>5, EmptySeq
  <1>7. /\ Write(o, k).wire = o.wire \o Bytes(n) /\ Write(o, k).issued = n
        /\ Write(o, k).torn = 0
    <2> DEFINE b == Bytes(n)
    <2>1. b \in Seq(B) /\ Len(b) = 2
      BY <1>1
    <2> HIDE DEF b
    <2>2. SubSeq(b, 1, Len(b)) = b
      BY <2>1
    <2>3. SubSeq(Bytes(n), 1, 2) = Bytes(n)
      BY <2>1, <2>2 DEF b
    <2>4. QED  BY <1>5, <2>3 DEF Write
  <1>8. o.wire \o <<>> = o.wire /\ (o.wire \o Bytes(n)) \o <<>> = o.wire \o Bytes(n)
    <2>1. o.wire \o Bytes(n) \in Seq(B)
      BY <1>1
    <2>2. QED  BY <1>1, <2>1, ConcatEmptySeq
  <1>9. ASSUME Faithful(o)  PROVE Faithful(Write(o, k))
    <2>1. Len(o.wire) = 2 * o.issued /\ InPlace(o.wire, o.issued)
      BY <1>1, <1>6, <1>8, <1>9 DEF Faithful
    <2>2. Len(o.wire \o Bytes(n)) = 2 * n /\ InPlace(o.wire \o Bytes(n), n)
      BY <1>1, <2>1, OneMore
    <2> DEFINE w == o.wire \o Bytes(n)
    <2>3. /\ Write(o, k).wire = w /\ Write(o, k).pending = <<>> /\ Write(o, k).issued = n
          /\ Write(o, k).torn = 0 /\ w \o <<>> = w /\ Len(w) = 2 * n /\ InPlace(w, n)
      BY <1>7, <1>8, <2>2
    <2> HIDE DEF w, n
    <2>4. n \in Nat
      BY <1>1
    <2>5. 2 * n - 0 = 2 * n
      BY <2>4
    <2>6. QED  BY <2>3, <2>5 DEF Faithful
  <1>10. QED  BY <1>6, <1>9

\* A flush_pending() (session.hpp:397-407) that gets everything out has sent the stashed bytes in
\* their order.
LEMMA WholeFlush ==
    ASSUME NEW o \in Outputs, NEW k \in 0 .. Len(o.pending), Flush(o, k).pending = <<>>
    PROVE  Faithful(o) => Faithful(Flush(o, k))
  <1> DEFINE B == Nat \X {1, 2}
             l == Len(o.pending)
  <1>1. o.wire \in Seq(B) /\ o.pending \in Seq(B) /\ l \in Nat
    BY LenProperties DEF Outputs
  <1>2. Len(SubSeq(o.pending, k + 1, l)) = l - k
    BY <1>1
  <1>3. k = l
    <2>1. SubSeq(o.pending, k + 1, l) = <<>>
      BY DEF Flush
    <2>2. Len(<<>>) = 0
      OBVIOUS
    <2>3. l - k = 0
      BY <1>2, <2>1, <2>2
    <2> HIDE DEF l
    <2>4. k \in 0 .. l
      BY DEF l
    <2>5. QED  BY <1>1, <2>3, <2>4
  <1>4. SubSeq(o.pending, 1, l) = o.pending
    BY <1>1
  <1>5. /\ Flush(o, k).wire = o.wire \o o.pending /\ Flush(o, k).issued = o.issued
        /\ Flush(o, k).torn = o.torn
    BY <1>3, <1>4 DEF Flush
  <1>6. (o.wire \o o.pending) \o <<>> = o.wire \o o.pending
    <2>1. o.wire \o o.pending \in Seq(B)
      BY <1>1
    <2>2. QED  BY <2>1, ConcatEmptySeq
  <1>7. QED  BY <1>5, <1>6 DEF Faithful

\* A write whose send() fails keeps the order of what was sent.
LEMMA TornWrite ==
    ASSUME NEW o \in Outputs, o.torn = 0, o.pending = <<>>, Faithful(o)
    PROVE  Faithful(Tear(o, 1))
  <1> DEFINE B == Nat \X {1, 2}
             n == o.issued + 1
             w == Append(o.wire, <<n, 1>>)
  <1>1. o.wire \in Seq(B) /\ o.issued \in Nat /\ <<n, 1>> \in B
    BY DEF Outputs
  <1>2. w \in Seq(B) /\ w \o <<>> = w /\ o.wire \o <<>> = o.wire
    BY <1>1, AppendProperties, ConcatEmptySeq
  <1>3. Len(o.wire) = 2 * o.issued /\ InPlace(o.wire, o.issued)
    BY <1>1, <1>2 DEF Faithful
  <1>4. Len(w) = 2 * n - 1 /\ InPlace(w, n)
    BY <1>1, <1>3, HalfMore
  <1>5. /\ Tear(o, 1).wire = w /\ Tear(o, 1).pending = <<>>
        /\ Tear(o, 1).issued = n /\ Tear(o, 1).torn = 1
    BY DEF Tear
  <1> HIDE DEF w, n
  <1>6. QED  BY <1>2, <1>4, <1>5 DEF Faithful

\* A call or a poll_io() that leaves nothing in out_pending_ keeps the order of the buffers.
LEMMA FaithfulStep ==
    ASSUME TypeOK, ByteInv, Faithful(out), [Next]_vars, out'.pending = <<>>
    PROVE  Faithful(out')
  <1>0. out \in Outputs /\ out.torn \in {0, 1}
    BY DEF TypeOK, Outputs
  <1>1. CASE out' = out
    BY <1>1
  <1>2. ASSUME CanSend, NEW o, Between(o), out' = o \/ \E k \in 0 .. 2 : Writes(o, k)
        PROVE  Faithful(out')
    <2>1. out.torn = 0
      BY <1>0, <1>2 DEF ByteInv
    <2>8. o \in Outputs
      BY <1>0, <1>2, WriteType, FlushType DEF Between
    <2>9. o.torn = 0
      BY <1>2, <2>1 DEF Between, Write, Flush
    <2>2. o \in Outputs /\ o.torn = 0
      BY <2>8, <2>9
    <2>3. ASSUME o.pending = <<>>  PROVE Faithful(o)
      BY <1>0, <1>2, <2>1, <2>3, WholeWrite, WholeFlush DEF Between
    <2>4. CASE out' = o
      BY <2>3, <2>4
    <2>5. ASSUME NEW k \in 0 .. 2, out' = Write(o, k)  PROVE Faithful(out')
      BY <2>2, <2>3, <2>5, WholeWrite
    <2>6. ASSUME NEW k \in 0 .. 2, Breaks(o, k)  PROVE Faithful(out')
      <3>1. CASE k = 0
        BY <2>4, <2>6, <3>1 DEF Breaks, Tear
      <3>2. CASE k # 0
        <4>1. out' = Tear(o, 1) /\ o.pending = <<>>
          BY <2>6, <3>2 DEF Breaks, Tear
        <4>2. QED  BY <2>2, <2>3, <4>1, TornWrite
      <3>3. QED  BY <3>1, <3>2
    <2>7. QED  BY <1>2, <2>4, <2>5, <2>6 DEF Writes
  <1>3. QED  BY <1>1, <1>2, OutStep

\* Every place of the m buffers written is the first or the second byte of one of them.
LEMMA HalfWay ==
    ASSUME NEW m \in Nat, NEW i \in 1 .. 2 * m
    PROVE  \E n \in 1 .. m : i = 2 * n - 1 \/ i = 2 * n
  <1> DEFINE h == (i + 1) \div 2
  <1>1. h \in Int /\ 2 * h <= i + 1 /\ i + 1 < 2 * h + 2
    <2>1. i + 1 \in Int
      OBVIOUS
    <2>2. \A x \in Int : x \div 2 \in Int /\ 2 * (x \div 2) <= x /\ x < 2 * (x \div 2) + 2
      OBVIOUS
    <2>3. QED  BY <2>1, <2>2
  <1> HIDE DEF h
  <1>2. h \in 1 .. m /\ (i = 2 * h - 1 \/ i = 2 * h)
    BY <1>1
  <1>3. QED  BY <1>2

\* The buffers in the order of the calls of write_bytes() are the bytes in the order WireInOrder
\* asks for.
LEMMA FaithfulInOrder == ASSUME TypeOK, Faithful(out)  PROVE WireInOrder
  <1> DEFINE all == out.wire \o out.pending
             m == out.issued
  <1>1. all \in Seq(Nat \X {1, 2}) /\ m \in Nat
    BY ConcatProperties DEF TypeOK, Outputs
  <1>2. InPlace(all, m)
    BY DEF Faithful
  <1> HIDE DEF all, m
  <1>3. DOMAIN all = 1 .. Len(all) /\ Len(all) \in Nat /\ Len(all) <= 2 * m
    BY <1>1, <1>2, LenProperties DEF InPlace
  <1>4. ASSUME NEW i \in DOMAIN all
        PROVE  \E n \in 1 .. m :
            (i = 2 * n - 1 /\ all[i] = <<n, 1>>) \/ (i = 2 * n /\ all[i] = <<n, 2>>)
    <2>1. i \in 1 .. 2 * m /\ i <= Len(all)
      BY <1>1, <1>3
    <2>2. PICK n \in 1 .. m : i = 2 * n - 1 \/ i = 2 * n
      BY <1>1, <2>1, HalfWay
    <2>3. QED  BY <1>2, <2>1, <2>2 DEF InPlace
  <1>5. ASSUME NEW i \in DOMAIN all, NEW j \in DOMAIN all, i < j
        PROVE  \/ all[i][1] < all[j][1]
               \/ all[i][1] = all[j][1] /\ all[i][2] < all[j][2]
    <2>0. PICK a \in 1 .. m :
            (i = 2 * a - 1 /\ all[i] = <<a, 1>>) \/ (i = 2 * a /\ all[i] = <<a, 2>>)
      BY <1>4
    <2>1. PICK b \in 1 .. m :
            (j = 2 * b - 1 /\ all[j] = <<b, 1>>) \/ (j = 2 * b /\ all[j] = <<b, 2>>)
      BY <1>4
    <2>2. /\ (i = 2 * a - 1 /\ all[i][1] = a /\ all[i][2] = 1)
             \/ (i = 2 * a /\ all[i][1] = a /\ all[i][2] = 2)
          /\ (j = 2 * b - 1 /\ all[j][1] = b /\ all[j][2] = 1)
             \/ (j = 2 * b /\ all[j][1] = b /\ all[j][2] = 2)
      BY <2>0, <2>1
    <2>3. QED  BY <1>1, <1>5, <2>0, <2>1, <2>2
  <1>6. QED  BY <1>5 DEF WireInOrder, all

\* The bytes leave in another order than write_bytes() was called in (session.hpp:184-204) only
\* from a step that leaves bytes of a packet in out_pending_: as long as every call and every flush
\* gets all of it to the socket, what was in order stays in order.
THEOREM OnlyStashedIsOvertaken ==
    Spec => [][Faithful(out) /\ out'.pending = <<>> => Faithful(out')]_vars
  <1>1. TypeOK /\ ByteInv /\ [Next]_vars =>
            [Faithful(out) /\ out'.pending = <<>> => Faithful(out')]_vars
    BY FaithfulStep
  <1>2. QED  BY BytesInvariant, <1>1, PTL DEF Spec

\* A session whose socket never refuses a byte (session.hpp:190 is never taken) writes its packets
\* in order: the disorder WireInOrder finds needs an out_pending_ that is not empty.
THEOREM WholeWritesInOrder == Spec /\ [](out.pending = <<>>) => []WireInOrder
  <1>1. Init => Faithful(out)
    <2>1. SUFFICES ASSUME Init  PROVE Faithful(out)
      OBVIOUS
    <2>2. out.wire = <<>> /\ out.pending = <<>> /\ out.issued = 0 /\ out.torn = 0
      BY <2>1 DEF Init
    <2>3. <<>> \o <<>> = <<>> /\ Len(<<>>) = 0
      OBVIOUS
    <2>4. QED  BY <2>2, <2>3 DEF Faithful, InPlace
  <1>2. /\ TypeOK /\ ByteInv /\ Faithful(out) /\ [Next]_vars /\ (out.pending = <<>>)'
        => Faithful(out)'
    BY FaithfulStep
  <1>3. TypeOK /\ Faithful(out) => WireInOrder
    BY FaithfulInOrder
  <1>4. QED  BY BytesInvariant, <1>1, <1>2, <1>3, PTL DEF Spec
=============================================================================
