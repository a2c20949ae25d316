-------------------------- MODULE LiveClientProofs --------------------------
(***************************************************************************)
(* Proofs about LiveClient for any number of messages, starts, crashes,    *)
(* rebuilds and failing saves: while a process has rebuilt nothing, as in  *)
(* resident mode, the cursor on disk is never ahead of the messages        *)
(* handled, and a process that ends by itself leaves it exactly there.     *)
(* With rebuilds it is never ahead as long as no save fails.               *)
(***************************************************************************)
EXTENDS LiveClient, TLAPS

-----------------------------------------------------------------------------
\* What snprintf leaves of a number (session.hpp:95-98) is a natural number.
LEMMA FieldNat == \A q \in Nat : Field(q) \in Nat
  BY ClientAssumption DEF Field

\* Half of a natural number, rounded down, is one.
LEMMA HalfNat == \A q \in Nat : q \div 2 \in Nat
  OBVIOUS

\* No process and no file: the beginning satisfies the invariant.
LEMMA ResidentInit == Init => ResidentInv
  <1> SUFFICES ASSUME Init PROVE ResidentInv
    OBVIOUS
  <1>1. lastSeq \in Nat
    BY HalfNat, ClientAssumption DEF Init
  <1>2. everSaved \in BOOLEAN /\ elapsed \in BOOLEAN /\ ~everSaved
    BY DEF Init
  <1>3. asked \in [open : BOOLEAN, seq : Nat] /\ ~asked.open
    BY DEF Init, NotAsked
  <1>4. TypeOK
    BY <1>1, <1>2, <1>3 DEF Init, TypeOK, Cursors, NoCursor, NoPacket
  <1>5. PhaseInv /\ HandledInv /\ DiskInv
    BY <1>2 DEF Init, PhaseInv, HandledInv, DiskInv
  <1>6. FlowInv
    BY <1>3 DEF Init, FlowInv, NoPacket
  <1>7. QED  BY <1>4, <1>5, <1>6 DEF ResidentInv

-----------------------------------------------------------------------------
(* The store *)

\* What a save of (s, q) does, if anything: the file is replaced or not.
LEMMA SaveStep ==
    ASSUME NEW s \in {"none", "S"}, NEW q \in Nat, NEW ok \in BOOLEAN,
           disk \in Cursors, saved \in Nat, everSaved \in BOOLEAN,
           elapsed \in BOOLEAN, failures \in Nat,
           Save(s, q, ok) \/ UNCHANGED store
    PROVE  /\ disk' \in Cursors /\ saved' \in Nat
           /\ everSaved' \in BOOLEAN /\ elapsed' \in BOOLEAN /\ failures' \in Nat
           /\ \/ UNCHANGED <<disk, saved, everSaved>>
              \/ disk'.session = s /\ disk'.seq = q /\ saved' = q /\ everSaved'
  <1>1. CASE UNCHANGED store
    BY <1>1 DEF store
  <1>2. CASE Save(s, q, ok) /\ ok
    <2>1. disk' = [session |-> s, seq |-> q] /\ saved' = q /\ failures' = failures
      BY <1>2 DEF Save
    <2>2. everSaved' = TRUE /\ elapsed' = FALSE
      BY <1>2 DEF Save
    <2>3. disk' \in Cursors /\ disk'.session = s /\ disk'.seq = q
      BY <2>1 DEF Cursors
    <2>4. QED  BY <2>1, <2>2, <2>3
  <1>3. CASE Save(s, q, ok) /\ ~ok
    <2>1. failures' = failures + 1 /\ UNCHANGED <<disk, saved, everSaved, elapsed>>
      BY <1>3 DEF Save
    <2>2. failures' \in Nat
      BY <2>1
    <2>3. QED  BY <2>1, <2>2
  <1>4. QED  BY <1>1, <1>2, <1>3

\* on_audit_recv saves the number reached so far or nothing; nothing before the
\* login is accepted, when it is still the 0 that last_saved_seq_ started from.
LEMMA SaveIfDueStep ==
    ASSUME ResidentInv, NEW ok \in BOOLEAN, SaveIfDue(id, next, ok)
    PROVE  /\ Save(id, next, ok) \/ UNCHANGED store
           /\ id = "none" => UNCHANGED store
  <1>1. Save(id, next, ok) \/ UNCHANGED store
    BY DEF SaveIfDue
  <1>2. ASSUME id = "none"  PROVE UNCHANGED store
    <2>1. next = saved
      BY <1>2 DEF ResidentInv, PhaseInv, DiskInv
    <2>2. QED  BY <2>1 DEF SaveIfDue
  <1>3. QED  BY <1>1, <1>2

\* Saving what was counted keeps the file behind what is counted.
LEMMA DiskStep ==
    ASSUME ResidentInv, id = "S", NEW ok \in BOOLEAN,
           Save(id, next, ok) \/ UNCHANGED store, UNCHANGED next
    PROVE  DiskInv'
  <1>1. \/ UNCHANGED <<disk, saved, everSaved>>
        \/ disk'.session = id /\ disk'.seq = next /\ saved' = next /\ everSaved'
    BY SaveStep DEF ResidentInv, TypeOK
  <1>2. CASE UNCHANGED <<disk, saved, everSaved>>
    BY <1>2 DEF ResidentInv, DiskInv
  <1>3. CASE disk'.session = id /\ disk'.seq = next /\ saved' = next /\ everSaved'
    <2>1. next' = next /\ saved' <= next'
      BY <1>3 DEF ResidentInv, TypeOK
    <2>2. QED  BY <1>3, <2>1 DEF DiskInv
  <1>4. QED  BY <1>1, <1>2, <1>3

-----------------------------------------------------------------------------
(* One lemma for each operation that does more than stop the process *)

\* A start of the process (bist_colo.cpp:894-998) keeps the invariant.
LEMMA StartStep == ASSUME TypeOK, IdleInv, Start PROVE ResidentInv'
  <1>1. /\ pc' = "login" /\ id' = "none" /\ next' = 0 /\ flow' = 0 /\ rebuilds' = 0
        /\ asked' = [open |-> TRUE, seq |-> Field(disk.seq)]
        /\ base' = disk /\ starts' = starts + 1 /\ saved' = 0
        /\ UNCHANGED <<disk, failures, packet, lastSeq, from, delivered>>
    BY DEF Start, BeginLogin, past
  <1>2. everSaved' = FALSE /\ elapsed' = FALSE
    BY DEF Start
  <1>3. packet = NoPacket /\ packet' = NoPacket
    BY <1>1 DEF Start, IdleInv
  <1>4. disk \in Cursors /\ disk.seq \in Nat
    BY DEF TypeOK, Cursors
  <1>5. asked' \in [open : BOOLEAN, seq : Nat]
    BY <1>1, <1>4, FieldNat
  <1>6. TypeOK'
    <2>1. everSaved' \in BOOLEAN /\ elapsed' \in BOOLEAN
      BY <1>2
    <2>2. starts' \in Nat /\ rebuilds' \in Nat /\ saved' \in Nat /\ flow' \in Nat /\ next' \in Nat
      BY <1>1 DEF TypeOK
    <2>3. QED  BY <1>1, <1>4, <1>5, <2>1, <2>2 DEF TypeOK
  <1>7. PhaseInv' /\ HandledInv'
    BY <1>1, <1>2 DEF PhaseInv, HandledInv
  <1>8. DiskInv'
    BY <1>1, <1>2 DEF DiskInv
  <1>9. FlowInv'
    BY <1>1, <1>3 DEF FlowInv, NoPacket
  <1>10. QED  BY <1>6, <1>7, <1>8, <1>9 DEF ResidentInv

\* The audit of a packet, which may save the cursor (bist_colo.cpp:949-961), keeps the invariant.
LEMMA AuditRecvStep ==
    ASSUME ResidentInv, NEW p \in Arriving, NEW ok \in BOOLEAN, AuditRecv(p, ok)
    PROVE  ResidentInv'
  <1>1. /\ pc \in {"login", "poll"} /\ packet = NoPacket /\ packet' = p
        /\ asked' = IF p.type \in {"A", "J"} THEN NotAsked ELSE asked
        /\ flow' = IF p.type = "A" THEN p.seq
                   ELSE IF p.type = "S" THEN flow + 1 ELSE flow
        /\ UNCHANGED <<pc, base, id, next, lastSeq, from, delivered, starts, rebuilds>>
    BY DEF AuditRecv, session, past
  <1>2. Save(id, next, ok) \/ UNCHANGED store
    BY SaveIfDueStep DEF AuditRecv
  <1>3. id = "none" => UNCHANGED store
    BY SaveIfDueStep DEF AuditRecv
  <1>4. id \in {"none", "S"} /\ next \in Nat /\ flow \in Nat /\ lastSeq \in Nat /\ asked.seq \in Nat
    BY DEF ResidentInv, TypeOK
  <1>5. \/ p.type = "H" /\ p.seq = 0 /\ id = "S"
        \/ p.type = "A" /\ p.seq \in Nat /\ p.seq >= 1 /\ asked.open
        \/ p.type = "J" /\ p.seq = 0 /\ asked.open
        \/ p.type = "S" /\ p.seq = flow /\ flow >= 1
    BY <1>4 DEF Arriving, Answer
  <1>6. p \in [type : {"none", "A", "J", "H", "S"}, seq : Nat]
    BY <1>4 DEF Arriving, Answer
  <1>7. asked.open => id = "none"
    BY DEF ResidentInv, FlowInv
  <1>8. packet.type = "none"
    BY <1>1 DEF NoPacket
  <1>9. p.type = "S" => id = "S" /\ flow = next
    BY <1>1, <1>4, <1>5, <1>8 DEF ResidentInv, FlowInv
  <1>10. TypeOK'
    <2>1. /\ disk' \in Cursors /\ saved' \in Nat
          /\ everSaved' \in BOOLEAN /\ elapsed' \in BOOLEAN /\ failures' \in Nat
      BY <1>2, <1>4, SaveStep DEF ResidentInv, TypeOK
    <2>2. asked' \in [open : BOOLEAN, seq : Nat]
      BY <1>1 DEF ResidentInv, TypeOK, NotAsked
    <2>3. flow' \in Nat
      BY <1>1, <1>4, <1>5
    <2>4. QED  BY <1>1, <1>6, <2>1, <2>2, <2>3 DEF ResidentInv, TypeOK
  <1>11. PhaseInv'
    <2>1. id = "none" => ~everSaved'
      BY <1>3 DEF ResidentInv, PhaseInv, store
    <2>2. QED  BY <1>1, <2>1 DEF ResidentInv, PhaseInv
  <1>12. FlowInv'
    <2>1. CASE p.type = "H" /\ id = "S"
      <3>1. ~asked'.open /\ flow' = flow
        BY <1>1, <1>7, <2>1
      <3>2. flow = next
        BY <1>1, <1>8, <2>1 DEF ResidentInv, FlowInv
      <3>3. QED  BY <1>1, <2>1, <3>1, <3>2 DEF FlowInv
    <2>2. CASE p.type = "A" /\ p.seq \in Nat /\ p.seq >= 1 /\ asked.open
      <3>1. ~asked'.open /\ flow' = p.seq /\ id' = "none"
        BY <1>1, <1>7, <2>2 DEF NotAsked
      <3>2. QED  BY <1>1, <2>2, <3>1 DEF FlowInv
    <2>3. CASE p.type = "J" /\ asked.open
      <3>1. ~asked'.open /\ flow' = 0 /\ id' = "none"
        BY <1>1, <1>7, <2>3 DEF NotAsked, ResidentInv, FlowInv
      <3>2. QED  BY <1>1, <2>3, <3>1 DEF FlowInv
    <2>4. CASE p.type = "S" /\ p.seq = flow
      <3>1. ~asked'.open /\ flow' = next + 1 /\ id' = "S" /\ p.seq = next
        BY <1>1, <1>7, <1>9, <2>4
      <3>2. QED  BY <1>1, <2>4, <3>1 DEF FlowInv
    <2>5. QED  BY <1>5, <2>1, <2>2, <2>3, <2>4
  <1>13. HandledInv'
    BY <1>1 DEF ResidentInv, HandledInv
  <1>14. DiskInv'
    <2>1. CASE id = "none"
      BY <1>1, <1>3, <2>1 DEF ResidentInv, DiskInv, store
    <2>2. CASE id = "S"
      BY <1>1, <1>2, <2>2, DiskStep
    <2>3. QED  BY <1>4, <2>1, <2>2
  <1>15. QED  BY <1>10, <1>11, <1>12, <1>13, <1>14 DEF ResidentInv

\* The dispatch of a packet (session.hpp:240-252) keeps the invariant.
LEMMA DispatchStep == ASSUME ResidentInv, IdleInv, Dispatch PROVE ResidentInv'
  <1>1. /\ packet # NoPacket /\ packet' = NoPacket
        /\ UNCHANGED <<pc, base, disk, saved, everSaved, elapsed, failures,
                       asked, flow, lastSeq, starts, rebuilds>>
    BY DEF Dispatch, store, gateway
  <1>2. packet'.type = "none" /\ packet' \in [type : {"none", "A", "J", "H", "S"}, seq : Nat]
    BY <1>1 DEF NoPacket
  <1>3. packet.seq \in Nat /\ next \in Nat /\ from \in Nat /\ delivered \subseteq Nat
    BY DEF ResidentInv, TypeOK
  <1>4. pc \in {"login", "poll"} /\ ~asked.open
    BY <1>1 DEF ResidentInv, TypeOK, IdleInv, FlowInv
  <1>5. CASE /\ packet.type = "A" /\ id' = "S" /\ next' = packet.seq
             /\ from' = packet.seq /\ UNCHANGED delivered
    <2>1. id = "none" /\ ~everSaved /\ flow = packet.seq /\ flow >= 1
      BY <1>5 DEF ResidentInv, TypeOK, FlowInv, PhaseInv
    <2>2. TypeOK'
      BY <1>1, <1>2, <1>3, <1>5 DEF ResidentInv, TypeOK
    <2>3. PhaseInv' /\ DiskInv'
      BY <1>1, <1>5, <2>1 DEF ResidentInv, PhaseInv, DiskInv
    <2>4. FlowInv'
      BY <1>1, <1>2, <1>4, <1>5, <2>1 DEF FlowInv
    <2>5. HandledInv'
      BY <1>3, <1>5, <2>1 DEF HandledInv
    <2>6. QED  BY <2>2, <2>3, <2>4, <2>5 DEF ResidentInv
  <1>6. CASE /\ packet.type = "S" /\ next' = next + 1
             /\ delivered' = delivered \cup {packet.seq} /\ UNCHANGED <<id, from>>
    <2>1. id = "S" /\ packet.seq = next /\ flow = next + 1
      BY <1>6 DEF ResidentInv, TypeOK, FlowInv
    <2>2. TypeOK'
      <3>1. next' \in Nat
        BY <1>3, <1>6
      <3>2. delivered' \subseteq Nat
        <4>1. delivered \cup {packet.seq} \subseteq Nat
          BY <1>3
        <4>2. QED  BY <1>6, <4>1
      <3>3. QED  BY <1>1, <1>2, <1>6, <3>1, <3>2 DEF ResidentInv, TypeOK
    <2>3. PhaseInv'
      BY <1>1, <1>6, <2>1 DEF ResidentInv, PhaseInv
    <2>4. DiskInv'
      <3>1. saved \in Nat
        BY DEF ResidentInv, TypeOK
      <3>2. QED  BY <1>1, <1>3, <1>6, <3>1 DEF ResidentInv, DiskInv
    <2>5. FlowInv'
      BY <1>1, <1>2, <1>4, <1>6, <2>1 DEF FlowInv
    <2>6. HandledInv'
      <3>1. next >= 1 /\ from <= next /\ \A m \in from .. next - 1 : m \in delivered
        BY <2>1 DEF ResidentInv, HandledInv
      <3>2. next' >= 1 /\ from' <= next'
        BY <1>3, <1>6, <3>1
      <3>3. ASSUME NEW m \in from' .. next' - 1  PROVE m \in delivered'
        <4>1. m \in from .. next - 1 \/ m = next
          BY <1>3, <1>6, <3>3
        <4>2. QED  BY <1>6, <2>1, <3>1, <4>1
      <3>4. QED  BY <3>2, <3>3 DEF HandledInv
    <2>7. QED  BY <2>2, <2>3, <2>4, <2>5, <2>6 DEF ResidentInv
  <1>7. CASE packet.type \in {"H", "J"} /\ UNCHANGED <<id, next, from, delivered>>
    <2>1. TypeOK'
      BY <1>1, <1>2, <1>7 DEF ResidentInv, TypeOK
    <2>2. PhaseInv' /\ HandledInv' /\ DiskInv'
      BY <1>1, <1>7 DEF ResidentInv, PhaseInv, HandledInv, DiskInv
    <2>3. FlowInv'
      BY <1>1, <1>2, <1>4, <1>7 DEF ResidentInv, FlowInv
    <2>4. QED  BY <2>1, <2>2, <2>3 DEF ResidentInv
  <1>8. QED  BY <1>5, <1>6, <1>7 DEF Dispatch, session, past

\* A step that may save the number reached and otherwise only changes pc, or
\* ends the connection.
LEMMA SavingStep ==
    ASSUME ResidentInv, id = "S", packet = NoPacket, NEW ok \in BOOLEAN,
           Save(id, next, ok) \/ UNCHANGED store,
           UNCHANGED <<base, id, next, packet, lastSeq, from, delivered, starts, rebuilds>>,
           \/ pc' = "poll" /\ pc = "login" /\ UNCHANGED <<asked, flow>>
           \/ pc' \in {"exited", "down"} /\ asked' = NotAsked /\ flow' = 0
    PROVE  ResidentInv'
  <1>1. /\ disk' \in Cursors /\ saved' \in Nat
        /\ everSaved' \in BOOLEAN /\ elapsed' \in BOOLEAN /\ failures' \in Nat
    BY SaveStep DEF ResidentInv, TypeOK
  <1>2. asked' \in [open : BOOLEAN, seq : Nat] /\ flow' \in Nat
    <2>1. NotAsked \in [open : BOOLEAN, seq : Nat]
      BY DEF NotAsked
    <2>2. asked \in [open : BOOLEAN, seq : Nat] /\ flow \in Nat
      BY DEF ResidentInv, TypeOK
    <2>3. QED  BY <2>1, <2>2
  <1>3. TypeOK'
    BY <1>1, <1>2 DEF ResidentInv, TypeOK
  <1>4. PhaseInv' /\ HandledInv'
    BY DEF ResidentInv, PhaseInv, HandledInv
  <1>5. FlowInv'
    <2>1. packet'.type = "none" /\ packet.type = "none"
      BY DEF NoPacket
    <2>2. ~asked'.open
      BY DEF ResidentInv, FlowInv, NotAsked
    <2>3. QED  BY <2>1, <2>2 DEF ResidentInv, FlowInv
  <1>6. DiskInv'
    BY DiskStep
  <1>7. QED  BY <1>3, <1>4, <1>5, <1>6 DEF ResidentInv

\* A step that stops the process without a save.
LEMMA StopStep ==
    ASSUME ResidentInv, pc' = "down", packet' = NoPacket, Hangup,
           UNCHANGED <<base, session, store, past, starts, rebuilds>>
    PROVE  ResidentInv'
  <1>1. asked' \in [open : BOOLEAN, seq : Nat] /\ ~asked'.open /\ flow' = 0
    BY DEF Hangup, NotAsked
  <1>2. packet'.type = "none" /\ packet' \in [type : {"none", "A", "J", "H", "S"}, seq : Nat]
    BY DEF NoPacket
  <1>3. TypeOK'
    BY <1>1, <1>2 DEF ResidentInv, TypeOK, session, store, past, Hangup
  <1>4. PhaseInv' /\ HandledInv' /\ DiskInv'
    BY DEF ResidentInv, PhaseInv, HandledInv, DiskInv, session, store, past
  <1>5. FlowInv'
    BY <1>1, <1>2 DEF FlowInv
  <1>6. QED  BY <1>3, <1>4, <1>5 DEF ResidentInv

-----------------------------------------------------------------------------
\* A process that has rebuilt nothing keeps its invariant.
LEMMA ResidentStep ==
    ASSUME ResidentInv, IdleInv, rebuilds = 0, [Next]_vars,
           ~(Relogin \/ SwitchGateway)
    PROVE  ResidentInv'
  <1>1. CASE UNCHANGED vars
    BY <1>1 DEF vars, ResidentInv, TypeOK, PhaseInv, FlowInv, HandledInv, DiskInv
  <1>2. CASE Start
    BY <1>2, StartStep DEF ResidentInv
  <1>3. CASE Recv
    BY <1>3, AuditRecvStep DEF Recv
  <1>4. CASE Dispatch
    BY <1>4, DispatchStep
  <1>5. ASSUME NEW ok \in BOOLEAN, LoginDone(ok)  PROVE ResidentInv'
    <2>1. id = "S"
      BY <1>5 DEF LoginDone, ResidentInv, TypeOK
    <2>2. /\ packet = NoPacket /\ pc = "login" /\ pc' = "poll" /\ Save(id, next, ok)
          /\ UNCHANGED <<base, id, next, packet, asked, flow, lastSeq, from, delivered,
                         starts, rebuilds>>
      BY <1>5 DEF LoginDone, session, gateway, past
    <2>3. QED  BY <2>1, <2>2, SavingStep
  <1>6. ASSUME NEW ok \in BOOLEAN, Exit(ok)  PROVE ResidentInv'
    <2>1. id = "S"
      BY <1>6 DEF Exit, ResidentInv, PhaseInv
    <2>2. Save(id, next, ok) \/ UNCHANGED store
      BY <1>6 DEF Exit, Flush
    <2>3. QED  BY <1>6, <2>1, <2>2, SavingStep DEF Exit, Hangup, session, past
  <1>7. CASE LoginFails
    BY <1>7, StopStep DEF LoginFails
  <1>8. CASE Crash
    BY <1>8, StopStep DEF Crash
  <1>9. CASE Clock
    <2>1. elapsed' \in BOOLEAN
      BY <1>9 DEF Clock
    <2>2. UNCHANGED <<disk, saved, everSaved, failures, pc, base, id, next, packet, asked,
                      flow, lastSeq, from, delivered, starts, rebuilds>>
      BY <1>9 DEF Clock, session, gateway, past
    <2>3. QED  BY <2>1, <2>2 DEF ResidentInv, TypeOK, PhaseInv, FlowInv, HandledInv, DiskInv
  <1>10. CASE GatewayNumbers
    <2>1. lastSeq' \in Nat
      BY <1>10 DEF GatewayNumbers, ResidentInv, TypeOK
    <2>2. UNCHANGED <<disk, saved, everSaved, elapsed, failures, pc, base, id, next, packet,
                      asked, flow, from, delivered, starts, rebuilds>>
      BY <1>10 DEF GatewayNumbers, session, store, past
    <2>3. QED  BY <2>1, <2>2 DEF ResidentInv, TypeOK, PhaseInv, FlowInv, HandledInv, DiskInv
  <1>11. QED  BY <1>1, <1>2, <1>3, <1>4, <1>5, <1>6, <1>7, <1>8, <1>9, <1>10 DEF Next

-----------------------------------------------------------------------------
(* A process that has rebuilt keeps the types, and is idle when it is down. *)

\* In every step: no packet is in hand while no process runs.
LEMMA IdleStep == ASSUME TypeOK, IdleInv, [Next]_vars PROVE IdleInv'
  <1>1. CASE UNCHANGED vars
    BY <1>1 DEF vars, IdleInv
  <1>2. CASE Start \/ Relogin \/ SwitchGateway
    BY <1>2 DEF Start, Relogin, SwitchGateway, BeginLogin, IdleInv
  <1>3. CASE Recv
    BY <1>3 DEF Recv, AuditRecv, IdleInv
  <1>4. CASE Dispatch \/ Clock \/ GatewayNumbers
    BY <1>4 DEF Dispatch, Clock, GatewayNumbers, IdleInv
  <1>5. ASSUME NEW ok \in BOOLEAN, LoginDone(ok) \/ Exit(ok)  PROVE IdleInv'
    BY <1>5 DEF LoginDone, Exit, IdleInv
  <1>6. CASE LoginFails \/ Crash
    BY <1>6 DEF LoginFails, Crash, IdleInv
  <1>7. QED  BY <1>1, <1>2, <1>3, <1>4, <1>5, <1>6 DEF Next

\* What SaveStep says of a save, for the types alone.
LEMMA StoreType ==
    ASSUME TypeOK, NEW ok \in BOOLEAN, Save(id, next, ok) \/ UNCHANGED store
    PROVE  /\ disk' \in Cursors /\ saved' \in Nat
           /\ everSaved' \in BOOLEAN /\ elapsed' \in BOOLEAN /\ failures' \in Nat
  BY SaveStep DEF TypeOK

\* Every step keeps the types.
LEMMA TypeStep == ASSUME TypeOK, [Next]_vars PROVE TypeOK'
  <1>1. NotAsked \in [open : BOOLEAN, seq : Nat]
    BY DEF NotAsked
  <1>2. NoPacket \in [type : {"none", "A", "J", "H", "S"}, seq : Nat]
    BY DEF NoPacket
  <1>3. /\ disk.seq \in Nat /\ base.seq \in Nat /\ next \in Nat /\ flow \in Nat
        /\ starts \in Nat /\ rebuilds \in Nat /\ lastSeq \in Nat /\ packet.seq \in Nat
    BY DEF TypeOK, Cursors
  <1>4. CASE UNCHANGED vars
    BY <1>4 DEF vars, TypeOK
  <1>5. ASSUME NEW c \in Cursors, BeginLogin(c)
        PROVE  /\ pc' = "login" /\ id' = "none" /\ next' \in Nat /\ flow' \in Nat
               /\ asked' \in [open : BOOLEAN, seq : Nat]
    <2>1. Field(c.seq) \in Nat
      BY FieldNat DEF Cursors
    <2>2. QED  BY <1>5, <2>1 DEF BeginLogin
  <1>6. CASE Start
    <2>1. BeginLogin(disk) /\ disk \in Cursors
      BY <1>6 DEF Start, TypeOK
    <2>2. starts' \in Nat /\ rebuilds' \in Nat /\ saved' \in Nat
      BY <1>3, <1>6 DEF Start
    <2>3. everSaved' \in BOOLEAN /\ elapsed' \in BOOLEAN
      BY <1>6 DEF Start
    <2>4. base' = disk /\ UNCHANGED <<disk, failures, packet, lastSeq, from, delivered>>
      BY <1>6 DEF Start, past
    <2>5. QED  BY <1>5, <2>1, <2>2, <2>3, <2>4 DEF TypeOK
  <1>7. CASE Relogin \/ SwitchGateway
    <2>1. PICK c \in Cursors : BeginLogin(c)
      <3>1. CASE Relogin
        BY <3>1 DEF Relogin, TypeOK
      <3>2. CASE SwitchGateway
        <4>1. [session |-> id, seq |-> next] \in Cursors /\ base \in Cursors
          BY DEF TypeOK, Cursors
        <4>2. QED  BY <3>2, <4>1 DEF SwitchGateway
      <3>3. QED  BY <1>7, <3>1, <3>2
    <2>2. rebuilds' \in Nat
      BY <1>3, <1>7 DEF Relogin, SwitchGateway
    <2>3. UNCHANGED <<disk, saved, everSaved, elapsed, failures, packet, base, lastSeq,
                      from, delivered, starts>>
      BY <1>7 DEF Relogin, SwitchGateway, store, past
    <2>4. QED  BY <1>5, <2>1, <2>2, <2>3 DEF TypeOK
  <1>8. CASE Recv
    <2>1. PICK p \in Arriving, ok \in BOOLEAN : AuditRecv(p, ok)
      BY <1>8 DEF Recv
    <2>2. p \in [type : {"none", "A", "J", "H", "S"}, seq : Nat]
      BY <1>3 DEF Arriving, Answer, TypeOK
    <2>3. Save(id, next, ok) \/ UNCHANGED store
      BY <2>1 DEF AuditRecv, SaveIfDue
    <2>4. asked' \in [open : BOOLEAN, seq : Nat]
      BY <1>1, <2>1 DEF AuditRecv, TypeOK
    <2>5. flow' \in Nat
      BY <1>3, <2>1, <2>2 DEF AuditRecv
    <2>6. packet' = p /\ UNCHANGED <<pc, base, id, next, lastSeq, from, delivered, starts,
                                     rebuilds>>
      BY <2>1 DEF AuditRecv, session, past
    <2>7. QED  BY <2>2, <2>3, <2>4, <2>5, <2>6, StoreType DEF TypeOK
  <1>9. CASE Dispatch
    <2>1. UNCHANGED <<pc, base, disk, saved, everSaved, elapsed, failures, asked, flow,
                      lastSeq, starts, rebuilds>> /\ packet' = NoPacket
      BY <1>9 DEF Dispatch, store, gateway
    <2>2. id' \in {"none", "S"} /\ next' \in Nat /\ from' \in Nat
      BY <1>3, <1>9 DEF Dispatch, session, past, TypeOK
    <2>3. delivered' \subseteq Nat
      <3>1. delivered \subseteq Nat /\ delivered \cup {packet.seq} \subseteq Nat
        BY <1>3 DEF TypeOK
      <3>2. delivered' = delivered \/ delivered' = delivered \cup {packet.seq}
        BY <1>9 DEF Dispatch, past
      <3>3. QED  BY <3>1, <3>2
    <2>4. QED  BY <1>2, <2>1, <2>2, <2>3 DEF TypeOK
  <1>10. ASSUME NEW ok \in BOOLEAN, LoginDone(ok) \/ Exit(ok)  PROVE TypeOK'
    <2>1. Save(id, next, ok) \/ UNCHANGED store
      BY <1>10 DEF LoginDone, Exit, Flush
    <2>2. /\ pc' \in {"poll", "exited", "down"}
          /\ UNCHANGED <<base, id, next, packet, lastSeq, from, delivered, starts, rebuilds>>
      BY <1>10 DEF LoginDone, Exit, Hangup, session, gateway, past
    <2>3. asked' \in [open : BOOLEAN, seq : Nat] /\ flow' \in Nat
      BY <1>1, <1>10 DEF LoginDone, Exit, Hangup, gateway, TypeOK
    <2>4. QED  BY <2>1, <2>2, <2>3, StoreType DEF TypeOK
  <1>11. CASE LoginFails \/ Crash
    <2>1. /\ pc' \in {"poll", "down"} /\ packet' \in {packet, NoPacket}
          /\ UNCHANGED <<base, id, next, disk, saved, everSaved, elapsed, failures, lastSeq,
                         from, delivered, starts, rebuilds>>
      BY <1>11 DEF LoginFails, Crash, Hangup, session, store, past, gateway
    <2>2. asked' \in [open : BOOLEAN, seq : Nat] /\ flow' \in Nat
      BY <1>1, <1>11 DEF LoginFails, Crash, Hangup, gateway, TypeOK
    <2>3. QED  BY <1>2, <2>1, <2>2 DEF TypeOK
  <1>12. CASE Clock
    <2>1. elapsed' \in BOOLEAN
      BY <1>12 DEF Clock
    <2>2. QED  BY <1>12, <2>1 DEF Clock, session, gateway, past, TypeOK
  <1>13. CASE GatewayNumbers
    <2>1. lastSeq' \in Nat
      BY <1>3, <1>13 DEF GatewayNumbers
    <2>2. QED  BY <1>13, <2>1 DEF GatewayNumbers, session, store, past, TypeOK
  <1>14. QED  BY <1>4, <1>6, <1>7, <1>8, <1>9, <1>10, <1>11, <1>12, <1>13 DEF Next

\* No step ends a rebuilt process's count but Start, which begins afresh.
LEMMA RebuildsStep ==
    ASSUME TypeOK, [Next]_vars, ~Start
    PROVE  /\ rebuilds' # 0 \/ rebuilds' = rebuilds
           /\ Relogin \/ SwitchGateway => rebuilds' # 0
  <1>1. rebuilds \in Nat
    BY DEF TypeOK
  <1>2. CASE Relogin \/ SwitchGateway
    BY <1>1, <1>2 DEF Relogin, SwitchGateway
  <1>3. CASE ~(Relogin \/ SwitchGateway)
    <2>1. rebuilds' = rebuilds
      BY <1>3 DEF Next, vars, Recv, AuditRecv, Dispatch, LoginDone, Exit, LoginFails, Crash,
                  Clock, GatewayNumbers
    <2>2. QED  BY <1>3, <2>1
  <1>4. QED  BY <1>2, <1>3

-----------------------------------------------------------------------------
\* While a process has rebuilt nothing, the number on disk, last_saved_seq_,
\* next_inbound_seq_ and the packet at hand keep their order (bist_colo.cpp:
\* 950-961, 781-812), through kills, restarts and failing saves.
THEOREM CursorInvariant == Spec => []CursorInv
  <1>1. Init => CursorInv
    <2>1. Init => IdleInv
      BY DEF Init, IdleInv
    <2>2. QED  BY <2>1, ResidentInit DEF CursorInv, ResidentInv
  <1>2. ASSUME CursorInv, [Next]_vars  PROVE CursorInv'
    <2>1. TypeOK' /\ IdleInv'
      BY <1>2, TypeStep, IdleStep DEF CursorInv
    <2>2. ASSUME rebuilds' = 0  PROVE ResidentInv'
      <3>1. CASE Start
        BY <1>2, <3>1, StartStep DEF CursorInv
      <3>2. CASE ~Start
        <4>1. rebuilds = 0 /\ ~(Relogin \/ SwitchGateway)
          BY <1>2, <2>2, <3>2, RebuildsStep DEF CursorInv
        <4>2. QED  BY <1>2, <4>1, ResidentStep DEF CursorInv
      <3>3. QED  BY <3>1, <3>2
    <2>3. QED  BY <2>1, <2>2 DEF CursorInv
  <1>3. QED  BY <1>1, <1>2, PTL DEF Spec

\* Killing a process that has rebuilt nothing loses no message that its cursor
\* covers: on_audit_recv saves the number before the packet is counted, never
\* after.
THEOREM CursorSafety == Spec => []CursorSafe
  <1>1. CursorInv => CursorSafe
    <2> SUFFICES ASSUME CursorInv, rebuilds = 0, everSaved, NEW m \in from .. disk.seq - 1
                 PROVE  m \in delivered
      BY DEF CursorSafe, CursorCovered
    <2>1. /\ from \in Nat /\ next \in Nat /\ saved \in Nat /\ id = "S"
          /\ disk.seq = saved /\ saved <= next
      BY DEF CursorInv, ResidentInv, TypeOK, PhaseInv, DiskInv
    <2>2. m \in from .. next - 1
      BY <2>1
    <2>3. QED  BY <2>1, <2>2 DEF CursorInv, ResidentInv, HandledInv
  <1>2. QED  BY CursorInvariant, <1>1, PTL

\* What the flush of a clean exit leaves on disk is next_inbound_seq_, also when
\* flush() finds nothing to do (bist_colo.cpp:1016-1017, sequence_store.hpp:126).
THEOREM CleanExit == Spec => []CleanExitKeepsCursor
  <1>1. Init => CleanExitKeepsCursor
    BY DEF Init, CleanExitKeepsCursor
  <1>2. ASSUME CursorInv, CleanExitKeepsCursor, [Next]_vars
        PROVE  CleanExitKeepsCursor'
    <2>1. CASE UNCHANGED vars
      BY <1>2, <2>1 DEF vars, CleanExitKeepsCursor
    <2>2. ASSUME NEW ok \in BOOLEAN, Exit(ok), rebuilds' = 0  PROVE CleanExitKeepsCursor'
      <3>1. CASE ok /\ next # saved
        BY <2>2, <3>1 DEF Exit, Flush, Save, session, CleanExitKeepsCursor
      <3>2. CASE ok /\ next = saved
        <4>1. ResidentInv
          BY <1>2, <2>2 DEF Exit, CursorInv
        <4>2. everSaved /\ disk.session = id /\ disk.seq = next
          BY <2>2, <3>2, <4>1
             DEF Exit, ResidentInv, TypeOK, PhaseInv, HandledInv, DiskInv
        <4>3. QED  BY <2>2, <3>2, <4>2 DEF Exit, Flush, store, session, CleanExitKeepsCursor
      <3>3. CASE ~ok
        BY <2>2, <3>3 DEF Exit, CleanExitKeepsCursor
      <3>4. QED  BY <3>1, <3>2, <3>3
    <2>3. CASE Clock \/ GatewayNumbers
      BY <1>2, <2>3 DEF Clock, GatewayNumbers, store, session, CleanExitKeepsCursor
    <2>4. CASE Start \/ Relogin \/ SwitchGateway
      BY <2>4 DEF Start, Relogin, SwitchGateway, BeginLogin, CleanExitKeepsCursor
    <2>5. CASE Recv
      BY <2>5 DEF Recv, AuditRecv, CleanExitKeepsCursor
    <2>6. CASE Dispatch
      <3>1. pc # "exited"
        BY <1>2, <2>6 DEF Dispatch, CursorInv, IdleInv
      <3>2. QED  BY <2>6, <3>1 DEF Dispatch, CleanExitKeepsCursor
    <2>7. CASE LoginFails \/ Crash \/ \E ok \in BOOLEAN : LoginDone(ok)
      BY <2>7 DEF LoginFails, Crash, LoginDone, CleanExitKeepsCursor
    <2>8. CASE rebuilds' # 0
      BY <2>8 DEF CleanExitKeepsCursor
    <2>9. QED  BY <1>2, <2>1, <2>2, <2>3, <2>4, <2>5, <2>6, <2>7, <2>8 DEF Next
  <1>3. QED  BY CursorInvariant, <1>1, <1>2, PTL DEF Spec

-----------------------------------------------------------------------------
(* Rebuilds.  A new OuchSession starts without a number while the store goes on: *)
(* what is on disk is then the cursor of the connection before.                  *)

\* The counting of PhaseInv, FlowInv and HandledInv does not need rebuilds = 0.
CountInv == (id = "none" => next = 0) /\ FlowInv /\ HandledInv

\* Until a login is accepted the file holds the old cursor, which is covered; the audit of
\* the acceptance overwrites it with the number 0, before the messages behind the old
\* cursor may be replayed or skipped.
StoreInv ==
    /\ everSaved => disk.seq = saved
    /\ failures = 0 /\ packet.type = "A" => saved = 0
    /\ failures = 0 => \A m \in from .. saved - 1 : m \in delivered

\* A new session and its login request, whichever cursor it asks for.
LEMMA LoginCount ==
    ASSUME TypeOK, packet = NoPacket, packet' = packet, NEW c, BeginLogin(c)
    PROVE  CountInv'
  <1>1. pc' = "login" /\ id' = "none" /\ next' = 0 /\ flow' = 0
        /\ packet'.type = "none" /\ packet' = NoPacket
    BY DEF BeginLogin, NoPacket
  <1>2. QED  BY <1>1 DEF CountInv, FlowInv, HandledInv

\* The packet that arrives is the one the session's number is at.
LEMMA RecvCount ==
    ASSUME TypeOK, CountInv, NEW p \in Arriving, NEW ok \in BOOLEAN, AuditRecv(p, ok)
    PROVE  /\ CountInv'
           /\ p.type = "A" => id = "none" /\ next = 0
  <1>1. /\ pc \in {"login", "poll"} /\ packet = NoPacket /\ packet' = p
        /\ asked' = IF p.type \in {"A", "J"} THEN NotAsked ELSE asked
        /\ flow' = IF p.type = "A" THEN p.seq
                   ELSE IF p.type = "S" THEN flow + 1 ELSE flow
        /\ UNCHANGED <<pc, id, next, from, delivered>>
    BY DEF AuditRecv, session, past
  <1>2. id \in {"none", "S"} /\ next \in Nat /\ flow \in Nat /\ lastSeq \in Nat /\ asked.seq \in Nat
    BY DEF TypeOK
  <1>3. \/ p.type = "H" /\ id = "S"
        \/ p.type = "A" /\ p.seq \in Nat /\ p.seq >= 1 /\ asked.open
        \/ p.type = "J" /\ asked.open
        \/ p.type = "S" /\ p.seq = flow /\ flow >= 1
    BY <1>2 DEF Arriving, Answer
  <1>4. packet.type = "none" /\ (asked.open => id = "none" /\ flow = 0)
    BY <1>1 DEF NoPacket, CountInv, FlowInv
  <1>5. id = "none" => flow = 0
    BY <1>4 DEF CountInv, FlowInv
  <1>6. FlowInv'
    <2>1. CASE p.type = "H" /\ id = "S"
      <3>1. ~asked'.open /\ flow' = flow /\ flow = next
        BY <1>1, <1>4, <2>1 DEF CountInv, FlowInv
      <3>2. QED  BY <1>1, <2>1, <3>1 DEF FlowInv
    <2>2. CASE p.type = "A" /\ p.seq \in Nat /\ p.seq >= 1 /\ asked.open
      <3>1. ~asked'.open /\ flow' = p.seq /\ id' = "none"
        BY <1>1, <1>4, <2>2 DEF NotAsked
      <3>2. QED  BY <1>1, <2>2, <3>1 DEF FlowInv
    <2>3. CASE p.type = "J" /\ asked.open
      <3>1. ~asked'.open /\ flow' = 0 /\ id' = "none"
        BY <1>1, <1>4, <2>3 DEF NotAsked
      <3>2. QED  BY <1>1, <2>3, <3>1 DEF FlowInv
    <2>4. CASE p.type = "S" /\ p.seq = flow /\ flow >= 1
      <3>1. id = "S" /\ flow = next
        BY <1>1, <1>2, <1>4, <1>5, <2>4 DEF CountInv, FlowInv
      <3>2. ~asked'.open /\ flow' = next + 1
        BY <1>1, <1>4, <2>4, <3>1
      <3>3. QED  BY <1>1, <2>4, <3>1, <3>2 DEF FlowInv
    <2>5. QED  BY <1>3, <2>1, <2>2, <2>3, <2>4
  <1>7. HandledInv' /\ (id' = "none" => next' = 0)
    BY <1>1 DEF CountInv, HandledInv
  <1>8. p.type = "A" => id = "none" /\ next = 0
    BY <1>3, <1>4 DEF CountInv
  <1>9. QED  BY <1>6, <1>7, <1>8 DEF CountInv

\* The dispatch counts a message when it hands it to the handlers.
LEMMA DispatchCount == ASSUME TypeOK, IdleInv, CountInv, Dispatch PROVE CountInv'
  <1>1. packet # NoPacket /\ packet'.type = "none" /\ UNCHANGED <<pc, asked, flow>>
    BY DEF Dispatch, gateway, NoPacket
  <1>2. packet' = NoPacket
    BY DEF Dispatch
  <1>3. packet.seq \in Nat /\ next \in Nat /\ from \in Nat
    BY DEF TypeOK
  <1>4. pc \in {"login", "poll"} /\ ~asked.open
    BY <1>1 DEF TypeOK, IdleInv, CountInv, FlowInv
  <1>5. CASE /\ packet.type = "A" /\ id' = "S" /\ next' = packet.seq
             /\ from' = packet.seq /\ UNCHANGED delivered
    <2>1. flow = packet.seq /\ flow >= 1
      BY <1>5 DEF CountInv, FlowInv
    <2>2. FlowInv' /\ HandledInv'
      BY <1>1, <1>3, <1>4, <1>5, <2>1 DEF FlowInv, HandledInv
    <2>3. QED  BY <1>5, <2>2 DEF CountInv
  <1>6. CASE /\ packet.type = "S" /\ next' = next + 1
             /\ delivered' = delivered \cup {packet.seq} /\ UNCHANGED <<id, from>>
    <2>1. id = "S" /\ packet.seq = next /\ flow = next + 1
      BY <1>6 DEF CountInv, FlowInv, TypeOK
    <2>2. FlowInv'
      BY <1>1, <1>4, <1>6, <2>1 DEF FlowInv
    <2>3. next >= 1 /\ from <= next /\ \A m \in from .. next - 1 : m \in delivered
      BY <2>1 DEF CountInv, HandledInv
    <2>4. next' >= 1 /\ from' <= next'
      BY <1>3, <1>6, <2>3
    <2>5. ASSUME NEW m \in from' .. next' - 1  PROVE m \in delivered'
      <3>1. m \in from .. next - 1 \/ m = next
        BY <1>3, <1>6, <2>5
      <3>2. QED  BY <1>6, <2>1, <2>3, <3>1
    <2>6. QED  BY <1>6, <2>1, <2>2, <2>4, <2>5 DEF CountInv, HandledInv
  <1>7. CASE packet.type \in {"H", "J"} /\ UNCHANGED <<id, next, from, delivered>>
    <2>1. FlowInv'
      BY <1>1, <1>2, <1>4, <1>7 DEF CountInv, FlowInv
    <2>2. QED  BY <1>7, <2>1 DEF CountInv, HandledInv
  <1>8. QED  BY <1>5, <1>6, <1>7 DEF Dispatch, session, past

\* Every step counts what the handlers were given, rebuilds included.
LEMMA CountStep == ASSUME TypeOK, IdleInv, CountInv, [Next]_vars PROVE CountInv'
  <1>0. packet = NoPacket => packet.type = "none"
    BY DEF NoPacket
  <1>1. CASE UNCHANGED vars
    BY <1>1 DEF vars, CountInv, FlowInv, HandledInv
  <1>2. CASE Start
    BY <1>2, LoginCount DEF Start, IdleInv
  <1>3. CASE Relogin \/ SwitchGateway
    BY <1>3, LoginCount DEF Relogin, SwitchGateway
  <1>4. CASE Recv
    BY <1>4, RecvCount DEF Recv
  <1>5. CASE Dispatch
    BY <1>5, DispatchCount
  <1>6. ASSUME NEW ok \in BOOLEAN, LoginDone(ok)  PROVE CountInv'
    BY <1>6, <1>0 DEF LoginDone, session, gateway, past, CountInv, FlowInv, HandledInv
  <1>7. CASE Clock \/ GatewayNumbers
    BY <1>7 DEF Clock, GatewayNumbers, session, gateway, past, CountInv, FlowInv, HandledInv
  <1>8. ASSUME pc' \in {"down", "exited"}, packet' = NoPacket, Hangup, UNCHANGED <<session, past>>
        PROVE  CountInv'
    <2>1. ~asked'.open /\ flow' = 0 /\ packet'.type = "none"
      BY <1>8 DEF Hangup, NotAsked, NoPacket
    <2>2. UNCHANGED <<id, next, from, delivered>>
      BY <1>8 DEF session, past
    <2>3. QED  BY <1>8, <2>1, <2>2 DEF CountInv, FlowInv, HandledInv
  <1>9. CASE Crash \/ \E ok \in BOOLEAN : Exit(ok)
    BY <1>8, <1>9 DEF Crash, Exit
  <1>10. CASE LoginFails
    <2>1. CASE pc' = "down" /\ Hangup
      BY <1>8, <1>10, <2>1 DEF LoginFails
    <2>2. CASE pc' = "poll" /\ UNCHANGED gateway
      BY <1>0, <1>10, <2>2
         DEF LoginFails, session, gateway, past, CountInv, FlowInv, HandledInv
    <2>3. QED  BY <1>10, <2>1, <2>2 DEF LoginFails
  <1>11. QED  BY <1>1, <1>2, <1>3, <1>4, <1>5, <1>6, <1>7, <1>9, <1>10 DEF Next

\* What a save of the number reached leaves behind.
LEMMA StoreSaves ==
    ASSUME TypeOK, CountInv, StoreInv, NEW ok \in BOOLEAN,
           Save(id, next, ok) \/ UNCHANGED store,
           UNCHANGED <<from, delivered>>,
           packet'.type = "A" => failures' # 0 \/ saved' = 0
    PROVE  StoreInv'
  <1>1. id \in {"none", "S"} /\ next \in Nat /\ from \in Nat /\ failures \in Nat /\ saved \in Nat
    BY DEF TypeOK
  <1>2. CASE UNCHANGED store
    BY <1>2 DEF StoreInv, store
  <1>3. CASE Save(id, next, ok) /\ ~ok
    <2>1. failures' = failures + 1 /\ failures' # 0 /\ UNCHANGED <<disk, saved, everSaved>>
      BY <1>1, <1>3 DEF Save
    <2>2. QED  BY <2>1 DEF StoreInv
  <1>4. CASE Save(id, next, ok) /\ ok
    <2>1. disk'.seq = next /\ saved' = next /\ failures' = failures
      BY <1>4 DEF Save
    <2>2. \A m \in from .. next - 1 : m \in delivered
      <3>1. CASE id = "none"
        BY <1>1, <3>1 DEF CountInv
      <3>2. CASE id = "S"
        BY <3>2 DEF CountInv, HandledInv
      <3>3. QED  BY <1>1, <3>1, <3>2
    <2>3. QED  BY <2>1, <2>2 DEF StoreInv
  <1>5. QED  BY <1>2, <1>3, <1>4

\* Every step keeps what is on disk covered.
LEMMA StoreStep == ASSUME TypeOK, IdleInv, CountInv, StoreInv, [Next]_vars PROVE StoreInv'
  <1>0. /\ NoPacket.type = "none" /\ next \in Nat /\ from \in Nat /\ failures \in Nat
        /\ saved \in Nat /\ packet.seq \in Nat
    BY DEF NoPacket, TypeOK
  <1>1. ASSUME UNCHANGED <<disk, saved, everSaved, failures, from, delivered>>,
               packet' = packet \/ packet' = NoPacket
        PROVE  StoreInv'
    BY <1>0, <1>1 DEF StoreInv
  <1>2. CASE Start
    <2>1. saved' = 0 /\ everSaved' = FALSE /\ from' = from
      BY <1>2 DEF Start, past
    <2>2. from' .. saved' - 1 = {}
      BY <1>0, <2>1
    <2>3. QED  BY <2>1, <2>2 DEF StoreInv
  <1>3. CASE Relogin \/ SwitchGateway \/ LoginFails \/ Crash \/ Clock \/ GatewayNumbers
               \/ UNCHANGED vars
    BY <1>1, <1>3 DEF Relogin, SwitchGateway, LoginFails, Crash, Clock, GatewayNumbers, vars,
                      store, past
  <1>4. CASE Recv
    <2>1. PICK p \in Arriving, ok \in BOOLEAN : AuditRecv(p, ok)
      BY <1>4 DEF Recv
    <2>2. /\ SaveIfDue(id, next, ok) /\ packet' = p /\ UNCHANGED <<from, delivered>>
      BY <2>1 DEF AuditRecv, past
    <2>3. Save(id, next, ok) \/ UNCHANGED store
      BY <2>2 DEF SaveIfDue
    <2>4. ASSUME p.type = "A"  PROVE failures' # 0 \/ saved' = 0
      <3>1. next = 0
        BY <2>1, <2>4, RecvCount
      <3>2. CASE saved = 0
        BY <2>2, <3>1, <3>2 DEF SaveIfDue, store
      <3>3. CASE saved # 0
        <4>1. Save(id, next, ok)
          BY <1>0, <2>2, <3>1, <3>3 DEF SaveIfDue, SeqDue
        <4>2. QED  BY <1>0, <3>1, <4>1 DEF Save
      <3>4. QED  BY <3>2, <3>3
    <2>5. QED  BY <2>2, <2>3, <2>4, StoreSaves
  <1>5. CASE Dispatch
    <2>1. packet'.type = "none" /\ UNCHANGED <<disk, saved, everSaved, failures>>
      BY <1>0, <1>5 DEF Dispatch, store
    <2>2. CASE packet.type = "A" /\ from' = packet.seq
      <3>1. failures = 0 => from' .. saved' - 1 = {}
        BY <1>0, <2>1, <2>2 DEF StoreInv
      <3>2. QED  BY <2>1, <3>1 DEF StoreInv
    <2>3. CASE from' = from /\ delivered \subseteq delivered'
      BY <2>1, <2>3 DEF StoreInv
    <2>4. QED  BY <1>5, <2>2, <2>3 DEF Dispatch, past
  <1>6. ASSUME NEW ok \in BOOLEAN, LoginDone(ok) \/ Exit(ok)  PROVE StoreInv'
    <2>1. Save(id, next, ok) \/ UNCHANGED store
      BY <1>6 DEF LoginDone, Exit, Flush
    <2>2. packet'.type = "none" /\ UNCHANGED <<from, delivered>>
      BY <1>0, <1>6 DEF LoginDone, Exit, past
    <2>3. QED  BY <2>1, <2>2, StoreSaves
  <1>7. QED  BY <1>2, <1>3, <1>4, <1>5, <1>6 DEF Next

\* As long as no save fails, no process that logs in again, switches the gateway or is
\* killed in the middle of it leaves a cursor on disk that is ahead of what its handlers
\* were given since the login it belongs to (bist_colo.cpp:781-812, 950-961).
THEOREM ReplayCursorSafety == Spec => []ReplayCursorSafe
  <1> DEFINE Inv == TypeOK /\ IdleInv /\ CountInv /\ StoreInv
  <1>1. Init => Inv
    <2>1. Init => TypeOK /\ CountInv
      BY ResidentInit DEF ResidentInv, PhaseInv, CountInv
    <2>2. ASSUME Init  PROVE IdleInv /\ StoreInv
      <3>1. everSaved = FALSE /\ saved = 0 /\ from = 0 /\ packet = NoPacket
        BY <2>2 DEF Init
      <3>2. from .. saved - 1 = {}
        BY <3>1
      <3>3. QED  BY <3>1, <3>2 DEF IdleInv, StoreInv
    <2>3. QED  BY <2>1, <2>2
  <1>2. Inv /\ [Next]_vars => Inv'
    BY TypeStep, IdleStep, CountStep, StoreStep
  <1>3. Inv => ReplayCursorSafe
    BY DEF StoreInv, ReplayCursorSafe, CursorCovered
  <1>4. QED  BY <1>1, <1>2, <1>3, PTL DEF Spec
=============================================================================
