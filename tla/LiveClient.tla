----------------------------- MODULE LiveClient -----------------------------
(***************************************************************************)
(* run_live() of apps/bist_colo.cpp with its SequenceStore                 *)
(* (include/bist/observability/sequence_store.hpp): the cursor that is     *)
(* kept on disk while sequenced messages are handled, through crashes,     *)
(* restarts, failing saves and the rebuilds of LiveTransportControl.       *)
(*                                                                         *)
(* An inbound packet is handled in two steps, because the process can be   *)
(* killed between them: on_audit_recv, which may save the cursor, and the  *)
(* dispatch, which counts the packet and calls the handlers (session.hpp:  *)
(* 240-245).  Everything else about the session is in OuchSession.         *)
(* One gateway session, "S", lasts as long as the model does.              *)
(***************************************************************************)
EXTENDS Naturals

CONSTANTS
    Radix,          \* base of the number in the login request (10 in the code)
    SeqDelta,       \* min_seq_delta of save_if_due (100)
    MaxSeq,         \* bound of the model: sequenced messages of the day
    MaxStart,       \* bound of the model: starts of the process
    MaxRebuild,     \* bound of the model: rebuilds of one process; 0 in resident mode
    MaxSaveFailure  \* how many saves may fail

ASSUME ClientAssumption ==
    /\ Radix \in Nat \ {0, 1} /\ SeqDelta \in Nat \ {0}
    /\ MaxSeq \in Nat /\ MaxStart \in Nat /\ MaxRebuild \in Nat
    /\ MaxSaveFailure \in Nat

VARIABLES
    disk,           \* the file: session and sequence number
    pc,             \* where run_live is
    base,           \* base_lp_: the cursor read when the process started
    id, next,       \* assigned_session_ and next_inbound_seq_
    packet,         \* the packet between on_audit_recv and its dispatch
    saved,          \* last_saved_seq_
    everSaved,      \* last_save_ns_ # 0
    elapsed,        \* min_interval_ms have passed since last_save_ns_
    \* the gateway
    asked,          \* the number in the login request that is not answered yet
    flow,           \* number of the next message on this connection, 0: none
    lastSeq,        \* messages numbered so far
    \* history
    from,           \* the number the last login was accepted with
    delivered,      \* numbers of the messages that reached the handlers
    starts, rebuilds, failures

store   == <<disk, saved, everSaved, elapsed, failures>>
session == <<id, next>>
gateway == <<asked, flow, lastSeq>>
past    == <<from, delivered>>
vars    == <<disk, pc, base, id, next, packet, saved, everSaved, elapsed, asked, flow,
             lastSeq, from, delivered, starts, rebuilds, failures>>

NoCursor == [session |-> "none", seq |-> 0]
NoPacket == [type |-> "none", seq |-> 0]
NotAsked == [open |-> FALSE, seq |-> 0]

Init ==
    /\ disk = NoCursor /\ pc = "down" /\ base = NoCursor
    /\ id = "none" /\ next = 0 /\ packet = NoPacket
    /\ saved = 0 /\ everSaved = FALSE /\ elapsed = FALSE
    /\ asked = NotAsked /\ flow = 0 /\ lastSeq \in {0, MaxSeq \div 2}
    /\ from = 0 /\ delivered = {}
    /\ starts = 0 /\ rebuilds = 0 /\ failures = 0

-----------------------------------------------------------------------------
(* SequenceStore *)

\* Faulty forms of definitions below, for the mutation checks.
SaveForgets(s, q, ok) ==        \* last_saved_seq_ is not assigned
    IF ok
    THEN /\ disk' = [session |-> s, seq |-> q]
         /\ everSaved' = TRUE /\ elapsed' = FALSE
         /\ UNCHANGED <<saved, failures>>
    ELSE /\ failures < MaxSaveFailure /\ failures' = failures + 1
         /\ UNCHANGED <<disk, saved, everSaved, elapsed>>

\* save(): the file is replaced in one step (write-then-rename), or, when any
\* part of it fails, stays as it was.
Save(s, q, ok) ==
    IF ok
    THEN /\ disk' = [session |-> s, seq |-> q]
         /\ saved' = q /\ everSaved' = TRUE /\ elapsed' = FALSE
         /\ UNCHANGED failures
    ELSE /\ failures < MaxSaveFailure /\ failures' = failures + 1
         /\ UNCHANGED <<disk, saved, everSaved, elapsed>>

\* seq - last_saved_seq_ is unsigned: a smaller number is a huge advance.
SeqDue(q) == q < saved \/ q - saved >= SeqDelta

TimeDue == ~everSaved \/ elapsed

SaveIfBothDue(s, q, ok) ==      \* faulty: the number AND the time must be due
    IF q # saved /\ SeqDue(q) /\ TimeDue
    THEN Save(s, q, ok)
    ELSE ok /\ UNCHANGED store

SaveIfDue(s, q, ok) ==
    IF q # saved /\ (SeqDue(q) \/ TimeDue)
    THEN Save(s, q, ok)
    ELSE ok /\ UNCHANGED store

FlushIfDue(s, q, ok) == SaveIfDue(s, q, ok)     \* faulty: flush() throttles

Flush(s, q, ok) ==
    IF q # saved THEN Save(s, q, ok) ELSE ok /\ UNCHANGED store

-----------------------------------------------------------------------------
(* The process *)

\* The requested sequence number is printed into a field of 20 characters
\* whose last one is taken by the terminating NUL (session.hpp:95-98): the
\* lowest digit does not leave the client.
Field(q) == q \div Radix

\* A new OuchSession and its begin_login().
BeginLogin(cursor) ==
    /\ pc' = "login"
    /\ id' = "none" /\ next' = 0
    /\ asked' = [open |-> TRUE, seq |-> Field(cursor.seq)]
    /\ flow' = 0

\* load(), and the first rebuild().
Start ==
    /\ pc \in {"down", "exited"} /\ starts < MaxStart
    /\ starts' = starts + 1
    /\ base' = disk
    /\ saved' = 0 /\ everSaved' = FALSE /\ elapsed' = FALSE
    /\ BeginLogin(disk)
    /\ rebuilds' = 0
    /\ UNCHANGED <<disk, failures, packet, lastSeq, past>>

\* reconnect_and_login() without overrides: the cursor of the start again.
Relogin ==
    /\ pc = "poll" /\ packet = NoPacket /\ rebuilds < MaxRebuild
    /\ rebuilds' = rebuilds + 1
    /\ BeginLogin(base)
    /\ UNCHANGED <<store, packet, base, lastSeq, past, starts>>

\* switch_to_secondary() with the runner's session id and next number.
SwitchGateway ==
    /\ pc = "poll" /\ packet = NoPacket /\ rebuilds < MaxRebuild
    /\ rebuilds' = rebuilds + 1
    /\ BeginLogin(IF next # 0 THEN [session |-> id, seq |-> next] ELSE base)
    /\ UNCHANGED <<store, packet, base, lastSeq, past, starts>>

\* External: what the gateway may have sent next.  It answers a login that
\* names a message of the day from there on, any other one "from current".
Answer ==
    [type |-> "A", seq |-> IF asked.seq \in 1 .. lastSeq THEN asked.seq ELSE lastSeq + 1]

Arriving ==
    (IF id # "none" THEN {[type |-> "H", seq |-> 0]} ELSE {})
    \cup (IF asked.open THEN {Answer, [type |-> "J", seq |-> 0]} ELSE {})
    \cup (IF flow \in 1 .. lastSeq THEN {[type |-> "S", seq |-> flow]} ELSE {})

AuditRecvCounts(p, ok) ==       \* faulty: saves as if p were dispatched
    /\ pc \in {"login", "poll"} /\ packet = NoPacket
    /\ packet' = p
    /\ SaveIfDue(id, IF p.type = "S" THEN next + 1 ELSE next, ok)
    /\ asked' = IF p.type \in {"A", "J"} THEN NotAsked ELSE asked
    /\ flow' = IF p.type = "A" THEN p.seq ELSE IF p.type = "S" THEN flow + 1 ELSE flow
    /\ UNCHANGED <<pc, base, session, lastSeq, past, starts, rebuilds>>

\* on_audit_recv of a packet, before it is dispatched.
AuditRecv(p, ok) ==
    /\ pc \in {"login", "poll"} /\ packet = NoPacket
    /\ packet' = p
    /\ SaveIfDue(id, next, ok)
    /\ asked' = IF p.type \in {"A", "J"} THEN NotAsked ELSE asked
    /\ flow' = IF p.type = "A" THEN p.seq ELSE IF p.type = "S" THEN flow + 1 ELSE flow
    /\ UNCHANGED <<pc, base, session, lastSeq, past, starts, rebuilds>>

\* dispatch_packet()
Dispatch ==
    /\ packet # NoPacket /\ packet' = NoPacket
    /\ \/ /\ packet.type = "A"
          /\ id' = "S" /\ next' = packet.seq
          /\ from' = packet.seq
          /\ UNCHANGED delivered
       \/ /\ packet.type = "S"
          /\ next' = next + 1
          /\ delivered' = delivered \cup {packet.seq}
          /\ UNCHANGED <<id, from>>
       \/ packet.type \in {"H", "J"} /\ UNCHANGED <<session, past>>
    /\ UNCHANGED <<pc, base, store, gateway, starts, rebuilds>>

\* drive_login() succeeds, and rebuild() saves the cursor.
LoginDone(ok) ==
    /\ pc = "login" /\ id # "none" /\ packet = NoPacket
    /\ pc' = "poll"
    /\ Save(id, next, ok)
    /\ UNCHANGED <<base, session, packet, gateway, past, starts, rebuilds>>

\* The connection ends with the process.
Hangup == asked' = NotAsked /\ flow' = 0 /\ UNCHANGED lastSeq

\* drive_login() fails: rejected, timed out, or an error of poll_io.  The first
\* login's failure ends the process without a flush; after a rebuild the
\* scenario goes on with the session as it is.
LoginFails ==
    /\ pc = "login" /\ packet = NoPacket
    /\ \/ rebuilds = 0 /\ pc' = "down" /\ Hangup
       \/ rebuilds > 0 /\ pc' = "poll" /\ UNCHANGED gateway
    /\ UNCHANGED <<base, session, packet, store, past, starts, rebuilds>>

\* A signal, an error of poll_io, or the last scenario: flush() and
\* request_logout().  "exited" if the cursor did not fail to be written.
Exit(ok) ==
    /\ pc = "poll" /\ packet = NoPacket
    /\ Flush(id, next, ok)
    /\ pc' = IF ok THEN "exited" ELSE "down"
    /\ Hangup
    /\ UNCHANGED <<base, session, packet, past, starts, rebuilds>>

\* The process is killed.
Crash ==
    /\ pc \in {"login", "poll"}
    /\ pc' = "down"
    /\ packet' = NoPacket
    /\ Hangup
    /\ UNCHANGED <<base, session, store, past, starts, rebuilds>>

Clock ==
    /\ everSaved /\ ~elapsed
    /\ elapsed' = TRUE
    /\ UNCHANGED <<disk, saved, everSaved, failures, pc, base, session, packet,
                   gateway, past, starts, rebuilds>>

\* External: the gateway numbers one more message.
GatewayNumbers ==
    /\ lastSeq < MaxSeq
    /\ lastSeq' = lastSeq + 1
    /\ UNCHANGED <<store, pc, base, session, packet, asked, flow, past, starts,
                   rebuilds>>

-----------------------------------------------------------------------------
Recv == \E p \in Arriving, ok \in BOOLEAN : AuditRecv(p, ok)

Next ==
    \/ Start \/ Relogin \/ SwitchGateway
    \/ Recv \/ Dispatch
    \/ \E ok \in BOOLEAN : LoginDone(ok) \/ Exit(ok)
    \/ LoginFails \/ Crash \/ Clock \/ GatewayNumbers

Spec == Init /\ [][Next]_vars

\* The resident loop polls, time goes on, and the gateway sends a heartbeat
\* at least every second while it is up.
FairSpec ==
    /\ Spec
    /\ WF_vars(Clock) /\ WF_vars(Recv) /\ WF_vars(Dispatch)

-----------------------------------------------------------------------------
Cursors == [session : {"none", "S"}, seq : Nat]

\* Every variable keeps its type.
TypeOK ==
    /\ disk \in Cursors /\ base \in Cursors
    /\ pc \in {"down", "login", "poll", "exited"}
    /\ id \in {"none", "S"} /\ next \in Nat
    /\ packet \in [type : {"none", "A", "J", "H", "S"}, seq : Nat]
    /\ saved \in Nat /\ everSaved \in BOOLEAN /\ elapsed \in BOOLEAN
    /\ asked \in [open : BOOLEAN, seq : Nat] /\ flow \in Nat /\ lastSeq \in Nat
    /\ from \in Nat /\ delivered \subseteq Nat
    /\ starts \in Nat /\ rebuilds \in Nat /\ failures \in Nat

\* A process that is not up handles nothing.
IdleInv == pc \in {"down", "exited"} => packet = NoPacket

(* What CursorSafe rests on, while the process has rebuilt nothing *)

\* A process that polls is logged in, and one that is not logged in has counted
\* and saved nothing.
PhaseInv ==
    /\ pc = "poll" => id = "S"
    /\ id = "none" => next = 0 /\ ~everSaved

\* The packet at hand and the flow behind it are where next_inbound_seq_ is.
FlowInv ==
    /\ asked.open => id = "none" /\ packet = NoPacket /\ flow = 0
    /\ id = "none" => packet.type \in {"none", "A", "J"}
    /\ id = "none" /\ packet.type # "A" => flow = 0
    /\ id = "S" => packet.type # "A"
    /\ packet.type = "A" => flow = packet.seq /\ flow >= 1
    /\ packet.type = "S" => packet.seq = next /\ flow = next + 1
    /\ pc \in {"login", "poll"} /\ id = "S" /\ packet.type # "S" => flow = next

\* What was counted has been through the handlers.
HandledInv ==
    id = "S" => /\ next >= 1 /\ from <= next
                /\ \A m \in from .. next - 1 : m \in delivered

\* The file holds what last_saved_seq_ says, and no more than was counted.
DiskInv ==
    /\ ~everSaved => saved = 0
    /\ everSaved => /\ disk.session = "S" /\ disk.seq = saved
                    /\ saved <= next

ResidentInv == TypeOK /\ PhaseInv /\ FlowInv /\ HandledInv /\ DiskInv

CursorInv == TypeOK /\ IdleInv /\ (rebuilds = 0 => ResidentInv)

\* Everything from where the last login was accepted up to the number on disk
\* has been through the handlers.
CursorCovered ==
    everSaved /\ disk.session = "S" =>
        \A m \in from .. disk.seq - 1 : m \in delivered

\* Once the process has saved a cursor, killing it at any point loses no message
\* it was sent (bist_colo.cpp:950-961) ...
CursorSafe == rebuilds = 0 => CursorCovered

\* ... and neither does a scenario that logs in again or switches the gateway,
\* as long as no save fails (bist_colo.cpp:781-812).  The file may hold no cursor
\* at all during a rebuild: the first packet of a relogin is audited before it is
\* counted, and saves the session "" and the number 0.
ReplayCursorSafe == failures = 0 => CursorCovered

\* A process that ended by itself left the cursor exactly where it stopped.
CleanExitKeepsCursor ==
    pc = "exited" /\ rebuilds = 0 => disk.session = id /\ disk.seq = next

\* The cursor keeps up: what was dispatched is saved while the process stays
\* up, although each save may be skipped as not due, or fail.
CursorCatchesUp ==
    \A n \in 1 .. MaxSeq + 1 :
        (pc = "poll" /\ next >= n) ~> (pc # "poll" \/ disk.seq >= n)

-----------------------------------------------------------------------------
(* What comments and docs say and the code does not do *)

\* "To resume a session after a crash or restart, the client must re-login with
\* the previously assigned session ID and the next-expected sequence number"
\* (sequence_store.hpp:6-8): a login with a cursor is accepted no later than there.
ResumeSkipsNothing ==
    id # "none" /\ base # NoCursor /\ rebuilds = 0 => from <= base.seq
=============================================================================
