---------------------------- MODULE MockGateway ----------------------------
(***************************************************************************)
(* bist::mock::OuchMockGateway (include/bist/mock/ouch_gateway.hpp and     *)
(* src/mock/ouch_gateway.cpp): its worker thread, which serves one         *)
(* connection after the other, and inactivate_all_resting(), which the     *)
(* scenario runner calls on its own thread.                                *)
(*                                                                         *)
(* A handler is one action up to its sends, because its state is the       *)
(* worker's own or is under state_mu_; each send is a step, since the two  *)
(* threads write to the same socket without a lock.                        *)
(***************************************************************************)
EXTENDS OrderWire, FiniteSets

CONSTANTS
    Instrument,     \* order books quoted
    QuoteShapes,    \* the shapes of the quotes callers make, of those of Shapes
    MaxBeat,        \* bound of the model: heartbeats
    MaxInactivate   \* bound of the model: calls of inactivate_all_resting

VARIABLES
    running,        \* running_
    fd,             \* client_fd_: the connection accepted last, 0 for -1
    worker,         \* the worker thread: see WorkerInit
    caller,         \* the thread inside inactivate_all_resting
    armed,          \* arm_duplicate_reject_
    seenTokens,     \* seen_tokens_
    resting,        \* resting_: the id of the order resting under a token, or 0
    quoteActive,    \* quote_active_
    orders,         \* history: token and kind of each order, by order id
    rested,         \* history: ids that entered resting_
    ended,          \* history: ids taken out of resting_ by a cancel or a replace,
                    \* or announced by inactivate_all_resting
    beats, sweeps   \* history: heartbeats, calls of inactivate_all_resting

gatewayVars == <<running, fd, worker, caller, armed, seenTokens, resting, quoteActive,
                 orders, rested, ended, beats, sweeps>>
books == <<seenTokens, resting, quoteActive, orders, rested, ended>>

NextId == Len(orders) + 1       \* order_id_seq_

Sides == Instrument \X {"B", "S"}

\* The worker: where it is, the connection it serves, the messages its handler
\* still has to send, whether the header of the first is out, whether it holds
\* state_mu_ while it sends, and what it will add to resting_ afterwards.
WorkerAt(place, c) ==
    [at |-> place, conn |-> c, msgs |-> <<>>, half |-> FALSE, locked |-> FALSE,
     rest |-> <<>>]

Outside == [at |-> "outside", fd |-> 0, snapshot |-> {}, half |-> <<>>]

GatewayInit ==
    /\ running = TRUE /\ fd = 0
    /\ worker = WorkerAt("accept", 0) /\ caller = Outside
    /\ armed = FALSE
    /\ seenTokens = {} /\ resting = [t \in Token |-> 0]
    /\ quoteActive = [s \in Sides |-> FALSE]
    /\ orders = <<>> /\ rested = {} /\ ended = <<>>
    /\ beats = 0 /\ sweeps = 0

-----------------------------------------------------------------------------
\* Faulty forms of definitions below, for the mutation checks.
ReleasesOnce ==         \* the worker ends with its first client
    /\ worker.at = "closed"
    /\ fd' = 0
    /\ worker' = WorkerAt("done", worker.conn)
    /\ UNCHANGED <<wire, running, caller, armed, books, beats, sweeps>>

LeavesNever ==          \* accept() is tried again after it failed
    /\ worker.at = "accept" /\ ~running
    /\ UNCHANGED <<wire, gatewayVars>>

SnapshotCopies ==       \* resting_ is not cleared
    /\ caller.at = "lock" /\ ~worker.locked
    /\ caller' = [caller EXCEPT !.at = "emit",
                                !.snapshot = {resting[t] : t \in Token} \ {0}]
    /\ UNCHANGED <<wire, running, fd, worker, armed, books, beats, sweeps>>

-----------------------------------------------------------------------------
\* A write reaches the client when its connection is the client's socket and
\* the worker has not closed it.
Reaches(c) == c = conn /\ open /\ worker.conn = c /\ worker.at \in {"login", "loop", "send", "rest"}

WriteTo(c, segment) == down' = IF Reaches(c) THEN Append(down, segment) ELSE down

Readable == worker.conn > 0 /\ up[worker.conn] # <<>>
Packet   == Head(up[worker.conn])
Gone     == ~Readable /\ (worker.conn < conn \/ ~open)      \* recv() returns 0

Consume == up' = [up EXCEPT ![worker.conn] = Tail(@)] /\ UNCHANGED <<conn, open>>

-----------------------------------------------------------------------------
(* accept_loop() *)

WorkerAccepts ==
    /\ worker.at = "accept" /\ running /\ worker.conn < conn
    /\ worker' = WorkerAt("login", worker.conn + 1)
    /\ fd' = worker.conn + 1
    /\ UNCHANGED <<wire, running, caller, armed, books, beats, sweeps>>

\* The listener is shut down: accept() fails.
WorkerLeaves ==
    /\ worker.at = "accept" /\ ~running
    /\ worker' = WorkerAt("done", worker.conn)
    /\ UNCHANGED <<wire, running, fd, caller, armed, books, beats, sweeps>>

\* run_loop() has closed the socket and returned; accept_one_ is false.
WorkerReleases ==
    /\ worker.at = "closed"
    /\ fd' = 0
    /\ worker' = WorkerAt(IF running THEN "accept" ELSE "done", worker.conn)
    /\ UNCHANGED <<wire, running, caller, armed, books, beats, sweeps>>

-----------------------------------------------------------------------------
(* run_loop() *)

\* The first packet, and handle_login() if it is a login request.
WorkerLogin ==
    /\ worker.at = "login" /\ Readable
    /\ Consume
    /\ LET login  == Packet.type = "Login"
           accept == ~armed /\ Packet.password = "right"
       IN  /\ IF login
              THEN WriteTo(worker.conn,
                           Whole([type |-> IF accept THEN "LoginAccepted"
                                           ELSE "LoginRejected"]))
              ELSE UNCHANGED down
           /\ armed' = (armed /\ ~login)
    /\ worker' = WorkerAt("loop", worker.conn)
    /\ UNCHANGED <<running, fd, caller, books, beats, sweeps>>

\* The client is gone, or running_ is false at the head of the loop.
WorkerCloses ==
    /\ \/ worker.at = "login" /\ Gone
       \/ worker.at = "loop" /\ (Gone \/ ~running)
    /\ worker' = WorkerAt("closed", worker.conn)
    /\ UNCHANGED <<wire, running, fd, caller, armed, books, beats, sweeps>>

WorkerLogout ==
    /\ worker.at = "loop" /\ Readable /\ Packet.type = "Logout"
    /\ Consume
    /\ WriteTo(worker.conn, Whole([type |-> "EndOfSession"]))
    /\ worker' = WorkerAt("closed", worker.conn)
    /\ UNCHANGED <<running, fd, caller, armed, books, beats, sweeps>>

\* A second without a send has passed, and the poll found nothing to read: a packet
\* that comes between the poll and the write may as well come after the write.
WorkerBeats ==
    /\ worker.at = "loop" /\ ~Readable /\ ~Gone /\ beats < MaxBeat
    /\ beats' = beats + 1
    /\ WriteTo(worker.conn, Whole([type |-> "Heartbeat"]))
    /\ UNCHANGED <<conn, open, up, running, fd, worker, caller, armed, books, sweeps>>

-----------------------------------------------------------------------------
(* handle_unsequenced_payload() *)

\* The handler of a packet of the given type has its messages ready; rest is
\* what it adds to resting_ after they are sent.
Handle(type, msgs, locked, rest) ==
    /\ worker.at = "loop" /\ Readable /\ Packet.type = type
    /\ Consume
    /\ worker' = [at |-> "send", conn |-> worker.conn, msgs |-> msgs, half |-> FALSE,
                  locked |-> locked, rest |-> rest]
    /\ UNCHANGED <<down, running, fd, caller, armed, beats, sweeps>>

Rejected(t) == [type |-> "Rejected", token |-> t]

\* A token seen before is rejected inside the lock.
EnterDuplicate ==
    /\ Handle("Enter", <<Rejected(Packet.token)>>, TRUE, <<>>)
    /\ Packet.token \in seenTokens
    /\ UNCHANGED books

EnterOutsideLimits ==
    /\ Handle("Enter", <<Rejected(Packet.token)>>, FALSE, <<>>)
    /\ Packet.token \notin seenTokens /\ Packet.kind = "far"
    /\ seenTokens' = seenTokens \cup {Packet.token}
    /\ UNCHANGED <<resting, quoteActive, orders, rested, ended>>

\* A Day order will rest once its Accepted is sent.
EnterAccepted ==
    /\ Handle("Enter", <<[type |-> "Accepted", token |-> Packet.token, id |-> NextId]>>,
              FALSE, IF Packet.kind = "day" THEN <<Packet.token, NextId>> ELSE <<>>)
    /\ Packet.token \notin seenTokens /\ Packet.kind # "far"
    /\ seenTokens' = seenTokens \cup {Packet.token}
    /\ orders' = Append(orders, [token |-> Packet.token, kind |-> Packet.kind])
    /\ UNCHANGED <<resting, quoteActive, rested, ended>>

\* resting_.erase(t); ended tells which order that ended.
Erase(t) == [resting EXCEPT ![t] = 0]
End(t)   == IF resting[t] = 0 THEN ended ELSE Append(ended, resting[t])

\* The answer names order 0 when nothing rests under the token.
CancelOrder ==
    /\ Handle("Cancel", <<[type |-> "Canceled", id |-> resting[Packet.token]]>>, FALSE, <<>>)
    /\ resting' = Erase(Packet.token) /\ ended' = End(Packet.token)
    /\ UNCHANGED <<seenTokens, quoteActive, orders, rested>>

\* resting_ is not looked at.
CancelByOrderIdAnswered ==
    /\ Handle("CancelById", <<[type |-> "Canceled", id |-> Packet.id]>>, FALSE, <<>>)
    /\ UNCHANGED books

\* A new order rests under the new token, whether the old one did or not.
ReplaceOrder ==
    /\ Handle("Replace", <<[type |-> "Replaced", previous |-> Packet.existing,
                          token |-> Packet.token, id |-> NextId]>>,
              FALSE, <<>>)
    /\ resting' = [Erase(Packet.existing) EXCEPT ![Packet.token] = NextId]
    /\ ended' = End(Packet.existing)
    /\ rested' = rested \cup {NextId}
    /\ orders' = Append(orders, [token |-> Packet.token, kind |-> "replacement"])
    /\ UNCHANGED <<seenTokens, quoteActive>>

\* The sides a quote gives a size and a price; of a crossed quote both, and its
\* bid price is not below its offer price.
Shapes == [both |-> {"B", "S"}, bid |-> {"B"}, offer |-> {"S"}, none |-> {},
           crossed |-> {"B", "S"}]

ASSUME ShapesAssumption == QuoteShapes \subseteq DOMAIN Shapes

Quote == [book : Instrument, shape : QuoteShapes]

IsActive(e, side) == side \in Shapes[e.shape]

Crossed(e) == e.shape = "crossed"

Status(e, side) ==
    IF ~IsActive(e, side) THEN "Canceled"
    ELSE IF quoteActive[<<e.book, side>>] THEN "Updated" ELSE "Accept"

\* One entry: a rejection, or an acknowledgement of each side.
MassQuoteAnswered ==
    LET e    == Packet.entry
        acks == <<[type |-> "QuoteAck", side |-> "B", status |-> Status(e, "B")],
                  [type |-> "QuoteAck", side |-> "S", status |-> Status(e, "S")]>>
        mine(s) == s[1] = e.book /\ ~Crossed(e)
    IN  /\ Handle("MassQuote",
                  IF Crossed(e) THEN <<[type |-> "QuoteRejected"]>> ELSE acks, FALSE, <<>>)
        /\ quoteActive' = [s \in Sides |->
                              IF mine(s) THEN IsActive(e, s[2]) ELSE quoteActive[s]]
        /\ UNCHANGED <<seenTokens, resting, orders, rested, ended>>

-----------------------------------------------------------------------------
(* send_sequenced(): a write of the header, a write of the message *)

WorkerSends ==
    /\ worker.at = "send"
    /\ WriteTo(worker.conn, IF worker.half THEN Body(Head(worker.msgs))
                            ELSE Header(Head(worker.msgs)))
    /\ worker' = IF ~worker.half THEN [worker EXCEPT !.half = TRUE]
                 ELSE IF Len(worker.msgs) > 1
                 THEN [worker EXCEPT !.half = FALSE, !.msgs = Tail(@)]
                 ELSE IF worker.rest # <<>>
                 THEN [WorkerAt("rest", worker.conn) EXCEPT !.rest = worker.rest]
                 ELSE WorkerAt("loop", worker.conn)
    /\ UNCHANGED <<conn, open, up, running, fd, caller, armed, books, beats, sweeps>>

\* The end of the EnterOrder handler of a Day order.
WorkerRests ==
    /\ worker.at = "rest"
    /\ resting' = [resting EXCEPT ![worker.rest[1]] = worker.rest[2]]
    /\ rested' = rested \cup {worker.rest[2]}
    /\ worker' = WorkerAt("loop", worker.conn)
    /\ UNCHANGED <<wire, running, fd, caller, armed, seenTokens, quoteActive, orders,
                   ended, beats, sweeps>>

Worker ==
    \/ WorkerAccepts \/ WorkerLeaves \/ WorkerReleases
    \/ WorkerLogin \/ WorkerCloses \/ WorkerLogout \/ WorkerBeats
    \/ EnterDuplicate \/ EnterOutsideLimits \/ EnterAccepted
    \/ CancelOrder \/ CancelByOrderIdAnswered \/ ReplaceOrder \/ MassQuoteAnswered
    \/ WorkerSends \/ WorkerRests

-----------------------------------------------------------------------------
(* inactivate_all_resting(), on the runner's thread *)

InactivateBegin ==
    /\ caller.at = "outside" /\ sweeps < MaxInactivate /\ fd # 0
    /\ sweeps' = sweeps + 1
    /\ caller' = [Outside EXCEPT !.at = "lock", !.fd = fd]
    /\ UNCHANGED <<wire, running, fd, worker, armed, books, beats>>

\* Under state_mu_: everything that rests is taken.
InactivateSnapshot ==
    /\ caller.at = "lock" /\ ~worker.locked
    /\ caller' = [caller EXCEPT !.at = "emit",
                                !.snapshot = {resting[t] : t \in Token} \ {0}]
    /\ resting' = [t \in Token |-> 0]
    /\ UNCHANGED <<wire, running, fd, worker, armed, seenTokens, quoteActive, orders,
                   rested, ended, beats, sweeps>>

\* The descriptor loaded at the beginning may have been closed by the worker
\* since, and its number given to the connection it serves now.
Behind(c) == IF worker.conn > c THEN {c, worker.conn} ELSE {c}

Inactivated(id) == [type |-> "Inactivated", id |-> id]

\* emit_canceled() of one order: the header, then the message.
InactivateEmit ==
    /\ caller.at = "emit"
    /\ \E c \in Behind(caller.fd) :
          \/ \E id \in caller.snapshot :
                /\ caller.half = <<>>
                /\ WriteTo(c, Header(Inactivated(id)))
                /\ caller' = [caller EXCEPT !.half = <<id>>,
                                            !.snapshot = caller.snapshot \ {id}]
                /\ ended' = Append(ended, id)
          \/ /\ caller.half # <<>>
             /\ WriteTo(c, Body(Inactivated(caller.half[1])))
             /\ caller' = [caller EXCEPT !.half = <<>>]
             /\ UNCHANGED ended
    /\ UNCHANGED <<conn, open, up, running, fd, worker, armed, seenTokens, resting,
                   quoteActive, orders, rested, beats, sweeps>>

InactivateReturn ==
    /\ caller.at = "emit" /\ caller.snapshot = {} /\ caller.half = <<>>
    /\ caller' = Outside
    /\ UNCHANGED <<wire, running, fd, worker, armed, books, beats, sweeps>>

Inactivate ==
    InactivateBegin \/ InactivateSnapshot \/ InactivateEmit \/ InactivateReturn

-----------------------------------------------------------------------------
(* Calls of the thread that owns the gateway *)

\* stop(), up to the join: running_ is cleared and the listener is shut down.
StopListening ==
    /\ running' = FALSE
    /\ UNCHANGED <<wire, fd, worker, caller, armed, books, beats, sweeps>>
=============================================================================
