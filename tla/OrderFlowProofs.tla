-------------------------- MODULE OrderFlowProofs --------------------------
(***************************************************************************)
(* What holds of the orders of a scenario in mock mode for any number of   *)
(* calls, connections, tokens, quotes and end-of-day passes.               *)
(***************************************************************************)
EXTENDS OrderFlow, FiniteSetTheorems, SequenceTheorems, TLAPS

\* What the client can send and the gateway can answer.
Packets ==
    [type : {"Login"}, password : {"right", "wrong"}]
    \cup [type : {"Logout"}]
    \cup [type : {"Enter"}, token : Token, kind : Kinds]
    \cup [type : {"Replace"}, existing : Token, token : Token]
    \cup [type : {"Cancel"}, token : Token]
    \cup [type : {"CancelById"}, id : Nat]
    \cup [type : {"MassQuote"}, token : Token, entry : Quote]

Messages ==
    [type : {"Rejected"}, token : Token]
    \cup [type : {"Accepted"}, token : Token, id : Nat]
    \cup [type : {"Replaced"}, previous : Token, token : Token, id : Nat]
    \cup [type : {"Canceled", "Inactivated"}, id : Nat]
    \cup [type : {"QuoteAck"}, side : {"B", "S"}, status : {"Canceled", "Updated", "Accept"}]
    \cup [type : {"QuoteRejected", "LoginAccepted", "LoginRejected", "EndOfSession", "Heartbeat"}]

Segments == [part : {"header", "body", "whole"}, msg : Messages]

Order == [token : Token, kind : Kinds \cup {"replacement"}]

Serving == {"login", "loop", "send", "rest"}

\* The worker serves a connection that was dialed; it owes messages while it sends, and an
\* entry of resting_ until it has added it.
WorkerType ==
    /\ worker \in [at : {"accept", "closed", "done"} \cup Serving, conn : 0 .. MaxConn,
                   msgs : Seq(Messages), half : BOOLEAN, locked : BOOLEAN,
                   rest : {<<>>} \cup (Token \X Nat)]
    /\ worker.conn <= conn
    /\ worker.at \in Serving => worker.conn > 0
    /\ worker.at = "send" => worker.msgs # <<>>
    /\ worker.at = "rest" => worker.rest # <<>>
    /\ worker.at \notin {"send", "rest"} => worker.rest = <<>>

\* inactivate_all_resting() holds orders only while it announces them.
CallerType ==
    /\ caller \in [at : {"outside", "lock", "emit"}, fd : Nat, snapshot : SUBSET Nat,
                   half : Seq(Nat)]
    /\ caller.at # "emit" => caller.snapshot = {}
    /\ fd \in Nat

\* The two directions of the connections.
WireType ==
    /\ conn \in 0 .. MaxConn /\ open \in BOOLEAN /\ (open => conn > 0)
    /\ up \in [1 .. MaxConn -> Seq(Packets)]
    /\ down \in Seq(Segments)

\* The registry, the local book and what the handlers were given.
ClientType ==
    /\ seen \subseteq Token /\ sequence \in Nat
    /\ book \in [Token -> {"absent", "Pending", "Replacing", "Canceling"}]
    /\ heard \in [Token -> Nat]

\* The gateway's orders and their histories.
BooksType ==
    /\ resting \in [Token -> Nat]
    /\ orders \in Seq(Order)
    /\ rested \in SUBSET Nat /\ ended \in Seq(Nat)

TypeInv == WorkerType /\ CallerType /\ WireType /\ ClientType /\ BooksType

-----------------------------------------------------------------------------
IsOrder(p) == p.type \in {"Enter", "Replace"}

\* A token is in the registry, and in the book if it enters an order, from before its packet
\* is written.
KnownInv ==
    /\ \A c \in 1 .. MaxConn : \A i \in 1 .. Len(up[c]) :
          /\ IsOrder(up[c][i]) => up[c][i].token \in Announced
          /\ up[c][i].type = "Enter" => book[up[c][i].token] # "absent"
    /\ OrdersAreKnown

\* The order id and the token of an answer are those of one order.
Truthful(m, all) ==
    m.type \in {"Accepted", "Replaced"} =>
        m.id \in 1 .. Len(all) /\ all[m.id].token = m.token

\* What the worker still has to send, what is on the way and what was heard is true.
HeardInv ==
    /\ \A i \in 1 .. Len(worker.msgs) : Truthful(worker.msgs[i], orders)
    /\ \A i \in 1 .. Len(down) : Truthful(down[i].msg, orders)
    /\ HeardIsRight

\* An order's token is on the wire once, and no longer when the order exists; the registry
\* has given out the numbers up to its sequence and the pinned tokens it let pass.
FreshInv ==
    /\ seen \subseteq Explicit \cup 1 .. sequence
    /\ \A c \in 1 .. MaxConn : \A i \in 1 .. Len(up[c]) : IsOrder(up[c][i]) =>
          /\ \A n \in 1 .. Len(orders) : orders[n].token # up[c][i].token
          /\ \A d \in 1 .. MaxConn : \A j \in 1 .. Len(up[d]) :
                IsOrder(up[d][j]) /\ up[d][j].token = up[c][i].token => c = d /\ i = j
    /\ TokenOnce

\* Of what rests (rs), rested (rd), ended (en), was taken by the end-of-day pass (sn) and
\* of all orders (od): whatever rested does so still, was taken, or has ended, one of them.
Ended(en, id) == \E i \in 1 .. Len(en) : en[i] = id

Fated(rs, rd, en, sn, od) ==
    /\ rd \subseteq 1 .. Len(od)
    /\ \A t \in Token : rs[t] # 0 => rs[t] \in rd /\ od[rs[t]].token = t
    /\ sn \subseteq rd
    /\ \A i \in 1 .. Len(en) : en[i] \in rd
    /\ \A i, j \in 1 .. Len(en) : en[i] = en[j] => i = j
    /\ \A id \in rd :
          /\ rs[od[id].token] = id \/ id \in sn \/ Ended(en, id)
          /\ rs[od[id].token] = id => id \notin sn /\ ~Ended(en, id)
          /\ id \in sn => ~Ended(en, id)

\* What the handler of a Day order is about to add has not rested yet.
RestInv ==
    worker.rest # <<>> =>
        /\ worker.rest[2] \in 1 .. Len(orders) /\ worker.rest[2] \notin rested
        /\ orders[worker.rest[2]].token = worker.rest[1]

\* The strengthening of OneFate.
FateInv == Fated(resting, rested, ended, caller.snapshot, orders) /\ RestInv

-----------------------------------------------------------------------------
(* Packets and messages *)

\* The fields of a packet that a handler of the gateway reads.
LEMMA PacketFields ==
    ASSUME NEW p \in Packets
    PROVE  /\ p.type = "Enter" => p.token \in Token /\ p.kind \in Kinds
           /\ p.type = "Replace" => p.token \in Token /\ p.existing \in Token
           /\ p.type = "Cancel" => p.token \in Token
           /\ p.type = "CancelById" => p.id \in Nat
           /\ p.type = "MassQuote" => p.entry \in Quote
BY DEF Packets

\* What recv() of the worker finds (run_loop() in ouch_gateway.cpp).
LEMMA PacketIsOne ==
    ASSUME WireType, WorkerType, Readable
    PROVE  /\ worker.conn \in 1 .. MaxConn
           /\ up[worker.conn] \in Seq(Packets) /\ up[worker.conn] # <<>>
           /\ Packet \in Packets /\ Packet = up[worker.conn][1]
           /\ Tail(up[worker.conn]) \in Seq(Packets)
           /\ Len(Tail(up[worker.conn])) = Len(up[worker.conn]) - 1
           /\ \A i \in 1 .. Len(Tail(up[worker.conn])) :
                 /\ i + 1 \in 1 .. Len(up[worker.conn])
                 /\ Tail(up[worker.conn])[i] = up[worker.conn][i + 1]
<1>1. worker.conn \in 1 .. MaxConn
  BY WireAssumption DEF WorkerType, Readable
<1>2. up[worker.conn] \in Seq(Packets) /\ up[worker.conn] # <<>>
  BY <1>1 DEF WireType, Readable
<1>3. Packet \in Packets /\ Packet = up[worker.conn][1]
  BY <1>2 DEF Packet
<1> QED
  BY <1>1, <1>2, <1>3

-----------------------------------------------------------------------------
(* What a step does to the packets, the tokens and the orders *)

\* What a step does to the packets on their way to the gateway: nothing, a new connection,
\* a packet more, a packet less.
UpKept == UNCHANGED <<conn, up>>

UpDialed ==
    /\ conn < MaxConn /\ conn' = conn + 1
    /\ \E first \in Packets : \E survives \in BOOLEAN :
          /\ ~IsOrder(first)
          /\ up' = [c \in 1 .. MaxConn |->
                      IF c = conn + 1 THEN <<first>>
                      ELSE IF c = conn /\ ~survives THEN <<>> ELSE up[c]]

UpSent(p) == conn > 0 /\ conn' = conn /\ up' = [up EXCEPT ![conn] = Append(@, p)]

UpRead == conn' = conn /\ Readable /\ up' = [up EXCEPT ![worker.conn] = Tail(@)]

\* An order in the local book stays there.
BookGrows ==
    /\ book' \in [Token -> {"absent", "Pending", "Replacing", "Canceling"}]
    /\ \A t \in Token : book[t] # "absent" => book'[t] # "absent"

\* A step that chooses no token and makes no order.
Idle ==
    /\ UNCHANGED <<seen, sequence, orders>> /\ BookGrows
    /\ UpKept \/ UpDialed \/ UpRead \/ \E p \in Packets : ~IsOrder(p) /\ UpSent(p)

\* A call of OuchClient that chooses a token.
Named(tok) ==
    /\ \E arg \in Explicit \cup {NoToken} : Choose(arg, tok)
    /\ UNCHANGED orders /\ BookGrows
    /\ \/ UpKept
       \/ \E p \in Packets :
             /\ UpSent(p)
             /\ IsOrder(p) => p.token = OnWire(tok)
             /\ p.type = "Enter" => book'[OnWire(tok)] # "absent"

\* The gateway makes an order of the packet it has read.
Ordered ==
    /\ UNCHANGED <<seen, sequence, book>>
    /\ UpRead /\ IsOrder(Packet)
    /\ \E k \in Kinds \cup {"replacement"} :
          /\ orders' = Append(orders, [token |-> Packet.token, kind |-> k])
          /\ k # "replacement" => Packet.type = "Enter"

\* What goes into a message is a token (OrderToken in types.hpp).
LEMMA OnWireToken == ASSUME NEW t \in Token PROVE OnWire(t) \in Token
BY DEF OnWire, Token

\* send(): the packet is on its way, or the session was not Active.
LEMMA SendEffect ==
    ASSUME TypeInv, NEW p, Send(p)
    PROVE  UpSent(p) \/ UpKept
BY DEF TypeInv, WireType, Send, UpSent, UpKept

\* The calls of OuchClient that choose a token (client.hpp: place(), replace(),
\* mass_quote()).
LEMMA CallingEffect ==
    ASSUME TypeInv, Calling
    PROVE  \E tok \in Token : Named(tok)
<1>1. PICK arg \in Explicit \cup {NoToken} :
          \/ \E kind \in Kinds : Place(arg, kind)
          \/ \E t \in seen : Replace(t, arg)
          \/ \E q \in Quote : MassQuote(arg, q)
  BY DEF Calling
<1>0. UNCHANGED orders
  BY DEF Calling, gatewayVars
<1>2. ASSUME NEW kind \in Kinds, Place(arg, kind) PROVE \E tok \in Token : Named(tok)
  <2> DEFINE enter(tok) == [type |-> "Enter", token |-> OnWire(tok), kind |-> kind]
  <2>1. PICK tok \in Token : /\ Choose(arg, tok)
                             /\ book' = [book EXCEPT ![OnWire(tok)] = "Pending"]
                             /\ Send(enter(tok))
    BY <1>2 DEF Place
  <2>2. enter(tok) \in Packets /\ IsOrder(enter(tok)) /\ enter(tok).token = OnWire(tok)
    BY OnWireToken DEF Packets, IsOrder
  <2>3. BookGrows /\ book'[OnWire(tok)] # "absent"
    BY <2>1, OnWireToken DEF TypeInv, ClientType, BookGrows
  <2>4. UpSent(enter(tok)) \/ UpKept
    BY <2>1, SendEffect
  <2> HIDE DEF enter
  <2> QED
    BY <1>0, <2>1, <2>2, <2>3, <2>4 DEF Named
<1>3. ASSUME NEW t \in seen, Replace(t, arg) PROVE \E tok \in Token : Named(tok)
  <2> DEFINE repl(tok) == [type |-> "Replace", existing |-> OnWire(t), token |-> OnWire(tok)]
  <2>1. PICK tok \in Token : Choose(arg, tok) /\ Send(repl(tok))
    BY <1>3 DEF Replace
  <2>2. repl(tok) \in Packets /\ repl(tok).token = OnWire(tok) /\ repl(tok).type # "Enter"
    BY OnWireToken DEF Packets, TypeInv, ClientType
  <2>3. BookGrows
    BY <1>3 DEF Replace, Mark, TypeInv, ClientType, BookGrows
  <2>4. UpSent(repl(tok)) \/ UpKept
    BY <2>1, SendEffect
  <2> HIDE DEF repl
  <2> QED
    BY <1>0, <2>1, <2>2, <2>3, <2>4 DEF Named
<1>4. ASSUME NEW q \in Quote, MassQuote(arg, q) PROVE \E tok \in Token : Named(tok)
  <2> DEFINE quote(tok) == [type |-> "MassQuote", token |-> OnWire(tok), entry |-> q]
  <2>1. PICK tok \in Token : Choose(arg, tok) /\ Send(quote(tok))
    BY <1>4 DEF MassQuote
  <2>2. quote(tok) \in Packets /\ ~IsOrder(quote(tok)) /\ quote(tok).type # "Enter"
    BY OnWireToken DEF Packets, IsOrder
  <2>3. BookGrows
    BY <1>4 DEF MassQuote, TypeInv, ClientType, BookGrows
  <2>4. UpSent(quote(tok)) \/ UpKept
    BY <2>1, SendEffect
  <2> HIDE DEF quote
  <2> QED
    BY <1>0, <2>1, <2>2, <2>3, <2>4 DEF Named
<1> QED
  BY <1>1, <1>2, <1>3, <1>4

\* The calls that name orders of earlier calls, and the logout (client.hpp: cancel(),
\* cancel_by_order_id()).
LEMMA CancelingEffect ==
    ASSUME TypeInv, Canceling \/ Logout
    PROVE  Idle
<1>0. UNCHANGED <<seen, sequence, orders>>
  BY DEF Canceling, Logout, CancelByToken, CancelByOrderId, RequestLogout, gatewayVars, client
<1>1. ASSUME NEW p \in Packets, ~IsOrder(p), BookGrows, UpSent(p) \/ UpKept PROVE Idle
  BY <1>0, <1>1 DEF Idle
<1>2. ASSUME NEW t \in seen, CancelByToken(t) PROVE Idle
  <2> DEFINE cancel == [type |-> "Cancel", token |-> OnWire(t)]
  <2>1. cancel \in Packets /\ ~IsOrder(cancel)
    BY OnWireToken DEF Packets, IsOrder, TypeInv, ClientType
  <2>2. BookGrows
    BY <1>2 DEF CancelByToken, Mark, TypeInv, ClientType, BookGrows
  <2>3. UpSent(cancel) \/ UpKept
    BY <1>2, SendEffect DEF CancelByToken
  <2> QED
    BY <1>1, <2>1, <2>2, <2>3
<1>3. ASSUME NEW t \in Token, CancelByOrderId(heard[t]) PROVE Idle
  <2> DEFINE cancel == [type |-> "CancelById", id |-> heard[t]]
  <2>1. cancel \in Packets /\ ~IsOrder(cancel)
    BY DEF Packets, IsOrder, TypeInv, ClientType
  <2>2. BookGrows
    BY <1>3 DEF CancelByOrderId, TypeInv, ClientType, BookGrows
  <2>3. UpSent(cancel) \/ UpKept
    BY <1>3, SendEffect DEF CancelByOrderId
  <2> QED
    BY <1>1, <2>1, <2>2, <2>3
<1>4. CASE Logout
  <2> DEFINE logout == [type |-> "Logout"]
  <2>1. logout \in Packets /\ ~IsOrder(logout)
    BY DEF Packets, IsOrder
  <2>2. BookGrows
    BY <1>4 DEF Logout, RequestLogout, client, TypeInv, ClientType, BookGrows
  <2>3. UpSent(logout)
    BY <1>4 DEF Logout, RequestLogout, UpSent, TypeInv, WireType
  <2> QED
    BY <1>1, <2>1, <2>2, <2>3
<1> QED
  BY <1>2, <1>3, <1>4 DEF Canceling

\* The worker's steps: an order is made of a packet it has read, and of nothing else
\* (accept_loop(), run_loop(), handle_unsequenced_payload() in ouch_gateway.cpp).
LEMMA GatewayEffect ==
    ASSUME TypeInv, Gateway
    PROVE  Idle \/ Ordered
<1>0. UNCHANGED <<seen, sequence, book>> /\ BookGrows
  BY DEF Gateway, client, TypeInv, ClientType, BookGrows
<1>k. ASSUME UNCHANGED <<orders, conn, up>> PROVE Idle
  BY <1>0, <1>k DEF Idle, UpKept
<1>r. ASSUME UNCHANGED orders, UpRead PROVE Idle
  BY <1>0, <1>r DEF Idle
<1>1. CASE WorkerAccepts \/ WorkerLeaves \/ WorkerReleases \/ WorkerCloses
  BY <1>1, <1>k DEF WorkerAccepts, WorkerLeaves, WorkerReleases, WorkerCloses, wire, books
<1>2. CASE WorkerLogin \/ WorkerLogout
  BY <1>2, <1>r DEF WorkerLogin, WorkerLogout, Consume, UpRead, books
<1>3. CASE WorkerBeats \/ WorkerSends \/ WorkerRests
  BY <1>3, <1>k DEF WorkerBeats, WorkerSends, WorkerRests, wire, books
<1>4. CASE EnterDuplicate \/ EnterOutsideLimits \/ CancelOrder \/ CancelByOrderIdAnswered
             \/ MassQuoteAnswered
  BY <1>4, <1>r DEF EnterDuplicate, EnterOutsideLimits, CancelOrder, CancelByOrderIdAnswered,
                    MassQuoteAnswered, Handle, Consume, UpRead, books
<1>5. CASE EnterAccepted
  <2>1. UpRead /\ Packet.type = "Enter" /\ IsOrder(Packet)
    BY <1>5 DEF EnterAccepted, Handle, Consume, UpRead, IsOrder
  <2>2. Packet.kind \in Kinds
    BY <2>1, PacketIsOne, PacketFields DEF UpRead, TypeInv
  <2> QED
    BY <1>0, <1>5, <2>1, <2>2 DEF EnterAccepted, Ordered
<1>6. CASE ReplaceOrder
  <2>1. UpRead /\ IsOrder(Packet)
    BY <1>6 DEF ReplaceOrder, Handle, Consume, UpRead, IsOrder
  <2> QED
    BY <1>0, <1>6, <2>1 DEF ReplaceOrder, Ordered
<1> QED
  BY <1>1, <1>2, <1>3, <1>4, <1>5, <1>6 DEF Gateway, Worker

\* A new connection begins with a login (MockTransportControl::rebuild()).
LEMMA ReconnectEffect ==
    ASSUME TypeInv, NEW login, Reconnect(login)
    PROVE  Idle
<1> DEFINE first == [type |-> "Login", password |-> IF login = "wrong" THEN "wrong" ELSE "right"]
<1>1. first \in Packets /\ ~IsOrder(first)
  BY DEF Packets, IsOrder
<1>2. Dial(first) /\ UNCHANGED <<seen, sequence, book, orders>>
  BY DEF Reconnect, client, books
<1> HIDE DEF first
<1>3. UpDialed
  BY <1>1, <1>2 DEF Dial, UpDialed
<1>4. BookGrows
  BY <1>2 DEF TypeInv, ClientType, BookGrows
<1> QED
  BY <1>2, <1>3, <1>4 DEF Idle

\* Every step is of one of the three kinds.
LEMMA TokenEffect ==
    ASSUME TypeInv, [Next]_vars
    PROVE  Idle \/ (\E tok \in Token : Named(tok)) \/ Ordered
<1>k. ASSUME UNCHANGED <<seen, sequence, book, orders, conn, up>> PROVE Idle
  BY <1>k DEF Idle, UpKept, BookGrows, TypeInv, ClientType
<1>1. CASE LoginTimeout \/ Leave \/ Stop \/ StopJoined
  BY <1>1, <1>k DEF LoginTimeout, Leave, Stop, StopJoined, HangUp, StopListening, wire, client,
                    gatewayVars, books
<1>2. CASE Hear
  BY <1>2, <1>k DEF Hear, HearWhole, HearSequenced, HearNoise, Drop, wire, client, gatewayVars
<1>3. CASE EndOfDay
  BY <1>3, <1>k DEF EndOfDay, Inactivate, InactivateBegin, InactivateSnapshot, InactivateEmit,
                    InactivateReturn, wire, client, books
<1>4. CASE UNCHANGED vars
  BY <1>4, <1>k DEF vars, wire, client, gatewayVars
<1> QED
  BY <1>1, <1>2, <1>3, <1>4, CallingEffect, CancelingEffect, GatewayEffect, ReconnectEffect
     DEF Next, Stopped

-----------------------------------------------------------------------------
(* The types *)

\* Every order keeps its id, a new one gets the next (order_id_seq_).
LEMMA OrdersGrow ==
    ASSUME TypeInv, Idle \/ (\E tok \in Token : Named(tok)) \/ Ordered
    PROVE  /\ orders' \in Seq(Order) /\ Len(orders) \in Nat /\ Len(orders) <= Len(orders')
           /\ \A i \in 1 .. Len(orders) : i \in 1 .. Len(orders') /\ orders'[i] = orders[i]
<1>0. orders \in Seq(Order) /\ Len(orders) \in Nat
  BY DEF TypeInv, BooksType
<1>1. CASE UNCHANGED orders
  BY <1>0, <1>1
<1>2. CASE Ordered
  <2>1. PICK k \in Kinds \cup {"replacement"} :
            orders' = Append(orders, [token |-> Packet.token, kind |-> k])
    BY <1>2 DEF Ordered
  <2>2. Packet.token \in Token
    BY <1>2, PacketIsOne, PacketFields DEF Ordered, UpRead, TypeInv, IsOrder
  <2>3. [token |-> Packet.token, kind |-> k] \in Order
    BY <2>2 DEF Order
  <2> QED
    BY <1>0, <2>1, <2>3
<1> QED
  BY <1>1, <1>2 DEF Idle, Named

\* What has been sent and not read is packets, on connections that were dialed.
LEMMA UpTypeStep ==
    ASSUME TypeInv, Idle \/ (\E tok \in Token : Named(tok)) \/ Ordered
    PROVE  /\ conn' \in 0 .. MaxConn /\ conn <= conn'
           /\ up' \in [1 .. MaxConn -> Seq(Packets)]
<1>0. /\ conn \in 0 .. MaxConn /\ up \in [1 .. MaxConn -> Seq(Packets)]
      /\ MaxConn \in Nat
  BY WireAssumption DEF TypeInv, WireType
<1>1. CASE UpKept
  BY <1>0, <1>1 DEF UpKept
<1>2. CASE UpDialed
  BY <1>0, <1>2 DEF UpDialed
<1>3. ASSUME NEW p \in Packets, UpSent(p)
      PROVE  /\ conn' \in 0 .. MaxConn /\ conn <= conn'
             /\ up' \in [1 .. MaxConn -> Seq(Packets)]
  <2>1. conn \in 1 .. MaxConn /\ Append(up[conn], p) \in Seq(Packets)
    BY <1>0, <1>3 DEF UpSent
  <2> QED
    BY <1>0, <1>3, <2>1 DEF UpSent
<1>4. CASE UpRead
  BY <1>0, <1>4, PacketIsOne DEF UpRead, TypeInv
<1> QED
  BY <1>1, <1>2, <1>3, <1>4 DEF Idle, Named, Ordered

\* The registry, the book and the ids the handlers were given keep their types.
LEMMA ClientTypeStep ==
    ASSUME TypeInv, [Next]_vars, heard' \in [Token -> Nat]
    PROVE  ClientType'
<1>0. seen \subseteq Token /\ sequence \in Nat
      /\ book \in [Token -> {"absent", "Pending", "Replacing", "Canceling"}]
  BY DEF TypeInv, ClientType
<1>1. CASE Idle
  BY <1>0, <1>1 DEF Idle, BookGrows, ClientType
<1>2. ASSUME NEW tok \in Token, Named(tok) PROVE ClientType'
  BY <1>0, <1>2 DEF Named, BookGrows, Choose, Allocate, RegisterExternal, ClientType
<1>3. CASE Ordered
  BY <1>0, <1>3 DEF Ordered, ClientType
<1> QED
  BY <1>1, <1>2, <1>3, TokenEffect

-----------------------------------------------------------------------------
(* What a step does to the answers *)

\* The handlers of handle_unsequenced_payload().
Handlers ==
    EnterDuplicate \/ EnterOutsideLimits \/ EnterAccepted \/ CancelOrder
        \/ CancelByOrderIdAnswered \/ ReplaceOrder \/ MassQuoteAnswered

\* A handler is at its sends: what it sends is true of the orders as it leaves them, and
\* what it will add to resting_ is the order it has just made.
Answered ==
    /\ worker.at = "loop" /\ Readable
    /\ \E msgs \in Seq(Messages), locked \in BOOLEAN, rest \in {<<>>} \cup (Token \X Nat) :
          /\ worker' = [at |-> "send", conn |-> worker.conn, msgs |-> msgs, half |-> FALSE,
                        locked |-> locked, rest |-> rest]
          /\ msgs # <<>> /\ \A i \in 1 .. Len(msgs) : Truthful(msgs[i], orders')
          /\ rest # <<>> => EnterAccepted /\ rest = <<Packet.token, NextId>>
    /\ UNCHANGED <<conn, open, down, caller, fd>>

\* Whatever the packet, its handler answers.
LEMMA HandlersAnswer ==
    ASSUME TypeInv, Handlers
    PROVE  Answered
<1>0. orders \in Seq(Order) /\ Len(orders) \in Nat /\ resting \in [Token -> Nat]
  BY DEF TypeInv, BooksType
<1>f. /\ Packet.type = "Enter" => Packet.token \in Token /\ Packet.kind \in Kinds
      /\ Packet.type = "Replace" => Packet.token \in Token /\ Packet.existing \in Token
      /\ Packet.type = "Cancel" => Packet.token \in Token
      /\ Packet.type = "CancelById" => Packet.id \in Nat
      /\ Packet.type = "MassQuote" => Packet.entry \in Quote
  <2>1. Readable
    BY DEF Handlers, EnterDuplicate, EnterOutsideLimits, EnterAccepted, CancelOrder,
           CancelByOrderIdAnswered, ReplaceOrder, MassQuoteAnswered, Handle
  <2> QED
    BY <2>1, PacketIsOne, PacketFields DEF TypeInv
<1>h. ASSUME NEW type, NEW msgs \in Seq(Messages), NEW locked \in BOOLEAN,
              NEW rest \in {<<>>} \cup (Token \X Nat), Handle(type, msgs, locked, rest),
              msgs # <<>>, \A i \in 1 .. Len(msgs) : Truthful(msgs[i], orders'),
              rest # <<>> => EnterAccepted /\ rest = <<Packet.token, NextId>>
       PROVE  Answered
  BY <1>h DEF Answered, Handle, Consume
<1>1. ASSUME NEW type, NEW m \in Messages, NEW locked \in BOOLEAN,
             NEW rest \in {<<>>} \cup (Token \X Nat), Handle(type, <<m>>, locked, rest),
             Truthful(m, orders'), rest # <<>> => EnterAccepted /\ rest = <<Packet.token, NextId>>
      PROVE  Answered
  <2>1. <<m>> \in Seq(Messages) /\ <<m>> # <<>> /\ Len(<<m>>) = 1 /\ <<m>>[1] = m
    OBVIOUS
  <2>2. \A i \in 1 .. Len(<<m>>) : Truthful(<<m>>[i], orders')
    BY <1>1, <2>1
  <2> QED
    BY <1>h, <1>1, <2>1, <2>2
<1>2. CASE EnterDuplicate \/ EnterOutsideLimits
  <2>1. Packet.type = "Enter" /\ \E locked \in BOOLEAN :
            Handle("Enter", <<Rejected(Packet.token)>>, locked, <<>>)
    BY <1>2 DEF EnterDuplicate, EnterOutsideLimits, Handle
  <2>2. Rejected(Packet.token) \in Messages
    BY <1>f, <2>1 DEF Rejected, Messages
  <2>3. Truthful(Rejected(Packet.token), orders')
    BY DEF Truthful, Rejected
  <2> QED
    BY <1>1, <2>1, <2>2, <2>3
<1>3. CASE EnterAccepted
  <2> DEFINE m == [type |-> "Accepted", token |-> Packet.token, id |-> NextId]
             rest == IF Packet.kind = "day" THEN <<Packet.token, NextId>> ELSE <<>>
  <2>1. Packet.type = "Enter" /\ Handle("Enter", <<m>>, FALSE, rest)
    BY <1>3 DEF EnterAccepted, Handle
  <2>2. m \in Messages /\ rest \in {<<>>} \cup (Token \X Nat) /\ NextId \in Nat
    BY <1>0, <1>f, <2>1 DEF Messages, NextId
  <2>3. Len(orders') = NextId /\ orders'[NextId].token = Packet.token /\ NextId > 0
    <3>1. [token |-> Packet.token, kind |-> Packet.kind] \in Order
      BY <1>f, <2>1 DEF Order
    <3> QED
      BY <1>0, <1>3, <3>1 DEF EnterAccepted, NextId
  <2>4. Truthful(m, orders')
    BY <2>2, <2>3 DEF Truthful
  <2>5. rest # <<>> => EnterAccepted /\ rest = <<Packet.token, NextId>>
    BY <1>3
  <2> HIDE DEF m, rest
  <2> QED
    BY <1>1, <2>1, <2>2, <2>4, <2>5
<1>4. CASE CancelOrder
  <2> DEFINE m == [type |-> "Canceled", id |-> resting[Packet.token]]
  <2>1. Packet.type = "Cancel" /\ Handle("Cancel", <<m>>, FALSE, <<>>)
    BY <1>4 DEF CancelOrder, Handle
  <2>2. m \in Messages
    BY <1>0, <1>f, <2>1 DEF Messages
  <2>3. Truthful(m, orders')
    BY DEF Truthful
  <2> HIDE DEF m
  <2> QED
    BY <1>1, <2>1, <2>2, <2>3
<1>5. CASE CancelByOrderIdAnswered
  <2> DEFINE m == [type |-> "Canceled", id |-> Packet.id]
  <2>1. Packet.type = "CancelById" /\ Handle("CancelById", <<m>>, FALSE, <<>>)
    BY <1>5 DEF CancelByOrderIdAnswered, Handle
  <2>2. m \in Messages
    BY <1>f, <2>1 DEF Messages
  <2>3. Truthful(m, orders')
    BY DEF Truthful
  <2> HIDE DEF m
  <2> QED
    BY <1>1, <2>1, <2>2, <2>3
<1>6. CASE ReplaceOrder
  <2> DEFINE m == [type |-> "Replaced", previous |-> Packet.existing, token |-> Packet.token,
                   id |-> NextId]
  <2>1. Packet.type = "Replace" /\ Handle("Replace", <<m>>, FALSE, <<>>)
    BY <1>6 DEF ReplaceOrder, Handle
  <2>2. m \in Messages /\ NextId \in Nat
    BY <1>0, <1>f, <2>1 DEF Messages, NextId
  <2>3. Len(orders') = NextId /\ orders'[NextId].token = Packet.token /\ NextId > 0
    <3>1. [token |-> Packet.token, kind |-> "replacement"] \in Order
      BY <1>f, <2>1 DEF Order
    <3> QED
      BY <1>0, <1>6, <3>1 DEF ReplaceOrder, NextId
  <2>4. Truthful(m, orders')
    BY <2>2, <2>3 DEF Truthful
  <2> HIDE DEF m
  <2> QED
    BY <1>1, <2>1, <2>2, <2>4
<1>7. CASE MassQuoteAnswered
  <2> DEFINE e == Packet.entry
             ackB == [type |-> "QuoteAck", side |-> "B", status |-> Status(e, "B")]
             ackS == [type |-> "QuoteAck", side |-> "S", status |-> Status(e, "S")]
             no == [type |-> "QuoteRejected"]
  <2>1. ackB \in Messages /\ ackS \in Messages /\ no \in Messages
    BY DEF Messages, Status
  <2>2. Truthful(ackB, orders') /\ Truthful(ackS, orders') /\ Truthful(no, orders')
    BY DEF Truthful
  <2>3. Handle("MassQuote", IF Crossed(e) THEN <<no>> ELSE <<ackB, ackS>>, FALSE, <<>>)
    BY <1>7 DEF MassQuoteAnswered
  <2> HIDE DEF e, ackB, ackS, no
  <2>4. CASE Crossed(e)
    BY <1>1, <2>1, <2>2, <2>3, <2>4
  <2>5. CASE ~Crossed(e)
    <3>1. <<ackB, ackS>> \in Seq(Messages) /\ <<ackB, ackS>> # <<>> /\ Len(<<ackB, ackS>>) = 2
      BY <2>1
    <3>2. \A i \in 1 .. 2 : Truthful(<<ackB, ackS>>[i], orders')
      BY <2>2
    <3> QED
      BY <1>h, <2>3, <2>5, <3>1, <3>2
  <2> QED
    BY <2>4, <2>5
<1> QED
  BY <1>2, <1>3, <1>4, <1>5, <1>6, <1>7 DEF Handlers

\* A step of the stream to the client: it is kept, lost, read from its front, or
\* written to at its end; an order message is the one the worker is sending.
Streamed ==
    \/ down' = down
    \/ down' = <<>>
    \/ \E n \in 1 .. 2 : n <= Len(down) /\ down' = SubSeq(down, n + 1, Len(down))
    \/ \E s \in Segments :
          /\ down' = Append(down, s)
          /\ s.msg.type \in {"Accepted", "Replaced"} =>
                worker.at = "send" /\ s.msg = Head(worker.msgs)

\* Header, Body and Whole put a message on the stream.
LEMMA SegmentTypes ==
    ASSUME NEW m \in Messages
    PROVE  /\ Header(m) \in Segments /\ Header(m).msg = m
           /\ Body(m) \in Segments /\ Body(m).msg = m
           /\ Whole(m) \in Segments /\ Whole(m).msg = m
BY DEF Header, Body, Whole, Segments

\* A write of a message that is not about an order, or of the one being sent.
LEMMA WriteStreams ==
    ASSUME NEW c, NEW s \in Segments, WriteTo(c, s),
           s.msg.type \in {"Accepted", "Replaced"} =>
                worker.at = "send" /\ s.msg = Head(worker.msgs)
    PROVE  Streamed
BY DEF WriteTo, Streamed

\* What every step does to the stream.
LEMMA StreamEffect == ASSUME TypeInv, [Next]_vars PROVE Streamed
<1>t. down \in Seq(Segments) /\ Len(down) \in Nat
  BY DEF TypeInv, WireType
<1>m. ASSUME NEW c, NEW m \in Messages, NEW s \in {Header(m), Body(m), Whole(m)}, WriteTo(c, s),
             m.type \notin {"Accepted", "Replaced"}
      PROVE  Streamed
  BY <1>m, SegmentTypes, WriteStreams
<1>k. ASSUME down' = down PROVE Streamed
  BY <1>k DEF Streamed
<1>1. ASSUME NEW login, Reconnect(login) PROVE Streamed
  BY <1>1 DEF Reconnect, Dial, Streamed
<1>2. CASE Leave
  BY <1>2 DEF Leave, HangUp, Streamed
<1>3. CASE LoginTimeout \/ Stop \/ StopJoined \/ UNCHANGED vars
  BY <1>3, <1>k DEF LoginTimeout, Stop, StopJoined, StopListening, wire, vars
<1>4. CASE Calling \/ Canceling \/ Logout
  <2>1. down' = down
    BY <1>4 DEF Calling, Canceling, Logout, Place, Replace, MassQuote, CancelByToken,
                CancelByOrderId, RequestLogout, Send
  <2> QED
    BY <2>1, <1>k
<1>5. CASE Hear
  <2>1. CASE HearNoise
    BY <2>1, <1>k DEF HearNoise, wire
  <2>2. CASE HearWhole
    <3>1. 1 <= Len(down) /\ down' = SubSeq(down, 1 + 1, Len(down))
      BY <1>t, <2>2 DEF HearWhole, Drop
    <3> QED
      BY <3>1 DEF Streamed
  <2>3. CASE HearSequenced
    <3>1. 2 <= Len(down) /\ down' = SubSeq(down, 2 + 1, Len(down))
      BY <1>t, <2>3 DEF HearSequenced, Drop
    <3> QED
      BY <3>1 DEF Streamed
  <2> QED
    BY <1>5, <2>1, <2>2, <2>3 DEF Hear
<1>6. CASE EndOfDay
  <2>1. CASE InactivateBegin \/ InactivateSnapshot \/ InactivateReturn
    BY <2>1, <1>k DEF InactivateBegin, InactivateSnapshot, InactivateReturn, wire
  <2>2. CASE InactivateEmit
    <3>1. caller.snapshot \subseteq Nat /\ (caller.half # <<>> => caller.half[1] \in Nat)
      BY DEF TypeInv, CallerType
    <3>2. ASSUME NEW id \in Nat
          PROVE  Inactivated(id) \in Messages /\ Inactivated(id).type \notin {"Accepted", "Replaced"}
      BY DEF Inactivated, Messages
    <3>3. \E c, id : id \in Nat /\ (WriteTo(c, Header(Inactivated(id)))
                                    \/ WriteTo(c, Body(Inactivated(id))))
      <4>1. PICK c \in Behind(caller.fd) :
                \/ \E id \in caller.snapshot : WriteTo(c, Header(Inactivated(id)))
                \/ caller.half # <<>> /\ WriteTo(c, Body(Inactivated(caller.half[1])))
        BY <2>2 DEF InactivateEmit
      <4> QED
        BY <3>1, <4>1
    <3> QED
      BY <1>m, <3>2, <3>3
  <2> QED
    BY <1>6, <2>1, <2>2 DEF EndOfDay, Inactivate
<1>7. CASE Gateway
  <2>1. CASE WorkerAccepts \/ WorkerLeaves \/ WorkerReleases \/ WorkerCloses \/ WorkerRests
    BY <2>1, <1>k DEF WorkerAccepts, WorkerLeaves, WorkerReleases, WorkerCloses, WorkerRests, wire
  <2>2. CASE WorkerLogin
    <3>1. \E type \in {"LoginAccepted", "LoginRejected"} :
              down' = down \/ WriteTo(worker.conn, Whole([type |-> type]))
      BY <2>2 DEF WorkerLogin
    <3>2. \A type \in {"LoginAccepted", "LoginRejected"} :
              /\ [type |-> type] \in Messages
              /\ [type |-> type].type \notin {"Accepted", "Replaced"}
      BY DEF Messages
    <3> QED
      BY <1>k, <1>m, <3>1, <3>2
  <2>3. CASE WorkerLogout \/ WorkerBeats
    <3>1. \E type \in {"EndOfSession", "Heartbeat"} : WriteTo(worker.conn, Whole([type |-> type]))
      BY <2>3 DEF WorkerLogout, WorkerBeats
    <3>2. \A type \in {"EndOfSession", "Heartbeat"} :
              /\ [type |-> type] \in Messages
              /\ [type |-> type].type \notin {"Accepted", "Replaced"}
      BY DEF Messages
    <3> QED
      BY <1>m, <3>1, <3>2
  <2>4. CASE Handlers
    BY <2>4, HandlersAnswer, <1>k DEF Answered
  <2>5. CASE WorkerSends
    <3>1. Head(worker.msgs) \in Messages
      BY <2>5 DEF WorkerSends, TypeInv, WorkerType
    <3>2. PICK s \in {Header(Head(worker.msgs)), Body(Head(worker.msgs))} :
              WriteTo(worker.conn, s) /\ worker.at = "send"
      BY <2>5 DEF WorkerSends
    <3> QED
      BY <3>1, <3>2, SegmentTypes, WriteStreams
  <2> QED
    BY <1>7, <2>1, <2>2, <2>3, <2>4, <2>5 DEF Gateway, Worker, Handlers
<1> QED
  BY <1>1, <1>2, <1>3, <1>4, <1>5, <1>6, <1>7 DEF Next, Stopped

-----------------------------------------------------------------------------
(* The types, continued *)

\* The worker goes to a place outside its handlers.
WorkerGoes ==
    \E place \in {"accept", "login", "loop", "closed", "done"}, c \in 0 .. MaxConn :
        /\ worker' = WorkerAt(place, c)
        /\ c <= conn /\ (place \in Serving => c > 0)

\* A write of send_sequenced(): the message stays until its second write, what will rest
\* stays until the last.
WorkerWrites ==
    /\ worker.at = "send"
    /\ worker' \in [at : {"send", "rest", "loop"}, conn : {worker.conn}, msgs : Seq(Messages),
                    half : BOOLEAN, locked : BOOLEAN, rest : {worker.rest}]
    /\ \/ worker'.msgs \in {worker.msgs, Tail(worker.msgs)} /\ worker'.msgs # <<>>
       \/ worker'.at # "send" /\ worker'.msgs = <<>>
    /\ worker'.at = "rest" => worker.rest # <<>>
    /\ worker'.at = "loop" => worker.rest = <<>>

\* Something is left behind the first of several messages.
LEMMA TailLeft ==
    ASSUME NEW S, NEW s \in Seq(S), Len(s) > 1
    PROVE  Tail(s) \in Seq(S) /\ Tail(s) # <<>>
<1> DEFINE t == Tail(s)
<1>1. t \in Seq(S) /\ Len(t) = Len(s) - 1 /\ Len(s) \in Nat
  OBVIOUS
<1> HIDE DEF t
<1>2. t # <<>>
  BY <1>1
<1> QED
  BY <1>1, <1>2 DEF t

\* Every step of the worker is one of these, or a handler up to its sends.
LEMMA WorkerEffect ==
    ASSUME TypeInv, [Next]_vars
    PROVE  UNCHANGED worker \/ WorkerGoes \/ WorkerWrites \/ Answered
<1>0. WorkerType /\ conn \in 0 .. MaxConn /\ MaxConn \in Nat
  BY WireAssumption DEF TypeInv, WireType
<1>w. /\ worker.conn \in 0 .. MaxConn /\ worker.conn <= conn
      /\ worker.at \in Serving => worker.conn > 0
  BY <1>0 DEF WorkerType
<1>1. CASE Calling \/ Canceling \/ Logout \/ Hear \/ LoginTimeout \/ Leave \/ Stop \/ StopJoined
             \/ UNCHANGED vars
  BY <1>1 DEF Calling, Canceling, Logout, Hear, HearWhole, HearSequenced, HearNoise,
              LoginTimeout, Leave, Stop, StopListening, StopJoined, vars, gatewayVars
<1>2. ASSUME NEW login, Reconnect(login) PROVE UNCHANGED worker
  BY <1>2 DEF Reconnect
<1>3. CASE EndOfDay
  BY <1>3 DEF EndOfDay, Inactivate, InactivateBegin, InactivateSnapshot, InactivateEmit,
              InactivateReturn
<1>4. CASE Gateway
  <2>1. CASE WorkerAccepts
    <3>1. worker' = WorkerAt("login", worker.conn + 1) /\ worker.conn < conn
      BY <2>1 DEF WorkerAccepts
    <3>2. worker.conn + 1 \in 0 .. MaxConn /\ worker.conn + 1 <= conn /\ worker.conn + 1 > 0
      BY <1>0, <1>w, <3>1
    <3> QED
      BY <3>1, <3>2 DEF WorkerGoes
  <2>2. CASE WorkerLeaves \/ WorkerReleases \/ WorkerLogout \/ WorkerCloses
    <3>1. \E place \in {"accept", "closed", "done"} : worker' = WorkerAt(place, worker.conn)
      BY <2>2 DEF WorkerLeaves, WorkerReleases, WorkerLogout, WorkerCloses
    <3> QED
      BY <1>w, <3>1 DEF WorkerGoes, Serving
  <2>3. CASE WorkerLogin \/ WorkerRests
    <3>1. worker' = WorkerAt("loop", worker.conn) /\ worker.at \in Serving
      BY <2>3 DEF WorkerLogin, WorkerRests, Serving
    <3> QED
      BY <1>w, <3>1 DEF WorkerGoes
  <2>4. CASE WorkerBeats
    BY <2>4 DEF WorkerBeats
  <2>5. CASE Handlers
    BY <2>5, HandlersAnswer
  <2>6. CASE WorkerSends
    <3>0. /\ worker.at = "send" /\ worker.msgs \in Seq(Messages) /\ worker.msgs # <<>>
          /\ worker.half \in BOOLEAN /\ worker.locked \in BOOLEAN
          /\ worker = [at |-> "send", conn |-> worker.conn, msgs |-> worker.msgs,
                       half |-> worker.half, locked |-> worker.locked, rest |-> worker.rest]
      BY <1>0, <2>6 DEF WorkerSends, WorkerType
    <3>1. CASE ~worker.half
      <4>1. worker' = [at |-> "send", conn |-> worker.conn, msgs |-> worker.msgs,
                       half |-> TRUE, locked |-> worker.locked, rest |-> worker.rest]
        BY <2>6, <3>0, <3>1 DEF WorkerSends
      <4> QED
        BY <3>0, <4>1 DEF WorkerWrites
    <3>2. CASE worker.half /\ Len(worker.msgs) > 1
      <4>1. worker' = [at |-> "send", conn |-> worker.conn, msgs |-> Tail(worker.msgs),
                       half |-> FALSE, locked |-> worker.locked, rest |-> worker.rest]
        BY <2>6, <3>0, <3>2 DEF WorkerSends
      <4>2. Tail(worker.msgs) \in Seq(Messages) /\ Tail(worker.msgs) # <<>>
        BY <3>0, <3>2, TailLeft
      <4> QED
        BY <3>0, <4>1, <4>2 DEF WorkerWrites
    <3>3. CASE worker.half /\ ~(Len(worker.msgs) > 1) /\ worker.rest # <<>>
      <4>1. worker' = [at |-> "rest", conn |-> worker.conn, msgs |-> <<>>,
                       half |-> FALSE, locked |-> FALSE, rest |-> worker.rest]
        BY <2>6, <3>0, <3>3 DEF WorkerSends, WorkerAt
      <4> QED
        BY <3>0, <3>3, <4>1 DEF WorkerWrites
    <3>4. CASE worker.half /\ ~(Len(worker.msgs) > 1) /\ worker.rest = <<>>
      <4>1. worker' = [at |-> "loop", conn |-> worker.conn, msgs |-> <<>>,
                       half |-> FALSE, locked |-> FALSE, rest |-> <<>>]
        BY <2>6, <3>0, <3>4 DEF WorkerSends, WorkerAt
      <4> QED
        BY <3>0, <3>4, <4>1 DEF WorkerWrites
    <3> QED
      BY <3>1, <3>2, <3>3, <3>4
  <2> QED
    BY <1>4, <2>1, <2>2, <2>3, <2>4, <2>5, <2>6 DEF Gateway, Worker, Handlers
<1> QED
  BY <1>1, <1>2, <1>3, <1>4 DEF Next, Stopped

\* The worker's own variables keep their type.
LEMMA WorkerTypeStep == ASSUME TypeInv, [Next]_vars PROVE WorkerType'
<1>0. /\ WorkerType /\ conn \in 0 .. MaxConn /\ MaxConn \in Nat
      /\ conn' \in 0 .. MaxConn /\ conn <= conn'
  BY WireAssumption, UpTypeStep, TokenEffect DEF TypeInv, WireType
<1>1. CASE UNCHANGED worker
  BY <1>0, <1>1 DEF WorkerType
<1>2. CASE WorkerGoes
  BY <1>0, <1>2 DEF WorkerGoes, WorkerAt, WorkerType, Serving
<1>3. CASE WorkerWrites
  BY <1>0, <1>3 DEF WorkerWrites, WorkerType, Serving
<1>4. CASE Answered
  BY <1>0, <1>4 DEF Answered, WorkerType, Serving
<1> QED
  BY <1>1, <1>2, <1>3, <1>4, WorkerEffect

\* A message about an order names a token and an id.
LEMMA MessageFields ==
    ASSUME NEW m \in Messages, m.type \in {"Accepted", "Replaced"}
    PROVE  m.token \in Token /\ m.id \in Nat
BY DEF Messages

\* on_accepted and on_replaced keep the id of the message at the front of the stream.
Told ==
    /\ down # <<>> /\ down[1].msg.type \in {"Accepted", "Replaced"}
    /\ heard' = [heard EXCEPT ![down[1].msg.token] = down[1].msg.id]

\* Nothing else changes the ids that the handlers were given.
LEMMA HeardEffect == ASSUME TypeInv, [Next]_vars PROVE heard' = heard \/ Told
<1>1. CASE HearSequenced
  <2>1. down \in Seq(Segments) /\ Len(down) > 1
    BY <1>1 DEF HearSequenced, TypeInv, WireType
  <2>2. down # <<>> /\ Head(down) = down[1]
    BY <2>1
  <2>3. Tells(down[1].msg)
    BY <1>1, <2>2 DEF HearSequenced
  <2> QED
    BY <2>2, <2>3 DEF Tells, Told
<1>2. CASE ~HearSequenced
  BY <1>2 DEF Next, Reconnect, LoginTimeout, Calling, Canceling, Logout, Hear, HearWhole,
              HearNoise, EndOfDay, Leave, Stop, StopJoined, Stopped, Gateway, vars, mainVars
<1> QED
  BY <1>1, <1>2

\* Handlers are given order ids, under tokens.
LEMMA HeardTypeStep == ASSUME TypeInv, [Next]_vars PROVE heard' \in [Token -> Nat]
<1>0. heard \in [Token -> Nat] /\ down \in Seq(Segments)
  BY DEF TypeInv, ClientType, WireType
<1>1. CASE Told
  <2>0. down[1] \in Segments
    BY <1>0, <1>1 DEF Told
  <2>1. down[1].msg \in Messages /\ down[1].msg.type \in {"Accepted", "Replaced"}
    BY <1>1, <2>0 DEF Told, Segments
  <2>2. down[1].msg.token \in Token /\ down[1].msg.id \in Nat
    BY <2>1, MessageFields
  <2> QED
    BY <1>0, <1>1, <2>2 DEF Told
<1> QED
  BY <1>0, <1>1, HeardEffect

\* What travels is a packet or a segment, whoever writes and whatever is lost.
LEMMA WireTypeStep == ASSUME TypeInv, [Next]_vars PROVE WireType'
<1>0. WireType
  BY DEF TypeInv
<1>1. conn' \in 0 .. MaxConn /\ conn <= conn' /\ up' \in [1 .. MaxConn -> Seq(Packets)]
  BY TokenEffect, UpTypeStep
<1>2. down' \in Seq(Segments)
  <2>1. down \in Seq(Segments)
    BY <1>0 DEF WireType
  <2>2. ASSUME NEW n \in 1 .. 2, n <= Len(down) PROVE SubSeq(down, n + 1, Len(down)) \in Seq(Segments)
    BY <2>1, <2>2
  <2>3. ASSUME NEW s \in Segments PROVE Append(down, s) \in Seq(Segments)
    BY <2>1
  <2>4. <<>> \in Seq(Segments)
    OBVIOUS
  <2> QED
    BY <2>1, <2>2, <2>3, <2>4, StreamEffect, Zenon DEF Streamed
<1>3. open' \in BOOLEAN /\ (open' => conn' > 0)
  <2>0. open \in BOOLEAN /\ (open => conn > 0) /\ conn \in Nat
    BY <1>0, WireAssumption DEF WireType
  <2>1. ASSUME NEW login, Reconnect(login) PROVE open' \in BOOLEAN /\ (open' => conn' > 0)
    <3>1. open' = TRUE /\ conn' = conn + 1
      BY <2>1 DEF Reconnect, Dial
    <3> QED
      BY <2>0, <3>1
  <2>2. CASE Leave
    BY <2>2 DEF Leave, HangUp
  <2>3. CASE open' = open
    BY <1>1, <2>0, <2>3, WireAssumption
  <2>4. CASE Gateway
    <3>1. open' = open
      BY <2>4 DEF Gateway, Worker, WorkerAccepts, WorkerLeaves, WorkerReleases, WorkerLogin,
                  WorkerCloses, WorkerLogout, WorkerBeats, EnterDuplicate, EnterOutsideLimits,
                  EnterAccepted, CancelOrder, CancelByOrderIdAnswered, ReplaceOrder,
                  MassQuoteAnswered, WorkerSends, WorkerRests, Handle, Consume, wire
    <3> QED
      BY <2>3, <3>1
  <2>5. CASE EndOfDay \/ Hear
    <3>1. open' = open
      BY <2>5 DEF EndOfDay, Inactivate, InactivateBegin, InactivateSnapshot, InactivateEmit,
                  InactivateReturn, Hear, HearWhole, HearSequenced, HearNoise, Drop, wire
    <3> QED
      BY <2>3, <3>1
  <2>6. CASE Calling \/ Canceling \/ Logout \/ LoginTimeout \/ Stop \/ StopJoined \/ UNCHANGED vars
    <3>1. open' = open
      BY <2>6 DEF Calling, Canceling, Logout, Place, Replace, MassQuote, CancelByToken,
                  CancelByOrderId, RequestLogout, Send, LoginTimeout, Stop, StopListening,
                  StopJoined, vars, wire
    <3> QED
      BY <2>3, <3>1
  <2> QED
    BY <2>0, <2>1, <2>2, <2>4, <2>5, <2>6 DEF Next, Stopped
<1> QED
  BY <1>1, <1>2, <1>3 DEF WireType

-----------------------------------------------------------------------------
(* What a step does to the books of the gateway *)

\* A step that no order's fate depends on.
BooksKept == UNCHANGED <<resting, rested, ended, orders>> /\ caller'.snapshot = caller.snapshot

\* Six operations of the two threads change what rests and what has ended.
LEMMA BooksEffect ==
    ASSUME TypeInv, [Next]_vars
    PROVE  \/ BooksKept
           \/ (EnterAccepted \/ CancelOrder \/ ReplaceOrder \/ WorkerRests) /\ UNCHANGED caller
           \/ InactivateSnapshot \/ InactivateEmit
<1>1. CASE Calling \/ Canceling \/ Logout \/ Hear \/ LoginTimeout \/ Leave \/ Stop \/ StopJoined
             \/ UNCHANGED vars
  BY <1>1 DEF Calling, Canceling, Logout, Hear, HearWhole, HearSequenced, HearNoise,
              LoginTimeout, Leave, Stop, StopListening, StopJoined, vars, gatewayVars, books,
              BooksKept
<1>2. ASSUME NEW login, Reconnect(login) PROVE BooksKept
  BY <1>2 DEF Reconnect, BooksKept, books
<1>3. CASE EndOfDay
  <2>1. CASE InactivateBegin \/ InactivateReturn
    <3>1. caller.snapshot = {} /\ UNCHANGED books
      BY <2>1 DEF InactivateBegin, InactivateReturn, TypeInv, CallerType
    <3>2. \E place, n : caller' = [at |-> place, fd |-> n, snapshot |-> {}, half |-> <<>>]
      BY <2>1, Zenon DEF InactivateBegin, InactivateReturn, Outside
    <3>3. caller'.snapshot = {}
      BY <3>2
    <3> QED
      BY <3>1, <3>3 DEF BooksKept, books
  <2> QED
    BY <1>3, <2>1 DEF EndOfDay, Inactivate
<1>4. CASE Gateway
  <2>1. UNCHANGED caller
    BY <1>4 DEF Gateway, Worker, WorkerAccepts, WorkerLeaves, WorkerReleases, WorkerLogin,
                WorkerCloses, WorkerLogout, WorkerBeats, EnterDuplicate, EnterOutsideLimits,
                EnterAccepted, CancelOrder, CancelByOrderIdAnswered, ReplaceOrder,
                MassQuoteAnswered, WorkerSends, WorkerRests, Handle
  <2>2. CASE ~(EnterAccepted \/ CancelOrder \/ ReplaceOrder \/ WorkerRests)
    BY <1>4, <2>1, <2>2
       DEF Gateway, Worker, WorkerAccepts, WorkerLeaves, WorkerReleases, WorkerLogin,
           WorkerCloses, WorkerLogout, WorkerBeats, EnterDuplicate, EnterOutsideLimits,
           CancelByOrderIdAnswered, MassQuoteAnswered, WorkerSends, books, BooksKept
  <2> QED
    BY <2>1, <2>2
<1> QED
  BY <1>1, <1>2, <1>3, <1>4 DEF Next, Stopped

\* The thread in inactivate_all_resting() and the descriptor it loads.
LEMMA CallerTypeStep == ASSUME TypeInv, [Next]_vars PROVE CallerType'
<1>0. /\ caller \in [at : {"outside", "lock", "emit"}, fd : Nat, snapshot : SUBSET Nat, half : Seq(Nat)]
      /\ caller.at # "emit" => caller.snapshot = {}
      /\ fd \in Nat
  BY DEF TypeInv, CallerType
<1>1. CASE UNCHANGED <<caller, fd>>
  BY <1>0, <1>1 DEF CallerType
<1>2. CASE UNCHANGED caller /\ fd' \in Nat
  BY <1>0, <1>2 DEF CallerType
<1>3. CASE EndOfDay
  <2>1. CASE InactivateBegin
    <3>1. caller' = [at |-> "lock", fd |-> fd, snapshot |-> {}, half |-> <<>>] /\ fd' = fd
      BY <2>1, Zenon DEF InactivateBegin, Outside
    <3> QED
      BY <1>0, <3>1 DEF CallerType
  <2>2. CASE InactivateReturn
    BY <1>0, <2>2 DEF InactivateReturn, Outside, CallerType
  <2>3. CASE InactivateSnapshot
    <3>1. {resting[t] : t \in Token} \ {0} \subseteq Nat
      BY DEF TypeInv, BooksType
    <3>2. PICK all \in SUBSET Nat :
              caller' = [caller EXCEPT !.at = "emit", !.snapshot = all] /\ fd' = fd
      BY <2>3, <3>1, Zenon DEF InactivateSnapshot
    <3> QED
      BY <1>0, <3>1, <3>2 DEF CallerType
  <2>4. CASE InactivateEmit
    <3>1. caller.at = "emit" /\ fd' = fd
      BY <2>4 DEF InactivateEmit
    <3>2. ASSUME NEW id \in caller.snapshot,
                 caller' = [caller EXCEPT !.half = <<id>>, !.snapshot = caller.snapshot \ {id}]
          PROVE  CallerType'
      <4>1. id \in Nat /\ <<id>> \in Seq(Nat)
        BY <1>0
      <4> QED
        BY <1>0, <3>1, <3>2, <4>1 DEF CallerType
    <3>3. CASE caller' = [caller EXCEPT !.half = <<>>]
      <4>1. <<>> \in Seq(Nat)
        OBVIOUS
      <4>2. PICK e \in Seq(Nat) : caller' = [caller EXCEPT !.half = e]
        BY <3>3, <4>1, Zenon
      <4> QED
        BY <1>0, <3>1, <4>2 DEF CallerType
    <3> QED
      BY <2>4, <3>2, <3>3 DEF InactivateEmit
  <2> QED
    BY <1>3, <2>1, <2>2, <2>3, <2>4 DEF EndOfDay, Inactivate
<1>4. CASE Gateway
  <2>1. CASE WorkerAccepts
    <3>1. fd' = worker.conn + 1 /\ worker.conn \in Nat /\ caller' = caller
      BY <2>1, WireAssumption DEF WorkerAccepts, TypeInv, WorkerType
    <3> QED
      BY <1>2, <3>1
  <2>2. CASE WorkerReleases
    BY <1>2, <2>2 DEF WorkerReleases
  <2>3. CASE Handlers
    BY <1>1, <2>3, HandlersAnswer DEF Answered
  <2>4. CASE WorkerLeaves \/ WorkerLogin \/ WorkerCloses \/ WorkerLogout \/ WorkerBeats
               \/ WorkerSends \/ WorkerRests
    BY <1>1, <2>4 DEF WorkerLeaves, WorkerLogin, WorkerCloses, WorkerLogout, WorkerBeats,
                      WorkerSends, WorkerRests
  <2> QED
    BY <1>4, <2>1, <2>2, <2>3, <2>4 DEF Gateway, Worker, Handlers
<1>5. CASE Calling \/ Canceling \/ Logout \/ Hear \/ LoginTimeout \/ Leave \/ Stop \/ StopJoined
             \/ UNCHANGED vars
  BY <1>1, <1>5 DEF Calling, Canceling, Logout, Hear, HearWhole, HearSequenced, HearNoise,
                    LoginTimeout, Leave, Stop, StopListening, StopJoined, vars, gatewayVars
<1>6. ASSUME NEW login, Reconnect(login) PROVE CallerType'
  BY <1>1, <1>6 DEF Reconnect
<1> QED
  BY <1>3, <1>4, <1>5, <1>6 DEF Next, Stopped

\* The gateway's books and their history.
LEMMA BooksTypeStep == ASSUME TypeInv, [Next]_vars PROVE BooksType'
<1>0. /\ resting \in [Token -> Nat] /\ orders \in Seq(Order) /\ orders' \in Seq(Order)
      /\ Len(orders) \in Nat /\ rested \in SUBSET Nat /\ ended \in Seq(Nat)
  BY OrdersGrow, TokenEffect DEF TypeInv, BooksType
<1>e. ASSUME NEW t \in Token PROVE End(t) \in Seq(Nat) /\ Erase(t) \in [Token -> Nat]
  BY <1>0 DEF End, Erase
<1>1. CASE BooksKept
  BY <1>0, <1>1 DEF BooksKept, BooksType
<1>2. CASE EnterAccepted
  BY <1>0, <1>2 DEF EnterAccepted, BooksType
<1>3. CASE CancelOrder
  <2>1. Packet.token \in Token
    BY <1>3, PacketIsOne, PacketFields DEF CancelOrder, Handle, TypeInv
  <2> QED
    BY <1>0, <1>e, <1>3, <2>1 DEF CancelOrder, BooksType
<1>4. CASE ReplaceOrder
  <2>1. Packet.token \in Token /\ Packet.existing \in Token /\ NextId \in Nat
    BY <1>0, <1>4, PacketIsOne, PacketFields DEF ReplaceOrder, Handle, TypeInv, NextId
  <2>2. Erase(Packet.existing) \in [Token -> Nat] /\ End(Packet.existing) \in Seq(Nat)
    BY <1>e, <2>1
  <2> QED
    BY <1>0, <1>4, <2>1, <2>2 DEF ReplaceOrder, BooksType
<1>5. CASE WorkerRests
  <2>1. worker.rest \in Token \X Nat
    BY <1>5 DEF WorkerRests, TypeInv, WorkerType
  <2> QED
    BY <1>0, <1>5, <2>1 DEF WorkerRests, BooksType
<1>6. CASE InactivateSnapshot
  BY <1>0, <1>6 DEF InactivateSnapshot, BooksType
<1>7. CASE InactivateEmit
  <2>1. caller.snapshot \subseteq Nat
    BY DEF TypeInv, CallerType
  <2>2. ended' = ended \/ \E id \in caller.snapshot : ended' = Append(ended, id)
    BY <1>7 DEF InactivateEmit
  <2>3. ended' \in Seq(Nat)
    <3>1. ASSUME NEW id \in caller.snapshot PROVE Append(ended, id) \in Seq(Nat)
      BY <1>0, <2>1
    <3> QED
      BY <1>0, <2>2, <3>1, Zenon
  <2> QED
    BY <1>0, <1>7, <2>3 DEF InactivateEmit, BooksType
<1> QED
  BY <1>1, <1>2, <1>3, <1>4, <1>5, <1>6, <1>7, BooksEffect

\* The program begins without connections, calls and orders (run_one_scenario).
LEMMA TypeInit == ASSUME Init PROVE TypeInv
<1> USE WireAssumption
<1>1. WorkerType /\ CallerType
  BY DEF Init, WireInit, GatewayInit, WorkerAt, Outside, WorkerType, CallerType, Serving
<1>2. WireType
  <2>1. conn = 0 /\ open = FALSE /\ up = [c \in 1 .. MaxConn |-> <<>>] /\ down = <<>>
    BY DEF Init, WireInit
  <2>2. conn \in 0 .. MaxConn
    BY <2>1
  <2>3. up \in [1 .. MaxConn -> Seq(Packets)] /\ down \in Seq(Segments)
    BY <2>1
  <2>4. open \in BOOLEAN /\ ~open
    BY <2>1, Zenon
  <2> QED
    BY <2>2, <2>3, <2>4, Zenon DEF WireType
<1>3. ClientType /\ BooksType
  BY DEF Init, ClientInit, GatewayInit, ClientType, BooksType
<1> QED
  BY <1>1, <1>2, <1>3 DEF TypeInv

\* No call, handler, pass or shutdown leaves the types.
LEMMA TypeStep == ASSUME TypeInv, [Next]_vars PROVE TypeInv'
BY WorkerTypeStep, CallerTypeStep, WireTypeStep, HeardTypeStep, ClientTypeStep, BooksTypeStep
   DEF TypeInv

-----------------------------------------------------------------------------
(* Where the orders on the wire come from *)

\* A packet of an order that is on its way after a dial or a kept wire was there before.
LEMMA WireKept ==
    ASSUME TypeInv, UpKept \/ UpDialed,
           NEW c \in 1 .. MaxConn, NEW i \in 1 .. Len(up'[c]), IsOrder(up'[c][i])
    PROVE  i \in 1 .. Len(up[c]) /\ up'[c][i] = up[c][i]
<1>0. up \in [1 .. MaxConn -> Seq(Packets)] /\ conn \in 0 .. MaxConn /\ MaxConn \in Nat
  BY WireAssumption DEF TypeInv, WireType
<1>1. CASE UpKept
  BY <1>1 DEF UpKept
<1>2. CASE UpDialed
  <2>1. PICK first \in Packets, survives \in BOOLEAN :
            /\ ~IsOrder(first)
            /\ up' = [d \in 1 .. MaxConn |->
                        IF d = conn + 1 THEN <<first>>
                        ELSE IF d = conn /\ ~survives THEN <<>> ELSE up[d]]
    BY <1>2 DEF UpDialed
  <2>2. up'[c] = <<first>> \/ up'[c] = <<>> \/ up'[c] = up[c]
    BY <2>1
  <2>3. up'[c] # <<>>
    <3>1. up'[c] = <<>> => Len(up'[c]) = 0
      OBVIOUS
    <3> QED
      BY <3>1
  <2>4. up'[c] = <<first>> => up'[c][i] = first
    <3>1. ASSUME up'[c] = <<first>> PROVE i \in 1 .. 1
      <4>1. Len(<<first>>) = 1
        OBVIOUS
      <4> QED
        BY <3>1, <4>1
    <3> QED
      BY <3>1
  <2> QED
    BY <2>1, <2>2, <2>3, <2>4
<1> QED
  BY <1>1, <1>2

\* After a send it was there before, or is the last of its connection and the one sent.
LEMMA WireSent ==
    ASSUME TypeInv, NEW p \in Packets, UpSent(p),
           NEW c \in 1 .. MaxConn, NEW i \in 1 .. Len(up'[c])
    PROVE  \/ i \in 1 .. Len(up[c]) /\ up'[c][i] = up[c][i]
           \/ c = conn /\ i = Len(up[c]) + 1 /\ up'[c][i] = p
<1>0. up \in [1 .. MaxConn -> Seq(Packets)] /\ conn \in 1 .. MaxConn
  BY WireAssumption DEF TypeInv, WireType, UpSent
<1>1. up' = [up EXCEPT ![conn] = Append(up[conn], p)]
  BY DEF UpSent
<1>2. CASE c # conn
  BY <1>0, <1>1, <1>2
<1>3. CASE c = conn
  <2>1. up[c] \in Seq(Packets) /\ up'[c] = Append(up[c], p)
    BY <1>0, <1>1, <1>3
  <2> QED
    BY <1>3, <2>1
<1> QED
  BY <1>2, <1>3

\* After a recv() it was there before, one place further back on the connection read.
LEMMA WireRead ==
    ASSUME TypeInv, UpRead, NEW c \in 1 .. MaxConn, NEW i \in 1 .. Len(up'[c])
    PROVE  /\ c # worker.conn => i \in 1 .. Len(up[c]) /\ up'[c][i] = up[c][i]
           /\ c = worker.conn => i + 1 \in 1 .. Len(up[c]) /\ up'[c][i] = up[c][i + 1]
<1>0. up \in [1 .. MaxConn -> Seq(Packets)]
  BY DEF TypeInv, WireType
<1>1. up' = [up EXCEPT ![worker.conn] = Tail(up[worker.conn])] /\ Readable
  BY DEF UpRead
<1>2. CASE c # worker.conn
  BY <1>0, <1>1, <1>2
<1>3. CASE c = worker.conn
  <2>1. up'[c] = Tail(up[c])
    BY <1>0, <1>1, <1>3
  <2> QED
    BY <1>1, <1>3, <2>1, PacketIsOne DEF TypeInv
<1> QED
  BY <1>2, <1>3

\* What Packet is, as a place on the wire.
LEMMA PacketPlace ==
    ASSUME TypeInv, UpRead
    PROVE  worker.conn \in 1 .. MaxConn /\ 1 \in 1 .. Len(up[worker.conn])
           /\ Packet = up[worker.conn][1] /\ Packet \in Packets
<1>1. Readable
  BY DEF UpRead
<1>2. up[worker.conn] \in Seq(Packets) /\ up[worker.conn] # <<>>
  BY <1>1, PacketIsOne DEF TypeInv
<1>3. 1 \in 1 .. Len(up[worker.conn])
  BY <1>2
<1> QED
  BY <1>1, <1>3, PacketIsOne DEF TypeInv

\* The gateway's orders have tokens.
LEMMA OrderTokens ==
    ASSUME TypeInv
    PROVE  /\ orders \in Seq(Order) /\ Len(orders) \in Nat
           /\ \A n \in 1 .. Len(orders) : orders[n].token \in Token
<1>1. orders \in Seq(Order)
  BY DEF TypeInv, BooksType
<1>2. ASSUME NEW n \in 1 .. Len(orders) PROVE orders[n].token \in Token
  <2>1. orders[n] \in Order
    BY <1>1
  <2> QED
    BY <2>1 DEF Order
<1> QED
  BY <1>1, <1>2

-----------------------------------------------------------------------------
(* Orders are known to the client *)

\* A new gateway has no orders.
LEMMA KnownInit == ASSUME Init PROVE KnownInv
<1>1. orders = <<>> /\ up = [c \in 1 .. MaxConn |-> <<>>]
  BY DEF Init, WireInit, GatewayInit
<1> QED
  BY <1>1 DEF KnownInv, OrdersAreKnown

\* A call writes the registry and the book before it sends; the gateway makes orders of
\* what was sent (place() and replace() in client.hpp).
LEMMA KnownStep == ASSUME TypeInv, KnownInv, [Next]_vars PROVE KnownInv'
<1>0. /\ up \in [1 .. MaxConn -> Seq(Packets)] /\ seen \subseteq Token
      /\ orders \in Seq(Order) /\ Len(orders) \in Nat
      /\ \A n \in 1 .. Len(orders) : orders[n].token \in Token
  BY OrderTokens DEF TypeInv, WireType, ClientType
<1>g. /\ orders' \in Seq(Order) /\ Len(orders) <= Len(orders')
      /\ \A n \in 1 .. Len(orders) : orders'[n] = orders[n]
  BY OrdersGrow, TokenEffect
<1>m. Announced \subseteq Announced' /\ \A t \in Token : book[t] # "absent" => book'[t] # "absent"
  <2>1. CASE Idle
    BY <2>1 DEF Idle, BookGrows, Announced
  <2>2. ASSUME NEW tok \in Token, Named(tok)
        PROVE  Announced \subseteq Announced' /\ \A t \in Token : book[t] # "absent" => book'[t] # "absent"
    BY <2>2 DEF Named, BookGrows, Choose, Allocate, RegisterExternal, Announced
  <2>3. CASE Ordered
    BY <2>3 DEF Ordered, Announced
  <2> QED
    BY <2>1, <2>2, <2>3, TokenEffect
<1>w. ASSUME NEW c \in 1 .. MaxConn, NEW j \in 1 .. Len(up[c])
      PROVE  /\ IsOrder(up[c][j]) => up[c][j].token \in Announced'
             /\ up[c][j].type = "Enter" => book'[up[c][j].token] # "absent"
  <2>1. up[c][j] \in Packets
    BY <1>0
  <2>2. up[c][j].type = "Enter" => up[c][j].token \in Token
    BY <2>1, PacketFields
  <2> QED
    BY <1>m, <2>2 DEF KnownInv
<1>1. ASSUME NEW c \in 1 .. MaxConn, NEW i \in 1 .. Len(up'[c])
      PROVE  /\ IsOrder(up'[c][i]) => up'[c][i].token \in Announced'
             /\ up'[c][i].type = "Enter" => book'[up'[c][i].token] # "absent"
  <2>i. up'[c][i].type = "Enter" => IsOrder(up'[c][i])
    BY DEF IsOrder
  <2>1. CASE UpKept \/ UpDialed
    BY <1>w, <2>i, <2>1, WireKept
  <2>2. CASE UpRead
    <3>1. PICK j \in 1 .. Len(up[c]) : up'[c][i] = up[c][j]
      <4>1. CASE c = worker.conn
        BY <2>2, <4>1, WireRead
      <4>2. CASE c # worker.conn
        BY <2>2, <4>2, WireRead
      <4> QED
        BY <4>1, <4>2
    <3> QED
      BY <1>w, <3>1
  <2>3. ASSUME NEW p \in Packets, ~IsOrder(p), UpSent(p)
        PROVE  /\ IsOrder(up'[c][i]) => up'[c][i].token \in Announced'
               /\ up'[c][i].type = "Enter" => book'[up'[c][i].token] # "absent"
    BY <1>w, <2>i, <2>3, WireSent
  <2>4. ASSUME NEW tok \in Token, NEW p \in Packets, Named(tok), UpSent(p),
               IsOrder(p) => p.token = OnWire(tok),
               p.type = "Enter" => book'[OnWire(tok)] # "absent"
        PROVE  /\ IsOrder(up'[c][i]) => up'[c][i].token \in Announced'
               /\ up'[c][i].type = "Enter" => book'[up'[c][i].token] # "absent"
    <3>1. OnWire(tok) \in Announced'
      BY <2>4 DEF Named, Choose, Allocate, RegisterExternal, Announced
    <3> QED
      BY <1>w, <2>i, <2>4, <3>1, WireSent
  <2> QED
    BY <2>1, <2>2, <2>3, <2>4, TokenEffect DEF Idle, Named, Ordered
<1>2. OrdersAreKnown'
  <2>1. ASSUME NEW n \in 1 .. Len(orders)
        PROVE  /\ orders'[n].token \in Announced'
               /\ orders'[n].kind # "replacement" => book'[orders'[n].token] # "absent"
    BY <1>0, <1>g, <1>m DEF KnownInv, OrdersAreKnown
  <2>2. CASE UNCHANGED orders
    BY <2>1, <2>2 DEF OrdersAreKnown
  <2>3. CASE Ordered
    <3>1. PICK k \in Kinds \cup {"replacement"} :
              /\ orders' = Append(orders, [token |-> Packet.token, kind |-> k])
              /\ k # "replacement" => Packet.type = "Enter"
      BY <2>3 DEF Ordered
    <3>2. /\ Packet.token \in Announced'
          /\ k # "replacement" => book'[Packet.token] # "absent"
      BY <1>w, <2>3, <3>1, PacketPlace DEF Ordered
    <3>3. /\ Len(orders') = Len(orders) + 1
          /\ orders'[Len(orders) + 1] = [token |-> Packet.token, kind |-> k]
      BY <1>0, <3>1
    <3>4. ASSUME NEW n \in 1 .. Len(orders')
          PROVE  /\ orders'[n].token \in Announced'
                 /\ orders'[n].kind # "replacement" => book'[orders'[n].token] # "absent"
      <4>1. CASE n \in 1 .. Len(orders)
        BY <2>1, <4>1
      <4>2. CASE n = Len(orders) + 1
        BY <3>2, <3>3, <4>2
      <4> QED
        BY <1>0, <3>3, <4>1, <4>2
    <3> QED
      BY <3>4 DEF OrdersAreKnown
  <2> QED
    BY <2>2, <2>3, TokenEffect DEF Idle, Named
<1> QED
  BY <1>1, <1>2 DEF KnownInv

\* Every order of the gateway was announced to the local registry, and those entered by
\* place() also to the local book, before it existed: over any number of connections,
\* failed sends and replacements.
THEOREM OrdersAreKnownHolds == Spec => []OrdersAreKnown
<1>1. Init => TypeInv /\ KnownInv
  BY TypeInit, KnownInit
<1>2. (TypeInv /\ KnownInv) /\ [Next]_vars => (TypeInv /\ KnownInv)'
  BY TypeStep, KnownStep
<1>3. KnownInv => OrdersAreKnown
  BY DEF KnownInv
<1> QED
  BY <1>1, <1>2, <1>3, PTL DEF Spec

-----------------------------------------------------------------------------
(* The handlers are told the truth about order ids *)

\* Before the first answer no handler was called.
LEMMA HeardInit == ASSUME Init PROVE HeardInv
<1>1. worker.msgs = <<>> /\ down = <<>> /\ heard = [t \in Token |-> 0]
  BY DEF Init, WireInit, GatewayInit, WorkerAt
<1> QED
  BY <1>1 DEF HeardInv, HeardIsRight

\* What is on its way to the client is true of the orders of the gateway and stays so,
\* since an order id is never given to another order.
LEMMA HeardStep == ASSUME TypeInv, HeardInv, [Next]_vars PROVE HeardInv'
<1>0. /\ down \in Seq(Segments) /\ worker.msgs \in Seq(Messages)
      /\ heard \in [Token -> Nat]
  BY DEF TypeInv, WireType, WorkerType, ClientType
<1>g. /\ Len(orders) \in Nat /\ Len(orders') \in Nat /\ Len(orders) <= Len(orders')
      /\ \A n \in 1 .. Len(orders) : orders'[n] = orders[n]
  BY OrdersGrow, TokenEffect
<1>m. ASSUME NEW m, Truthful(m, orders) PROVE Truthful(m, orders')
  BY <1>g, <1>m DEF Truthful
<1>1. \A i \in 1 .. Len(worker'.msgs) : Truthful(worker'.msgs[i], orders')
  <2>1. CASE worker'.msgs = worker.msgs
    BY <1>m, <2>1 DEF HeardInv
  <2>2. CASE worker'.msgs = <<>>
    BY <2>2
  <2>3. CASE worker.msgs # <<>> /\ worker'.msgs = Tail(worker.msgs)
    <3>1. /\ Len(worker'.msgs) = Len(worker.msgs) - 1 /\ Len(worker.msgs) \in Nat
          /\ \A i \in 1 .. Len(worker'.msgs) : worker'.msgs[i] = worker.msgs[i + 1]
      BY <1>0, <2>3
    <3>2. ASSUME NEW i \in 1 .. Len(worker'.msgs)
          PROVE  Truthful(worker'.msgs[i], orders')
      <4>1. i + 1 \in 1 .. Len(worker.msgs)
        BY <3>1
      <4> QED
        BY <1>m, <3>1, <4>1 DEF HeardInv
    <3> QED
      BY <3>2
  <2>4. CASE Answered
    BY <2>4 DEF Answered
  <2>5. CASE WorkerGoes
    BY <2>2, <2>5 DEF WorkerGoes, WorkerAt
  <2>6. CASE WorkerWrites
    <3>1. worker.msgs # <<>>
      BY <2>6 DEF WorkerWrites, TypeInv, WorkerType
    <3>2. worker'.msgs = worker.msgs \/ worker'.msgs = Tail(worker.msgs) \/ worker'.msgs = <<>>
      BY <2>6 DEF WorkerWrites
    <3> QED
      BY <2>1, <2>2, <2>3, <3>1, <3>2
  <2> QED
    BY <2>1, <2>4, <2>5, <2>6, WorkerEffect
<1>2. \A i \in 1 .. Len(down') : Truthful(down'[i].msg, orders')
  <2>1. \A i \in 1 .. Len(down) : Truthful(down[i].msg, orders')
    BY <1>m DEF HeardInv
  <2>2. CASE down' = down
    BY <2>1, <2>2
  <2>3. CASE down' = <<>>
    BY <2>3
  <2>4. ASSUME NEW n \in 1 .. 2, n <= Len(down), down' = SubSeq(down, n + 1, Len(down))
        PROVE  \A i \in 1 .. Len(down') : Truthful(down'[i].msg, orders')
    <3>1. /\ Len(down) \in Nat /\ Len(down') = Len(down) - n
          /\ \A i \in 1 .. Len(down') : down'[i] = down[i + n]
      BY <1>0, <2>4
    <3>2. ASSUME NEW i \in 1 .. Len(down') PROVE Truthful(down'[i].msg, orders')
      <4>1. i + n \in 1 .. Len(down) /\ down'[i] = down[i + n]
        BY <3>1
      <4> QED
        BY <2>1, <4>1
    <3> QED
      BY <3>2
  <2>5. ASSUME NEW s \in Segments, down' = Append(down, s),
               s.msg.type \in {"Accepted", "Replaced"} =>
                   worker.at = "send" /\ s.msg = Head(worker.msgs)
        PROVE  \A i \in 1 .. Len(down') : Truthful(down'[i].msg, orders')
    <3>1. Truthful(s.msg, orders')
      <4>1. ASSUME s.msg.type \in {"Accepted", "Replaced"}
            PROVE  1 \in 1 .. Len(worker.msgs) /\ s.msg = worker.msgs[1]
        <5>1. worker.msgs # <<>> /\ s.msg = Head(worker.msgs)
          BY <2>5, <4>1 DEF TypeInv, WorkerType
        <5> QED
          BY <1>0, <5>1
      <4>2. CASE s.msg.type \in {"Accepted", "Replaced"}
        BY <1>m, <4>1, <4>2 DEF HeardInv
      <4>3. CASE s.msg.type \notin {"Accepted", "Replaced"}
        BY <4>3 DEF Truthful
      <4> QED
        BY <4>2, <4>3
    <3>2. /\ Len(down) \in Nat /\ Len(down') = Len(down) + 1 /\ down'[Len(down) + 1] = s
          /\ \A i \in 1 .. Len(down) : down'[i] = down[i]
      BY <1>0, <2>5
    <3>3. ASSUME NEW i \in 1 .. Len(down') PROVE Truthful(down'[i].msg, orders')
      <4>1. CASE i \in 1 .. Len(down)
        BY <2>1, <3>2, <4>1
      <4>2. CASE i = Len(down) + 1
        BY <3>1, <3>2, <4>2
      <4> QED
        BY <3>2, <4>1, <4>2
    <3> QED
      BY <3>3
  <2> QED
    BY <2>2, <2>3, <2>4, <2>5, StreamEffect DEF Streamed
<1>3. HeardIsRight'
  <2>1. CASE heard' = heard
    BY <1>g, <2>1 DEF HeardInv, HeardIsRight
  <2>2. CASE Told
    <3> DEFINE m == down[1].msg
    <3>1. down # <<>> /\ m.type \in {"Accepted", "Replaced"}
          /\ heard' = [heard EXCEPT ![m.token] = m.id]
      BY <2>2 DEF Told
    <3>2. 1 \in 1 .. Len(down) /\ down[1] \in Segments
      BY <1>0, <3>1
    <3>3. m.token \in Token /\ m.id \in Nat
      BY <3>1, <3>2, MessageFields DEF Segments
    <3>4. m.id \in 1 .. Len(orders) /\ orders[m.id].token = m.token
      BY <3>1, <3>2 DEF HeardInv, Truthful
    <3> HIDE DEF m
    <3>5. ASSUME NEW t \in Token, heard'[t] # 0
          PROVE  heard'[t] \in 1 .. Len(orders') /\ orders'[heard'[t]].token = t
      <4>1. CASE t = m.token
        BY <1>0, <1>g, <3>1, <3>3, <3>4, <4>1
      <4>2. CASE t # m.token
        BY <1>0, <1>g, <3>1, <3>3, <3>5, <4>2 DEF HeardInv, HeardIsRight
      <4> QED
        BY <4>1, <4>2
    <3> QED
      BY <3>5 DEF HeardIsRight
  <2> QED
    BY <2>1, <2>2, HeardEffect
<1> QED
  BY <1>1, <1>2, <1>3 DEF HeardInv

\* The order id a handler was given for a token is that of an order of this token:
\* whatever is lost, overtaken or garbled, cancel_by_order_id never names another order.
THEOREM HeardIsRightHolds == Spec => []HeardIsRight
<1>1. Init => TypeInv /\ HeardInv
  BY TypeInit, HeardInit
<1>2. (TypeInv /\ HeardInv) /\ [Next]_vars => (TypeInv /\ HeardInv)'
  BY TypeStep, HeardStep
<1>3. HeardInv => HeardIsRight
  BY DEF HeardInv
<1> QED
  BY <1>1, <1>2, <1>3, PTL DEF Spec

-----------------------------------------------------------------------------
(* No two orders have one token *)

\* Pinned tokens are not of the form that TokenRegistry allocates, and the first 14 bytes
\* tell them from each other and from those.  allocate() does not look at seen_
\* (token_registry.hpp:33) and register_external() keeps what the message cuts off
\* (types.hpp:182-189): without this a token goes out twice.
PinnedApart ==
    /\ Explicit \cap Nat = {}
    /\ \A t \in Explicit : OnWire(t) \notin Nat
    /\ \A s, t \in Explicit : OnWire(s) = OnWire(t) => s = t

\* A new registry has given out no token.
LEMMA FreshInit == ASSUME Init PROVE FreshInv
<1>1. orders = <<>> /\ up = [c \in 1 .. MaxConn |-> <<>>] /\ seen = {}
  BY DEF Init, WireInit, GatewayInit, ClientInit
<1>2. \A c \in 1 .. MaxConn : Len(up[c]) = 0
  BY <1>1
<1> QED
  BY <1>1, <1>2 DEF FreshInv, TokenOnce

\* Both ways to choose a token give one that was never chosen before.
LEMMA ChosenIsNew ==
    ASSUME PinnedApart, TypeInv, FreshInv, NEW tok \in Token, Named(tok)
    PROVE  /\ OnWire(tok) \notin Announced
           /\ seen' \subseteq Explicit \cup 1 .. sequence'
<1>0. sequence \in Nat /\ seen \subseteq Explicit \cup 1 .. sequence
  BY DEF TypeInv, ClientType, FreshInv
<1>a. ASSUME NEW s \in Explicit \cup 1 .. sequence, tok \in Explicit \/ tok \in Nat,
             OnWire(s) = OnWire(tok)
      PROVE  s = tok
  <2>1. \A n \in Nat : OnWire(n) = n
    BY TokenAssumption DEF PinnedApart, OnWire
  <2>2. s \in Explicit \/ s \in Nat
    BY <1>0
  <2> HIDE DEF OnWire
  <2> QED
    BY <1>a, <2>1, <2>2 DEF PinnedApart
<1>b. ASSUME tok \notin seen, tok \in Explicit \/ tok \in Nat
      PROVE  OnWire(tok) \notin Announced
  BY <1>0, <1>a, <1>b DEF Announced
<1>1. CASE Allocate(tok)
  <2>1. tok = sequence + 1 /\ sequence' = tok /\ seen' = seen \cup {tok}
    BY <1>1 DEF Allocate
  <2>2. tok \in Nat /\ tok \notin 1 .. sequence /\ tok \notin Explicit
    BY <1>0, <2>1 DEF PinnedApart
  <2> QED
    BY <1>0, <1>b, <2>1, <2>2
<1>2. CASE RegisterExternal(tok)
  BY <1>0, <1>2, <1>b DEF RegisterExternal
<1> QED
  BY <1>1, <1>2 DEF Named, Choose

\* The token of an order on the wire is nobody else's (register_external() and
\* allocate() in token_registry.hpp, over dials, lost packets and reads).
LEMMA FreshStep ==
    ASSUME PinnedApart, TypeInv, KnownInv, FreshInv, [Next]_vars
    PROVE  FreshInv'
<1> DEFINE Unused(c, i) == \A n \in 1 .. Len(orders) : orders[n].token # up[c][i].token
           Apart(c, i, d, j) ==
             IsOrder(up[c][i]) /\ IsOrder(up[d][j]) /\ up[d][j].token = up[c][i].token
                => c = d /\ i = j
           Goal(c, i) ==
             /\ \A n \in 1 .. Len(orders') : orders'[n].token # up'[c][i].token
             /\ \A d \in 1 .. MaxConn : \A j \in 1 .. Len(up'[d]) :
                   IsOrder(up'[d][j]) /\ up'[d][j].token = up'[c][i].token => c = d /\ i = j
<1>f. ASSUME NEW c \in 1 .. MaxConn, NEW i \in 1 .. Len(up[c]), IsOrder(up[c][i])
      PROVE  Unused(c, i) /\ up[c][i].token \in Announced
  BY <1>f DEF FreshInv, KnownInv
<1>p. ASSUME NEW c \in 1 .. MaxConn, NEW i \in 1 .. Len(up[c]),
             NEW d \in 1 .. MaxConn, NEW j \in 1 .. Len(up[d])
      PROVE  Apart(c, i, d, j)
  BY DEF FreshInv
<1>o. /\ \A n \in 1 .. Len(orders) : orders[n].token \in Announced
      /\ \A m, n \in 1 .. Len(orders) : orders[m].token = orders[n].token => m = n
      /\ Len(orders) \in Nat /\ orders \in Seq(Order)
      /\ seen \subseteq Explicit \cup 1 .. sequence
      /\ MaxConn \in Nat
  BY OrderTokens, WireAssumption DEF KnownInv, OrdersAreKnown, FreshInv, TokenOnce
<1>d. ASSUME UNCHANGED orders, UpKept \/ UpDialed,
             NEW c \in 1 .. MaxConn, NEW i \in 1 .. Len(up'[c]), IsOrder(up'[c][i])
      PROVE  Goal(c, i)
  <2>1. i \in 1 .. Len(up[c]) /\ up'[c][i] = up[c][i]
    BY <1>d, WireKept
  <2>2. ASSUME NEW d \in 1 .. MaxConn, NEW j \in 1 .. Len(up'[d]), IsOrder(up'[d][j]),
               up'[d][j].token = up'[c][i].token
        PROVE  c = d /\ i = j
    <3>1. j \in 1 .. Len(up[d]) /\ up'[d][j] = up[d][j]
      BY <1>d, <2>2, WireKept
    <3> QED
      BY <1>d, <1>p, <2>1, <2>2, <3>1
  <2> QED
    BY <1>d, <1>f, <2>1, <2>2
<1>s. ASSUME NEW p \in Packets, UpSent(p), UNCHANGED orders,
             IsOrder(p) => p.token \notin Announced,
             NEW c \in 1 .. MaxConn, NEW i \in 1 .. Len(up'[c]), IsOrder(up'[c][i])
      PROVE  Goal(c, i)
  <2>1. \/ i \in 1 .. Len(up[c]) /\ up'[c][i] = up[c][i]
        \/ c = conn /\ i = Len(up[c]) + 1 /\ up'[c][i] = p
    BY <1>s, WireSent
  <2>2. ASSUME NEW d \in 1 .. MaxConn, NEW j \in 1 .. Len(up'[d]), IsOrder(up'[d][j]),
               up'[d][j].token = up'[c][i].token
        PROVE  c = d /\ i = j
    <3>1. \/ j \in 1 .. Len(up[d]) /\ up'[d][j] = up[d][j]
          \/ d = conn /\ j = Len(up[d]) + 1 /\ up'[d][j] = p
      BY <1>s, WireSent
    <3>2. CASE i \in 1 .. Len(up[c]) /\ up'[c][i] = up[c][i]
      <4>1. up[c][i].token \in Announced
        BY <1>s, <1>f, <3>2
      <4>2. CASE j \in 1 .. Len(up[d]) /\ up'[d][j] = up[d][j]
        <5>1. Apart(c, i, d, j)
          BY <1>p, <3>2, <4>2
        <5> QED
          BY <1>s, <2>2, <3>2, <4>2, <5>1
      <4>3. CASE up'[d][j] = p
        BY <1>s, <2>2, <3>2, <4>1, <4>3
      <4> QED
        BY <3>1, <4>2, <4>3
    <3>3. CASE c = conn /\ i = Len(up[c]) + 1 /\ up'[c][i] = p
      BY <1>s, <1>f, <2>2, <3>1, <3>3
    <3> QED
      BY <2>1, <3>2, <3>3
  <2>3. \A n \in 1 .. Len(orders) : orders[n].token # up'[c][i].token
    BY <1>s, <1>f, <1>o, <2>1
  <2> QED
    BY <1>s, <2>2, <2>3
<1>r. ASSUME UpRead, NEW c \in 1 .. MaxConn, NEW i \in 1 .. Len(up'[c]), IsOrder(up'[c][i])
      PROVE  /\ \A n \in 1 .. Len(orders) : orders[n].token # up'[c][i].token
             /\ IsOrder(Packet) => Packet.token # up'[c][i].token
             /\ \A d \in 1 .. MaxConn : \A j \in 1 .. Len(up'[d]) :
                   IsOrder(up'[d][j]) /\ up'[d][j].token = up'[c][i].token => c = d /\ i = j
  <2>1. PICK k \in 1 .. Len(up[c]) : /\ up'[c][i] = up[c][k]
                                     /\ k = IF c = worker.conn THEN i + 1 ELSE i
    BY <1>r, WireRead
  <2>2. ASSUME NEW d \in 1 .. MaxConn, NEW j \in 1 .. Len(up'[d]), IsOrder(up'[d][j]),
               up'[d][j].token = up'[c][i].token
        PROVE  c = d /\ i = j
    <3>1. PICK l \in 1 .. Len(up[d]) : /\ up'[d][j] = up[d][l]
                                       /\ l = IF d = worker.conn THEN j + 1 ELSE j
      BY <1>r, WireRead
    <3>2. c = d /\ k = l
      <4>1. Apart(c, k, d, l)
        BY <1>p
      <4>2. IsOrder(up[c][k]) /\ IsOrder(up[d][l]) /\ up[d][l].token = up[c][k].token
        BY <1>r, <2>1, <2>2, <3>1
      <4> QED
        BY <4>1, <4>2
    <3> QED
      BY <2>1, <3>1, <3>2
  <2>3. IsOrder(Packet) => Packet.token # up'[c][i].token
    <3>1. /\ worker.conn \in 1 .. MaxConn /\ 1 \in 1 .. Len(up[worker.conn])
          /\ Packet = up[worker.conn][1]
      BY <1>r, PacketPlace
    <3>2. ~(c = worker.conn /\ k = 1)
      BY <2>1
    <3>3. Apart(worker.conn, 1, c, k)
      BY <1>p, <3>1
    <3>4. IsOrder(up[c][k])
      BY <1>r, <2>1
    <3> QED
      BY <2>1, <3>1, <3>2, <3>3, <3>4
  <2>4. Unused(c, k)
    BY <1>f, <1>r, <2>1
  <2> QED
    BY <2>1, <2>2, <2>3, <2>4
<1>e. ASSUME seen' \subseteq Explicit \cup 1 .. sequence', UNCHANGED orders,
             \A c \in 1 .. MaxConn : \A i \in 1 .. Len(up'[c]) : IsOrder(up'[c][i]) => Goal(c, i)
      PROVE  FreshInv'
  BY <1>e, <1>o DEF FreshInv, TokenOnce
<1>1. CASE Idle
  <2>1. UNCHANGED <<orders, seen, sequence>>
    BY <1>1 DEF Idle
  <2>a. seen' \subseteq Explicit \cup 1 .. sequence'
    BY <1>o, <2>1
  <2>2. CASE UpKept \/ UpDialed
    <3>1. ASSUME NEW c \in 1 .. MaxConn, NEW i \in 1 .. Len(up'[c]), IsOrder(up'[c][i])
          PROVE  Goal(c, i)
      BY <1>d, <2>1, <2>2, <3>1
    <3> HIDE DEF Goal
    <3> QED
      BY <1>e, <2>1, <2>a, <3>1
  <2>3. CASE UpRead
    <3>1. ASSUME NEW c \in 1 .. MaxConn, NEW i \in 1 .. Len(up'[c]), IsOrder(up'[c][i])
          PROVE  Goal(c, i)
      BY <1>r, <2>1, <2>3, <3>1
    <3> HIDE DEF Goal
    <3> QED
      BY <1>e, <2>1, <2>a, <3>1
  <2>4. ASSUME NEW p \in Packets, ~IsOrder(p), UpSent(p) PROVE FreshInv'
    <3>1. ASSUME NEW c \in 1 .. MaxConn, NEW i \in 1 .. Len(up'[c]), IsOrder(up'[c][i])
          PROVE  Goal(c, i)
      BY <1>s, <2>1, <2>4, <3>1
    <3> HIDE DEF Goal
    <3> QED
      BY <1>e, <2>1, <2>a, <3>1
  <2> QED
    BY <1>1, <2>2, <2>3, <2>4 DEF Idle
<1>2. ASSUME NEW tok \in Token, Named(tok) PROVE FreshInv'
  <2>1. OnWire(tok) \notin Announced /\ seen' \subseteq Explicit \cup 1 .. sequence' /\ UNCHANGED orders
    BY <1>2, ChosenIsNew DEF Named
  <2>2. CASE UpKept
    BY <1>d, <1>e, <2>1, <2>2
  <2>3. ASSUME NEW p \in Packets, UpSent(p), IsOrder(p) => p.token = OnWire(tok) PROVE FreshInv'
    BY <1>e, <1>s, <2>1, <2>3
  <2> QED
    BY <1>2, <2>2, <2>3 DEF Named
<1>3. CASE Ordered
  <2>1. UpRead /\ IsOrder(Packet) /\ UNCHANGED <<seen, sequence>>
    BY <1>3 DEF Ordered
  <2>2. PICK k \in Kinds \cup {"replacement"} :
            orders' = Append(orders, [token |-> Packet.token, kind |-> k])
    BY <1>3 DEF Ordered
  <2>3. /\ Len(orders') = Len(orders) + 1 /\ orders'[Len(orders) + 1].token = Packet.token
        /\ \A n \in 1 .. Len(orders) : orders'[n] = orders[n]
    BY <1>o, <2>2
  <2>4. \A n \in 1 .. Len(orders) : orders[n].token # Packet.token
    BY <1>f, <2>1, PacketPlace
  <2>5. \A n \in 1 .. Len(orders') : n \in 1 .. Len(orders) \/ n = Len(orders) + 1
    BY <1>o, <2>3
  <2>6. \A m, n \in 1 .. Len(orders') : orders'[m].token = orders'[n].token => m = n
    BY <1>o, <2>3, <2>4, <2>5
  <2>7. ASSUME NEW c \in 1 .. MaxConn, NEW i \in 1 .. Len(up'[c]), IsOrder(up'[c][i])
        PROVE  Goal(c, i)
    <3>1. ASSUME NEW n \in 1 .. Len(orders') PROVE orders'[n].token # up'[c][i].token
      <4>1. CASE n \in 1 .. Len(orders)
        BY <1>r, <2>1, <2>3, <2>7, <4>1
      <4>2. CASE n = Len(orders) + 1
        BY <1>r, <2>1, <2>3, <2>7, <4>2
      <4> QED
        BY <2>5, <4>1, <4>2
    <3> QED
      BY <1>r, <2>1, <2>7, <3>1
  <2> QED
    BY <1>o, <2>1, <2>6, <2>7 DEF FreshInv, TokenOnce
<1> QED
  BY <1>1, <1>2, <1>3, TokenEffect

\* No two orders of the gateway have one token, if pinned tokens are not of the allocated
\* form and differ in their first 14 bytes: over any number of calls, connections, lost packets and failed sends, although
\* the gateway itself looks for duplicates only in Enter Order.
THEOREM TokenOnceHolds == ASSUME PinnedApart PROVE Spec => []TokenOnce
<1> DEFINE Inv == TypeInv /\ KnownInv /\ FreshInv
<1>1. Init => Inv
  BY TypeInit, KnownInit, FreshInit
<1>2. Inv /\ [Next]_vars => Inv'
  BY TypeStep, KnownStep, FreshStep
<1>3. Inv => TokenOnce
  BY DEF FreshInv
<1> QED
  BY <1>1, <1>2, <1>3, PTL DEF Spec

-----------------------------------------------------------------------------
(* Every order has one fate *)

\* Nothing rests in a new gateway.
LEMMA FateInit == ASSUME Init PROVE FateInv
<1>1. /\ rested = {} /\ ended = <<>> /\ resting = [t \in Token |-> 0]
      /\ caller.snapshot = {} /\ worker.rest = <<>>
  BY DEF Init, GatewayInit, Outside, WorkerAt
<1> QED
  BY <1>1 DEF FateInv, Fated, RestInv

\* What the fate of an order rests on, in the step that made it.
LEMMA RestEffect ==
    ASSUME TypeInv, [Next]_vars, worker'.rest # <<>>
    PROVE  \/ worker'.rest = worker.rest
           \/ EnterAccepted /\ worker'.rest = <<Packet.token, NextId>>
BY WorkerEffect DEF WorkerGoes, WorkerAt, WorkerWrites, Answered

\* A new order does not touch the others.
LEMMA FatedGrows ==
    ASSUME NEW rs, NEW rd, NEW en, NEW sn, NEW od \in Seq(Order), NEW o \in Order,
           Fated(rs, rd, en, sn, od)
    PROVE  Fated(rs, rd, en, sn, Append(od, o))
<1> DEFINE all == Append(od, o)
<1>1. /\ Len(od) \in Nat /\ Len(all) = Len(od) + 1
      /\ \A id \in 1 .. Len(od) : all[id] = od[id]
  OBVIOUS
<1> HIDE DEF all
<1>2. rd \subseteq 1 .. Len(all) /\ \A id \in rd : all[id] = od[id]
  BY <1>1 DEF Fated
<1>3. Fated(rs, rd, en, sn, all)
  BY <1>2 DEF Fated
<1> QED
  BY <1>3 DEF all

\* resting_.erase(): the order under the token ends, if there is one.
LEMMA FatedErase ==
    ASSUME NEW rs \in [Token -> Nat], NEW rd, NEW en \in Seq(Nat), NEW sn, NEW od \in Seq(Order),
           NEW t \in Token, Fated(rs, rd, en, sn, od)
    PROVE  Fated([rs EXCEPT ![t] = 0], rd, IF rs[t] = 0 THEN en ELSE Append(en, rs[t]), sn, od)
<1> DEFINE left == [rs EXCEPT ![t] = 0]  ends == Append(en, rs[t])
<1>1. CASE rs[t] = 0
  <2>1. left = rs
    BY <1>1
  <2> QED
    BY <1>1, <2>1
<1>2. CASE rs[t] # 0
  <2>1. rs[t] \in rd /\ od[rs[t]].token = t /\ rs[t] \notin sn /\ ~Ended(en, rs[t])
    BY <1>2 DEF Fated
  <2>2. /\ Len(en) \in Nat /\ Len(ends) = Len(en) + 1 /\ ends[Len(en) + 1] = rs[t]
        /\ \A i \in 1 .. Len(en) : ends[i] = en[i]
    OBVIOUS
  <2>3. \A u \in Token : left[u] = IF u = t THEN 0 ELSE rs[u]
    OBVIOUS
  <2>i. \A id \in rd : id # 0 /\ od[id].token \in Token
    <3>1. ASSUME NEW id \in 1 .. Len(od) PROVE id # 0 /\ od[id] \in Order
      OBVIOUS
    <3> QED
      BY <3>1 DEF Fated, Order
  <2> HIDE DEF left, ends
  <2>4. \A id : Ended(ends, id) <=> Ended(en, id) \/ id = rs[t]
    <3>1. \A i \in 1 .. Len(ends) : i \in 1 .. Len(en) \/ i = Len(en) + 1
      BY <2>2
    <3>2. \A i \in 1 .. Len(en) : i \in 1 .. Len(ends)
      BY <2>2
    <3>3. Len(en) + 1 \in 1 .. Len(ends)
      BY <2>2
    <3> QED
      BY <2>2, <3>1, <3>2, <3>3 DEF Ended
  <2>l. \A i \in 1 .. Len(ends) : i \in 1 .. Len(en) \/ i = Len(en) + 1
    BY <2>2
  <2>5. \A i \in 1 .. Len(ends) : ends[i] \in rd
    BY <2>1, <2>2, <2>l DEF Fated
  <2>6. ASSUME NEW i \in 1 .. Len(ends), NEW j \in 1 .. Len(ends), ends[i] = ends[j]
        PROVE  i = j
    <3>1. \A k \in 1 .. Len(en) : ends[k] # rs[t]
      BY <2>1, <2>2 DEF Ended
    <3>2. CASE i = Len(en) + 1
      BY <2>2, <2>6, <2>l, <3>1, <3>2
    <3>3. CASE j = Len(en) + 1
      BY <2>2, <2>6, <2>l, <3>1, <3>3
    <3>4. CASE i \in 1 .. Len(en) /\ j \in 1 .. Len(en)
      BY <2>2, <2>6, <3>4 DEF Fated
    <3> QED
      BY <2>l, <3>2, <3>3, <3>4
  <2>7. \A u \in Token : left[u] # 0 => left[u] \in rd /\ od[left[u]].token = u
    BY <2>3 DEF Fated
  <2>8. ASSUME NEW id \in rd
        PROVE  /\ left[od[id].token] = id \/ id \in sn \/ Ended(ends, id)
               /\ left[od[id].token] = id => id \notin sn /\ ~Ended(ends, id)
               /\ id \in sn => ~Ended(ends, id)
    <3>1. CASE id = rs[t]
      BY <2>1, <2>3, <2>4, <2>i, <3>1
    <3>2. CASE id # rs[t]
      BY <2>3, <2>4, <2>i, <3>2 DEF Fated
    <3> QED
      BY <3>1, <3>2
  <2>9. Fated(left, rd, ends, sn, od)
    BY <2>5, <2>6, <2>7, <2>8 DEF Fated
  <2> QED
    BY <1>2, <2>9 DEF left, ends
<1> QED
  BY <1>1, <1>2

\* resting_[t] = id, for an order that has not rested and a token that nothing rests under.
LEMMA FatedRests ==
    ASSUME NEW rs \in [Token -> Nat], NEW rd, NEW en \in Seq(Nat), NEW sn, NEW od \in Seq(Order),
           NEW t \in Token, NEW id \in 1 .. Len(od), Fated(rs, rd, en, sn, od),
           id \notin rd, rs[t] = 0, od[id].token = t
    PROVE  Fated([rs EXCEPT ![t] = id], rd \cup {id}, en, sn, od)
<1> DEFINE now == [rs EXCEPT ![t] = id]
<1>1. \A u \in Token : now[u] = IF u = t THEN id ELSE rs[u]
  OBVIOUS
<1>i. \A k \in rd : k # 0 /\ od[k].token \in Token
  <2>1. ASSUME NEW k \in 1 .. Len(od) PROVE k # 0 /\ od[k] \in Order
    OBVIOUS
  <2> QED
    BY <2>1 DEF Fated, Order
<1> HIDE DEF now
<1>2. id \notin sn /\ ~Ended(en, id)
  BY DEF Fated, Ended
<1>3. \A u \in Token : now[u] # 0 => now[u] \in rd \cup {id} /\ od[now[u]].token = u
  BY <1>1 DEF Fated
<1>4. ASSUME NEW k \in rd \cup {id}
      PROVE  /\ now[od[k].token] = k \/ k \in sn \/ Ended(en, k)
             /\ now[od[k].token] = k => k \notin sn /\ ~Ended(en, k)
             /\ k \in sn => ~Ended(en, k)
  <2>1. CASE k = id
    BY <1>1, <1>2, <2>1
  <2>2. CASE k \in rd
    BY <1>1, <1>i, <2>2 DEF Fated
  <2> QED
    BY <2>1, <2>2
<1>5. Fated(now, rd \cup {id}, en, sn, od)
  BY <1>3, <1>4 DEF Fated
<1> QED
  BY <1>5 DEF now

\* The end-of-day pass takes whatever rests.
LEMMA FatedTaken ==
    ASSUME NEW rs \in [Token -> Nat], NEW rd, NEW en, NEW od \in Seq(Order),
           Fated(rs, rd, en, {}, od)
    PROVE  Fated([t \in Token |-> 0], rd, en, {rs[t] : t \in Token} \ {0}, od)
<1> DEFINE sn == {rs[t] : t \in Token} \ {0}
<1>i. \A k \in rd : k # 0 /\ od[k].token \in Token
  <2>1. ASSUME NEW k \in 1 .. Len(od) PROVE k # 0 /\ od[k] \in Order
    OBVIOUS
  <2> QED
    BY <2>1 DEF Fated, Order
<1>1. sn \subseteq rd
  BY DEF Fated
<1>2. ASSUME NEW k \in rd PROVE k \in sn <=> rs[od[k].token] = k
  <2>1. ASSUME k \in sn PROVE rs[od[k].token] = k
    <3>1. PICK t \in Token : rs[t] = k /\ k # 0
      BY <2>1
    <3> QED
      BY <3>1 DEF Fated
  <2> QED
    BY <1>i, <2>1
<1> HIDE DEF sn
<1>3. ASSUME NEW k \in rd
      PROVE  /\ [t \in Token |-> 0][od[k].token] = k \/ k \in sn \/ Ended(en, k)
             /\ [t \in Token |-> 0][od[k].token] = k => k \notin sn /\ ~Ended(en, k)
             /\ k \in sn => ~Ended(en, k)
  BY <1>i, <1>2 DEF Fated
<1>4. Fated([t \in Token |-> 0], rd, en, sn, od)
  BY <1>1, <1>3 DEF Fated
<1> QED
  BY <1>4 DEF sn

\* It announces what it took, one order after the other.
LEMMA FatedEnds ==
    ASSUME NEW rs, NEW rd, NEW en \in Seq(Nat), NEW sn, NEW od, NEW id \in sn, id \in Nat,
           Fated(rs, rd, en, sn, od)
    PROVE  Fated(rs, rd, Append(en, id), sn \ {id}, od)
<1> DEFINE ends == Append(en, id)
<1>1. /\ Len(en) \in Nat /\ Len(ends) = Len(en) + 1 /\ ends[Len(en) + 1] = id
      /\ \A i \in 1 .. Len(en) : ends[i] = en[i]
  OBVIOUS
<1>2. id \in rd /\ ~Ended(en, id) /\ rs[od[id].token] # id
  BY DEF Fated
<1> HIDE DEF ends
<1>3. \A k : Ended(ends, k) <=> Ended(en, k) \/ k = id
  <2>1. \A i \in 1 .. Len(ends) : i \in 1 .. Len(en) \/ i = Len(en) + 1
    BY <1>1
  <2>2. \A i \in 1 .. Len(en) : i \in 1 .. Len(ends)
    BY <1>1
  <2>3. Len(en) + 1 \in 1 .. Len(ends)
    BY <1>1
  <2> QED
    BY <1>1, <2>1, <2>2, <2>3 DEF Ended
<1>4. ASSUME NEW i \in 1 .. Len(ends) PROVE ends[i] \in rd
  <2>1. i \in 1 .. Len(en) \/ i = Len(en) + 1
    BY <1>1
  <2>2. \A k \in 1 .. Len(en) : en[k] \in rd
    BY DEF Fated
  <2> QED
    BY <1>1, <1>2, <2>1, <2>2
<1>5. ASSUME NEW i \in 1 .. Len(ends), NEW j \in 1 .. Len(ends), ends[i] = ends[j]
      PROVE  i = j
  <2>1. \A k \in 1 .. Len(ends) : k \in 1 .. Len(en) \/ k = Len(en) + 1
    BY <1>1
  <2>2. \A k \in 1 .. Len(en) : ends[k] = en[k] /\ en[k] # id
    BY <1>1, <1>2 DEF Ended
  <2>3. CASE i \in 1 .. Len(en) /\ j \in 1 .. Len(en)
    <3>1. en[i] = en[j]
      BY <1>5, <2>2, <2>3
    <3> QED
      BY <2>3, <3>1 DEF Fated
  <2> QED
    BY <1>1, <1>5, <2>1, <2>2, <2>3
<1>6. ASSUME NEW k \in rd
      PROVE  /\ rs[od[k].token] = k \/ k \in sn \ {id} \/ Ended(ends, k)
             /\ rs[od[k].token] = k => k \notin sn \ {id} /\ ~Ended(ends, k)
             /\ k \in sn \ {id} => ~Ended(ends, k)
  BY <1>2, <1>3 DEF Fated
<1>7. Fated(rs, rd, ends, sn \ {id}, od)
  BY <1>4, <1>5, <1>6 DEF Fated
<1> QED
  BY <1>7 DEF ends

\* What rests is changed under state_mu_ and, in the handler of a Day order, after its
\* Accepted was sent: either way no order gets two fates.
LEMMA FateStep ==
    ASSUME TypeInv, KnownInv, FreshInv, FateInv, [Next]_vars
    PROVE  FateInv'
<1>b. /\ resting \in [Token -> Nat] /\ orders \in Seq(Order) /\ Len(orders) \in Nat
      /\ ended \in Seq(Nat) /\ rested \in SUBSET Nat
  BY DEF TypeInv, BooksType
<1>f. Fated(resting, rested, ended, caller.snapshot, orders)
  BY DEF FateInv
<1> DEFINE Fate == Fated(resting, rested, ended, caller.snapshot, orders)'
<1>r. ASSUME Fate, rested' = rested, \A id \in 1 .. Len(orders) : orders'[id] = orders[id],
             Len(orders') \in {Len(orders), Len(orders) + 1},
             EnterAccepted => Len(orders') = Len(orders) + 1 /\ orders'[NextId].token = Packet.token
      PROVE  FateInv'
  <2>1. SUFFICES ASSUME worker'.rest # <<>> PROVE RestInv'
    BY <1>r DEF FateInv, RestInv
  <2>2. CASE worker'.rest = worker.rest
    <3>1. /\ worker.rest[2] \in 1 .. Len(orders) /\ worker.rest[2] \notin rested
          /\ orders[worker.rest[2]].token = worker.rest[1]
      BY <2>1, <2>2 DEF FateInv, RestInv
    <3> QED
      BY <1>b, <1>r, <2>2, <3>1 DEF RestInv
  <2>3. CASE EnterAccepted /\ worker'.rest = <<Packet.token, NextId>>
    <3>1. NextId \notin rested
      BY <1>b, <1>f DEF Fated, NextId
    <3>2. worker'.rest[1] = Packet.token /\ worker'.rest[2] = NextId
      BY <2>3
    <3> QED
      BY <1>b, <1>r, <2>3, <3>1, <3>2 DEF RestInv, NextId
  <2> QED
    BY <2>1, <2>2, <2>3, RestEffect
<1>1. CASE BooksKept
  <2>1. Fate
    BY <1>1, <1>f DEF BooksKept
  <2>2. EnterAccepted => FALSE
    BY <1>1, <1>b DEF EnterAccepted, BooksKept
  <2> QED
    BY <1>1, <1>r, <2>1, <2>2 DEF BooksKept
<1>2. CASE EnterAccepted /\ UNCHANGED caller
  <2>0. IsOrder(Packet) /\ Packet.token \in Token /\ Packet.kind \in Kinds
    BY <1>2, PacketIsOne, PacketFields DEF EnterAccepted, Handle, IsOrder, TypeInv
  <2> DEFINE o == [token |-> Packet.token, kind |-> Packet.kind]
  <2>1. o \in Order /\ orders' = Append(orders, o) /\ UNCHANGED <<resting, rested, ended>>
    BY <1>2, <2>0 DEF EnterAccepted, Order
  <2>2. o.token = Packet.token
    OBVIOUS
  <2> HIDE DEF o
  <2>3. Fate
    BY <1>2, <1>b, <1>f, <2>1, FatedGrows
  <2>4. /\ Len(orders') = Len(orders) + 1 /\ orders'[NextId] = o
        /\ \A id \in 1 .. Len(orders) : orders'[id] = orders[id]
    BY <1>b, <2>1 DEF NextId
  <2> QED
    BY <1>b, <1>r, <2>1, <2>2, <2>3, <2>4
<1>3. CASE CancelOrder /\ UNCHANGED caller
  <2>0. Packet.token \in Token
    BY <1>3, PacketIsOne, PacketFields DEF CancelOrder, Handle, TypeInv
  <2>1. /\ resting' = [resting EXCEPT ![Packet.token] = 0]
        /\ ended' = IF resting[Packet.token] = 0 THEN ended
                    ELSE Append(ended, resting[Packet.token])
        /\ UNCHANGED <<orders, rested>>
    BY <1>3 DEF CancelOrder, Erase, End
  <2>2. Fate
    BY <1>3, <1>b, <1>f, <2>0, <2>1, FatedErase
  <2>3. EnterAccepted => FALSE
    BY <1>b, <2>1 DEF EnterAccepted
  <2> QED
    BY <1>r, <2>1, <2>2, <2>3
<1>4. CASE ReplaceOrder /\ UNCHANGED caller
  <2>0. IsOrder(Packet) /\ Packet.token \in Token /\ Packet.existing \in Token
    BY <1>4, PacketIsOne, PacketFields DEF ReplaceOrder, Handle, IsOrder, TypeInv
  <2> DEFINE e == Packet.existing
             t == Packet.token
             o == [token |-> t, kind |-> "replacement"]
             left == [resting EXCEPT ![e] = 0]
             ends == IF resting[e] = 0 THEN ended ELSE Append(ended, resting[e])
  <2>1. /\ resting' = [left EXCEPT ![t] = NextId] /\ ended' = ends
        /\ rested' = rested \cup {NextId} /\ orders' = Append(orders, o)
    BY <1>4 DEF ReplaceOrder, Erase, End
  <2>2. left \in [Token -> Nat] /\ ends \in Seq(Nat) /\ o \in Order /\ o.token = t
    BY <1>b, <2>0 DEF Order
  <2>3. Fated(left, rested, ends, caller.snapshot, orders)
    BY <1>b, <1>f, <2>0, FatedErase
  <2>4. left[t] = 0
    <3>1. \A n \in 1 .. Len(orders) : orders[n].token # t
      <4>1. Readable
        BY <1>4 DEF ReplaceOrder, Handle
      <4>2. worker.conn \in 1 .. MaxConn /\ Packet = up[worker.conn][1]
            /\ up[worker.conn] \in Seq(Packets) /\ up[worker.conn] # <<>>
        BY <4>1, PacketIsOne DEF TypeInv
      <4>3. 1 \in 1 .. Len(up[worker.conn])
        BY <4>2
      <4> QED
        BY <2>0, <4>2, <4>3 DEF FreshInv
    <3>2. resting[t] = 0
      BY <1>f, <2>0, <3>1 DEF Fated
    <3> QED
      BY <1>b, <2>0, <3>2
  <2> HIDE DEF e, t, o, left, ends
  <2>5. Fated(left, rested, ends, caller.snapshot, Append(orders, o))
    BY <1>b, <2>2, <2>3, FatedGrows
  <2>6. orders' \in Seq(Order) /\ NextId \in 1 .. Len(orders') /\ orders'[NextId] = o
    BY <1>b, <2>1, <2>2 DEF NextId
  <2>7. NextId \notin rested
    BY <1>b, <1>f DEF Fated, NextId
  <2>8. t \in Token
    BY <2>0 DEF t
  <2>a. Fated(left, rested, ends, caller.snapshot, orders')
    BY <2>1, <2>5
  <2>9. Fated([left EXCEPT ![t] = NextId], rested \cup {NextId}, ends, caller.snapshot, orders')
    BY <2>2, <2>4, <2>6, <2>7, <2>8, <2>a, FatedRests
  <2>b. Fate
    BY <1>4, <2>1, <2>9
  <2>c. worker'.rest = <<>>
    BY <1>4 DEF ReplaceOrder, Handle
  <2> QED
    BY <2>b, <2>c DEF FateInv, RestInv
<1>5. CASE WorkerRests /\ UNCHANGED caller
  <2>1. worker.rest # <<>> /\ worker.rest \in Token \X Nat
    BY <1>5 DEF TypeInv, WorkerType, WorkerRests
  <2> DEFINE t == worker.rest[1]  id == worker.rest[2]
  <2>2. t \in Token /\ id \in 1 .. Len(orders) /\ id \notin rested /\ orders[id].token = t
    BY <2>1 DEF FateInv, RestInv
  <2>3. resting[t] = 0
    <3>1. SUFFICES ASSUME resting[t] # 0 PROVE FALSE
      OBVIOUS
    <3>2. resting[t] \in rested /\ resting[t] \in 1 .. Len(orders)
          /\ orders[resting[t]].token = t
      BY <1>f, <2>2, <3>1 DEF Fated
    <3>3. TokenOnce
      BY DEF FreshInv
    <3> HIDE DEF t, id
    <3> QED
      BY <2>2, <3>2, <3>3 DEF TokenOnce
  <2>4. /\ resting' = [resting EXCEPT ![t] = id] /\ rested' = rested \cup {id}
        /\ UNCHANGED <<orders, ended>> /\ worker'.rest = <<>>
    BY <1>5 DEF WorkerRests, WorkerAt
  <2> HIDE DEF t, id
  <2>5. Fate
    BY <1>5, <1>b, <1>f, <2>2, <2>3, <2>4, FatedRests
  <2> QED
    BY <2>4, <2>5 DEF FateInv, RestInv
<1>6. CASE InactivateSnapshot
  <2>1. caller.snapshot = {}
    BY <1>6 DEF InactivateSnapshot, TypeInv, CallerType
  <2>2. /\ resting' = [t \in Token |-> 0] /\ UNCHANGED <<orders, rested, ended>>
    BY <1>6 DEF InactivateSnapshot
  <2>s. caller'.snapshot = {resting[t] : t \in Token} \ {0}
    <3> DEFINE taken == {resting[t] : t \in Token} \ {0}
    <3>1. caller' = [caller EXCEPT !.at = "emit", !.snapshot = taken]
      BY <1>6 DEF InactivateSnapshot
    <3> HIDE DEF taken
    <3>2. caller'.snapshot = taken
      BY <3>1 DEF TypeInv, CallerType
    <3> QED
      BY <3>2 DEF taken
  <2>3. Fate
    <3>1. Fated(resting, rested, ended, {}, orders)
      BY <1>f, <2>1
    <3>2. Fated([t \in Token |-> 0], rested, ended, {resting[t] : t \in Token} \ {0}, orders)
      BY <1>b, <3>1, FatedTaken
    <3> QED
      BY <2>2, <2>s, <3>2
  <2>4. EnterAccepted => FALSE
    BY <1>b, <2>2 DEF EnterAccepted
  <2> QED
    BY <1>r, <2>2, <2>3, <2>4
<1>7. CASE InactivateEmit
  <2>0. UNCHANGED <<orders, rested, resting>>
    BY <1>7 DEF InactivateEmit
  <2>1. Fate
    <3>1. CASE caller'.snapshot = caller.snapshot /\ ended' = ended
      BY <1>f, <2>0, <3>1
    <3>2. ASSUME NEW id \in caller.snapshot, caller'.snapshot = caller.snapshot \ {id},
                 ended' = Append(ended, id)
          PROVE  Fate
      <4>1. id \in Nat
        BY DEF TypeInv, CallerType
      <4> QED
        BY <1>b, <1>f, <2>0, <3>2, <4>1, FatedEnds
    <3> QED
      BY <1>7, <3>1, <3>2 DEF InactivateEmit, TypeInv, CallerType
  <2>2. EnterAccepted => FALSE
    BY <1>b, <2>0 DEF EnterAccepted
  <2> QED
    BY <1>r, <2>0, <2>1, <2>2
<1> QED
  BY <1>1, <1>2, <1>3, <1>4, <1>5, <1>6, <1>7, BooksEffect

\* Every order the gateway kept rests still, was taken by the end-of-day pass, or has
\* ended once, if pinned tokens are not of the allocated form: over any number of orders,
\* replacements, cancels, connections and passes of the two threads.
THEOREM OneFateHolds == ASSUME PinnedApart PROVE Spec => []OneFate
<1> DEFINE Inv == TypeInv /\ KnownInv /\ FreshInv /\ FateInv
<1>1. Init => Inv
  BY TypeInit, KnownInit, FreshInit, FateInit
<1>2. Inv /\ [Next]_vars => Inv'
  BY TypeStep, KnownStep, FreshStep, FateStep
<1>3. Inv => OneFate
  <2>1. SUFFICES ASSUME TypeInv, FateInv, NEW id \in rested
                 PROVE  LET under == {t \in Token : resting[t] = id}
                            ends  == {i \in 1 .. Len(ended) : ended[i] = id}
                            taken == IF id \in caller.snapshot THEN 1 ELSE 0
                        IN  /\ Cardinality(under) + taken + Cardinality(ends) = 1
                            /\ \A t \in under : orders[id].token = t
    BY DEF OneFate
  <2> DEFINE under == {t \in Token : resting[t] = id}
             ends  == {i \in 1 .. Len(ended) : ended[i] = id}
             taken == IF id \in caller.snapshot THEN 1 ELSE 0
             own   == orders[id].token
  <2>f. Fated(resting, rested, ended, caller.snapshot, orders)
    BY <2>1 DEF FateInv
  <2>0. id # 0 /\ own \in Token
    <3>1. id \in 1 .. Len(orders) /\ orders \in Seq(Order) /\ Len(orders) \in Nat
      BY <2>1, <2>f DEF Fated, TypeInv, BooksType
    <3>2. orders[id] \in Order
      BY <3>1
    <3> QED
      BY <3>1, <3>2 DEF Order
  <2>2. \A t \in under : own = t
    BY <2>0, <2>f DEF Fated
  <2>3. under = IF resting[own] = id THEN {own} ELSE {}
    BY <2>0, <2>2
  <2>4. ends = {} <=> ~Ended(ended, id)
    BY DEF Ended
  <2>5. Ended(ended, id) => \E i : ends = {i}
    <3>1. SUFFICES ASSUME NEW i \in 1 .. Len(ended), ended[i] = id PROVE ends = {i}
      BY DEF Ended
    <3> QED
      BY <2>f, <3>1 DEF Fated
  <2> HIDE DEF under, ends, own
  <2>6. Cardinality({}) = 0 /\ \A x : Cardinality({x}) = 1
    BY FS_EmptySet, FS_Singleton
  <2>7. Cardinality(under) = IF resting[own] = id THEN 1 ELSE 0
    BY <2>3, <2>6
  <2>8. Cardinality(ends) = IF Ended(ended, id) THEN 1 ELSE 0
    BY <2>4, <2>5, <2>6
  <2>9. /\ resting[own] = id \/ id \in caller.snapshot \/ Ended(ended, id)
        /\ resting[own] = id => id \notin caller.snapshot /\ ~Ended(ended, id)
        /\ id \in caller.snapshot => ~Ended(ended, id)
    BY <2>f DEF Fated, own
  <2>a. Cardinality(under) + taken + Cardinality(ends) = 1
    BY <2>7, <2>8, <2>9
  <2> QED
    BY <2>2, <2>a DEF under, ends, own
<1> QED
  BY <1>1, <1>2, <1>3, PTL DEF Spec

-----------------------------------------------------------------------------
(* The stream stays framed as long as one thread writes to it *)

\* The parts of a segment.
LEMMA SegmentParts ==
    ASSUME NEW m
    PROVE  /\ Header(m).part = "header" /\ Header(m).msg = m
           /\ Body(m).part = "body" /\ Body(m).msg = m
           /\ Whole(m).part = "whole" /\ Whole(m).msg = m
BY DEF Header, Body, Whole

\* One more segment at the end of a stream.
LEMMA StreamGrows ==
    ASSUME NEW d \in Seq(Segments), NEW s \in Segments
    PROVE  /\ Append(d, s) \in Seq(Segments) /\ Len(d) \in Nat
           /\ Len(Append(d, s)) = Len(d) + 1 /\ Append(d, s)[Len(d) + 1] = s
           /\ \A i \in 1 .. Len(d) : Append(d, s)[i] = d[i]
           /\ \A i \in 1 .. Len(Append(d, s)) : i \in 1 .. Len(d) \/ i = Len(d) + 1
OBVIOUS

\* The write of a header.
LEMMA FramedHeader ==
    ASSUME NEW d \in Seq(Segments), NEW m \in Messages, Framed(d, <<>>)
    PROVE  Framed(Append(d, Header(m)), <<m>>)
<1> DEFINE e == Append(d, Header(m))
<1>1. /\ Len(d) \in Nat /\ Len(e) = Len(d) + 1 /\ e[Len(d) + 1] = Header(m)
      /\ \A i \in 1 .. Len(d) : e[i] = d[i]
      /\ \A i \in 1 .. Len(e) : i \in 1 .. Len(d) \/ i = Len(d) + 1
  BY StreamGrows, SegmentTypes
<1>2. e # <<>>
  BY <1>1
<1> HIDE DEF e
<1>3. ASSUME NEW i \in 1 .. Len(e)
      PROVE  /\ e[i].part = "header" =>
                  \/ i < Len(e) /\ e[i + 1] = Body(e[i].msg)
                  \/ i = Len(e) /\ <<m>> = <<e[i].msg>>
             /\ e[i].part = "body" => i > 1 /\ e[i - 1] = Header(e[i].msg)
  <2>1. CASE i = Len(d) + 1
    BY <1>1, <2>1, SegmentParts
  <2>2. CASE i \in 1 .. Len(d)
    <3>1. e[i].part = "header" => i < Len(d) /\ d[i + 1] = Body(d[i].msg)
      BY <1>1, <2>2 DEF Framed
    <3>2. i < Len(d) => i + 1 \in 1 .. Len(d)
      BY <1>1, <2>2
    <3>3. e[i].part = "body" => i > 1 /\ d[i - 1] = Header(d[i].msg)
      BY <1>1, <2>2 DEF Framed
    <3>4. i > 1 => i - 1 \in 1 .. Len(d)
      BY <1>1, <2>2
    <3> QED
      BY <1>1, <2>2, <3>1, <3>2, <3>3, <3>4
  <2> QED
    BY <1>1, <2>1, <2>2
<1>4. <<m>> # <<>> /\ <<m>>[1] = m
  OBVIOUS
<1>5. Framed(e, <<m>>)
  BY <1>1, <1>2, <1>3, <1>4 DEF Framed
<1> QED
  BY <1>5 DEF e

\* The write of the message behind its header.
LEMMA FramedBody ==
    ASSUME NEW d \in Seq(Segments), NEW m \in Messages, Framed(d, <<m>>)
    PROVE  Framed(Append(d, Body(m)), <<>>)
<1> DEFINE e == Append(d, Body(m))
<1>1. /\ Len(d) \in Nat /\ Len(e) = Len(d) + 1 /\ e[Len(d) + 1] = Body(m)
      /\ \A i \in 1 .. Len(d) : e[i] = d[i]
      /\ \A i \in 1 .. Len(e) : i \in 1 .. Len(d) \/ i = Len(d) + 1
  BY StreamGrows, SegmentTypes
<1>2. d # <<>> /\ d[Len(d)] = Header(m)
  BY DEF Framed
<1>3. Len(d) > 0 /\ Len(d) \in 1 .. Len(d)
  BY <1>1, <1>2
<1> HIDE DEF e
<1>4. ASSUME NEW i \in 1 .. Len(e)
      PROVE  /\ e[i].part = "header" => i < Len(e) /\ e[i + 1] = Body(e[i].msg)
             /\ e[i].part = "body" => i > 1 /\ e[i - 1] = Header(e[i].msg)
  <2>1. CASE i = Len(d) + 1
    <3>1. i - 1 = Len(d) /\ i > 1
      BY <1>1, <1>3, <2>1
    <3> QED
      BY <1>1, <1>2, <1>3, <2>1, <3>1, SegmentParts
  <2>2. CASE i \in 1 .. Len(d)
    <3>1. e[i].part = "header" => (i < Len(d) /\ d[i + 1] = Body(d[i].msg)) \/ i = Len(d)
      BY <1>1, <2>2 DEF Framed
    <3>2. i < Len(d) => i + 1 \in 1 .. Len(d)
      BY <1>1, <2>2
    <3>3. e[i].part = "body" => i > 1 /\ d[i - 1] = Header(d[i].msg)
      BY <1>1, <2>2 DEF Framed
    <3>4. i > 1 => i - 1 \in 1 .. Len(d)
      BY <1>1, <2>2
    <3>5. i = Len(d) => e[i] = Header(m) /\ e[i + 1] = Body(e[i].msg)
      BY <1>1, <1>2, <2>2, SegmentParts
    <3> QED
      BY <1>1, <2>2, <3>1, <3>2, <3>3, <3>4, <3>5
  <2> QED
    BY <1>1, <2>1, <2>2
<1>5. Framed(e, <<>>)
  BY <1>4 DEF Framed
<1> QED
  BY <1>5 DEF e

\* The write of a packet that is not sequenced.
LEMMA FramedWhole ==
    ASSUME NEW d \in Seq(Segments), NEW m \in Messages, Framed(d, <<>>)
    PROVE  Framed(Append(d, Whole(m)), <<>>)
<1> DEFINE e == Append(d, Whole(m))
<1>1. /\ Len(d) \in Nat /\ Len(e) = Len(d) + 1 /\ e[Len(d) + 1] = Whole(m)
      /\ \A i \in 1 .. Len(d) : e[i] = d[i]
      /\ \A i \in 1 .. Len(e) : i \in 1 .. Len(d) \/ i = Len(d) + 1
  BY StreamGrows, SegmentTypes
<1> HIDE DEF e
<1>2. ASSUME NEW i \in 1 .. Len(e)
      PROVE  /\ e[i].part = "header" => i < Len(e) /\ e[i + 1] = Body(e[i].msg)
             /\ e[i].part = "body" => i > 1 /\ e[i - 1] = Header(e[i].msg)
  <2>1. CASE i = Len(d) + 1
    BY <1>1, <2>1, SegmentParts
  <2>2. CASE i \in 1 .. Len(d)
    <3>1. e[i].part = "header" => i < Len(d) /\ d[i + 1] = Body(d[i].msg)
      BY <1>1, <2>2 DEF Framed
    <3>2. i < Len(d) => i + 1 \in 1 .. Len(d)
      BY <1>1, <2>2
    <3>3. e[i].part = "body" => i > 1 /\ d[i - 1] = Header(d[i].msg)
      BY <1>1, <2>2 DEF Framed
    <3>4. i > 1 => i - 1 \in 1 .. Len(d)
      BY <1>1, <2>2
    <3> QED
      BY <1>1, <2>2, <3>1, <3>2, <3>3, <3>4
  <2> QED
    BY <1>1, <2>1, <2>2
<1>3. Framed(e, <<>>)
  BY <1>2 DEF Framed
<1> QED
  BY <1>3 DEF e

\* The client reads a packet, or a header with its message.
LEMMA FramedDrop ==
    ASSUME NEW d \in Seq(Segments), NEW p, NEW n \in {1, 2}, Framed(d, p),
           n <= Len(d), d[n].part # "header"
    PROVE  Framed(SubSeq(d, n + 1, Len(d)), p)
<1> DEFINE e == SubSeq(d, n + 1, Len(d))
<1>1. /\ Len(d) \in Nat /\ Len(e) = Len(d) - n /\ n \in 1 .. Len(d)
      /\ \A i \in 1 .. Len(e) : e[i] = d[i + n] /\ i + n \in 1 .. Len(d)
  OBVIOUS
<1> HIDE DEF e
<1>2. ASSUME NEW i \in 1 .. Len(e)
      PROVE  /\ e[i].part = "header" =>
                  \/ i < Len(e) /\ e[i + 1] = Body(e[i].msg)
                  \/ i = Len(e) /\ p = <<e[i].msg>>
             /\ e[i].part = "body" => i > 1 /\ e[i - 1] = Header(e[i].msg)
  <2>1. e[i].part = "header" =>
            \/ i + n < Len(d) /\ d[(i + n) + 1] = Body(d[i + n].msg)
            \/ i + n = Len(d) /\ p = <<d[i + n].msg>>
    BY <1>1 DEF Framed
  <2>2. i + n < Len(d) => i < Len(e) /\ i + 1 \in 1 .. Len(e) /\ (i + 1) + n = (i + n) + 1
    BY <1>1
  <2>3. i + n = Len(d) => i = Len(e)
    BY <1>1
  <2>4. e[i].part = "body" => d[(i + n) - 1] = Header(d[i + n].msg)
    BY <1>1 DEF Framed
  <2>5. i = 1 => (i + n) - 1 = n
    BY <1>1
  <2>6. e[i].part = "body" => i # 1
    BY <2>4, <2>5, SegmentParts
  <2>7. i # 1 => i > 1 /\ i - 1 \in 1 .. Len(e) /\ (i - 1) + n = (i + n) - 1
    <3>1. n \in Nat /\ i \in Nat /\ i >= 1 /\ i <= Len(e) /\ Len(e) \in Nat
      BY <1>1
    <3> QED
      BY <3>1
  <2>8. e[i].part = "body" => i > 1 /\ e[i - 1] = Header(e[i].msg)
    BY <1>1, <2>4, <2>6, <2>7
  <2>9. e[i].part = "header" =>
            (i < Len(e) /\ e[i + 1] = Body(e[i].msg)) \/ (i = Len(e) /\ p = <<e[i].msg>>)
    BY <1>1, <2>1, <2>2, <2>3
  <2> QED
    BY <2>8, <2>9
<1>3. ASSUME p # <<>> PROVE e # <<>> /\ e[Len(e)] = Header(p[1])
  <2>1. d[Len(d)] = Header(p[1]) /\ d[Len(d)].part = "header"
    BY <1>3, SegmentParts DEF Framed
  <2>2. Len(e) > 0 /\ Len(e) \in 1 .. Len(e) /\ Len(e) + n = Len(d)
    BY <1>1, <2>1
  <2> QED
    BY <1>1, <2>1, <2>2
<1>4. Framed(e, p)
  BY <1>2, <1>3 DEF Framed
<1> QED
  BY <1>4 DEF e

\* A new connection begins with an empty stream that nobody is in the middle of writing to:
\* the worker still has the socket of the one before (ouch_gateway.cpp:89-99).
LEMMA NewStream ==
    ASSUME TypeInv, caller.at = "outside", NEW login, Reconnect(login) PROVE StreamWhole'
<1>1. conn' = conn + 1 /\ down' = <<>> /\ UNCHANGED <<worker, caller>> /\ garbled' = FALSE
  BY DEF Reconnect, Dial
<1>2. worker.conn <= conn /\ conn \in Nat /\ worker.conn \in Nat
  BY WireAssumption DEF TypeInv, WireType, WorkerType
<1>3. Pending' = <<>>
  BY <1>1, <1>2 DEF Pending, HeaderOut, Reaches
<1>4. Framed(<<>>, <<>>)
  BY DEF Framed
<1> QED
  BY <1>1, <1>3, <1>4 DEF StreamWhole

\* The worker writes the header, then the message; every other write of it is a packet of
\* its own and finds no header out.  The client loses what a connection leaves unread.
LEMMA WholeStep ==
    ASSUME TypeInv, StreamWhole, [Next]_vars, ~InactivateBegin PROVE StreamWhole'
<1>t. /\ down \in Seq(Segments) /\ worker.conn <= conn /\ conn \in Nat /\ worker.conn \in Nat
      /\ worker.msgs \in Seq(Messages) /\ (worker.at = "send" => worker.msgs # <<>>)
  BY WireAssumption DEF TypeInv, WireType, WorkerType
<1>e. Framed(<<>>, <<>>)
  BY DEF Framed
<1>f. caller.at = "outside" /\ Framed(down, Pending) /\ ~garbled
  BY DEF StreamWhole
<1>g. SUFFICES caller'.at = "outside" /\ Framed(down', Pending') /\ ~garbled'
  BY DEF StreamWhole
<1> DEFINE Goal == caller'.at = "outside" /\ Framed(down', Pending') /\ ~garbled'
<1>1. CASE LoginTimeout \/ Calling \/ Canceling \/ Logout \/ Stop \/ StopJoined \/ UNCHANGED vars
  <2>1. UNCHANGED <<down, conn, open, worker, caller, garbled>>
    BY <1>1 DEF LoginTimeout, Calling, Canceling, Logout, Place, Replace, MassQuote,
                CancelByToken, CancelByOrderId, RequestLogout, Send, Stop, StopListening,
                StopJoined, vars, gatewayVars, mainVars, wire
  <2>2. Pending' = Pending
    BY <2>1 DEF Pending, HeaderOut, Reaches
  <2> QED
    BY <1>f, <2>1, <2>2
<1>2. ASSUME NEW login, Reconnect(login) PROVE Goal
  BY <1>2, <1>f, NewStream DEF StreamWhole
<1>3. CASE Leave
  <2>1. open' = FALSE /\ down' = <<>> /\ UNCHANGED <<caller, garbled>>
    BY <1>3 DEF Leave, HangUp, gatewayVars
  <2>2. Pending' = <<>>
    BY <2>1 DEF Pending, HeaderOut, Reaches
  <2> QED
    BY <1>e, <1>f, <2>1, <2>2
<1>4. CASE HearWhole \/ HearSequenced
  <2>1. UNCHANGED <<conn, open, worker, caller, garbled>>
    BY <1>4 DEF HearWhole, HearSequenced, Drop, gatewayVars
  <2>2. Pending' = Pending
    BY <2>1 DEF Pending, HeaderOut, Reaches
  <2>3. \E n \in {1, 2} : /\ n <= Len(down) /\ down[n].part # "header"
                          /\ down' = SubSeq(down, n + 1, Len(down))
    <3>1. CASE HearWhole
      <4>1. down # <<>> /\ Head(down).part = "whole" /\ down' = SubSeq(down, 1 + 1, Len(down))
        BY <3>1 DEF HearWhole, Drop
      <4>2. 1 <= Len(down) /\ down[1] = Head(down)
        BY <1>t, <4>1
      <4> QED
        BY <4>1, <4>2
    <3>2. CASE HearSequenced
      <4>1. /\ Len(down) > 1 /\ down[2] = Body(Head(down).msg)
            /\ down' = SubSeq(down, 2 + 1, Len(down))
        BY <3>2 DEF HearSequenced, Drop
      <4>2. 2 <= Len(down) /\ down[2].part = "body"
        BY <1>t, <4>1, SegmentParts
      <4> QED
        BY <4>1, <4>2
    <3> QED
      BY <1>4, <3>1, <3>2
  <2>4. Framed(down', Pending)
    BY <1>f, <1>t, <2>3, FramedDrop
  <2> QED
    BY <1>f, <2>1, <2>2, <2>4
<1>5. CASE HearNoise
  <2>1. down # <<>> /\ Head(down) = down[1] /\ 1 \in 1 .. Len(down) /\ Len(down) \in Nat
    BY <1>5, <1>t DEF HearNoise
  <2>2. down[1].part # "body"
    BY <1>f, <2>1 DEF Framed
  <2>3. down[1].part = "header" /\ Len(down) > 1 => down[2] = Body(down[1].msg)
    BY <1>f, <2>1 DEF Framed
  <2> QED
    BY <1>5, <2>1, <2>2, <2>3 DEF HearNoise
<1>6. CASE EndOfDay
  BY <1>6, <1>f DEF EndOfDay, Inactivate, InactivateSnapshot, InactivateEmit, InactivateReturn
<1>7. CASE Gateway
  <2>0. UNCHANGED <<conn, open, caller, garbled>>
    BY <1>7 DEF Gateway, mainVars, Worker, WorkerAccepts, WorkerLeaves, WorkerReleases,
                WorkerLogin, WorkerCloses, WorkerLogout, WorkerBeats, EnterDuplicate,
                EnterOutsideLimits, EnterAccepted, CancelOrder, CancelByOrderIdAnswered,
                ReplaceOrder, MassQuoteAnswered, WorkerSends, WorkerRests, Handle, Consume, wire
  <2>q. ASSUME worker.at # "send" PROVE Pending = <<>>
    BY <2>q DEF Pending, HeaderOut
  <2>n. ASSUME worker'.at # "send" \/ ~worker'.half PROVE Pending' = <<>>
    BY <2>n DEF Pending, HeaderOut
  <2>1. CASE WorkerAccepts \/ WorkerLeaves \/ WorkerReleases \/ WorkerCloses \/ WorkerRests
    <3>1. worker.at # "send" /\ worker'.at # "send" /\ down' = down
      BY <2>1 DEF WorkerAccepts, WorkerLeaves, WorkerReleases, WorkerCloses, WorkerRests,
                  WorkerAt, wire
    <3> QED
      BY <1>f, <2>0, <2>n, <2>q, <3>1
  <2>2. CASE Handlers
    <3>1. worker.at = "loop" /\ down' = down
      BY <2>2 DEF Handlers, EnterDuplicate, EnterOutsideLimits, EnterAccepted, CancelOrder,
                  CancelByOrderIdAnswered, ReplaceOrder, MassQuoteAnswered, Handle
    <3>2. ~worker'.half
      BY <2>2 DEF Handlers, EnterDuplicate, EnterOutsideLimits, EnterAccepted, CancelOrder,
                  CancelByOrderIdAnswered, ReplaceOrder, MassQuoteAnswered, Handle
    <3> QED
      BY <1>f, <2>0, <2>n, <2>q, <3>1, <3>2
  <2>3. ASSUME NEW m \in Messages, NEW c, WriteTo(c, Whole(m)), worker.at # "send",
               worker'.at # "send"
        PROVE  Goal
    <3>1. Framed(down, <<>>)
      BY <1>f, <2>3, <2>q
    <3>2. Framed(down', <<>>)
      BY <1>t, <2>3, <3>1, FramedWhole DEF WriteTo
    <3> QED
      BY <1>f, <2>0, <2>3, <2>n, <3>2
  <2>4. CASE WorkerLogin
    <3>1. worker.at # "send" /\ worker'.at # "send"
      BY <2>4 DEF WorkerLogin, WorkerAt
    <3>2. CASE down' = down
      BY <1>f, <2>0, <2>n, <2>q, <3>1, <3>2
    <3>3. CASE down' # down
      <4>1. PICK answer \in {"LoginAccepted", "LoginRejected"} :
                WriteTo(worker.conn, Whole([type |-> answer]))
        BY <2>4, <3>3 DEF WorkerLogin
      <4>2. [type |-> answer] \in Messages
        BY DEF Messages
      <4> QED
        BY <2>3, <3>1, <4>1, <4>2
    <3> QED
      BY <3>2, <3>3
  <2>5. CASE WorkerLogout
    <3>1. worker.at # "send" /\ worker'.at # "send"
          /\ WriteTo(worker.conn, Whole([type |-> "EndOfSession"]))
      BY <2>5 DEF WorkerLogout, WorkerAt
    <3>2. [type |-> "EndOfSession"] \in Messages
      BY DEF Messages
    <3> QED
      BY <2>3, <3>1, <3>2
  <2>6. CASE WorkerBeats
    <3>1. worker.at # "send" /\ worker'.at # "send"
          /\ WriteTo(worker.conn, Whole([type |-> "Heartbeat"]))
      BY <2>6 DEF WorkerBeats
    <3>2. [type |-> "Heartbeat"] \in Messages
      BY DEF Messages
    <3> QED
      BY <2>3, <3>1, <3>2
  <2>7. CASE WorkerSends
    <3> DEFINE m == Head(worker.msgs)
    <3>1. worker.at = "send" /\ m \in Messages
      BY <1>t, <2>7 DEF WorkerSends
    <3>w. /\ worker.half \in BOOLEAN /\ DOMAIN worker = {"at", "conn", "msgs", "half", "locked", "rest"}
          /\ worker = [at |-> worker.at, conn |-> worker.conn, msgs |-> worker.msgs,
                       half |-> worker.half, locked |-> worker.locked, rest |-> worker.rest]
      BY DEF TypeInv, WorkerType
    <3>2. CASE ~worker.half
      <4>1. worker' = [worker EXCEPT !.half = TRUE] /\ WriteTo(worker.conn, Header(m))
        BY <2>7, <3>2 DEF WorkerSends
      <4>2. /\ worker'.at = "send" /\ worker'.half = TRUE /\ worker'.conn = worker.conn
            /\ worker'.msgs = worker.msgs
        BY <3>1, <3>w, <4>1
      <4>3. Pending = <<>>
        BY <3>2 DEF Pending, HeaderOut
      <4>4. CASE Reaches(worker.conn)
        <5>1. Reaches(worker.conn)'
          BY <2>0, <4>2, <4>4 DEF Reaches
        <5>2. Pending' = <<m>>
          BY <4>2, <5>1 DEF Pending, HeaderOut
        <5>3. down' = Append(down, Header(m))
          BY <4>1, <4>4 DEF WriteTo
        <5> HIDE DEF m
        <5> QED
          BY <1>f, <1>t, <2>0, <3>1, <4>3, <5>2, <5>3, FramedHeader
      <4>5. CASE ~Reaches(worker.conn)
        <5>1. ~Reaches(worker.conn)'
          BY <2>0, <3>1, <4>2, <4>5 DEF Reaches
        <5>2. Pending' = <<>> /\ down' = down
          BY <4>1, <4>5, <5>1 DEF Pending, HeaderOut, WriteTo
        <5> QED
          BY <1>f, <2>0, <4>3, <5>2
      <4> QED
        BY <4>4, <4>5
    <3>3. CASE worker.half
      <4>1. WriteTo(worker.conn, Body(m))
        BY <2>7, <3>3 DEF WorkerSends
      <4>2. worker'.at # "send" \/ ~worker'.half
        BY <2>7, <3>3, <3>w DEF WorkerSends, WorkerAt
      <4>3. CASE Reaches(worker.conn)
        <5>1. Pending = <<m>>
          BY <3>1, <3>3, <4>3 DEF Pending, HeaderOut
        <5>2. down' = Append(down, Body(m))
          BY <4>1, <4>3 DEF WriteTo
        <5> HIDE DEF m
        <5> QED
          BY <1>f, <1>t, <2>0, <2>n, <3>1, <4>2, <5>1, <5>2, FramedBody
      <4>4. CASE ~Reaches(worker.conn)
        <5>1. Pending = <<>> /\ down' = down
          BY <4>1, <4>4 DEF Pending, HeaderOut, WriteTo
        <5> QED
          BY <1>f, <2>0, <2>n, <4>2, <5>1
      <4> QED
        BY <4>3, <4>4
    <3> QED
      BY <3>2, <3>3
  <2> QED
    BY <1>7, <2>1, <2>2, <2>4, <2>5, <2>6, <2>7 DEF Gateway, Worker, Handlers
<1> QED
  BY <1>1, <1>2, <1>3, <1>4, <1>5, <1>6, <1>7 DEF Next, Hear, Stopped

\* Only inactivate_all_resting(), which writes to the client's socket beside the worker
\* (ouch_gateway.cpp:219-232), takes the framing of a stream, and not for longer than its
\* connection: the next one made when no pass is under way is framed again, and stays so
\* until the next pass begins.
THEOREM FramingRecovers == Spec => OnlyPassGarbles
<1>1. Init => TypeInv
  BY TypeInit
<1>2. TypeInv /\ [Next]_vars => TypeInv'
  BY TypeStep
<1>3. TypeInv /\ [Next]_vars => [WholeUnlessPass]_vars
  BY WholeStep, NewStream DEF WholeUnlessPass
<1> QED
  BY <1>1, <1>2, <1>3, PTL DEF Spec, OnlyPassGarbles
=============================================================================
