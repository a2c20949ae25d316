----------------------------- MODULE OrderFlow -----------------------------
(***************************************************************************)
(* An OUCH scenario in mock mode (run_one_scenario and                     *)
(* MockTransportControl of apps/bist_colo.cpp): one thread logs in, calls  *)
(* OuchClient, reads what the gateway answers and now and then calls       *)
(* inactivate_all_resting(); the gateway's worker serves its connections;  *)
(* at the end the socket is destroyed and the gateway stopped.             *)
(***************************************************************************)
EXTENDS OuchClient, MockGateway

CONSTANTS
    Kinds,      \* of the orders placed: "day" rests, "ioc" does not, the price
                \* of "far" is outside the limits
    Logins      \* of the logins after the first: "right" and "wrong" by their
                \* password, "taken" if the gateway is armed to reject it

ASSUME InputsAssumption ==
    /\ Kinds \subseteq {"day", "ioc", "far"}
    /\ Logins \subseteq {"right", "wrong", "taken"}

VARIABLES
    main,       \* the scenario's thread: run, login, over, closing, stopping, stopped
    heard,      \* the order id the handlers were given for a token, 0 for none
    garbled     \* the client's parser has lost the framing of its connection

mainVars == <<main, heard, garbled>>
vars == <<wire, active, client, gatewayVars, mainVars>>

Init ==
    /\ WireInit /\ ClientInit /\ GatewayInit
    /\ main = "run"
    /\ heard = [t \in Token |-> 0]
    /\ garbled = FALSE

-----------------------------------------------------------------------------
\* Faulty forms of definitions below, for the mutation checks.
TellsPrevious(m) ==     \* the id of a replacement is kept under the wrong token
    heard' = IF m.type = "Accepted" THEN [heard EXCEPT ![m.token] = m.id]
             ELSE IF m.type = "Replaced" /\ m.previous \in Token
             THEN [heard EXCEPT ![m.previous] = m.id] ELSE heard

-----------------------------------------------------------------------------
Free(where) == main = where /\ caller.at = "outside"

\* The first login is made by run_one_scenario, which gives up if it fails.
LoginFailed == main' = IF conn = 1 THEN "over" ELSE "run"

\* MockTransportControl::rebuild(), up to the wait for the answer.  A test may
\* call arm_duplicate_login_reject() before it.
Reconnect(login) ==
    /\ Free("run")
    /\ conn = 0 => login = "right"
    /\ Dial([type |-> "Login", password |-> IF login = "wrong" THEN "wrong" ELSE "right"])
    /\ armed' = (armed \/ login = "taken")
    /\ active' = FALSE /\ garbled' = FALSE /\ main' = "login"
    /\ UNCHANGED <<client, running, fd, worker, caller, books, beats, sweeps, heard>>

\* drive_login() gives up after five seconds.
LoginTimeout ==
    /\ Free("login")
    /\ LoginFailed
    /\ UNCHANGED <<wire, active, client, gatewayVars, heard, garbled>>

\* A call of OuchClient by a step of the scenario.  The orders it names are those
\* of earlier steps, alive or not.
Calling ==
    /\ Free("run") /\ conn > 0
    /\ \E arg \in Explicit \cup {NoToken} :
          \/ \E kind \in Kinds : Place(arg, kind)
          \/ \E t \in seen : Replace(t, arg)
          \/ \E q \in Quote : MassQuote(arg, q)
    /\ UNCHANGED <<gatewayVars, mainVars>>

Canceling ==
    /\ Free("run") /\ conn > 0
    /\ \/ \E t \in seen : CancelByToken(t)
       \/ \E t \in Token : heard[t] # 0 /\ CancelByOrderId(heard[t])
    /\ UNCHANGED <<gatewayVars, mainVars>>

Logout ==
    /\ Free("run") /\ active
    /\ RequestLogout
    /\ UNCHANGED <<gatewayVars, mainVars>>

-----------------------------------------------------------------------------
(* poll_io(), called while a login or an expectation is waited for *)

Reading == caller.at = "outside" /\ main \in {"run", "login"} /\ open /\ ~garbled

Drop(n) == down' = SubSeq(down, n + 1, Len(down)) /\ UNCHANGED <<conn, open, up>>

\* on_accepted and on_replaced
Tells(m) ==
    heard' = IF m.type \in {"Accepted", "Replaced"}
             THEN [heard EXCEPT ![m.token] = m.id] ELSE heard

HearWhole ==
    /\ Reading /\ down # <<>> /\ Head(down).part = "whole"
    /\ Drop(1)
    /\ LET type == Head(down).msg.type
       IN  /\ active' = (type = "LoginAccepted" \/ (active /\ type = "Heartbeat"))
           /\ IF main # "login" \/ type = "Heartbeat" THEN UNCHANGED main
              ELSE IF type = "LoginAccepted" THEN main' = "run" ELSE LoginFailed
    /\ UNCHANGED <<client, gatewayVars, heard, garbled>>

HearSequenced ==
    /\ Reading /\ Len(down) > 1
    /\ Head(down).part = "header" /\ down[2] = Body(Head(down).msg)
    /\ Drop(2)
    /\ Tells(Head(down).msg)
    /\ UNCHANGED <<active, client, gatewayVars, main, garbled>>

\* The bytes behind a header are not its message.  The parser takes them for it;
\* nothing after that is an order event until the next connection.
HearNoise ==
    /\ Reading /\ down # <<>>
    /\ \/ Head(down).part = "body"
       \/ Head(down).part = "header" /\ Len(down) > 1 /\ down[2] # Body(Head(down).msg)
    /\ garbled' = TRUE
    /\ UNCHANGED <<wire, active, client, gatewayVars, main, heard>>

\* The worker closes a connection the client has open only after a logout: the
\* end of a connection finds the session no longer Active and changes nothing here.

-----------------------------------------------------------------------------
\* The end of run_one_scenario: the destructors of its locals.
Leave ==
    /\ Free("run") \/ Free("over")
    /\ conn > 0
    /\ main' = "closing"
    /\ HangUp
    /\ UNCHANGED <<active, client, gatewayVars, heard, garbled>>

Stop ==
    /\ main = "closing" /\ main' = "stopping"
    /\ StopListening
    /\ UNCHANGED <<active, client, heard, garbled>>

StopJoined ==
    /\ main = "stopping" /\ worker.at = "done" /\ main' = "stopped"
    /\ UNCHANGED <<wire, active, client, gatewayVars, heard, garbled>>

\* The program has ended.
Stopped == main = "stopped" /\ UNCHANGED vars

-----------------------------------------------------------------------------
Gateway == Worker /\ UNCHANGED <<active, client, mainVars>>

EndOfDay ==
    /\ main = "run" /\ conn > 0
    /\ Inactivate
    /\ UNCHANGED <<active, client, mainVars>>

Hear == HearWhole \/ HearSequenced \/ HearNoise

Next ==
    \/ \E login \in Logins \cup {"right"} : Reconnect(login)
    \/ LoginTimeout \/ Calling \/ Canceling \/ Logout
    \/ Hear \/ EndOfDay
    \/ Leave \/ Stop \/ StopJoined \/ Stopped
    \/ Gateway

Spec == Init /\ [][Next]_vars

\* What the scenario's thread does not wait for a step of the scenario to do:
\* return from a call it is in, read while it waits for a login, shut down.
Going ==
    \/ EndOfDay /\ caller.at # "outside"
    \/ Hear /\ main = "login"
    \/ Stop \/ StopJoined

Fairness == WF_vars(Gateway) /\ WF_vars(Going)

FairSpec == Spec /\ Fairness

-----------------------------------------------------------------------------
(* Properties *)

\* Every order the gateway ever kept in resting_ has one fate: it still rests
\* under its own token, or inactivate_all_resting() has taken it and not
\* announced it yet, or it has ended, once.  Two threads change resting_ and
\* a replacement may write over an entry; no order gets lost or ends twice.
OneFate ==
    \A id \in rested :
        LET under == {t \in Token : resting[t] = id}
            ends  == {i \in 1 .. Len(ended) : ended[i] = id}
            taken == IF id \in caller.snapshot THEN 1 ELSE 0
        IN  /\ Cardinality(under) + taken + Cardinality(ends) = 1
            /\ \A t \in under : orders[id].token = t

\* No two orders of the gateway have one token.  The gateway looks for
\* duplicates only among the tokens of Enter Order; that a Replace Order never
\* brings one is up to TokenRegistry, over failed sends and reconnections
\* (token_registry.hpp:6-7).  It holds as long as no pinned token has the
\* allocated form and no two begin with the same 14 bytes; allocate() and
\* register_external() look at neither.
TokenOnce ==
    \A i, j \in 1 .. Len(orders) : orders[i].token = orders[j].token => i = j

\* The order id a handler was given for a token is that of an order of this
\* token, although answers are lost with their connection, cancels and
\* replacements overlap and tokens outlive connections: cancel_by_order_id,
\* which takes the id from there, never names another order.
HeardIsRight ==
    \A t \in Token : heard[t] # 0 =>
        heard[t] \in 1 .. Len(orders) /\ orders[heard[t]].token = t

\* The tokens of the registry as messages show them.
Announced == {OnWire(t) : t \in seen}

\* Every order of the gateway was announced to the local registry, and those
\* entered by place() also to the local book, before it existed.
OrdersAreKnown ==
    \A i \in 1 .. Len(orders) :
        /\ orders[i].token \in Announced
        /\ orders[i].kind # "replacement" => book[orders[i].token] # "absent"

\* A login on a live connection is answered: the worker lets go of the
\* connection before, whatever it was doing, and accepts the next one.
LoginAnswered == main = "login" ~> main # "login"

\* stop() returns, wherever it finds the worker.
StopReturns == main = "stopping" ~> main = "stopped"

\* What the comment at ouch_gateway.cpp:290-292 says of the two threads, which
\* "can safely interleave": what the client reads stays framed while an
\* end-of-day pass and the worker both write to its socket.
FramesIntact == ~garbled

\* Of a stream (d) and the message whose header is out (p, empty for none): behind every
\* header is its message, or nothing yet; before every message is its header.
Framed(d, p) ==
    /\ \A i \in 1 .. Len(d) :
          /\ d[i].part = "header" =>
                \/ i < Len(d) /\ d[i + 1] = Body(d[i].msg)
                \/ i = Len(d) /\ p = <<d[i].msg>>
          /\ d[i].part = "body" => i > 1 /\ d[i - 1] = Header(d[i].msg)
    /\ p # <<>> => d # <<>> /\ d[Len(d)] = Header(p[1])

\* The worker is between the two writes of send_sequenced() to the client's socket.
HeaderOut == worker.at = "send" /\ worker.half /\ Reaches(worker.conn)

Pending == IF HeaderOut THEN <<Head(worker.msgs)>> ELSE <<>>

\* No end-of-day pass is under way, and what the client has read and will read is framed.
StreamWhole == caller.at = "outside" /\ Framed(down, Pending) /\ ~garbled

\* What a step that begins no end-of-day pass does to the framing: a whole stream stays
\* whole, and that of a new connection is whole.
WholeUnlessPass ==
    /\ StreamWhole /\ ~InactivateBegin => StreamWhole'
    /\ caller.at = "outside" /\ (\E login \in Logins \cup {"right"} : Reconnect(login)) =>
          StreamWhole'

\* Only inactivate_all_resting(), which writes to the client's socket beside the worker,
\* takes the framing of a stream, and not for longer than its connection: nothing of what
\* a pass has left there, in a buffer or half written by the worker, reaches the next one.
OnlyPassGarbles == [][WholeUnlessPass]_vars
=============================================================================
