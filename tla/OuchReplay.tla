----------------------------- MODULE OuchReplay -----------------------------
(***************************************************************************)
(* One OUCH scenario (ScenarioRunner in runner/replay.hpp) with the        *)
(* transport that rebuilds its connection: MockTransportControl over the   *)
(* two gateways of run_one_scenario, or LiveTransportControl of run_live   *)
(* (apps/bist_colo.cpp).  The session and the gateways, whose own modules  *)
(* have their detail, are what the runner sees of them; the exchange, in   *)
(* live mode, answers as the mock gateway does.                            *)
(***************************************************************************)
EXTENDS ScenarioSteps, Reconnect, SequencesExt

CONSTANTS
    Modes,      \* the modes and configurations that are run
    Burst,      \* orders of a burst
    MaxTry,     \* 1000: attempts of an order of a burst
    EventCap    \* 1024: the queue at which run_cancel_id stops

ASSUME ReplayAssumption ==
    /\ Modes \subseteq {"mock", "live", "one_host"}
    /\ Burst \in Nat \ {0} /\ MaxTry \in Nat \ {0} /\ EventCap \in Nat

VARIABLES
    mode,       \* "mock", "live", or "one_host": live without a secondary host
    sess,       \* the session's state, "none" while the slots are empty
    gate,       \* on_secondary_
    served,     \* the gateway's side of the connection: "no", "yes", "closed"
    toMock, toRunner,   \* the connection
    queue,      \* events_
    tokens,     \* TokenRegistry::seen_
    tokenIndex, \* token_index_: the tokens whose order it knows
    seenTokens, \* seen_tokens_ of each gateway
    resting,    \* resting_ of each gateway
    tries,      \* attempts of the order of a burst
    clean,      \* history: no step failed, and no answer was lost with a connection
    owed        \* history: answers owed and not taken yet

session  == <<mode, sess, gate, served, toMock, toRunner>>
books    == <<tokens, tokenIndex, seenTokens, resting>>
ouchVars == <<session, queue, books, tries, clean, owed, reconnectVars>>

Primary   == 1
Secondary == 2
Gateways  == {Primary, Secondary}

\* The password of a login step: none, the right one or a wrong one.
Same  == 0
Right == 1
Wrong == 2

\* The program logs in before it makes the runner.
OuchInit ==
    /\ mode \in Modes /\ (protocol # "ouch" => mode = "mock")
    /\ sess = "none" /\ gate = Primary /\ served = "no"
    /\ toMock = <<>> /\ toRunner = <<>> /\ queue = <<>>
    /\ tokens = {} /\ tokenIndex = {}
    /\ seenTokens = [g \in Gateways |-> {}] /\ resting = [g \in Gateways |-> {}]
    /\ tries = 0 /\ clean = TRUE /\ owed = 0 /\ ReconnectInit

-----------------------------------------------------------------------------
(* Scenarios: the steps of the ouch_*.yaml files *)

\* An answer is expected of a token, or of any (0).
Session(msg) == Expect(msg, 0, 1)

LoginSteps ==
    {Step("ouch_login", 0, 0, p, Session("login_accepted")) : p \in {Same, Right}}
    \cup {Step("ouch_login", 0, 0, Wrong, Session("login_rejected"))}

LogoutStep == Plain("ouch_logout", Session("socket_closed"))

SwitchSteps == {Step("switch_gateway", 0, 0, g, Session("login_accepted")) : g \in Gateways}

PlaceSteps ==
    {Step("place", t, 0, 0, Expect(msg, t, 1)) :
        t \in 1 .. step, msg \in {"order_accepted", "order_rejected"}}

Canceled == Expect("order_canceled", 0, 1)

CancelSteps(action) == {Step(action, t, 0, 0, Canceled) : t \in 1 .. step - 1}

ReplaceSteps ==
    {Step("replace", step, t, 0, Expect("order_replaced", step, 1)) : t \in 1 .. step - 1}

QuoteStep == Step("mass_quote", step, 0, 0, Expect("mass_quote_ack", 0, 2))
BurstStep == Step("burst_place", 0, 0, 0, Expect("order_accepted", 0, Burst))
SweepStep == Plain("inactivate_all", Expect("none", 0, 0))
WaitStep  == Plain("expect", Canceled)

\* The step goes on to its expectation, or has failed.
Ok(s) == Passed(s) /\ UNCHANGED clean
Fails == Finish /\ clean' = FALSE

-----------------------------------------------------------------------------
(* The gateway *)

Answer1(msg, token) == <<[msg |-> msg, token |-> token]>>

Packet(type, token, orig) == [type |-> type, token |-> token, orig |-> orig]

\* A faulty form of QuoteAcks, for the mutation checks: one for both sides.
OneAck(token) == Answer1("mass_quote_ack", token)

QuoteAcks(token) == Answer1("mass_quote_ack", token) \o Answer1("mass_quote_ack", token)

\* What the gateway answers to a packet.
Answers(p) ==
    CASE p.type = "Login"   -> Answer1(IF p.token = Wrong THEN "LoginRejected"
                                       ELSE "LoginAccepted", 0)
      [] p.type = "Logout"  -> Answer1("EndOfSession", 0)
      [] p.type = "Enter"   -> Answer1(IF p.token \in seenTokens[gate] THEN "order_rejected"
                                       ELSE "order_accepted", p.token)
      [] p.type = "Replace" -> Answer1("order_replaced", p.token)
      [] p.type = "Quote"   -> QuoteAcks(p.token)
      [] OTHER              -> Answer1("order_canceled", p.token)

\* Orders rest until they are canceled under their token or replaced; a cancel by
\* the id of an order changes nothing.  A logout closes the connection.
GatewayAnswers ==
    /\ toMock # <<>> /\ served # "closed"
    /\ LET p == Head(toMock)
           fresh == p.type = "Enter" /\ p.token \notin seenTokens[gate]
       IN  /\ toRunner' = toRunner \o Answers(p)
           /\ served' = IF p.type = "Logout" THEN "closed" ELSE "yes"
           /\ toMock' = IF p.type = "Logout" THEN <<>> ELSE Tail(toMock)
           /\ seenTokens' = [seenTokens EXCEPT ![gate] =
                                IF fresh THEN @ \cup {p.token} ELSE @]
           /\ resting' = [resting EXCEPT ![gate] =
                                CASE fresh               -> @ \cup {p.token}
                                  [] p.type = "Cancel"   -> @ \ {p.token}
                                  [] p.type = "Replace"  -> (@ \ {p.orig}) \cup {p.token}
                                  [] OTHER               -> @]
    /\ UNCHANGED <<loopVars, mode, sess, gate, queue, tokens, tokenIndex, tries, clean, owed,
                   reconnectVars>>

-----------------------------------------------------------------------------
(* Calls of the session *)

\* send_unsequenced() and what comes of the step; n answers are owed.
Offer(s, p, n) ==
    IF sess = "Active"
    THEN toMock' = Append(toMock, p) /\ owed' = owed + n /\ Ok(s)
    ELSE Fails /\ UNCHANGED <<toMock, owed>>

Signals == {"LoginAccepted", "LoginRejected", "EndOfSession"}

Enters(msg) == CASE msg = "LoginAccepted" -> "Active"
                 [] msg = "LoginRejected" -> "Failed"
                 [] OTHER                 -> "Disconnected"

\* The places of the packets for the session, and of those that are events.
SignalsIn(s) == {i \in DOMAIN s : s[i].msg \in Signals}
AnswersIn(s) == {i \in DOMAIN s : s[i].msg \notin Signals}

\* poll_io() finds the first k packets of what the gateway has sent: the events are
\* queued in their order, and the last of the others is the state that stays.
Poll(k) ==
    LET new     == SubSeq(toRunner, 1, k)
        signals == SignalsIn(new)
        answers == AnswersIn(new)
    IN  /\ k <= Len(toRunner)
        /\ toRunner' = SubSeq(toRunner, k + 1, Len(toRunner))
        /\ queue' = queue \o [n \in 1 .. Cardinality(answers) |->
                                  new[SetToSortSeq(answers, <)[n]]]
        /\ IF signals = {} THEN UNCHANGED sess
           ELSE \E i \in signals :
                   (\A j \in signals : j <= i) /\ sess' = Enters(new[i].msg)
        /\ UNCHANGED <<mode, gate, served, toMock>>

\* The runner polls while it waits for an event, for the end of a login, and for
\* the throttle.
Polls ==
    /\ \/ pc = "expect" /\ queue = <<>> /\ cur.expect.msg \notin {"login_accepted",
                                                    "login_rejected", "socket_closed"}
       \/ pc = "login" /\ sess = "LoggingIn"
       \/ pc = "burst" /\ tries > 0
    /\ \E k \in 1 .. Len(toRunner) : Poll(k)
    /\ UNCHANGED <<loopVars, books, tries, clean, owed, reconnectVars>>

-----------------------------------------------------------------------------
(* The transport: reconnect_and_login() and switch_to_secondary() *)

\* The slots are emptied; what was under way is lost, and owed for ever.
EmptySlots ==
    /\ sess' = "none" /\ served' = "no" /\ toMock' = <<>> /\ toRunner' = <<>>
    /\ clean' = IF owed = Len(queue) THEN clean ELSE FALSE
    /\ UNCHANGED owed

\* A faulty form of Rebuild, for the mutation checks: the registry is rebuilt too.
RebuildAll(s, target) ==
    /\ EmptySlots /\ gate' = target /\ DialStart /\ Goto("dial", s)
    /\ tokens' = {}
    /\ UNCHANGED <<mode, queue, tokenIndex, seenTokens, resting, tries>>

\* rebuild(), up to the dial; the registry is the application's.
Rebuild(s, target) ==
    /\ EmptySlots /\ gate' = target /\ DialStart /\ Goto("dial", s)
    /\ UNCHANGED <<mode, queue, books, tries>>

\* A connection exists to be dialed: a gateway of this process always, the
\* secondary of live mode only if it has a name.
Known(g) == mode # "one_host" \/ g = Primary

\* connect_with_retry(), or in mock mode one connect() that succeeds.  Its state goes
\* with it, and the login request is sent.
Dials ==
    /\ pc = "dial" /\ dial = "dial" /\ Dialing
    /\ dial' = "ok" => Known(gate)
    /\ mode = "mock" => dial' = "ok"
    /\ UNCHANGED <<loopVars, session, queue, books, tries, clean, owed>>

WaitsToDial ==
    /\ pc = "dial" /\ dial = "wait" /\ Dialing
    /\ UNCHANGED <<loopVars, session, queue, books, tries, clean, owed>>

SendLogin ==
    /\ pc = "dial" /\ dial = "ok" /\ DialReturns
    /\ sess' = "LoggingIn" /\ Goto("login", cur)
    /\ toMock' = <<Packet("Login", IF cur.action = "ouch_login" THEN cur.arg ELSE Same, 0)>>
    /\ UNCHANGED <<mode, gate, served, toRunner, queue, books, tries, clean, owed>>

\* The program's first connection is not a step of the scenario.
FirstDial ==
    /\ pc = "dial" /\ dial = "idle" /\ DialStart
    /\ UNCHANGED <<loopVars, session, queue, books, tries, clean, owed>>

\* The step reads the state of the session it no longer has; a program without its
\* first connection ends.
Unconnected ==
    /\ Goto(IF cur.action = "none" THEN "done" ELSE "undefined", cur)
    /\ UNCHANGED <<session, queue, books, tries, clean, owed>>

DialFailed == pc = "dial" /\ dial = "timeout" /\ DialReturns /\ Unconnected

\* The one connect() of MockTransportControl fails: its error is returned at once.
ConnectFailed == pc = "dial" /\ dial = "dial" /\ mode = "mock" /\ DialEnds /\ Unconnected

\* drive_login() ends: with an answer, or with the five seconds over.
LoginEnds ==
    /\ pc = "login"
    /\ IF cur.action = "none"
       THEN Goto(IF sess = "Active" THEN "run" ELSE "done", cur) /\ UNCHANGED clean
       ELSE IF sess \in {"Active", "Failed"} THEN Ok(cur) ELSE Fails
    /\ UNCHANGED <<session, queue, books, tries, owed, reconnectVars>>

Transport ==
    \/ FirstDial \/ Dials \/ WaitsToDial \/ SendLogin \/ LoginEnds
    \/ DialFailed \/ ConnectFailed

-----------------------------------------------------------------------------
(* run(): the steps *)

NextStep == Dispatch(0)

\* run_login(): without a password an active session is kept.
RunLogin(s) ==
    /\ NextStep
    /\ IF sess = "Active" /\ s.arg = Same
       THEN Ok(s) /\ UNCHANGED <<session, queue, books, tries, owed, reconnectVars>>
       ELSE Rebuild(s, gate)

\* run_switch_gateway(): on_secondary_ changes before the host is looked at.
RunSwitch(s) ==
    /\ NextStep
    /\ IF Known(s.arg) THEN Rebuild(s, s.arg)
       ELSE /\ gate' = s.arg
            /\ IF sess = "Failed" THEN Ok(s) ELSE Fails
            /\ UNCHANGED <<mode, sess, served, toMock, toRunner, queue, books, tries, owed,
                           reconnectVars>>

RunOuchLogout(s) ==
    /\ NextStep /\ sess' = "Disconnecting"
    /\ \/ Ok(s) /\ toMock' = IF served = "closed" THEN toMock
                              ELSE Append(toMock, Packet("Logout", 0, 0))
       \/ served = "closed" /\ Fails /\ UNCHANGED toMock
    /\ UNCHANGED <<mode, gate, served, toRunner, queue, books, tries, owed, reconnectVars>>

\* A call of the client that finds the throttle empty.
RunThrottled ==
    /\ NextStep /\ Fails
    /\ UNCHANGED <<session, queue, books, tries, owed, reconnectVars>>

\* The token of a call is registered before the packet is sent.
Register(t) == t \notin tokens /\ tokens' = tokens \cup {t}

calledVars == <<mode, sess, gate, served, toRunner, queue, tokenIndex, seenTokens, resting,
                tries, reconnectVars>>

RunPlace(s) ==
    /\ NextStep /\ Register(s.id)
    /\ Offer(s, Packet("Enter", s.id, 0), 1)
    /\ UNCHANGED calledVars

\* A token the registry refuses; if a reject is expected the runner makes one.
RunPlaceRefused(s) ==
    /\ NextStep /\ s.id \in tokens
    /\ IF s.expect.msg = "order_rejected"
       THEN queue' = queue \o Answer1("order_rejected", s.id) /\ owed' = owed + 1 /\ Ok(s)
       ELSE Fails /\ UNCHANGED <<queue, owed>>
    /\ UNCHANGED <<session, books, tries, reconnectVars>>

RunCancelByToken(s) ==
    /\ NextStep
    /\ Offer(s, Packet("Cancel", s.id, 0), 1)
    /\ UNCHANGED <<calledVars, tokens>>

RunReplace(s) ==
    /\ NextStep
    /\ Register(s.id) /\ Offer(s, Packet("Replace", s.id, s.orig), 1)
    /\ UNCHANGED calledVars

\* One entry: both of its sides are acknowledged.
RunQuote(s) ==
    /\ NextStep
    /\ Register(s.id) /\ Offer(s, Packet("Quote", s.id, 0), 2)
    /\ UNCHANGED calledVars

\* Only the primary is hooked up, and only in mock mode.  It announces what rests
\* on its connection; one it has lost may find it without a client.
RunInactivate(s) ==
    /\ NextStep /\ Ok(s)
    /\ LET here  == gate = Primary /\ served = "yes"
           asked == [i \in 1 .. Cardinality(resting[Primary]) |->
                        [msg |-> "order_canceled",
                         token |-> SetToSortSeq(resting[Primary], <)[i]]]
       IN  \/ /\ mode = "mock" /\ resting' = [resting EXCEPT ![Primary] = {}]
              /\ IF here THEN toRunner' = toRunner \o asked /\ owed' = owed + Len(asked)
                 ELSE UNCHANGED <<toRunner, owed>>
           \/ /\ (mode # "mock" \/ ~here)
              /\ UNCHANGED <<resting, toRunner, owed>>
    /\ UNCHANGED <<mode, sess, gate, served, toMock, queue, tokens, tokenIndex, seenTokens,
                   tries, reconnectVars>>

RunExpect(s) ==
    /\ NextStep /\ Ok(s)
    /\ UNCHANGED <<session, queue, books, tries, owed, reconnectVars>>

-----------------------------------------------------------------------------
(* run_cancel_id() *)

\* update_indices()
Indexed(e) == IF e.msg \in {"order_accepted", "order_replaced"}
              THEN tokenIndex \cup {e.token} ELSE tokenIndex

RunCancelById(s) ==
    /\ NextStep
    /\ Goto("drain", s)
    /\ UNCHANGED <<session, queue, books, tries, clean, owed, reconnectVars>>

\* One round of the loop that is to drain the queue: the event goes to its end.
DrainRotates ==
    /\ pc = "drain" /\ queue # <<>> /\ Len(queue) <= EventCap
    /\ queue' = Append(Tail(queue), Head(queue)) /\ tokenIndex' = Indexed(Head(queue))
    /\ UNCHANGED <<loopVars, session, tokens, seenTokens, resting, tries, clean, owed,
                   reconnectVars>>

DrainEnds ==
    /\ pc = "drain" /\ (queue = <<>> \/ Len(queue) > EventCap)
    /\ queue' = IF queue = <<>> THEN queue ELSE Append(Tail(queue), Head(queue))
    /\ tokenIndex' = IF queue = <<>> THEN tokenIndex ELSE Indexed(Head(queue))
    /\ IF cur.id \in tokenIndex' THEN Offer(cur, Packet("CancelById", cur.id, 0), 1)
       ELSE Fails /\ UNCHANGED <<toMock, owed>>
    /\ UNCHANGED <<mode, sess, gate, served, toRunner, tokens, seenTokens, resting, tries,
                   reconnectVars>>

-----------------------------------------------------------------------------
(* run_burst_place() *)

\* need counts the orders that are left, tries the attempts of the next one; its
\* tokens are numbers behind a prefix.
BurstToken(n) == MaxStep + n

RunBurst(s) ==
    /\ NextStep
    /\ pc' = "burst" /\ cur' = s /\ need' = Burst /\ UNCHANGED step
    /\ UNCHANGED ouchVars

\* An order is taken; the last one ends the step.
BurstOrder ==
    /\ pc = "burst" /\ need > 0
    /\ tries' = 0
    /\ Register(BurstToken(need))
    /\ IF sess = "Active"
       THEN /\ toMock' = Append(toMock, Packet("Enter", BurstToken(need), 0))
            /\ owed' = owed + 1
            /\ IF need > 1 THEN need' = need - 1 /\ UNCHANGED <<pc, step, cur, clean>>
               ELSE Ok(cur)
       ELSE Fails /\ UNCHANGED <<toMock, owed>>
    /\ UNCHANGED <<mode, sess, gate, served, toRunner, queue, tokenIndex, seenTokens, resting,
                   reconnectVars>>

BurstRefused ==
    /\ pc = "burst" /\ BurstToken(need) \in tokens
    /\ tries' = 0 /\ Fails
    /\ UNCHANGED <<session, queue, books, owed, reconnectVars>>

BurstThrottled ==
    /\ pc = "burst"
    /\ IF tries + 1 < MaxTry THEN tries' = tries + 1 /\ UNCHANGED <<pc, step, cur, need, clean>>
       ELSE tries' = 0 /\ Fails
    /\ UNCHANGED <<session, queue, books, owed, reconnectVars>>

Bursts == BurstOrder \/ BurstRefused \/ BurstThrottled

-----------------------------------------------------------------------------
(* match_expectation() *)

\* Session-level expectations are those of the session's state, at once.
Agrees(msg) ==
    CASE msg = "login_accepted" -> sess = "Active"
      [] msg = "login_rejected" -> sess = "Failed"
      [] OTHER                  -> sess \in {"Disconnected", "Disconnecting"}

SessionLevel == {"login_accepted", "login_rejected", "socket_closed"}

ExpectState ==
    /\ pc = "expect" /\ cur.expect.msg \in SessionLevel
    /\ IF Agrees(cur.expect.msg) THEN Finish /\ UNCHANGED clean ELSE Fails
    /\ UNCHANGED <<session, queue, books, tries, owed, reconnectVars>>

Waiting == pc = "expect" /\ cur.expect.msg \notin SessionLevel

EventMatches(e, ev) == e.msg = ev.msg /\ e.field \in {0, ev.token}

\* A mismatch consumes its event and ends the step.
ExpectAnswer ==
    /\ Waiting /\ queue # <<>>
    /\ queue' = Tail(queue) /\ owed' = owed - 1 /\ tokenIndex' = Indexed(Head(queue))
    /\ IF EventMatches(cur.expect, Head(queue))
       THEN Count(TRUE) /\ UNCHANGED clean ELSE Fails
    /\ UNCHANGED <<session, tokens, seenTokens, resting, tries, reconnectVars>>

\* The deadline is looked at after the poll: what that found stays in the queue.
ExpectLate ==
    /\ Waiting /\ queue = <<>> /\ Fails
    /\ \E k \in 0 .. Len(toRunner) : Poll(k)
    /\ UNCHANGED <<books, tries, owed, reconnectVars>>

\* The gateway has closed the connection: what is still on it may be lost.
ExpectClosed ==
    /\ Waiting /\ queue = <<>> /\ served = "closed" /\ Fails
    /\ toRunner' = <<>> /\ sess' = "Disconnected"
    /\ UNCHANGED <<mode, gate, served, toMock, queue, books, tries, owed, reconnectVars>>

Expects == ExpectState \/ ExpectAnswer \/ ExpectLate \/ ExpectClosed

-----------------------------------------------------------------------------
OuchRunner ==
    /\ \/ \E s \in LoginSteps : RunLogin(s)
       \/ \E s \in SwitchSteps : RunSwitch(s)
       \/ RunOuchLogout(LogoutStep) \/ RunThrottled
       \/ \E s \in PlaceSteps : RunPlace(s) \/ RunPlaceRefused(s)
       \/ \E s \in CancelSteps("cancel_by_token") : RunCancelByToken(s)
       \/ \E s \in CancelSteps("cancel_by_order_id") : RunCancelById(s)
       \/ \E s \in ReplaceSteps : RunReplace(s)
       \/ RunQuote(QuoteStep) \/ RunBurst(BurstStep)
       \/ RunInactivate(SweepStep) \/ RunExpect(WaitStep)
       \/ Polls \/ Transport \/ DrainRotates \/ DrainEnds \/ Bursts \/ Expects
       \/ End(0) /\ UNCHANGED ouchVars
    /\ UNCHANGED protocol

OuchNext == OuchRunner \/ GatewayAnswers

-----------------------------------------------------------------------------
(* Properties *)

\* The places of the packets that will be answered, and of those answered twice.
OrdersIn(s) == {i \in DOMAIN s : s[i].type \notin {"Login", "Logout"}}
QuotesIn(s) == {i \in DOMAIN s : s[i].type = "Quote"}

\* As long as no step of the scenario has failed and no connection was given up with
\* answers on it, what is owed to its steps is what is queued, sent, or still to be
\* answered: over cancels of what no longer rests,
\* rejects the runner made itself, quotes of two sides, bursts, end-of-day passes,
\* logouts and new logins, nothing is answered twice or not at all.  So a step
\* whose predecessors took what they were owed is answered by its own answers.
AnswersAddUp ==
    clean => owed = Len(queue) + Cardinality(AnswersIn(toRunner))
                    + Cardinality(OrdersIn(toMock)) + Cardinality(QuotesIn(toMock))

\* No token reaches two gateways, or one gateway twice, in an order: the registry
\* outlives the connections, a failed send and the change of gateway.
TokenOnceAnywhere ==
    \A i \in DOMAIN toMock :
        toMock[i].type = "Enter" =>
            /\ \A g \in Gateways : toMock[i].token \notin seenTokens[g]
            /\ \A j \in DOMAIN toMock :
                  toMock[j].type = "Enter" /\ toMock[j].token = toMock[i].token => i = j
=============================================================================
