--------------------------- MODULE FixReplayProofs ---------------------------
(***************************************************************************)
(* What every step of a FIX scenario keeps, for scenarios of every length, *)
(* any number of lost connections and both applications.                   *)
(***************************************************************************)
EXTENDS FixReplay, TLAPS

-----------------------------------------------------------------------------
(* Types *)

\* A message, an event of the runner's queue, and a substep of a callback.
Types  == {"Logon", "Logout", "App", "Amr", "New", "Short", "Cancel", "Replace"}
Bodies == {"none", "new", "short_sell", "canceled", "replaced", "processed", "duplicate"}
          \cup FixSessionState \cup Nat

Messages == [type : Types, id : Nat, orig : Nat, body : Bodies]
Events   == [kind : {"session", "fix_execution_report", "fix_amr_ack"}, what : Bodies, logon : Nat]
Substeps == [do : {"store", "fire"}, what : FixSessionState]

WireType ==
    /\ toGw \in Seq(Messages) /\ toCl \in Seq(Messages)
    /\ events \in Seq(Events) /\ worker \in Seq(Substeps) /\ oks \in Seq(Nat)
    /\ logons \in Nat /\ step \in Nat \ {0}
    /\ \A k \in DOMAIN index : index[k] \in Nat

-----------------------------------------------------------------------------
(* The inductive invariants *)

\* A client that may say Active is connected, or onLogout() has not begun.
LinkInv ==
    \/ link \in {"up", "logout_sent"}
    \/ worker = OnLogout
    \/ worker \in {<<>>, Tail(OnLogout)} /\ state # "Active"

\* Of the logons up to c there is one event in the queue q at most, of onLogout().
Told(q, c) ==
    \A i, j \in DOMAIN q :
        q[i].logon <= c /\ q[j].logon <= c =>
            i = j /\ q[i].kind = "session" /\ q[i].what = "LoggedOut"

\* Without a connection nothing is under way but the end of onLogout(); a logout
\* that was complete with the session down leaves the session down, and onLogout()
\* has no more to say once it said LoggedOut.
QuietInv ==
    /\ link = "down" => /\ toGw = <<>> /\ toCl = <<>>
                        /\ worker \in {<<>>, OnLogout, Tail(OnLogout)}
    /\ cut \in 0 .. logons
    /\ cut = logons => link = "down"
    /\ Told(events, cut)
    /\ cut = logons /\ worker # <<>> => \A i \in DOMAIN events : events[i].logon > cut

\* One request is accepted, and the session is subscribed from then on.
AmrInv == Len(oks) <= 1 /\ (~subscribed => oks = <<>>)

\* Ids are the numbers of the steps that were run.
IndexInv ==
    /\ DOMAIN index \subseteq 1 .. step
    /\ pc = "run" => DOMAIN index \subseteq 1 .. (step - 1)
    /\ \A k \in DOMAIN known : k \in DOMAIN index /\ known[k] = index[k]

\* An order on its way has the symbol the runner knows it by, and a cancel or a
\* replace that of the order it refers to.
NamedInv ==
    \A i \in DOMAIN toGw :
        LET m == toGw[i]
        IN  /\ m.type \in {"New", "Short", "Cancel", "Replace"} =>
                  m.id \in DOMAIN index /\ m.body = index[m.id]
            /\ m.type \in {"Cancel", "Replace"} =>
                  m.orig < step /\ (m.orig \in DOMAIN index => m.body = index[m.orig])

-----------------------------------------------------------------------------
(* The client and the connection *)

\* onLogout() stores first and fires after (oe_app.hpp:52-55).
LEMMA OnLogoutShape ==
    /\ OnLogout # <<>> /\ Head(OnLogout) = Store("LoggedOut")
    /\ Tail(OnLogout) # <<>> /\ Head(Tail(OnLogout)) = Fire("LoggedOut")
    /\ Tail(Tail(OnLogout)) = <<>>
  BY DEF OnLogout

\* The steps of the runner and of the acceptor leave the connection to QuickFIX.
LEMMA LinkFrame ==
    ASSUME FixRunner \/ FixAccepts
    PROVE  UNCHANGED <<link, worker>> /\ (state' = state \/ state' = "LoggingIn")
<1>1. CASE FixAccepts
  BY <1>1 DEF FixAccepts, Acceptor, HandleLogon, HandleNewOrder, HandleCancel, HandleReplace,
              HandleAmr, HandleLogout, Report, Handle, clientVars
<1>2. ASSUME NEW s, RunLogon(s) \/ RunLogout(s) \/ RunOrder(s) \/ RunAmr(s) \/ RunPassive(s)
      PROVE  UNCHANGED <<link, worker, state>>
  BY <1>2 DEF RunLogon, RunLogout, RunOrder, RunAmr, RunPassive, LoginLocked, Logout,
              Subscribe, Request, clientVars, fixOthers, fixVars
<1>3. CASE RunLogonStore
  BY <1>3 DEF RunLogonStore, LoginStore
<1>4. CASE ExpectEvent \/ LogoutComplete
  BY <1>4 DEF ExpectEvent, LogoutComplete
<1>5. CASE UNCHANGED fixVars
  BY <1>5 DEF fixVars, fixOthers, clientVars
<1> QED
  BY <1>1, <1>2, <1>3, <1>4, <1>5 DEF FixRunner, ExpectTimeout, LogoutTimeout

\* Between its callbacks the client is Active only while it is connected.
LEMMA LinkStep == ASSUME LinkInv, FixNext PROVE LinkInv'
<1>1. CASE FixRunner \/ FixAccepts
  BY <1>1, LinkFrame DEF LinkInv
<1>2. CASE Callback
  BY <1>2, OnLogoutShape DEF Callback, LinkInv, Idle, Store, Fire
<1>3. CASE Connect
  BY <1>3 DEF Connect, LinkInv, Idle, OnLogout
<1>4. CASE ReceiveLogon
  BY <1>4 DEF ReceiveLogon, Disconnect, LinkInv
<1>5. CASE ReceiveReport \/ ReceiveAck
  BY <1>5 DEF ReceiveReport, ReceiveAck, FromApp, LinkInv
<1>6. CASE ReceiveLogout \/ FixDrop
  BY <1>6 DEF ReceiveLogout, FixDrop, Drop, Disconnect, LinkInv
<1>7. CASE SendLogout
  BY <1>7 DEF SendLogout, LinkInv
<1> QED
  BY <1>1, <1>2, <1>3, <1>4, <1>5, <1>6, <1>7 DEF FixNext, FixQuickFix, QuickFix

-----------------------------------------------------------------------------
(* The messages *)

\* The steps of an order scenario.
LEMMA OrderStepShape ==
    ASSUME NEW s \in FixOrderSteps, step \in Nat \ {0}
    PROVE  /\ s.action \in {"New", "Short", "Cancel", "Replace"}
           /\ s.id = step /\ s.orig \in Nat /\ s.arg \in Nat
           /\ s.action \in {"Cancel", "Replace"} =>
                 s.orig \in 1 .. (step - 1) /\ s.arg = Unnamed
<1>1. CASE s \in {Step("New", step, 0, step, e) : e \in {NoExpect, Report1("any")}}
  BY <1>1 DEF Step
<1>2. CASE s \in {Step("Short", step, 0, step, Report1("short_sell"))}
  BY <1>2 DEF Step
<1>3. CASE s \in {Step(a, step, o, Unnamed, Report1("any")) :
                    a \in {"Cancel", "Replace"}, o \in 1 .. step - 1}
  BY <1>3 DEF Step, Unnamed
<1> QED
  BY <1>1, <1>2, <1>3 DEF FixOrderSteps

\* What the runner sends for an order is a message (run_place(), run_cancel(),
\* run_replace() in fix_replay.hpp).
LEMMA OrderIsMessage ==
    ASSUME WireType, NEW s \in FixOrderSteps
    PROVE  /\ Resolve(s) \in Nat
           /\ Message(s.action, s.id, s.orig, Resolve(s)) \in Messages
<1>1. /\ s.action \in Types /\ s.id \in Nat /\ s.orig \in Nat /\ s.arg \in Nat
  BY OrderStepShape DEF WireType, Types
<1>2. Resolve(s) \in Nat
  BY <1>1 DEF Resolve, WireType
<1> QED
  BY <1>1, <1>2 DEF Message, Messages, Bodies

\* What is left of a queue is a queue, and so is a queue that grows.
LEMMA TailIsSeq ==
    ASSUME NEW S, NEW q \in Seq(S)
    PROVE  <<>> \in Seq(S) /\ (q # <<>> => Tail(q) \in Seq(S))
  OBVIOUS

\* A queue of events stays a sequence when one is appended.
LEMMA AppendIsSeq == ASSUME NEW S, NEW q \in Seq(S), NEW e \in S PROVE Append(q, e) \in Seq(S)
  OBVIOUS

\* A message without a body.
LEMMA SignalIsMessage ==
    ASSUME NEW type \in Types, NEW n \in Nat PROVE Signal(type, n) \in Messages
  BY DEF Signal, Message, Messages, Bodies

\* A request is put on the wire or, without a connection, left (send_or_error() in
\* oe_app.hpp and rd_app.hpp).
LEMMA RequestSends ==
    ASSUME NEW m, Request(m), toGw \in Seq(Messages), m \in Messages
    PROVE  toGw' \in Seq(Messages) /\ (toGw' = toGw \/ (bound /\ toGw' = Append(toGw, m)))
<1>1. toGw' = toGw \/ (bound /\ toGw' = Append(toGw, m))
  BY DEF Request, Send
<1> QED
  BY <1>1

\* A step of the loop leaves the number of the step a number.
LEMMA StepCounts ==
    ASSUME step \in Nat \ {0}, FixRunner PROVE step' \in Nat \ {0} /\ step' >= step
<1>1. ASSUME NEW s, Passed(s) PROVE step' \in {step, step + 1}
  BY <1>1 DEF Passed, Finish
<1>2. ASSUME NEW s, RunLogon(s) \/ RunLogout(s) \/ RunOrder(s) \/ RunAmr(s) \/ RunPassive(s)
      PROVE  step' \in {step, step + 1}
  <2>1. Passed(s) \/ step' \in {step, step + 1}
    BY <1>2 DEF RunLogon, RunLogout, RunOrder, RunAmr, RunPassive, Finish, Goto
  <2> QED
    BY <1>1, <2>1
<1>3. CASE RunLogonStore
  <2>1. Passed(cur)
    BY <1>3 DEF RunLogonStore
  <2> QED
    BY <1>1, <2>1
<1>4. ASSUME NEW b, Count(b) PROVE step' \in {step, step + 1}
  BY <1>4 DEF Count, Finish
<1>5. CASE ExpectEvent
  BY <1>4, <1>5 DEF ExpectEvent
<1>6. CASE ExpectTimeout \/ LogoutComplete \/ LogoutTimeout \/ End(drops)
  <2>1. step' = step + 1 \/ step' = step
    BY <1>6, Zenon DEF ExpectTimeout, LogoutComplete, LogoutTimeout, End, Finish
  <2> QED
    BY <2>1
<1> QED
  BY <1>2, <1>3, <1>5, <1>6 DEF FixRunner

\* The runner.
LEMMA RunnerTypes == ASSUME WireType, FixRunner PROVE WireType'
<1> USE DEF WireType
<1>1. step' \in Nat \ {0}
  BY StepCounts
<1>2. ASSUME NEW s, RunLogon(s) \/ RunLogout(s) \/ RunPassive(s) PROVE WireType'
  BY <1>1, <1>2 DEF RunLogon, RunLogout, RunPassive, LoginLocked, Logout, clientVars, wire,
                    history, acceptorVars, fixOthers, fixVars
<1>3. ASSUME NEW s \in FixOrderSteps, RunOrder(s) PROVE WireType'
  <2>1. toGw' \in Seq(Messages)
    BY <1>3, OrderIsMessage, RequestSends DEF RunOrder
  <2>2. \A k \in DOMAIN index' : index'[k] \in Nat
    BY <1>3, OrderIsMessage DEF RunOrder
  <2>3. UNCHANGED <<toCl, events, worker, oks, logons>>
    BY <1>3 DEF RunOrder, Request, clientVars, history, acceptorVars
  <2> QED
    BY <1>1, <2>1, <2>2, <2>3
<1>4. ASSUME NEW s \in AmrSteps, RunAmr(s) PROVE WireType'
  <2>1. s.id \in Nat
    BY DEF AmrSteps, Step
  <2>2. Signal("Amr", s.id) \in Messages
    BY <2>1, SignalIsMessage DEF Types
  <2>3. toGw' \in Seq(Messages)
    BY <1>4, <2>2, RequestSends DEF RunAmr, Subscribe
  <2>4. UNCHANGED <<toCl, events, worker, oks, logons, index>>
    BY <1>4 DEF RunAmr, Subscribe, Request, clientVars, history, acceptorVars
  <2> QED
    BY <1>1, <2>3, <2>4
<1>5. CASE RunLogonStore
  BY <1>1, <1>5 DEF RunLogonStore, LoginStore, wire, history, acceptorVars
<1>6. CASE ExpectEvent \/ LogoutComplete
  <2>1. events' = <<>> \/ (events # <<>> /\ events' = Tail(events))
    BY <1>6 DEF ExpectEvent, LogoutComplete
  <2>2. events' \in Seq(Events)
    BY <2>1, TailIsSeq
  <2>3. UNCHANGED <<toGw, toCl, worker, oks, logons, index>>
    BY <1>6 DEF ExpectEvent, LogoutComplete, fixOthers, clientVars, wire, history, acceptorVars
  <2> QED
    BY <1>1, <2>2, <2>3
<1>7. CASE UNCHANGED fixVars
  BY <1>1, <1>7 DEF clientVars, wire, history, acceptorVars, fixOthers, fixVars
<1> QED
  BY <1>2, <1>3, <1>4, <1>5, <1>6, <1>7 DEF FixRunner, ExpectTimeout, LogoutTimeout

\* What fromAdmin() leaves to do, if anything (oe_app.hpp).
LEMMA FromAdminIsSubsteps == ASSUME NEW status PROVE FromAdmin(status) \in Seq(Substeps)
<1>1. CASE protocol = "fix_oe" /\ status \in {"PasswordExpired", "PasswordChanged"}
  <2>1. Store(status) \in Substeps /\ Fire(status) \in Substeps
    BY <1>1 DEF Store, Fire, Substeps, FixSessionState
  <2>2. <<Store(status), Fire(status)>> \in Seq(Substeps)
    BY <2>1
  <2>3. FromAdmin(status) = <<Store(status), Fire(status)>>
    BY <1>1, Zenon DEF FromAdmin
  <2> QED
    BY <2>2, <2>3
<1>2. CASE ~(protocol = "fix_oe" /\ status \in {"PasswordExpired", "PasswordChanged"})
  <2>1. FromAdmin(status) = <<>>
    BY <1>2, Zenon DEF FromAdmin
  <2> QED
    BY <2>1
<1> QED
  BY <1>1, <1>2

\* The thread of QuickFIX and the loss of a connection.
LEMMA QuickFixTypes == ASSUME WireType, FixQuickFix \/ FixDrop PROVE WireType'
<1>1. step' \in Nat \ {0} /\ oks' = oks /\ index' = index
  BY DEF FixQuickFix, FixDrop, loopVars, acceptorVars, WireType
<1>2. CASE Callback
  <2>1. worker \in Seq(Substeps) /\ worker # <<>> /\ logons \in Nat /\ events \in Seq(Events)
    BY <1>2 DEF Callback, Idle, WireType
  <2>2. Head(worker) \in Substeps /\ worker' \in Seq(Substeps)
    BY <1>2, <2>1 DEF Callback
  <2>3. Event("session", Head(worker).what) \in Events
    BY <2>1, <2>2 DEF Event, Events, Bodies, Substeps
  <2>4. events' = events \/ events' = Append(events, Event("session", Head(worker).what))
    BY <1>2, Zenon DEF Callback
  <2>6. events' \in Seq(Events)
    BY <2>1, <2>3, <2>4
  <2>5. UNCHANGED <<toGw, toCl, logons>>
    BY <1>2 DEF Callback, wire, history
  <2> QED
    BY <1>1, <2>2, <2>5, <2>6 DEF WireType
<1>3. CASE Connect
  <2>1. (IF rotate THEN 1 ELSE 0) \in Nat
    OBVIOUS
  <2>2. Signal("Logon", IF rotate THEN 1 ELSE 0) \in Messages
    BY <2>1, SignalIsMessage DEF Types
  <2>3. toGw' \in Seq(Messages)
    BY <1>3, <2>2 DEF Connect
  <2>4. toCl' = <<>> /\ logons' = logons + 1 /\ UNCHANGED <<events, worker>>
    BY <1>3 DEF Connect
  <2> QED
    BY <1>1, <2>3, <2>4 DEF WireType
<1>4. ASSUME Disconnect, UNCHANGED logons PROVE WireType'
  <2>1. worker' \in Seq(Substeps)
    BY <1>4 DEF Disconnect, OnLogout, Store, Fire, Substeps, FixSessionState
  <2>2. toGw' = <<>> /\ toCl' = <<>> /\ UNCHANGED <<events, logons>>
    BY <1>4 DEF Disconnect
  <2> QED
    BY <1>1, <2>1, <2>2 DEF WireType
<1>5. CASE ReceiveLogon
  <2>1. CASE enabled
    <3>1. /\ UNCHANGED <<toGw, events, logons>> /\ toCl # <<>> /\ toCl' = Tail(toCl)
          /\ worker' = FromAdmin(Head(toCl).body) \o OnLogon
      BY <1>5, <2>1 DEF ReceiveLogon, Incoming, Received, history
    <3>2. FromAdmin(Head(toCl).body) \in Seq(Substeps)
      BY FromAdminIsSubsteps
    <3>3. OnLogon \in Seq(Substeps)
      BY DEF OnLogon, Store, Fire, Substeps, FixSessionState
    <3>4. worker' \in Seq(Substeps)
      BY <3>1, <3>2, <3>3
    <3>5. toCl' \in Seq(Messages)
      BY <3>1, TailIsSeq DEF WireType
    <3> QED
      BY <1>1, <3>1, <3>4, <3>5 DEF WireType
  <2>2. CASE ~enabled
    BY <1>4, <1>5, <2>2 DEF ReceiveLogon, history
  <2> QED
    BY <2>1, <2>2
<1>6. CASE ReceiveReport \/ ReceiveAck
  <2>1. PICK kind \in {"fix_execution_report", "fix_amr_ack"} : FromApp(kind)
    BY <1>6 DEF ReceiveReport, ReceiveAck
  <2>2. toCl # <<>> /\ toCl' = Tail(toCl) /\ UNCHANGED <<toGw, worker, logons>>
    BY <2>1 DEF FromApp, Incoming, Received, history
  <2>3. toCl' \in Seq(Messages) /\ Head(toCl) \in Messages
    BY <2>2, TailIsSeq DEF WireType
  <2>4. Event(kind, Head(toCl).body) \in Events
    BY <2>3 DEF Event, Events, Messages, WireType
  <2>5. events' \in Seq(Events)
    BY <2>1, <2>4 DEF FromApp, WireType
  <2> QED
    BY <1>1, <2>2, <2>3, <2>5 DEF WireType
<1>7. CASE ReceiveLogout \/ FixDrop
  BY <1>4, <1>7 DEF ReceiveLogout, FixDrop, Drop, history
<1>8. CASE SendLogout
  <2>1. Signal("Logout", 0) \in Messages
    BY SignalIsMessage DEF Types
  <2>2. toGw' \in Seq(Messages)
    BY <1>8, <2>1 DEF SendLogout, WireType
  <2> QED
    BY <1>1, <1>8, <2>2 DEF SendLogout, history, WireType
<1> QED
  BY <1>2, <1>3, <1>5, <1>6, <1>7, <1>8 DEF FixQuickFix, QuickFix

\* The acceptor.
LEMMA AcceptorTypes == ASSUME WireType, FixAccepts PROVE WireType'
<1>1. UNCHANGED <<step, index, events, worker, logons>>
  BY DEF FixAccepts, Acceptor, HandleLogon, HandleNewOrder, HandleCancel, HandleReplace,
         HandleAmr, HandleLogout, Report, Handle, loopVars, clientVars, history
<1>2. PICK type \in Types : Handle(type)
  BY DEF FixAccepts, Acceptor, HandleLogon, HandleNewOrder, HandleCancel, HandleReplace,
         HandleAmr, HandleLogout, Report, Types
<1>3. /\ toGw # <<>> /\ toGw' = Tail(toGw) /\ toGw' \in Seq(Messages)
      /\ Head(toGw) \in Messages
  BY <1>2, TailIsSeq DEF Handle, WireType
<1>4. ASSUME NEW m \in Messages, Answer(m), oks' \in Seq(Nat) PROVE WireType'
  BY <1>1, <1>3, <1>4 DEF Answer, WireType
<1>5. CASE HandleLogon
  <2> DEFINE status == SessionStatus(Head(toGw).id = 1)
  <2>1. status \in {"Active", "PasswordChanged"}
    BY Zenon DEF SessionStatus
  <2>2. Message("Logon", 0, 0, status) \in Messages
    BY <2>1 DEF Message, Messages, Types, Bodies, FixSessionState
  <2>3. Answer(Message("Logon", 0, 0, status)) /\ oks' = oks
    BY <1>5 DEF HandleLogon, acceptorVars
  <2> QED
    BY <1>4, <2>2, <2>3 DEF WireType
<1>6. ASSUME NEW what \in Bodies, Answer(Message("App", Head(toGw).id, Head(toGw).orig, what)),
             oks' = oks
      PROVE  WireType'
  <2>1. Message("App", Head(toGw).id, Head(toGw).orig, what) \in Messages
    BY <1>3 DEF Message, Messages, Types
  <2> QED
    BY <1>4, <1>6, <2>1 DEF WireType
<1>7. CASE HandleNewOrder \/ HandleCancel \/ HandleReplace
  BY <1>6, <1>7 DEF HandleNewOrder, HandleCancel, HandleReplace, Report, Bodies
<1>8. CASE HandleAmr
  <2> DEFINE body == IF Duplicate(Head(toGw).id) THEN "duplicate" ELSE "processed"
             m    == Message("App", Head(toGw).id, 0, body)
  <2>1. body \in {"duplicate", "processed"}
    BY Zenon
  <2>2. m \in Messages
    BY <1>3, <2>1 DEF Message, Messages, Types, Bodies
  <2>3. Answer(m)
    BY <1>8 DEF HandleAmr
  <2>4. oks' = oks \/ oks' = Append(oks, logons)
    BY <1>8, Zenon DEF HandleAmr
  <2>5. oks' \in Seq(Nat)
    BY <2>4, AppendIsSeq DEF WireType
  <2> HIDE DEF m
  <2> QED
    BY <1>4, <2>2, <2>3, <2>5
<1>9. CASE HandleLogout
  <2>1. Signal("Logout", 0) \in Messages
    BY SignalIsMessage DEF Types
  <2> QED
    BY <1>4, <1>9, <2>1 DEF HandleLogout, acceptorVars, WireType
<1> QED
  BY <1>5, <1>7, <1>8, <1>9 DEF FixAccepts, Acceptor

\* The messages on the wire keep their types over every step of a FIX scenario.
LEMMA TypesStep == ASSUME WireType, FixNext PROVE WireType'
  BY RunnerTypes, QuickFixTypes, AcceptorTypes DEF FixNext

-----------------------------------------------------------------------------
(* What is left of a session that is over *)

\* The runner takes events off its queue and marks what was over.
LEMMA RunnerFrame ==
    ASSUME FixRunner
    PROVE  /\ UNCHANGED <<toCl, logons, known, subscribed, oks>> /\ (link = "down" => toGw' = toGw)
           /\ \/ events' = <<>> /\ cut' = IF link = "down" THEN logons ELSE cut
              \/ cut' = cut /\ (events' = events \/ (events # <<>> /\ events' = Tail(events)))
<1>1. ASSUME NEW s, RunLogon(s) \/ RunLogout(s) \/ RunPassive(s)
      PROVE  UNCHANGED <<toCl, toGw, logons, known, subscribed, oks, events, cut>>
  BY <1>1 DEF RunLogon, RunLogout, RunPassive, LoginLocked, Logout, clientVars, wire,
              history, acceptorVars, fixOthers, fixVars
<1>2. ASSUME NEW m, Request(m)
      PROVE  UNCHANGED <<toCl, logons, events>> /\ (link = "down" => toGw' = toGw)
  BY <1>2 DEF Request, Send, clientVars, history
<1>3. ASSUME NEW s, RunOrder(s) \/ RunAmr(s)
      PROVE  /\ UNCHANGED <<toCl, logons, known, subscribed, oks, events, cut>>
             /\ link = "down" => toGw' = toGw
  BY <1>2, <1>3 DEF RunOrder, RunAmr, Subscribe, acceptorVars
<1>4. CASE RunLogonStore
  BY <1>4 DEF RunLogonStore, LoginStore, wire, history, acceptorVars
<1>5. CASE ExpectEvent
  BY <1>5 DEF ExpectEvent, wire, history, acceptorVars
<1>6. CASE LogoutComplete
  BY <1>6 DEF LogoutComplete, wire, history, acceptorVars
<1>7. CASE UNCHANGED fixVars
  BY <1>7 DEF clientVars, wire, history, acceptorVars, fixOthers, fixVars
<1> QED
  BY <1>1, <1>3, <1>4, <1>5, <1>6, <1>7 DEF FixRunner, ExpectTimeout, LogoutTimeout

\* Only onLogout() is at work while there is no connection.
LEMMA QuietStep == ASSUME WireType, QuietInv, FixNext PROVE QuietInv'
<1>0. logons \in Nat /\ cut \in Nat /\ cut <= logons /\ events \in Seq(Events)
  BY DEF WireType, QuietInv
<1>1. CASE FixRunner
  <2>1. UNCHANGED <<link, worker, toCl, logons>> /\ (link = "down" => toGw' = toGw)
    BY <1>1, LinkFrame, RunnerFrame
  <2>2. CASE events' = <<>> /\ cut' = IF link = "down" THEN logons ELSE cut
    BY <1>0, <2>1, <2>2 DEF QuietInv, Told
  <2>3. CASE cut' = cut /\ (events' = events \/ (events # <<>> /\ events' = Tail(events)))
    <3>1. Told(events', cut)
      BY <1>0, <2>3 DEF QuietInv, Told
    <3>2. ASSUME cut = logons, worker # <<>> PROVE \A i \in DOMAIN events' : events'[i].logon > cut
      <4>1. \A i \in DOMAIN events : events[i].logon > cut
        BY <3>2 DEF QuietInv
      <4>2. \A i \in DOMAIN events' : \E j \in DOMAIN events : events'[i] = events[j]
        BY <1>0, <2>3
      <4> QED
        BY <4>1, <4>2
    <3> QED
      BY <2>1, <2>3, <3>1, <3>2 DEF QuietInv
  <2> QED
    BY <1>1, <2>2, <2>3, RunnerFrame
<1>2. CASE FixAccepts
  <2>1. toGw # <<>> /\ UNCHANGED <<link, logons, events, cut>>
    BY <1>2 DEF FixAccepts, Acceptor, HandleLogon, HandleNewOrder, HandleCancel, HandleReplace,
                HandleAmr, HandleLogout, Report, Handle, clientVars, history
  <2>2. link # "down" /\ link' # "down"
    BY <2>1 DEF QuietInv
  <2> QED
    BY <2>1, <2>2 DEF QuietInv
<1>3. CASE Callback /\ UNCHANGED cut
  <2>1. UNCHANGED <<link, toGw, toCl, logons, cut>> /\ worker # <<>> /\ worker' = Tail(worker)
    BY <1>3 DEF Callback, Idle, wire, history
  <2>2. \/ Head(worker).do = "store" /\ events' = events
        \/ Head(worker).do # "store" /\ events' = Append(events, Event("session", Head(worker).what))
    BY <1>3, Zenon DEF Callback
  <2>3. link = "down" => worker' \in {<<>>, OnLogout, Tail(OnLogout)}
    BY <2>1, OnLogoutShape DEF QuietInv
  <2>4. Told(events', cut)
        /\ (cut = logons /\ worker' # <<>> => \A i \in DOMAIN events' : events'[i].logon > cut)
    <3>1. CASE Head(worker).do = "store"
      BY <2>1, <2>2, <3>1 DEF QuietInv
    <3>2. CASE Head(worker).do # "store" /\ logons <= cut
      <4>1. link = "down"
        BY <1>0, <3>2 DEF QuietInv
      <4>2. worker = Tail(OnLogout)
        BY <2>1, <3>2, <4>1, OnLogoutShape DEF QuietInv, Store
      <4>3. Head(worker).what = "LoggedOut"
        BY <4>2, OnLogoutShape DEF Fire
      <4>4. events' = Append(events, Event("session", "LoggedOut"))
        BY <2>2, <3>2, <4>3
      <4>5. worker' = <<>>
        BY <2>1, <4>2, OnLogoutShape
      <4>6. \A i \in DOMAIN events : events[i].logon > cut
        BY <1>0, <2>1, <3>2 DEF QuietInv
      <4>7. PICK e : /\ e.kind = "session" /\ e.what = "LoggedOut" /\ e.logon = logons
                     /\ events' = Append(events, e)
        BY <4>4 DEF Event
      <4>8. \A i \in DOMAIN events' : events'[i].logon > cut \/ (i = Len(events) + 1 /\ events'[i] = e)
        BY <1>0, <4>6, <4>7
      <4>9. \A i \in DOMAIN events' : events'[i].logon \in Nat
        <5>1. ASSUME NEW i \in DOMAIN events PROVE events[i].logon \in Nat
          <6>1. events[i] \in Events
            BY <1>0
          <6> QED
            BY <6>1 DEF Events
        <5> QED
          BY <1>0, <4>7, <5>1
      <4>10. Told(events', cut)
        <5> SUFFICES ASSUME NEW i \in DOMAIN events', NEW j \in DOMAIN events',
                            events'[i].logon <= cut, events'[j].logon <= cut
                     PROVE  i = j /\ events'[i].kind = "session" /\ events'[i].what = "LoggedOut"
          BY DEF Told
        <5>1. i = Len(events) + 1 /\ events'[i] = e
          BY <1>0, <4>8, <4>9
        <5>2. j = Len(events) + 1
          BY <1>0, <4>8, <4>9
        <5> QED
          BY <4>7, <5>1, <5>2
      <4> QED
        BY <4>5, <4>10
    <3>3. CASE Head(worker).do # "store" /\ logons > cut
      <4>1. PICK e : e.logon = logons /\ events' = Append(events, e)
        BY <2>2, <3>3 DEF Event
      <4>2. Told(events', cut)
        BY <1>0, <3>3, <4>1 DEF QuietInv, Told
      <4> QED
        BY <1>0, <3>3, <4>2
    <3> QED
      BY <1>0, <3>1, <3>2, <3>3
  <2> QED
    BY <2>1, <2>3, <2>4 DEF QuietInv
<1>4. CASE Connect /\ UNCHANGED cut
  <2>1. link' = "logon_sent" /\ logons' = logons + 1 /\ events' = events
    BY <1>4 DEF Connect
  <2> QED
    BY <1>0, <1>4, <2>1 DEF QuietInv
<1>5. ASSUME link # "down", Disconnect, UNCHANGED <<logons, cut>> PROVE QuietInv'
  <2>1. /\ link' = "down" /\ worker' = OnLogout /\ toGw' = <<>> /\ toCl' = <<>>
        /\ events' = events
    BY <1>5 DEF Disconnect
  <2>2. cut < logons
    BY <1>0, <1>5 DEF QuietInv
  <2> QED
    BY <1>0, <1>5, <2>1, <2>2 DEF QuietInv
<1>6. ASSUME toCl # <<>>, link' \in {link, "up"}, UNCHANGED <<logons, cut>>,
             \/ events' = events
             \/ \E e : e.logon = logons /\ events' = Append(events, e)
      PROVE  QuietInv'
  <2>1. link # "down" /\ link' # "down" /\ cut < logons
    BY <1>0, <1>6 DEF QuietInv
  <2>2. Told(events', cut)
    BY <1>0, <1>6, <2>1 DEF QuietInv, Told
  <2> QED
    BY <1>0, <1>6, <2>1, <2>2 DEF QuietInv
<1>7. CASE ReceiveLogon /\ UNCHANGED cut
  <2>1. CASE enabled
    BY <1>6, <1>7, <2>1 DEF ReceiveLogon, Incoming, history
  <2>2. CASE ~enabled
    BY <1>5, <1>7, <2>2 DEF ReceiveLogon, Incoming, QuietInv, history
  <2> QED
    BY <2>1, <2>2
<1>8. CASE (ReceiveReport \/ ReceiveAck) /\ UNCHANGED cut
  <2>1. PICK kind : FromApp(kind)
    BY <1>8 DEF ReceiveReport, ReceiveAck
  <2>2. toCl # <<>> /\ UNCHANGED <<link, logons>> /\ events' = Append(events, Event(kind, Head(toCl).body))
    BY <2>1 DEF FromApp, Incoming, history
  <2>3. Event(kind, Head(toCl).body).logon = logons
    BY DEF Event
  <2> QED
    BY <1>6, <1>8, <2>2, <2>3
<1>9. CASE (ReceiveLogout \/ FixDrop) /\ UNCHANGED cut
  BY <1>5, <1>9 DEF ReceiveLogout, FixDrop, Drop, Incoming, QuietInv, history
<1>10. CASE SendLogout /\ UNCHANGED cut
  <2>1. link = "up" /\ link' = "logout_sent" /\ UNCHANGED <<events, logons>>
    BY <1>10 DEF SendLogout, history
  <2> QED
    BY <1>0, <1>10, <2>1 DEF QuietInv
<1>11. CASE FixQuickFix
  BY <1>11, <1>3, <1>4, <1>7, <1>8, <1>9, <1>10 DEF FixQuickFix, QuickFix
<1>12. CASE FixDrop
  BY <1>12, <1>9 DEF FixDrop
<1> QED
  BY <1>1, <1>2, <1>11, <1>12 DEF FixNext

\* A session that is over leaves one LoggedOut behind, which is no answer to a logon
\* and none to a request.
LEMMA QuietMeansBreadcrumb ==
    ASSUME WireType, QuietInv PROVE OneBreadcrumb /\ OnlyAnyIsMisled
<1>1. OneBreadcrumb
  BY DEF QuietInv, Told, OneBreadcrumb
<1>2. ASSUME Stale, Matches(cur.expect, Head(events)) PROVE cur.expect.msg = "any"
  <2>1. 1 \in DOMAIN events /\ Head(events) = events[1]
    BY <1>2 DEF WireType, Stale
  <2>2. Head(events).kind = "session" /\ Head(events).what = "LoggedOut"
    BY <1>2, <2>1 DEF Stale, QuietInv, Told
  <2> QED
    BY <1>2, <2>2 DEF Matches
<1> QED
  BY <1>1, <1>2 DEF OnlyAnyIsMisled

-----------------------------------------------------------------------------
(* The subscriptions *)

\* The second request of a session finds the first (acceptor_mock.hpp:205-217).
LEMMA AmrStep == ASSUME WireType, AmrInv, FixNext PROVE AmrInv'
<1>1. CASE FixRunner
  BY <1>1, RunnerFrame DEF AmrInv
<1>2. CASE FixQuickFix \/ FixDrop
  BY <1>2 DEF FixQuickFix, FixDrop, acceptorVars, AmrInv
<1>3. CASE HandleAmr
  <2>1. subscribed' = TRUE
    BY <1>3 DEF HandleAmr
  <2>2. oks' = oks \/ (~subscribed /\ oks' = Append(oks, logons))
    BY <1>3, Zenon DEF HandleAmr, Duplicate
  <2> QED
    BY <2>1, <2>2 DEF AmrInv, WireType
<1>4. CASE FixAccepts /\ ~HandleAmr
  <2>1. UNCHANGED <<subscribed, oks>>
    BY <1>4 DEF FixAccepts, Acceptor, HandleLogon, HandleNewOrder, HandleCancel, HandleReplace,
                HandleLogout, Report, acceptorVars
  <2> QED
    BY <2>1 DEF AmrInv
<1> QED
  BY <1>1, <1>2, <1>3, <1>4 DEF FixNext, FixAccepts

-----------------------------------------------------------------------------
(* The symbols *)

\* An id that is indexed is that of the step, which no step before has used.
LEMMA IndexStep == ASSUME WireType, IndexInv, NamedInv, FixNext PROVE IndexInv'
<1>0. step \in Nat \ {0}
  BY DEF WireType
<1>1. ASSUME UNCHANGED <<index, known>>, step' \in Nat, step' >= step,
             pc' = "run" => (pc = "run" /\ step' = step) \/ step' = step + 1
      PROVE  IndexInv'
  <2>1. DOMAIN index' \subseteq 1 .. step'
    BY <1>0, <1>1 DEF IndexInv
  <2>2. pc' = "run" => DOMAIN index' \subseteq 1 .. (step' - 1)
    BY <1>0, <1>1 DEF IndexInv
  <2> QED
    BY <1>1, <2>1, <2>2 DEF IndexInv
<1>2. ASSUME NEW s, Passed(s)
      PROVE  step' \in {step, step + 1} /\ (pc' = "run" => step' = step + 1)
  BY <1>0, <1>2 DEF Passed, Finish
<1>3. CASE FixRunner /\ UNCHANGED <<index, known>>
  <2>1. step' \in Nat /\ step' >= step
    BY <1>0, <1>3, StepCounts
  <2>2. pc' = "run" => (pc = "run" /\ step' = step) \/ step' = step + 1
    <3>1. ASSUME NEW s, RunLogon(s) \/ RunLogout(s) \/ RunOrder(s) \/ RunAmr(s) \/ RunPassive(s)
          PROVE  pc' = "run" => step' = step + 1
      <4>1. Passed(s) \/ Finish \/ pc' = "login"
        BY <3>1, Zenon DEF RunLogon, RunLogout, RunOrder, RunAmr, RunPassive, Goto
      <4> QED
        BY <1>2, <4>1 DEF Finish
    <3>2. CASE RunLogonStore
      BY <1>2, <3>2 DEF RunLogonStore
    <3>3. CASE ExpectEvent
      BY <3>3 DEF ExpectEvent, Expecting, Count, Finish
    <3>4. CASE ExpectTimeout \/ LogoutComplete \/ LogoutTimeout
      BY <3>4 DEF ExpectTimeout, LogoutComplete, LogoutTimeout, Finish
    <3>5. CASE End(drops)
      BY <3>5 DEF End
    <3> QED
      BY <1>3, <3>1, <3>2, <3>3, <3>4, <3>5 DEF FixRunner
  <2> QED
    BY <1>1, <1>3, <2>1, <2>2
<1>4. ASSUME NEW s \in FixOrderSteps, RunOrder(s), bound PROVE IndexInv'
  <2>1. /\ pc = "run" /\ Passed(s) /\ known' = known
        /\ index' = [k \in DOMAIN index \cup {s.id} |-> IF k = s.id THEN Resolve(s) ELSE index[k]]
    BY <1>4 DEF RunOrder, Dispatch, acceptorVars
  <2>2. s.id = step /\ DOMAIN index \subseteq 1 .. (step - 1)
    BY <1>0, <2>1, OrderStepShape DEF IndexInv
  <2>3. DOMAIN index' \subseteq 1 .. step
    BY <1>0, <2>1, <2>2
  <2>4. DOMAIN index' \subseteq 1 .. step' /\ (pc' = "run" => DOMAIN index' \subseteq 1 .. (step' - 1))
    BY <1>0, <1>2, <2>1, <2>3
  <2>5. ASSUME NEW k \in DOMAIN known PROVE k \in DOMAIN index' /\ known[k] = index'[k]
    BY <1>0, <2>1, <2>2 DEF IndexInv
  <2> QED
    BY <2>1, <2>4, <2>5 DEF IndexInv
<1>5. CASE FixQuickFix \/ FixDrop
  <2>1. UNCHANGED <<index, known, step, pc>>
    BY <1>5 DEF FixQuickFix, FixDrop, loopVars, acceptorVars
  <2> QED
    BY <1>0, <1>1, <2>1
<1>6. CASE FixAccepts
  <2>1. UNCHANGED <<index, step, pc>>
    BY <1>6 DEF FixAccepts, loopVars
  <2>2. CASE UNCHANGED known
    BY <1>0, <1>1, <2>1, <2>2
  <2>3. CASE HandleNewOrder \/ HandleCancel \/ HandleReplace
    <3> DEFINE m == Head(toGw)
    <3>1. toGw # <<>> /\ m.type \in {"New", "Short", "Cancel", "Replace"} /\ Learn(m)
      BY <2>3 DEF HandleNewOrder, HandleCancel, HandleReplace, Report, Handle
    <3>2. m.id \in DOMAIN index /\ m.body = index[m.id]
      BY <3>1 DEF NamedInv, WireType
    <3>3. ASSUME NEW k \in DOMAIN known' PROVE k \in DOMAIN index /\ known'[k] = index[k]
      BY <3>1, <3>2 DEF Learn, IndexInv
    <3> QED
      BY <2>1, <3>3 DEF IndexInv
  <2> QED
    BY <1>6, <2>2, <2>3 DEF FixAccepts, Acceptor, HandleLogon, HandleAmr, HandleLogout,
                            acceptorVars
<1>7. CASE FixRunner
  <2>1. UNCHANGED known
    BY <1>7, RunnerFrame
  <2>2. \/ UNCHANGED index
        \/ \E s \in FixOrderSteps : RunOrder(s) /\ bound
    BY <1>7 DEF FixRunner, RunLogon, RunLogout, RunOrder, RunAmr, RunPassive, RunLogonStore,
                ExpectEvent, ExpectTimeout, LogoutComplete, LogoutTimeout, fixVars
  <2> QED
    BY <1>3, <1>4, <1>7, <2>1, <2>2
<1> QED
  BY <1>5, <1>6, <1>7 DEF FixNext

\* Later orders change neither the symbol nor the number of one that is on its way.
LEMMA NamedStep == ASSUME WireType, IndexInv, NamedInv, FixNext PROVE NamedInv'
<1> DEFINE Named(m, f, n) ==
             /\ m.type \in {"New", "Short", "Cancel", "Replace"} =>
                   m.id \in DOMAIN f /\ m.body = f[m.id]
             /\ m.type \in {"Cancel", "Replace"} =>
                   m.orig < n /\ (m.orig \in DOMAIN f => m.body = f[m.orig])
<1>0. step \in Nat \ {0} /\ toGw \in Seq(Messages) /\ \A i \in DOMAIN toGw : Named(toGw[i], index, step)
  BY DEF WireType, NamedInv
<1>1. ASSUME \A i \in DOMAIN toGw' : Named(toGw'[i], index', step') PROVE NamedInv'
  BY <1>1 DEF NamedInv
<1>2. ASSUME NEW m, Named(m, index, step), index' = index, step' \in Nat, step' >= step,
             m \in Messages
      PROVE  Named(m, index', step')
  BY <1>0, <1>2 DEF Messages
<1>3. ASSUME index' = index, step' \in Nat, step' >= step,
             \/ toGw' = toGw
             \/ toGw # <<>> /\ toGw' = Tail(toGw)
             \/ toGw' = <<>>
             \/ \E type \in {"Logon", "Logout", "Amr"}, n \in Nat :
                   toGw' = <<Signal(type, n)>> \/ toGw' = Append(toGw, Signal(type, n))
      PROVE  NamedInv'
  <2> SUFFICES ASSUME NEW i \in DOMAIN toGw' PROVE Named(toGw'[i], index', step')
    BY <1>1
  <2>1. ASSUME NEW j \in DOMAIN toGw, toGw'[i] = toGw[j] PROVE Named(toGw'[i], index', step')
    <3>1. toGw[j] \in Messages /\ Named(toGw[j], index, step)
      BY <1>0
    <3> HIDE DEF Named
    <3> QED
      BY <1>2, <1>3, <2>1, <3>1
  <2>2. ASSUME NEW type \in {"Logon", "Logout", "Amr"}, NEW n \in Nat, toGw'[i] = Signal(type, n)
        PROVE  Named(toGw'[i], index', step')
    BY <2>2 DEF Signal, Message
  <2>3. CASE toGw' = toGw
    BY <2>1, <2>3
  <2>4. CASE toGw # <<>> /\ toGw' = Tail(toGw)
    <3>1. i + 1 \in DOMAIN toGw /\ toGw'[i] = toGw[i + 1]
      BY <1>0, <2>4
    <3> QED
      BY <2>1, <3>1
  <2>5. ASSUME NEW type \in {"Logon", "Logout", "Amr"}, NEW n \in Nat,
               toGw' = <<Signal(type, n)>> \/ toGw' = Append(toGw, Signal(type, n))
        PROVE  Named(toGw'[i], index', step')
    <3>1. toGw'[i] = Signal(type, n) \/ (i \in DOMAIN toGw /\ toGw'[i] = toGw[i])
      BY <1>0, <2>5
    <3> HIDE DEF Named
    <3> QED
      BY <2>1, <2>2, <3>1
  <2>6. toGw' # <<>>
    OBVIOUS
  <2> HIDE DEF Named
  <2> QED
    BY <1>3, <2>3, <2>4, <2>5, <2>6
<1>4. ASSUME NEW s \in FixOrderSteps, RunOrder(s), bound PROVE NamedInv'
  <2> DEFINE m == Message(s.action, s.id, s.orig, Resolve(s))
  <2>1. /\ pc = "run" /\ step' \in Nat /\ step' >= step
        /\ index' = [k \in DOMAIN index \cup {s.id} |-> IF k = s.id THEN Resolve(s) ELSE index[k]]
    <3>2. step' \in {step, step + 1}
      BY <1>4 DEF RunOrder, Passed, Finish
    <3> QED
      BY <1>0, <1>4, <3>2 DEF RunOrder, Dispatch
  <2>2. s.id = step /\ DOMAIN index \subseteq 1 .. (step - 1)
    BY <1>0, <2>1, OrderStepShape DEF IndexInv
  <2>3. ASSUME NEW j \in DOMAIN toGw PROVE Named(toGw[j], index', step')
    <3>1. toGw[j] \in Messages /\ Named(toGw[j], index, step)
      BY <1>0
    <3>2. toGw[j].orig \in Nat
      BY <3>1 DEF Messages
    <3> QED
      BY <1>0, <2>1, <2>2, <3>1, <3>2
  <2>4. Named(m, index', step')
    <3>1. m.type = s.action /\ m.id = step /\ m.orig = s.orig /\ m.body = Resolve(s)
      BY <2>2 DEF Message
    <3>2. m.id \in DOMAIN index' /\ m.body = index'[m.id]
      BY <2>1, <2>2, <3>1
    <3>3. ASSUME m.type \in {"Cancel", "Replace"}
          PROVE  m.orig < step' /\ (m.orig \in DOMAIN index' => m.body = index'[m.orig])
      <4>1. s.orig \in 1 .. (step - 1) /\ s.arg = Unnamed
        BY <1>0, <3>1, <3>3, OrderStepShape
      <4>2. s.orig \in DOMAIN index => Resolve(s) = index[s.orig]
        BY <4>1 DEF Resolve
      <4>3. m.orig \in DOMAIN index' => m.orig \in DOMAIN index /\ index'[m.orig] = index[m.orig]
        BY <1>0, <2>1, <2>2, <3>1, <4>1
      <4>4. m.orig < step'
        BY <1>0, <2>1, <3>1, <4>1
      <4> QED
        BY <3>1, <4>2, <4>3, <4>4
    <3> QED
      BY <3>2, <3>3
  <2>5. toGw' = toGw \/ toGw' = Append(toGw, m)
    BY <1>4, Zenon DEF RunOrder, Request, Send
  <2> HIDE DEF m, Named
  <2>6. ASSUME NEW i \in DOMAIN toGw' PROVE Named(toGw'[i], index', step')
    <3>1. (i \in DOMAIN toGw /\ toGw'[i] = toGw[i]) \/ toGw'[i] = m
      BY <1>0, <2>5
    <3> QED
      BY <2>3, <2>4, <3>1
  <2> QED
    BY <1>1, <2>6
<1> HIDE DEF Named
<1>5. CASE FixRunner
  <2>1. step' \in Nat /\ step' >= step
    BY <1>0, <1>5, StepCounts
  <2>2. ASSUME NEW s \in FixOrderSteps, RunOrder(s), ~bound PROVE NamedInv'
    <3>1. toGw' = toGw /\ index' = index
      BY <2>2 DEF RunOrder, Request
    <3> QED
      BY <1>3, <2>1, <3>1
  <2>3. ASSUME NEW s \in AmrSteps, RunAmr(s) PROVE NamedInv'
    <3>1. s.id \in Nat
      BY DEF AmrSteps, Step
    <3>2. index' = index /\ (toGw' = toGw \/ toGw' = Append(toGw, Signal("Amr", s.id)))
      BY <2>3, Zenon DEF RunAmr, Subscribe, Request, Send
    <3> QED
      BY <1>3, <2>1, <3>1, <3>2
  <2>4. CASE UNCHANGED <<toGw, index>>
    BY <1>3, <2>1, <2>4
  <2>5. \/ \E s \in FixOrderSteps : RunOrder(s)
        \/ \E s \in AmrSteps : RunAmr(s)
        \/ UNCHANGED <<toGw, index>>
    <3>1. ASSUME NEW s, RunLogon(s) \/ RunLogout(s) \/ RunPassive(s) PROVE UNCHANGED <<toGw, index>>
      BY <3>1 DEF RunLogon, RunLogout, RunPassive, LoginLocked, Logout, wire, fixOthers, fixVars
    <3>2. CASE RunLogonStore \/ ExpectEvent \/ LogoutComplete
      BY <3>2 DEF RunLogonStore, LoginStore, ExpectEvent, LogoutComplete, wire
    <3>3. CASE UNCHANGED fixVars
      BY <3>3 DEF wire, fixOthers, fixVars
    <3> QED
      BY <1>5, <3>1, <3>2, <3>3 DEF FixRunner, ExpectTimeout, LogoutTimeout
  <2> QED
    BY <1>4, <2>2, <2>3, <2>4, <2>5
<1>6. CASE FixQuickFix \/ FixDrop
  <2>1. index' = index /\ step' \in Nat /\ step' >= step
    BY <1>0, <1>6 DEF FixQuickFix, FixDrop, loopVars
  <2>2. CASE Connect
    <3>1. toGw' = <<Signal("Logon", IF rotate THEN 1 ELSE 0)>>
      BY <2>2 DEF Connect
    <3> QED
      BY <1>3, <2>1, <3>1
  <2>3. CASE SendLogout
    <3>1. toGw' = Append(toGw, Signal("Logout", 0))
      BY <2>3 DEF SendLogout
    <3> QED
      BY <1>3, <2>1, <3>1
  <2>4. toGw' = toGw \/ toGw' = <<>> \/ Connect \/ SendLogout
    BY <1>6 DEF FixQuickFix, QuickFix, FixDrop, Drop, Callback, ReceiveLogon, ReceiveReport,
                ReceiveAck, FromApp, ReceiveLogout, Received, Disconnect, wire
  <2> QED
    BY <1>3, <2>1, <2>2, <2>3, <2>4
<1>7. CASE FixAccepts
  <2>1. index' = index /\ step' \in Nat /\ step' >= step
    BY <1>0, <1>7 DEF FixAccepts, loopVars
  <2>2. toGw # <<>> /\ toGw' = Tail(toGw)
    BY <1>7 DEF FixAccepts, Acceptor, HandleLogon, HandleNewOrder, HandleCancel, HandleReplace,
                HandleAmr, HandleLogout, Report, Handle
  <2> QED
    BY <1>3, <2>1, <2>2
<1> QED
  BY <1>5, <1>6, <1>7 DEF FixNext

-----------------------------------------------------------------------------
(* The type invariant.  The state is what a callback stores: OnLogon(),     *)
(* onLogout(), fromAdmin() and login() store states and nothing else.       *)

\* What the runner's thread changes of the client: login() and logout() of
\* oe_app.hpp:248-268.
LEMMA RunnerClient ==
    ASSUME FixRunner
    PROVE  /\ state' = state \/ state' = "LoggingIn"
           /\ enabled' = enabled \/ enabled' = TRUE \/ enabled' = (enabled /\ ~bound)
           /\ UNCHANGED <<rotate, bound, link, peer, logons, drops, subscribed>>
<1> USE DEF fixVars, fixOthers, clientVars, wire, history, acceptorVars
<1>1. CASE \E s \in LogonSteps : RunLogon(s)
  BY <1>1 DEF RunLogon, LoginLocked
<1>2. CASE \E s \in LogoutSteps : RunLogout(s)
  BY <1>2 DEF RunLogout, Logout
<1>3. CASE \E s \in PassiveSteps : RunPassive(s)
  BY <1>3 DEF RunPassive
<1>4. CASE \E s \in FixOrderSteps : RunOrder(s)
  BY <1>4 DEF RunOrder, Request
<1>5. CASE \E s \in AmrSteps : RunAmr(s)
  BY <1>5 DEF RunAmr, Subscribe, Request
<1>6. CASE RunLogonStore
  BY <1>6 DEF RunLogonStore, LoginStore
<1>7. CASE ExpectEvent \/ ExpectTimeout \/ LogoutComplete \/ LogoutTimeout
  BY <1>7 DEF ExpectEvent, ExpectTimeout, LogoutComplete, LogoutTimeout
<1>8. CASE End(drops) /\ UNCHANGED fixVars
  BY <1>8
<1> QED
  BY <1>1, <1>2, <1>3, <1>4, <1>5, <1>6, <1>7, <1>8 DEF FixRunner

\* Every step keeps the types of the client and of the acceptor.
LEMMA FixTypeStep ==
    ASSUME WireType, FixTypeOK, FixNext, logons' \in Nat, cut' \in 0 .. logons'
    PROVE  FixTypeOK'
<1>1. CASE FixRunner
  <2>1. state' \in FixSessionState
    BY <1>1, RunnerClient DEF FixTypeOK, FixSessionState
  <2>2. enabled' \in BOOLEAN
    BY <1>1, RunnerClient, Zenon DEF FixTypeOK
  <2> QED
    BY <1>1, <2>1, <2>2, RunnerClient DEF FixTypeOK
<1>2. CASE FixQuickFix
  <2>1. UNCHANGED <<subscribed, cut>>
    BY <1>2 DEF FixQuickFix, acceptorVars
  <2>2. CASE Callback
    <3>1. Head(worker) \in Substeps
      BY <2>2 DEF Callback, Idle, WireType
    <3>2. state' = state \/ state' = Head(worker).what
      BY <2>2, Zenon DEF Callback
    <3>3. bound' = bound \/ bound' = (bound \/ Head(worker).what = "Active")
      BY <2>2, Zenon DEF Callback
    <3>4. bound' \in BOOLEAN
      BY <3>3, Zenon DEF FixTypeOK
    <3>5. state' \in FixSessionState
      BY <3>1, <3>2 DEF Substeps, FixTypeOK
    <3> QED
      BY <2>1, <2>2, <3>4, <3>5 DEF Callback, wire, history, FixTypeOK
  <2>3. ASSUME Disconnect, UNCHANGED history PROVE FixTypeOK'
    BY <2>1, <2>3 DEF Disconnect, history, FixTypeOK
  <2>4. CASE Connect \/ SendLogout
    BY <2>1, <2>4 DEF Connect, SendLogout, history, FixTypeOK
  <2>5. CASE ReceiveLogon
    <3>1. CASE enabled
      BY <2>1, <2>5, <3>1 DEF ReceiveLogon, Received, history, FixTypeOK
    <3> QED
      BY <2>3, <2>5, <3>1 DEF ReceiveLogon
  <2>6. CASE ReceiveReport \/ ReceiveAck
    BY <2>1, <2>6 DEF ReceiveReport, ReceiveAck, FromApp, Received, history, FixTypeOK
  <2>7. CASE ReceiveLogout
    BY <2>3, <2>7 DEF ReceiveLogout
  <2> QED
    BY <1>2, <2>2, <2>4, <2>5, <2>6, <2>7 DEF FixQuickFix, QuickFix
<1>3. CASE FixDrop
  <2>1. /\ drops < MaxDrop /\ drops' = drops + 1 /\ link' = "down" /\ peer' = FALSE
        /\ UNCHANGED <<rotate, state, bound, enabled, subscribed>>
    BY <1>3 DEF FixDrop, Drop, Disconnect, acceptorVars
  <2>2. drops' \in 0 .. MaxDrop
    BY <2>1, DropAssumption DEF FixTypeOK
  <2> QED
    BY <2>1, <2>2 DEF FixTypeOK
<1>4. CASE FixAccepts
  <2>1. UNCHANGED <<rotate, state, bound, enabled, link, logons, drops>>
    BY <1>4 DEF FixAccepts, Acceptor, HandleLogon, HandleNewOrder, HandleCancel, HandleReplace,
                Report, HandleAmr, HandleLogout, Handle, clientVars, history
  <2>2. peer' \in BOOLEAN /\ subscribed' \in BOOLEAN
    BY <1>4 DEF FixAccepts, Acceptor, HandleLogon, HandleNewOrder, HandleCancel, HandleReplace,
                Report, HandleAmr, HandleLogout, acceptorVars, FixTypeOK
  <2> QED
    BY <2>1, <2>2 DEF FixTypeOK
<1> QED
  BY <1>1, <1>2, <1>3, <1>4 DEF FixNext
=============================================================================
