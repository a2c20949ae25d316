------------------------------ MODULE FixClient ------------------------------
(***************************************************************************)
(* The FIX order entry and reference data clients (OeApp, RdApp in         *)
(* src/fix/internal) on a QuickFIX initiator.  QuickFIX is external: its   *)
(* thread connects, logs on and out as the session is enabled or not, and  *)
(* calls the application back; it is modelled as far as the callbacks      *)
(* depend on it.  A callback runs in substeps, between which the thread    *)
(* of the runner may call the client.                                      *)
(***************************************************************************)
EXTENDS ScenarioSteps

CONSTANT MaxDrop        \* connections that are lost

ASSUME DropAssumption == MaxDrop \in Nat

VARIABLES
    rotate,     \* new_password_ is not empty
    state,      \* state_
    bound,      \* bound_
    enabled,    \* QuickFIX: the session is enabled
    link,       \* QuickFIX: the connection, as the initiator sees it
    worker,     \* QuickFIX: what its thread has left to do of a callback
    events,     \* events_ of the runner, which the callbacks fill
    toGw, toCl, \* messages in flight
    peer,       \* QuickFIX: the acceptor's session is logged on
    logons,     \* history: logon messages sent
    drops

clientVars == <<rotate, state, bound, enabled, link, worker, events>>
wire       == <<toGw, toCl, peer>>
history    == <<logons, drops>>

\* RdApp has neither of the passwords' states, and Failed is never stored.
FixSessionState ==
    {"Disconnected", "LoggingIn", "Active", "PasswordExpired", "PasswordChanged", "LoggedOut"}

\* An event, with the logon it belongs to.
Event(kind, what) == [kind |-> kind, what |-> what, logon |-> logons]

Store(s) == [do |-> "store", what |-> s]
Fire(s)  == [do |-> "fire",  what |-> s]        \* fire_session()

\* The body of a message is what the model tells apart: the symbol of an order,
\* the status of a logon, the kind of a report.
Message(type, id, orig, body) == [type |-> type, id |-> id, orig |-> orig, body |-> body]

Signal(type, arg) == Message(type, arg, 0, "none")

ClientInit ==
    /\ rotate \in (IF protocol = "fix_oe" THEN BOOLEAN ELSE {FALSE})
    /\ state = "Disconnected" /\ bound = FALSE
    /\ enabled = TRUE /\ link = "down" /\ worker = <<>> /\ events = <<>>
    /\ toGw = <<>> /\ toCl = <<>> /\ peer = FALSE
    /\ logons = 0 /\ drops = 0

-----------------------------------------------------------------------------
(* Callbacks: what the QuickFIX thread does in each *)

\* Faulty forms of onLogout(), for the mutation checks: state_ is left as it was, or
\* is given what is no state.
OnLogoutSilent  == <<Fire("LoggedOut")>>
OnLogoutUnknown == <<Store("Unknown"), Fire("LoggedOut")>>

OnLogon  == <<Store("Active"), Fire("Active")>>
OnLogout == <<Store("LoggedOut"), Fire("LoggedOut")>>

\* The status of the acceptor's logon; RdApp looks at none of them.
FromAdmin(status) ==
    IF protocol = "fix_oe" /\ status \in {"PasswordExpired", "PasswordChanged"}
    THEN <<Store(status), Fire(status)>> ELSE <<>>

-----------------------------------------------------------------------------
(* The QuickFIX thread *)

Idle == worker = <<>>

\* The next substep of a callback.
Callback ==
    /\ ~Idle /\ worker' = Tail(worker)
    /\ LET call == Head(worker)
       IN  IF call.do = "store"
           THEN state' = call.what /\ bound' = (bound \/ call.what = "Active")
                /\ UNCHANGED events
           ELSE events' = Append(events, Event("session", call.what))
                /\ UNCHANGED <<state, bound>>
    /\ UNCHANGED <<rotate, enabled, link, wire, history>>

\* toAdmin(): the logon carries a new password whenever there is one.
Connect ==
    /\ Idle /\ enabled /\ link = "down"
    /\ link' = "logon_sent" /\ logons' = logons + 1
    /\ toGw' = <<Signal("Logon", IF rotate THEN 1 ELSE 0)>> /\ toCl' = <<>>
    /\ UNCHANGED <<rotate, state, bound, enabled, worker, events, peer, drops>>

Disconnect ==
    /\ link' = "down" /\ worker' = OnLogout
    /\ toGw' = <<>> /\ toCl' = <<>> /\ peer' = FALSE
    /\ UNCHANGED <<rotate, state, bound, enabled, events>>

Incoming(type) == Idle /\ toCl # <<>> /\ Head(toCl).type = type

Received == toCl' = Tail(toCl) /\ UNCHANGED <<toGw, peer>>

\* A logon that comes after the session was disabled is not taken.
ReceiveLogon ==
    /\ Incoming("Logon")
    /\ IF enabled
       THEN /\ link' = "up" /\ Received
            /\ worker' = FromAdmin(Head(toCl).body) \o OnLogon
            /\ UNCHANGED <<rotate, state, bound, enabled, events>>
       ELSE Disconnect
    /\ UNCHANGED history

FromApp(kind) ==
    /\ Incoming("App") /\ Received
    /\ events' = Append(events, Event(kind, Head(toCl).body))
    /\ UNCHANGED <<rotate, state, bound, enabled, link, worker, history>>

\* OeApp::fromApp() and its onMessage(): an execution report.
ReceiveReport == protocol = "fix_oe" /\ FromApp("fix_execution_report")

\* RdApp::fromApp() and handle_amr_ack(): the answer to a request.
ReceiveAck == protocol = "fix_rd" /\ FromApp("fix_amr_ack")

ReceiveLogout == Incoming("Logout") /\ Disconnect /\ UNCHANGED history

SendLogout ==
    /\ Idle /\ link = "up" /\ ~enabled
    /\ link' = "logout_sent" /\ toGw' = Append(toGw, Signal("Logout", 0))
    /\ UNCHANGED <<rotate, state, bound, enabled, worker, events, toCl, peer, history>>

\* The connection is lost.
Drop ==
    /\ Idle /\ link # "down" /\ drops < MaxDrop
    /\ drops' = drops + 1 /\ Disconnect /\ UNCHANGED logons

QuickFix ==
    \/ Callback \/ Connect \/ ReceiveLogon \/ ReceiveReport \/ ReceiveAck
    \/ ReceiveLogout \/ SendLogout

-----------------------------------------------------------------------------
(* Calls of the runner's thread *)

\* send_or_error(): sendToTarget() takes what it cannot send, and its result is
\* not looked at.  A message of before the logon's answer is stored, and only sent
\* if the acceptor notices that one is missing; a logon resets the store.
Send(message) ==
    \/ link \in {"down", "logon_sent"} /\ UNCHANGED toGw
    \/ link # "down" /\ toGw' = Append(toGw, message)

\* place(), cancel(), replace()
Request(message) ==
    /\ IF bound THEN Send(message) ELSE UNCHANGED toGw
    /\ UNCHANGED <<clientVars, toCl, peer, history>>

Subscribe(id) == Request(Signal("Amr", id))     \* subscribe_all()

Logout ==
    /\ enabled' = (enabled /\ ~bound)
    /\ UNCHANGED <<rotate, state, bound, link, worker, events, wire, history>>

\* login(): under the lock, and the store after it.
LoginLocked ==
    /\ bound /\ enabled' = TRUE
    /\ UNCHANGED <<rotate, state, bound, link, worker, events, wire, history>>

LoginStore ==
    /\ state' = "LoggingIn"
    /\ UNCHANGED <<rotate, bound, enabled, link, worker, events, wire, history>>
=============================================================================
