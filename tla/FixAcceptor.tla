---------------------------- MODULE FixAcceptor ----------------------------
(***************************************************************************)
(* The FIX mock acceptor (AcceptorMockApp in                               *)
(* src/fix/internal/acceptor_mock.hpp): its handlers run one after the     *)
(* other on the acceptor's thread, each on one message.                    *)
(***************************************************************************)
EXTENDS FixClient

VARIABLES
    subscribed, \* the session is in subscribed_sessions_
    applIds,    \* appl_req_ids_
    known,      \* history: the symbol the acceptor saw under each id
    oks         \* history: logons of the requests it accepted

acceptorVars == <<subscribed, applIds, known, oks>>

AcceptorInit == subscribed = FALSE /\ applIds = {} /\ known = <<>> /\ oks = <<>>

-----------------------------------------------------------------------------
\* A message of the given type is next.  Only a logon opens the session.
Handle(type) ==
    /\ toGw # <<>> /\ Head(toGw).type = type /\ (peer = (type # "Logon"))
    /\ toGw' = Tail(toGw)
    /\ UNCHANGED <<clientVars, history>>

Answer(message) == toCl' = Append(toCl, message)

\* fromAdmin() and, for the answer, toAdmin(): a logon with both passwords changes
\* the password.  Both clients are given a password.
SessionStatus(hasNew) == IF hasNew THEN "PasswordChanged" ELSE "Active"

HandleLogon ==
    /\ Handle("Logon") /\ peer' = TRUE
    /\ Answer(Message("Logon", 0, 0, SessionStatus(Head(toGw).id = 1)))
    /\ UNCHANGED acceptorVars

\* The symbol under which an order is known, for the handlers of orders.
Learn(m) == known' = [k \in DOMAIN known \cup {m.id} |-> IF k = m.id THEN m.body ELSE known[k]]

Report(type, what) ==
    /\ Handle(type)
    /\ Learn(Head(toGw)) /\ Answer(Message("App", Head(toGw).id, Head(toGw).orig, what))
    /\ UNCHANGED <<peer, subscribed, applIds, oks>>

\* NewOrderSingle: the report of a short sell is marked.
HandleNewOrder == Report("New", "new") \/ Report("Short", "short_sell")

HandleCancel  == Report("Cancel", "canceled")
HandleReplace == Report("Replace", "replaced")

DuplicateById(id) == id \in applIds     \* a faulty form, for the mutation checks

\* ApplicationMessageRequest: nothing removes what these sets hold.
Duplicate(id) == subscribed \/ id \in applIds

HandleAmr ==
    /\ Handle("Amr")
    /\ LET id == Head(toGw).id
       IN  /\ subscribed' = TRUE
           /\ applIds' = IF subscribed THEN applIds ELSE applIds \cup {id}
           /\ Answer(Message("App", id, 0, IF Duplicate(id) THEN "duplicate" ELSE "processed"))
           /\ oks' = IF Duplicate(id) THEN oks ELSE Append(oks, logons)
    /\ UNCHANGED <<peer, known>>

\* QuickFIX answers a logout and closes the connection.
HandleLogout ==
    /\ Handle("Logout") /\ peer' = FALSE
    /\ Answer(Signal("Logout", 0))
    /\ UNCHANGED acceptorVars

Acceptor ==
    \/ HandleLogon \/ HandleNewOrder \/ HandleCancel \/ HandleReplace
    \/ HandleAmr \/ HandleLogout
=============================================================================
