----------------------------- MODULE OuchClient -----------------------------
(***************************************************************************)
(* bist::ouch::OuchClient (include/bist/ouch/client.hpp) with its          *)
(* TokenRegistry and OrderBook (include/bist/domain): the token, the local *)
(* book entry and the packet of each call.                                 *)
(*                                                                         *)
(* A call the throttler refuses, or that fails before its token is chosen, *)
(* changes nothing here; the throttler itself is module Throttler.  A send *)
(* fails when the session is not Active: the token stays taken, the book   *)
(* entry stays, and nothing is sent.                                       *)
(***************************************************************************)
EXTENDS OrderWire

VARIABLES
    active,     \* the session's state is Active
    seen,       \* TokenRegistry::seen_
    sequence,   \* TokenRegistry::sequence_
    book,       \* OrderBook::states_: the status of a token
    calls       \* history: calls made

client == <<seen, sequence, book, calls>>

NoToken == 0            \* an argument left empty; tokens are numbered from 1

ClientInit ==
    /\ active = FALSE
    /\ seen = {} /\ sequence = 0
    /\ book = [t \in Token |-> "absent"]
    /\ calls = 0

-----------------------------------------------------------------------------
\* Faulty forms of definitions below, for the mutation checks.
RegisterUnchecked(tok) ==       \* a token that is taken is taken again
    /\ tok \in Explicit
    /\ seen' = seen \cup {tok}
    /\ UNCHANGED sequence

AllocateUnrecorded(tok) ==      \* seen_ does not hold allocated tokens
    /\ tok = sequence + 1
    /\ sequence' = tok
    /\ UNCHANGED seen

-----------------------------------------------------------------------------
(* TokenRegistry *)

\* allocate(): the next number, whatever seen_ holds.
Allocate(tok) ==
    /\ tok = sequence + 1
    /\ sequence' = tok
    /\ seen' = seen \cup {tok}

\* register_external() returns true: seen_ has the whole text of a pinned token.
RegisterExternal(tok) ==
    /\ tok \in Explicit /\ tok \notin seen
    /\ seen' = seen \cup {tok}
    /\ UNCHANGED sequence

\* The token of a call whose token argument is arg.
Choose(arg, tok) ==
    \/ arg = NoToken /\ Allocate(tok)
    \/ arg = tok /\ RegisterExternal(tok)

-----------------------------------------------------------------------------
Send(packet) ==
    /\ up' = IF active /\ open THEN [up EXCEPT ![conn] = Append(@, packet)] ELSE up
    /\ UNCHANGED <<conn, open, down>>

Call == calls < MaxCall /\ calls' = calls + 1 /\ UNCHANGED active

\* place(): the book is written before the packet is, under the token of the packet.
Place(arg, kind) ==
    /\ Call
    /\ \E tok \in Token :
          /\ Choose(arg, tok)
          /\ book' = [book EXCEPT ![OnWire(tok)] = "Pending"]
          /\ Send([type |-> "Enter", token |-> OnWire(tok), kind |-> kind])

\* The status of a token, if the book knows it: under its whole text.
Mark(t, status) ==
    book' = IF t \in Token /\ book[t] # "absent"
            THEN [book EXCEPT ![t] = status] ELSE book

\* replace(): the new token gets no entry in the book.
Replace(existing, arg) ==
    /\ Call
    /\ \E tok \in Token :
          /\ Choose(arg, tok)
          /\ Send([type |-> "Replace", existing |-> OnWire(existing), token |-> OnWire(tok)])
    /\ Mark(existing, "Replacing")

CancelByToken(t) ==
    /\ Call
    /\ Mark(t, "Canceling")
    /\ Send([type |-> "Cancel", token |-> OnWire(t)])
    /\ UNCHANGED <<seen, sequence>>

CancelByOrderId(id) ==
    /\ Call
    /\ Send([type |-> "CancelById", id |-> id])
    /\ UNCHANGED <<seen, sequence, book>>

\* mass_quote() of one entry
MassQuote(arg, entry) ==
    /\ Call
    /\ \E tok \in Token :
          /\ Choose(arg, tok)
          /\ Send([type |-> "MassQuote", token |-> OnWire(tok), entry |-> entry])
    /\ UNCHANGED book

\* The session: send of a logout request, in any state of a connection.
RequestLogout ==
    /\ open
    /\ active' = FALSE
    /\ up' = [up EXCEPT ![conn] = Append(@, [type |-> "Logout"])]
    /\ UNCHANGED <<conn, open, down, client>>
=============================================================================
