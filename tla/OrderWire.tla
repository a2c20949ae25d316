----------------------------- MODULE OrderWire -----------------------------
(***************************************************************************)
(* The TCP connections between the client's one socket (the slot that      *)
(* MockTransportControl of apps/bist_colo.cpp rebuilds) and the mock       *)
(* gateway, which serves one connection after the other.                   *)
(***************************************************************************)
EXTENDS Naturals, Sequences

CONSTANTS
    Explicit,   \* the tokens callers pin (explicit_token, new_token, token)
    Long,       \* those of them of more than 14 bytes
    Stem,       \* the 14 bytes the tokens of Long begin with
    MaxCall,    \* bound of the model: calls of OuchClient that pass the throttle
    MaxConn     \* bound of the model: connections

ASSUME WireAssumption == MaxCall \in Nat /\ MaxConn \in Nat

ASSUME TokenAssumption == Long \subseteq Explicit /\ Stem \notin Long

\* allocate() numbers its tokens; a pinned token of that form is such a number.
Token == Explicit \cup {Stem} \cup 1 .. MaxCall

\* OrderToken: the 14 bytes of a token that go into messages.
OnWire(t) == IF t \in Long THEN Stem ELSE t

VARIABLES
    conn,   \* connections dialed so far; the client's socket is the last one
    open,   \* the client's socket is open
    up,     \* per connection, the packets on their way to the gateway
    down    \* what the gateway's writes put on the way to the client

wire == <<conn, open, up, down>>

WireInit ==
    /\ conn = 0 /\ open = FALSE
    /\ up = [c \in 1 .. MaxConn |-> <<>>]
    /\ down = <<>>

\* A faulty form of Dial, for the mutation checks: what was not read stays in the buffer.
DialKeepsBuffer(first) ==
    /\ conn < MaxConn
    /\ conn' = conn + 1 /\ open' = TRUE
    /\ up' = [up EXCEPT ![conn + 1] = <<first>>]
    /\ UNCHANGED down

\* A new socket takes the slot.  What the old one had not read is lost, and
\* closing it over unread data may take what it had sent along.
Dial(first) ==
    /\ conn < MaxConn
    /\ conn' = conn + 1 /\ open' = TRUE
    /\ \E survives \in BOOLEAN :
          up' = [c \in 1 .. MaxConn |->
                    IF c = conn + 1 THEN <<first>>
                    ELSE IF c = conn /\ ~survives THEN <<>> ELSE up[c]]
    /\ down' = <<>>

HangUp ==
    /\ open' = FALSE
    /\ down' = <<>>
    /\ UNCHANGED <<conn, up>>

\* What a packet is cut into: a sequenced message is sent as two writes.
Header(m) == [part |-> "header", msg |-> m]
Body(m)   == [part |-> "body", msg |-> m]
Whole(m)  == [part |-> "whole", msg |-> m]
=============================================================================
