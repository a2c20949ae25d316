---------------------------- MODULE ReplayProofs ----------------------------
(***************************************************************************)
(* The safety of scenarios of every protocol.  First the budget of a       *)
(* reconnect, for every policy and every behaviour of the network and the  *)
(* clock; then what every step of an OUCH scenario keeps: the tokens of    *)
(* orders, and the answers its steps are owed, for scenarios and bursts of *)
(* every length; then the invariants of the parts, put together along the  *)
(* steps of Replay.  A scenario of one protocol leaves the parts of the    *)
(* other as they began.                                                    *)
(***************************************************************************)
EXTENDS Replay, FixReplayProofs, FiniteSetTheorems, SequenceTheorems

-----------------------------------------------------------------------------
(* The budget of a reconnect *)

\* What the steps rely on of each other: a wait ends at the deadline at the latest,
\* and a call that is under way has not seen the deadline pass.
DialInv ==
    /\ dial \in {"idle", "dial", "wait", "ok", "timeout"}
    /\ elapsed \in Nat /\ wake \in Nat /\ backoff \in Nat
    /\ dial = "wait" => wake <= Deadline
    /\ dial = "dial" => elapsed <= Deadline + Oversleep
    /\ dial \in {"idle", "wait"} => elapsed <= Deadline
    /\ dial = "timeout" => elapsed >= Deadline

-----------------------------------------------------------------------------
\* The invariant holds when nothing has been dialed (reconnect_policy.hpp:60).
LEMMA DialInvInit == ReconnectInit => DialInv
  BY PolicyAssumption DEF ReconnectInit, DialInv

-----------------------------------------------------------------------------
\* A call that begins has its whole budget (reconnect_policy.hpp:65-74).
LEMMA StartKeeps == ASSUME DialInv, DialStart PROVE DialInv'
<1>1. dial' = "dial" /\ elapsed' = 0 /\ backoff' = InitialBackoff /\ wake' = 0
  BY Zenon DEF DialStart
<1> QED
  BY <1>1, PolicyAssumption DEF DialInv

\* A dial that began in time is over MaxDial later (reconnect_policy.hpp:75-85).
LEMMA DialKeeps ==
    ASSUME DialInv, NEW d \in 0 .. MaxDial, DialOk(d) \/ DialGivesUp(d) PROVE DialInv'
<1>1. /\ dial = "dial" /\ elapsed' = elapsed + d /\ wake' = wake /\ backoff' = backoff
      /\ dial' = "ok" \/ (dial' = "timeout" /\ elapsed + d >= Deadline)
  BY Zenon DEF DialOk, DialGivesUp
<1> QED
  BY <1>1, PolicyAssumption DEF DialInv

\* The wait is cut at the deadline (reconnect_policy.hpp:88-91).
LEMMA WaitKeeps == ASSUME DialInv, NEW d \in 0 .. MaxDial, DialWaits(d) PROVE DialInv'
<1> DEFINE now == elapsed + d
<1>1. now \in Nat /\ now < Deadline /\ Deadline \in Nat /\ MaxBackoff \in Nat
  BY PolicyAssumption DEF DialInv, DialWaits
<1>2. wake' = now + Lower(backoff, Deadline - now)
  BY DEF DialWaits
<1>3. wake' \in Nat /\ wake' <= Deadline
  BY <1>1, <1>2 DEF Lower, DialInv
<1>4. backoff' \in Nat
  BY <1>1 DEF DialWaits, Lower, DialInv
<1>5. dial' = "wait" /\ elapsed' = now /\ dial = "dial"
  BY Zenon DEF DialWaits
<1> QED
  BY <1>1, <1>3, <1>4, <1>5 DEF DialInv

\* The clock is seen to have passed the end of the wait by Oversleep at most.
LEMMA WakeKeeps == ASSUME DialInv, DialWakes PROVE DialInv'
<1>1. PICK late \in 0 .. Oversleep : elapsed' = wake + late
  BY Zenon DEF DialWakes
<1>2. dial = "wait" /\ dial' = "dial" /\ wake' = wake /\ backoff' = backoff
  BY Zenon DEF DialWakes
<1> QED
  BY <1>1, <1>2, PolicyAssumption DEF DialInv

\* The variables of a call that returns are gone (reconnect_policy.hpp:65).
LEMMA ReturnKeeps == ASSUME DialInv, DialEnds PROVE DialInv'
<1>1. dial' = "idle" /\ elapsed' = 0 /\ backoff' = InitialBackoff /\ wake' = 0
  BY Zenon DEF DialEnds
<1> QED
  BY <1>1, PolicyAssumption DEF DialInv

\* Every step of a call keeps what the others rely on.
LEMMA DialInvStep ==
    ASSUME DialInv, [DialStart \/ Dialing \/ DialEnds]_reconnectVars
    PROVE  DialInv'
<1>1. CASE UNCHANGED reconnectVars
  BY <1>1 DEF DialInv, reconnectVars
<1> QED
  BY <1>1, StartKeeps, DialKeeps, WaitKeeps, WakeKeeps, ReturnKeeps DEF Dialing

\* The invariant is the budget and what keeps it (reconnect_policy.hpp:60-110).
LEMMA InvMeansBudget == DialInv => AttemptsInBudget
  BY DEF DialInv, AttemptsInBudget

\* What the budget of a reconnect bounds, for every policy and every length of the dials
\* (reconnect_policy.hpp:60-110): no wait goes beyond the deadline, no attempt begins after
\* it and one late wake up, and the call does not give up before it.
THEOREM ReconnectBudget == ReconnectSpec => []AttemptsInBudget
  BY InvMeansBudget, DialInvInit, DialInvStep, PTL DEF ReconnectSpec, DialReturns

-----------------------------------------------------------------------------
(* The tokens of an OUCH scenario *)

\* Every token a gateway has seen, or is about to see, is in the registry; that is
\* why a fresh token is new to both gateways.
TokenInv ==
    /\ \E S : toMock \in Seq(S)
    /\ DOMAIN seenTokens = Gateways
    /\ \A g \in Gateways : seenTokens[g] \subseteq tokens
    /\ \A i \in DOMAIN toMock : toMock[i].type = "Enter" => toMock[i].token \in tokens
    /\ TokenOnceAnywhere

-----------------------------------------------------------------------------
(* What a step may do to the tokens *)

\* A packet that enters no order changes nothing of it.
NoOrder ==
    /\ seenTokens' = seenTokens /\ tokens \subseteq tokens'
    /\ \/ toMock' = toMock
       \/ toMock' = <<>>
       \/ \E p : p.type # "Enter" /\ (toMock' = <<p>> \/ toMock' = Append(toMock, p))

\* An order is entered under a token that the registry did not have.
NewOrder ==
    /\ seenTokens' = seenTokens
    /\ \E p : /\ p.type = "Enter" /\ p.token \notin tokens
              /\ toMock' = Append(toMock, p)
              /\ tokens' = tokens \cup {p.token}

\* What is on the way stays distinct and unseen (OuchClient::place() and
\* TokenRegistry::register_external(), as run_place() calls them).
LEMMA NoOrderKeeps == ASSUME TokenInv, NoOrder PROVE TokenInv'
<1> DEFINE Good(q) ==
             /\ \A i \in DOMAIN q : q[i].type = "Enter" =>
                   q[i].token \in tokens /\ \A g \in Gateways : q[i].token \notin seenTokens[g]
             /\ \A i, j \in DOMAIN q :
                   q[i].type = "Enter" /\ q[j].type = "Enter" /\ q[j].token = q[i].token => i = j
<1>1. PICK S : toMock \in Seq(S)
  BY DEF TokenInv
<1>2. Good(toMock)
  BY DEF TokenInv, TokenOnceAnywhere
<1>3. (\E T : toMock' \in Seq(T)) /\ Good(toMock')
  <2>1. CASE toMock' = toMock
    BY <1>1, <1>2, <2>1
  <2>2. CASE toMock' = <<>>
    <3>1. toMock' \in Seq(S)
      BY <2>2
    <3> QED
      BY <2>2, <3>1
  <2>3. ASSUME NEW p, p.type # "Enter", toMock' = <<p>>
        PROVE  (\E T : toMock' \in Seq(T)) /\ Good(toMock')
    <3>1. toMock' \in Seq({p})
      BY <2>3
    <3>2. \A i \in DOMAIN toMock' : toMock'[i] = p
      BY <2>3
    <3>3. Good(toMock')
      BY <2>3, <3>2
    <3> QED
      BY <3>1, <3>3
  <2>4. ASSUME NEW p, p.type # "Enter", toMock' = Append(toMock, p)
        PROVE  (\E T : toMock' \in Seq(T)) /\ Good(toMock')
    <3>1. toMock \in Seq(S \cup {p})
      BY <1>1
    <3>2. toMock' \in Seq(S \cup {p})
      BY <2>4, <3>1
    <3>3. Good(toMock')
      BY <1>1, <1>2, <2>4
    <3> QED
      BY <3>2, <3>3
  <2> QED
    BY <2>1, <2>2, <2>3, <2>4 DEF NoOrder
<1> QED
  BY <1>3 DEF TokenInv, TokenOnceAnywhere, NoOrder

\* A new order whose token the registry has just taken (client.hpp:98-107) keeps TokenInv.
LEMMA NewOrderKeeps == ASSUME TokenInv, NewOrder PROVE TokenInv'
<1>1. PICK S : toMock \in Seq(S)
  BY DEF TokenInv
<1>2. PICK p : /\ p.type = "Enter" /\ p.token \notin tokens
               /\ toMock' = Append(toMock, p) /\ tokens' = tokens \cup {p.token}
  BY DEF NewOrder
<1>3. toMock' \in Seq(S \cup {p})
  <2>1. toMock \in Seq(S \cup {p})
    BY <1>1
  <2> QED
    BY <1>2, <2>1
<1>4. \A i \in DOMAIN toMock' : \/ i \in DOMAIN toMock /\ toMock'[i] = toMock[i]
                                \/ i = Len(toMock) + 1 /\ toMock'[i] = p
  BY <1>1, <1>2
<1>5. seenTokens' = seenTokens /\ \A g \in Gateways : p.token \notin seenTokens[g]
  BY <1>2 DEF NewOrder, TokenInv
<1>6. \A i \in DOMAIN toMock' : toMock'[i].type = "Enter" => toMock'[i].token \in tokens'
  BY <1>2, <1>4 DEF TokenInv
<1>7. TokenOnceAnywhere'
  <2> SUFFICES ASSUME NEW i \in DOMAIN toMock', toMock'[i].type = "Enter"
               PROVE  /\ \A g \in Gateways : toMock'[i].token \notin seenTokens[g]
                      /\ \A j \in DOMAIN toMock' :
                            toMock'[j].type = "Enter" /\ toMock'[j].token = toMock'[i].token
                              => i = j
    BY <1>5 DEF TokenOnceAnywhere
  <2>1. CASE i \in DOMAIN toMock /\ toMock'[i] = toMock[i]
    BY <1>2, <1>4, <2>1 DEF TokenInv, TokenOnceAnywhere
  <2>2. CASE i = Len(toMock) + 1 /\ toMock'[i] = p
    BY <1>2, <1>4, <1>5, <2>2 DEF TokenInv
  <2> QED
    BY <1>4, <2>1, <2>2
<1> QED
  BY <1>2, <1>3, <1>5, <1>6, <1>7 DEF TokenInv

\* The gateway takes the first packet; its token, if it is an order's, was unique
\* (on_enter_order in ouch_gateway.cpp).
LEMMA GatewayKeeps == ASSUME TokenInv, GatewayAnswers PROVE TokenInv'
<1>1. PICK S : toMock \in Seq(S)
  BY DEF TokenInv
<1> DEFINE p     == Head(toMock)
           fresh == p.type = "Enter" /\ p.token \notin seenTokens[gate]
<1>2. /\ toMock # <<>> /\ tokens' = tokens
      /\ toMock' = IF p.type = "Logout" THEN <<>> ELSE Tail(toMock)
      /\ seenTokens' = [seenTokens EXCEPT ![gate] = IF fresh THEN @ \cup {p.token} ELSE @]
  BY DEF GatewayAnswers
<1>3. /\ \E T : toMock' \in Seq(T)
      /\ \A i \in DOMAIN toMock' : i + 1 \in DOMAIN toMock /\ i \in Nat
                                   /\ toMock'[i] = toMock[i + 1]
      /\ 1 \in DOMAIN toMock /\ p = toMock[1]
  BY <1>1, <1>2
<1>4. DOMAIN seenTokens' = Gateways
  BY <1>2 DEF TokenInv
<1>5. ASSUME NEW g \in Gateways
      PROVE  seenTokens'[g] \subseteq IF p.type = "Enter" THEN seenTokens[g] \cup {p.token}
                                      ELSE seenTokens[g]
  BY <1>2 DEF TokenInv
<1>6. \A g \in Gateways : seenTokens'[g] \subseteq tokens'
  BY <1>2, <1>3, <1>5 DEF TokenInv
<1>7. \A i \in DOMAIN toMock' : toMock'[i].type = "Enter" => toMock'[i].token \in tokens'
  BY <1>2, <1>3 DEF TokenInv
<1>8. TokenOnceAnywhere'
  <2> SUFFICES ASSUME NEW i \in DOMAIN toMock', toMock'[i].type = "Enter"
               PROVE  /\ \A g \in Gateways : toMock'[i].token \notin seenTokens'[g]
                      /\ \A j \in DOMAIN toMock' :
                            toMock'[j].type = "Enter" /\ toMock'[j].token = toMock'[i].token
                              => i = j
    BY DEF TokenOnceAnywhere
  <2>1. i + 1 \in DOMAIN toMock /\ i \in Nat /\ i # 0 /\ toMock'[i] = toMock[i + 1]
    BY <1>1, <1>2, <1>3
  <2>2. \A g \in Gateways : toMock[i + 1].token \notin seenTokens[g]
    BY <2>1 DEF TokenInv, TokenOnceAnywhere
  <2>3. p.type = "Enter" => toMock[i + 1].token # p.token
    <3>1. i + 1 # 1
      BY <2>1
    <3> QED
      BY <1>3, <2>1, <3>1 DEF TokenInv, TokenOnceAnywhere
  <2>4. \A g \in Gateways : toMock'[i].token \notin seenTokens'[g]
    BY <1>5, <2>1, <2>2, <2>3
  <2>5. ASSUME NEW j \in DOMAIN toMock', toMock'[j].type = "Enter",
               toMock'[j].token = toMock'[i].token
        PROVE  i = j
    <3>1. j + 1 \in DOMAIN toMock /\ j \in Nat /\ toMock'[j] = toMock[j + 1]
      BY <1>3
    <3>2. i + 1 = j + 1
      BY <2>1, <2>5, <3>1 DEF TokenInv, TokenOnceAnywhere
    <3> QED
      BY <2>1, <3>1, <3>2
  <2> QED
    BY <2>4, <2>5
<1> QED
  BY <1>3, <1>4, <1>6, <1>7, <1>8 DEF TokenInv

-----------------------------------------------------------------------------
(* Which step does what to the tokens *)

\* A packet that the session takes, or does not.
LEMMA OfferSends ==
    ASSUME NEW s, NEW p, NEW n, Offer(s, p, n)
    PROVE  toMock' = toMock \/ toMock' = Append(toMock, p)
  BY DEF Offer

\* The token is registered before the packet is offered: run_place(), run_cancel(),
\* run_replace(), run_mass_quote() and run_burst_place() of replay.hpp.
LEMMA CallsTokens ==
    ASSUME NEW s, RunPlace(s) \/ RunCancelByToken(s) \/ RunReplace(s) \/ RunQuote(s)
    PROVE  NoOrder \/ NewOrder
<1>1. CASE RunPlace(s)
  <2> DEFINE p == Packet("Enter", s.id, 0)
  <2>1. /\ s.id \notin tokens /\ tokens' = tokens \cup {s.id} /\ seenTokens' = seenTokens
        /\ toMock' = toMock \/ toMock' = Append(toMock, p)
    BY <1>1, OfferSends DEF RunPlace, Register, calledVars
  <2>2. p.type = "Enter" /\ p.token = s.id
    BY DEF Packet
  <2> HIDE DEF p
  <2> QED
    BY <2>1, <2>2 DEF NoOrder, NewOrder
<1>2. ASSUME NEW type \in {"Cancel", "Replace", "Quote"}, NEW orig,
             Offer(s, Packet(type, s.id, orig), 1) \/ Offer(s, Packet(type, s.id, orig), 2),
             tokens \subseteq tokens', seenTokens' = seenTokens
      PROVE  NoOrder
  <2> DEFINE p == Packet(type, s.id, orig)
  <2>1. toMock' = toMock \/ toMock' = Append(toMock, p)
    BY <1>2, OfferSends
  <2>2. p.type # "Enter"
    BY DEF Packet
  <2> HIDE DEF p
  <2> QED
    BY <1>2, <2>1, <2>2 DEF NoOrder
<1>3. CASE RunCancelByToken(s)
  BY <1>2, <1>3 DEF RunCancelByToken, calledVars
<1>4. CASE RunReplace(s) \/ RunQuote(s)
  BY <1>2, <1>4 DEF RunReplace, RunQuote, Register, calledVars
<1> QED
  BY <1>1, <1>3, <1>4

\* The loop of run_cancel_id() (replay.hpp:476-484) sends no order.
LEMMA DrainTokens == ASSUME DrainRotates \/ DrainEnds PROVE NoOrder
<1>1. CASE DrainRotates
  BY <1>1 DEF DrainRotates, session, NoOrder
<1>2. CASE DrainEnds
  <2> DEFINE p == Packet("CancelById", cur.id, 0)
  <2>1. toMock' = toMock \/ toMock' = Append(toMock, p)
    BY <1>2, OfferSends DEF DrainEnds
  <2>2. p.type # "Enter" /\ UNCHANGED <<tokens, seenTokens>>
    BY <1>2 DEF Packet, DrainEnds
  <2> HIDE DEF p
  <2> QED
    BY <2>1, <2>2 DEF NoOrder
<1> QED
  BY <1>1, <1>2

\* A step of a burst (replay.hpp:570-631) sends one order with a new token, or none.
LEMMA BurstTokens == ASSUME Bursts PROVE NoOrder \/ NewOrder
<1>1. CASE BurstOrder
  <2> DEFINE t == BurstToken(need)
             p == Packet("Enter", t, 0)
  <2>1. /\ t \notin tokens /\ tokens' = tokens \cup {t} /\ seenTokens' = seenTokens
        /\ toMock' = toMock \/ toMock' = Append(toMock, p)
    BY <1>1 DEF BurstOrder, Register
  <2>2. p.type = "Enter" /\ p.token = t
    BY DEF Packet
  <2> HIDE DEF p, t
  <2> QED
    BY <2>1, <2>2 DEF NoOrder, NewOrder
<1>2. CASE BurstRefused \/ BurstThrottled
  BY <1>2 DEF BurstRefused, BurstThrottled, session, books, NoOrder
<1> QED
  BY <1>1, <1>2 DEF Bursts

\* A rebuild loses what was on the way, and a login is no order (rebuild() and
\* reconnect_and_login() in bist_colo.cpp).
LEMMA ConnectionTokens ==
    ASSUME \/ \E s : RunLogin(s) \/ RunSwitch(s) \/ RunOuchLogout(s)
           \/ Transport
    PROVE  NoOrder
<1>1. ASSUME NEW s, NEW g, Rebuild(s, g) PROVE NoOrder
  BY <1>1 DEF Rebuild, EmptySlots, books, NoOrder
<1>2. ASSUME NEW s, RunLogin(s) \/ RunSwitch(s) PROVE NoOrder
  <2>1. (\E g : Rebuild(s, g)) \/ UNCHANGED <<toMock, tokens, seenTokens>>
    BY <1>2 DEF RunLogin, RunSwitch, session, books
  <2> QED
    BY <1>1, <2>1 DEF NoOrder
<1>3. ASSUME NEW s, RunOuchLogout(s) PROVE NoOrder
  <2> DEFINE p == Packet("Logout", 0, 0)
  <2>1. /\ UNCHANGED <<tokens, seenTokens>>
        /\ toMock' = toMock \/ toMock' = Append(toMock, p)
    BY <1>3 DEF RunOuchLogout, books
  <2>2. p.type # "Enter"
    BY DEF Packet
  <2> HIDE DEF p
  <2> QED
    BY <2>1, <2>2 DEF NoOrder
<1>4. CASE SendLogin
  <2> DEFINE p == Packet("Login", IF cur.action = "ouch_login" THEN cur.arg ELSE Same, 0)
  <2>1. UNCHANGED <<tokens, seenTokens>> /\ toMock' = <<p>>
    BY <1>4 DEF SendLogin, books
  <2>2. p.type # "Enter"
    BY DEF Packet
  <2> HIDE DEF p
  <2> QED
    BY <2>1, <2>2 DEF NoOrder
<1>5. CASE FirstDial \/ Dials \/ WaitsToDial \/ DialFailed \/ ConnectFailed \/ LoginEnds
  BY <1>5 DEF FirstDial, Dials, WaitsToDial, DialFailed, ConnectFailed, Unconnected, LoginEnds,
              session, books, NoOrder
<1> QED
  BY <1>2, <1>3, <1>4, <1>5 DEF Transport

\* The other steps send nothing.
LEMMA OtherTokens ==
    ASSUME \/ Polls \/ Expects \/ RunThrottled
           \/ \E s : RunPlaceRefused(s) \/ RunCancelById(s) \/ RunBurst(s)
                     \/ RunInactivate(s) \/ RunExpect(s)
           \/ UNCHANGED ouchVars
    PROVE  NoOrder
<1>1. UNCHANGED <<toMock, tokens, seenTokens>>
  <2>1. CASE Polls \/ Expects \/ RunThrottled
    BY <2>1 DEF Polls, Poll, Expects, ExpectState, ExpectAnswer, ExpectLate, ExpectClosed,
                RunThrottled, session, books
  <2>2. ASSUME NEW s, RunPlaceRefused(s) \/ RunCancelById(s) \/ RunBurst(s)
                      \/ RunInactivate(s) \/ RunExpect(s)
        PROVE  UNCHANGED <<toMock, tokens, seenTokens>>
    BY <2>2 DEF RunPlaceRefused, RunCancelById, RunBurst, RunInactivate, RunExpect, session,
                books, ouchVars
  <2>3. CASE UNCHANGED ouchVars
    BY <2>3 DEF ouchVars, session, books
  <2> QED
    BY <2>1, <2>2, <2>3
<1> QED
  BY <1>1 DEF NoOrder

\* Every step of the runner and of the gateway keeps the tokens distinct.
LEMMA TokenStep == ASSUME TokenInv, OuchNext \/ UNCHANGED ouchVars PROVE TokenInv'
<1>1. CASE OuchRunner
  <2>1. NoOrder \/ NewOrder
    BY <1>1, CallsTokens, DrainTokens, BurstTokens, ConnectionTokens, OtherTokens DEF OuchRunner
  <2> QED
    BY <2>1, NoOrderKeeps, NewOrderKeeps
<1> QED
  BY <1>1, GatewayKeeps, OtherTokens, NoOrderKeeps DEF OuchNext

\* Nothing is under way before the program has connected.
LEMMA TokenInit == ASSUME OuchInit PROVE TokenInv
<1>1. toMock \in Seq({})
  BY DEF OuchInit
<1> QED
  BY <1>1 DEF OuchInit, TokenInv, TokenOnceAnywhere

-----------------------------------------------------------------------------
(* Counting the places of a sequence *)

\* Some places of a stretch of m, of a stretch of n, and of the one behind the other.
Split(C, A, B, m, n) ==
    /\ m \in Nat /\ n \in Nat
    /\ A \subseteq 1 .. m /\ B \subseteq 1 .. n /\ C \subseteq 1 .. m + n
    /\ \A i \in 1 .. m : i \in C <=> i \in A
    /\ \A i \in 1 .. n : m + i \in C <=> i \in B

\* The places of the two stretches, counted together, are those of both.
LEMMA SplitAdds ==
    ASSUME NEW m, NEW n, NEW A, NEW B, NEW C, Split(C, A, B, m, n)
    PROVE  /\ Cardinality(A) \in Nat /\ Cardinality(B) \in Nat
           /\ Cardinality(C) = Cardinality(A) + Cardinality(B)
<1> DEFINE D == {m + i : i \in B}
           f == [i \in B |-> m + i]
<1>0. /\ m \in Nat /\ n \in Nat
      /\ A \subseteq 1 .. m /\ B \subseteq 1 .. n /\ C \subseteq 1 .. m + n
      /\ \A i \in 1 .. m : i \in C <=> i \in A
      /\ \A i \in 1 .. n : m + i \in C <=> i \in B
  BY DEF Split
<1>1. IsFiniteSet(1 .. m) /\ IsFiniteSet(1 .. n)
  <2>1. 1 \in Int /\ m \in Int /\ n \in Int
    BY <1>0
  <2> QED
    BY <2>1, FS_Interval, Zenon
<1>2. IsFiniteSet(A) /\ IsFiniteSet(B)
  BY <1>0, <1>1, FS_Subset
<1>3. f \in Bijection(B, D)
  <2>1. f \in [B -> D] /\ \A c \in D : \E i \in B : f[i] = c
    OBVIOUS
  <2>2. \A i, j \in B : f[i] = f[j] => i = j
    BY <1>0
  <2> QED
    BY <2>1, <2>2 DEF Bijection, Injection, Surjection, IsInjective
<1>4. ExistsBijection(B, D)
  BY <1>3 DEF ExistsBijection
<1>5. IsFiniteSet(D) /\ Cardinality(D) = Cardinality(B)
  BY <1>2, <1>4, FS_Bijection
<1>6. A \cap D = {}
  BY <1>0
<1>7. C = A \cup D
  <2>1. ASSUME NEW i \in C PROVE i \in A \cup D
    <3>1. CASE i \in 1 .. m
      BY <1>0, <3>1
    <3>2. CASE i \notin 1 .. m
      <4>1. i - m \in 1 .. n /\ m + (i - m) = i
        BY <1>0, <3>2
      <4>2. i - m \in B
        BY <1>0, <4>1
      <4> QED
        BY <4>1, <4>2
    <3> QED
      BY <3>1, <3>2
  <2> QED
    BY <1>0, <2>1
<1> HIDE DEF D
<1>8. Cardinality(A) \in Nat /\ Cardinality(B) \in Nat
  BY <1>2, FS_CardinalityType
<1>9. Cardinality(C) = Cardinality(A) + Cardinality(B)
  <2>1. Cardinality(A \cup D) = Cardinality(A) + Cardinality(D) - Cardinality(A \cap D)
    BY <1>2, <1>5, FS_Union, Zenon
  <2>2. Cardinality(A \cap D) = 0
    BY <1>6, FS_EmptySet, Zenon
  <2>3. Cardinality(C) = Cardinality(A) + Cardinality(B) - 0
    BY <1>5, <1>7, <2>1, <2>2, Zenon
  <2> QED
    BY <1>8, <2>3
<1> QED
  BY <1>8, <1>9

\* The sequence r is s with t behind it.
Behind(r, s, t) ==
    /\ Len(s) \in Nat /\ Len(t) \in Nat
    /\ DOMAIN s = 1 .. Len(s) /\ DOMAIN t = 1 .. Len(t) /\ DOMAIN r = 1 .. Len(s) + Len(t)
    /\ \A i \in 1 .. Len(s) : r[i] = s[i] /\ i \in DOMAIN r
    /\ \A i \in 1 .. Len(t) : r[Len(s) + i] = t[i] /\ Len(s) + i \in DOMAIN r

\* The events of a connection (dispatch_packet() in session.hpp:256-292) are those of
\* its first and of its last packets.
LEMMA AnswersAdd ==
    ASSUME NEW r, NEW s, NEW t, Behind(r, s, t)
    PROVE  /\ Cardinality(AnswersIn(s)) \in Nat /\ Cardinality(AnswersIn(t)) \in Nat
           /\ Cardinality(AnswersIn(r)) = Cardinality(AnswersIn(s)) + Cardinality(AnswersIn(t))
<1>1. Split(AnswersIn(r), AnswersIn(s), AnswersIn(t), Len(s), Len(t))
  BY DEF Split, Behind, AnswersIn
<1> QED
  BY <1>1, SplitAdds

\* So are the packets that will be answered by an event.
LEMMA OrdersAdd ==
    ASSUME NEW r, NEW s, NEW t, Behind(r, s, t)
    PROVE  /\ Cardinality(OrdersIn(s)) \in Nat /\ Cardinality(OrdersIn(t)) \in Nat
           /\ Cardinality(OrdersIn(r)) = Cardinality(OrdersIn(s)) + Cardinality(OrdersIn(t))
<1>1. Split(OrdersIn(r), OrdersIn(s), OrdersIn(t), Len(s), Len(t))
  BY DEF Split, Behind, OrdersIn
<1> QED
  BY <1>1, SplitAdds

\* So are the quotes, which are answered by two.
LEMMA QuotesAdd ==
    ASSUME NEW r, NEW s, NEW t, Behind(r, s, t)
    PROVE  /\ Cardinality(QuotesIn(s)) \in Nat /\ Cardinality(QuotesIn(t)) \in Nat
           /\ Cardinality(QuotesIn(r)) = Cardinality(QuotesIn(s)) + Cardinality(QuotesIn(t))
<1>1. Split(QuotesIn(r), QuotesIn(s), QuotesIn(t), Len(s), Len(t))
  BY DEF Split, Behind, QuotesIn
<1> QED
  BY <1>1, SplitAdds

\* What the connection and the queue are made of: appended, taken off, and cut.
LEMMA BehindSeqs ==
    ASSUME NEW S, NEW s \in Seq(S)
    PROVE  /\ \A T : \A t \in Seq(T) : Behind(s \o t, s, t)
           /\ \A x : Behind(Append(s, x), s, <<x>>)
           /\ s # <<>> => Behind(s, <<Head(s)>>, Tail(s))
           /\ \A k \in 0 .. Len(s) : Behind(s, SubSeq(s, 1, k), SubSeq(s, k + 1, Len(s)))
<1>1. ASSUME NEW T, NEW t \in Seq(T) PROVE Behind(s \o t, s, t)
  <2>1. s \in Seq(S \cup T) /\ t \in Seq(S \cup T)
    OBVIOUS
  <2> QED
    BY <2>1 DEF Behind
<1>2. ASSUME NEW x PROVE Behind(Append(s, x), s, <<x>>)
  <2>1. s \in Seq(S \cup {x}) /\ <<x>> \in Seq(S \cup {x})
    OBVIOUS
  <2> QED
    BY <2>1 DEF Behind
<1>3. ASSUME s # <<>> PROVE Behind(s, <<Head(s)>>, Tail(s))
  BY <1>3 DEF Behind
<1> DEFINE l == Len(s)
<1>4. ASSUME NEW k \in 0 .. l PROVE Behind(s, SubSeq(s, 1, k), SubSeq(s, k + 1, l))
  <2> DEFINE a == SubSeq(s, 1, k)  b == SubSeq(s, k + 1, l)
  <2>1. l \in Nat /\ DOMAIN s = 1 .. l /\ \A i \in 1 .. l : s[i] \in S
    OBVIOUS
  <2> HIDE DEF l
  <2>2. /\ k \in Int /\ k + 1 \in Int /\ l \in Int /\ k >= 0 /\ k <= l
        /\ k - 1 + 1 = k /\ l - (k + 1) + 1 = l - k
        /\ (IF 1 <= k THEN k - 1 + 1 ELSE 0) = k
        /\ (IF k + 1 <= l THEN l - (k + 1) + 1 ELSE 0) = l - k
        /\ \A i \in 1 .. k : i \in 1 .. l /\ 1 + i - 1 = i
        /\ \A i \in k + 1 .. l : i \in 1 .. l
        /\ \A i \in 1 .. l - k : (k + 1) + i - 1 = k + i /\ k + i \in 1 .. l
    BY <2>1
  <2>3. /\ a \in Seq(S) /\ Len(a) = k /\ \A i \in 1 .. k : a[i] = s[i]
    BY <2>1, <2>2, SubSeqProperties
  <2>4. /\ b \in Seq(S) /\ Len(b) = l - k /\ \A i \in 1 .. l - k : b[i] = s[k + i]
    BY <2>1, <2>2, SubSeqProperties
  <2> HIDE DEF a, b
  <2>5. DOMAIN a = 1 .. Len(a) /\ DOMAIN b = 1 .. Len(b)
    BY <2>3, <2>4, LenProperties
  <2>6. k \in Nat /\ l - k \in Nat /\ k + (l - k) = l
    BY <2>1, <2>2
  <2>7. Behind(s, a, b)
    BY <2>1, <2>2, <2>3, <2>4, <2>5, <2>6 DEF Behind
  <2> QED
    BY <2>7 DEF a, b
<1> QED
  BY <1>1, <1>2, <1>3, <1>4

-----------------------------------------------------------------------------
(* The answers of an OUCH scenario: what is under way *)

\* The queues are sequences, and finitely many orders rest.
LinesInv ==
    /\ \E S : queue \in Seq(S)
    /\ \E S : toRunner \in Seq(S)
    /\ \E S : toMock \in Seq(S)
    /\ DOMAIN resting = Gateways /\ \A g \in Gateways : IsFiniteSet(resting[g])

\* Where the runner is while it has no session (rebuild() empties the slots before it
\* dials), and while it logs in (drive_login() in bist_colo.cpp).
PlaceInv ==
    /\ pc = "dial" => sess = "none"
    /\ sess = "none" => pc \in {"dial", "undefined", "done"}
    /\ sess = "LoggingIn" => pc \in {"login", "done"}

\* The packets that answer a login.
LoginAnswer == {"LoginAccepted", "LoginRejected"}

\* What the connection holds in each state of the session: a login is alone on it, an
\* active session is not about to end, and behind a logout is no request.
ConnInv ==
    /\ sess = "none" => served = "no" /\ toMock = <<>> /\ toRunner = <<>>
    /\ sess = "LoggingIn" =>
          /\ served # "closed"
          /\ \/ Len(toMock) = 1 /\ toMock[1].type = "Login" /\ toRunner = <<>>
             \/ toMock = <<>> /\ Len(toRunner) = 1 /\ toRunner[1].msg \in LoginAnswer
    /\ sess # "LoggingIn" =>
          /\ \A i \in DOMAIN toMock : toMock[i].type # "Login"
          /\ \A i \in DOMAIN toRunner : toRunner[i].msg \notin LoginAnswer
    /\ sess = "Active" =>
          /\ served # "closed"
          /\ \A i \in DOMAIN toMock : toMock[i].type # "Logout"
          /\ \A i \in DOMAIN toRunner : toRunner[i].msg # "EndOfSession"
    /\ \A i, j \in DOMAIN toMock :
          i < j /\ toMock[i].type = "Logout" => toMock[j].type = "Logout"

\* What is owed is under way: AnswersAddUp, where no step has failed.
AddsUp == owed = Len(queue) + Cardinality(AnswersIn(toRunner))
                 + Cardinality(OrdersIn(toMock)) + Cardinality(QuotesIn(toMock))

\* The inductive invariant: a step that fails may leave anything under way.
AnswerInv == clean => LinesInv /\ AddsUp /\ (Ouch => PlaceInv /\ ConnInv)

-----------------------------------------------------------------------------
(* What a step that does not fail does to what is under way *)

\* The connection is left alone: the queue turns, gains an event that the runner made
\* and is owed, or loses one that was owed.
Settled ==
    /\ UNCHANGED <<sess, served, toMock, toRunner>>
    /\ \E S : queue' \in Seq(S)
    /\ \/ owed' = owed /\ Len(queue') = Len(queue)
       \/ owed' = owed + 1 /\ Len(queue') = Len(queue) + 1
       \/ owed' = owed - 1 /\ Len(queue') = Len(queue) - 1

\* A request is sent on an active session, and is owed its answers.
Sent ==
    /\ sess = "Active" /\ UNCHANGED <<sess, served, toRunner>>
    /\ (\E S : queue' \in Seq(S)) /\ Len(queue') = Len(queue)
    /\ \E p : /\ toMock' = Append(toMock, p) /\ p.type \notin {"Login", "Logout"}
              /\ owed' = owed + (IF p.type = "Quote" THEN 2 ELSE 1)

\* rebuild() empties the slots, of what was owed only what is queued already.
Emptied == EmptySlots /\ queue' = queue /\ clean'

\* The login is sent on a new connection.
LoginSent ==
    /\ pc = "dial" /\ sess' = "LoggingIn" /\ UNCHANGED <<served, toRunner, queue, owed>>
    /\ \E p : toMock' = <<p>> /\ p.type = "Login"

\* logout(): the packet is sent, or the connection is closed already.
LogoutSent ==
    /\ pc = "run" /\ sess' = "Disconnecting" /\ UNCHANGED <<served, toRunner, queue, owed>>
    /\ \/ toMock' = toMock
       \/ \E p : toMock' = Append(toMock, p) /\ p.type = "Logout"

\* The gateway's end-of-day pass announces cancels that nobody asked for.
Announced ==
    /\ pc = "run" /\ UNCHANGED <<sess, served, toMock, queue>>
    /\ \E a : /\ \E S : a \in Seq(S)
              /\ \A i \in DOMAIN a : a[i].msg = "order_canceled"
              /\ toRunner' = toRunner \o a /\ owed' = owed + Len(a)

\* poll_io() moves packets from the connection to the queue.
Polled == owed' = owed /\ \E k \in 1 .. Len(toRunner) : Poll(k)

\* A step of the runner that does not fail has one of these effects.
Effect == Settled \/ Sent \/ Emptied \/ LoginSent \/ LogoutSent \/ Announced \/ Polled

\* A rotation of the queue keeps its length, an event more or less changes it by one.
LEMMA QueueLengths ==
    ASSUME LinesInv
    PROVE  /\ Len(queue) \in Nat
           /\ \A x : Len(queue \o <<x>>) = Len(queue) + 1 /\ \E S : queue \o <<x>> \in Seq(S)
           /\ queue # <<>> =>
                /\ Len(Tail(queue)) = Len(queue) - 1 /\ (\E S : Tail(queue) \in Seq(S))
                /\ Len(Append(Tail(queue), Head(queue))) = Len(queue)
                /\ \E S : Append(Tail(queue), Head(queue)) \in Seq(S)
<1>1. PICK S : queue \in Seq(S)
  BY DEF LinesInv
<1>2. Len(queue) \in Nat
  BY <1>1
<1>3. ASSUME NEW x PROVE Len(queue \o <<x>>) = Len(queue) + 1 /\ \E T : queue \o <<x>> \in Seq(T)
  <2>1. queue \in Seq(S \cup {x}) /\ <<x>> \in Seq(S \cup {x})
    BY <1>1
  <2>2. queue \o <<x>> \in Seq(S \cup {x})
    BY <2>1
  <2>3. Len(queue \o <<x>>) = Len(queue) + 1
    BY <2>1
  <2> QED
    BY <2>2, <2>3
<1>4. ASSUME queue # <<>>
      PROVE  /\ Len(Tail(queue)) = Len(queue) - 1 /\ (\E T : Tail(queue) \in Seq(T))
             /\ Len(Append(Tail(queue), Head(queue))) = Len(queue)
             /\ \E T : Append(Tail(queue), Head(queue)) \in Seq(T)
  <2>1. Tail(queue) \in Seq(S) /\ Len(Tail(queue)) = Len(queue) - 1 /\ Head(queue) \in S
    BY <1>1, <1>4
  <2>2. /\ Append(Tail(queue), Head(queue)) \in Seq(S)
        /\ Len(Append(Tail(queue), Head(queue))) = Len(queue)
    BY <1>2, <2>1
  <2> QED
    BY <2>1, <2>2
<1> QED
  BY <1>2, <1>3, <1>4

\* send_unsequenced() that does not fail sends on an active session (session.hpp).
LEMMA OfferEffect ==
    ASSUME NEW s, NEW p, NEW n, Offer(s, p, n), clean',
           p.type \notin {"Login", "Logout"}, n = IF p.type = "Quote" THEN 2 ELSE 1,
           UNCHANGED <<sess, served, toRunner>>, Len(queue') = Len(queue),
           \E S : queue' \in Seq(S)
    PROVE  Sent
  BY DEF Offer, Fails, Sent

\* The calls of the client that do not fail send one request (replay.hpp: run_place(),
\* run_cancel_t(), run_replace(), run_quote()).
LEMMA CallEffect ==
    ASSUME LinesInv, clean', NEW s,
           RunPlace(s) \/ RunCancelByToken(s) \/ RunReplace(s) \/ RunQuote(s)
    PROVE  Sent
<1>1. ASSUME NEW type \in {"Enter", "Cancel", "Replace", "Quote"}, NEW orig, NEW n,
             Offer(s, Packet(type, s.id, orig), n), n = IF type = "Quote" THEN 2 ELSE 1,
             UNCHANGED <<sess, served, toRunner, queue>>
      PROVE  Sent
  <2> DEFINE p == Packet(type, s.id, orig)
  <2>1. p.type = type
    BY DEF Packet
  <2> HIDE DEF p
  <2>2. Offer(s, p, n)
    BY <1>1 DEF p
  <2> QED
    BY <1>1, <2>1, <2>2, OfferEffect DEF LinesInv
<1>2. CASE RunPlace(s)
  BY <1>1, <1>2 DEF RunPlace, calledVars
<1>3. CASE RunCancelByToken(s)
  BY <1>1, <1>3 DEF RunCancelByToken, calledVars
<1>4. CASE RunReplace(s)
  BY <1>1, <1>4 DEF RunReplace, calledVars
<1>5. CASE RunQuote(s)
  BY <1>1, <1>5 DEF RunQuote, calledVars
<1> QED
  BY <1>2, <1>3, <1>4, <1>5

\* run_cancel_id() (replay.hpp:472-498): the queue turns, or the cancel is sent.
LEMMA DrainEffect ==
    ASSUME LinesInv, clean', DrainRotates \/ DrainEnds PROVE Settled \/ Sent
<1>1. CASE DrainRotates
  <2>1. /\ queue # <<>> /\ queue' = Append(Tail(queue), Head(queue))
        /\ UNCHANGED <<sess, served, toMock, toRunner, owed>>
    BY <1>1 DEF DrainRotates, session
  <2>2. Len(queue') = Len(queue) /\ \E S : queue' \in Seq(S)
    BY <2>1, QueueLengths
  <2> QED
    BY <2>1, <2>2 DEF Settled
<1>2. CASE DrainEnds
  <2> DEFINE p == Packet("CancelById", cur.id, 0)
  <2>1. /\ queue' = IF queue = <<>> THEN queue ELSE Append(Tail(queue), Head(queue))
        /\ UNCHANGED <<sess, served, toRunner>>
        /\ Offer(cur, p, 1)
    BY <1>2 DEF DrainEnds, Fails
  <2>2. p.type = "CancelById"
    BY DEF Packet
  <2> HIDE DEF p
  <2>3. Len(queue') = Len(queue) /\ \E S : queue' \in Seq(S)
    BY <2>1, QueueLengths DEF LinesInv
  <2> QED
    BY <2>1, <2>2, <2>3, OfferEffect
<1> QED
  BY <1>1, <1>2

\* run_burst_place() (replay.hpp:556-631): an order is sent, or nothing is.
LEMMA BurstEffect == ASSUME LinesInv, clean', Bursts PROVE Settled \/ Sent
<1>1. CASE BurstOrder
  <2> DEFINE p == Packet("Enter", BurstToken(need), 0)
  <2>1. /\ sess = "Active" /\ toMock' = Append(toMock, p) /\ owed' = owed + 1
        /\ UNCHANGED <<sess, served, toRunner, queue>>
    BY <1>1 DEF BurstOrder, Fails
  <2>2. p.type = "Enter"
    BY DEF Packet
  <2> HIDE DEF p
  <2> QED
    BY <2>1, <2>2 DEF Sent, LinesInv
<1>2. CASE BurstRefused \/ BurstThrottled
  <2>1. UNCHANGED <<sess, served, toMock, toRunner, owed, queue>>
    BY <1>2 DEF BurstRefused, BurstThrottled, session
  <2> QED
    BY <2>1 DEF Settled, LinesInv
<1> QED
  BY <1>1, <1>2 DEF Bursts

\* The steps that lose, open, log in to and log out of a connection
\* (MockTransportControl and LiveTransportControl in bist_colo.cpp).
LEMMA ConnectionEffect ==
    ASSUME LinesInv, clean',
           \/ \E s : RunLogin(s) \/ RunSwitch(s) \/ RunOuchLogout(s)
           \/ Transport
    PROVE  Settled \/ Emptied \/ LoginSent \/ LogoutSent
<1>1. ASSUME NEW s, NEW g, Rebuild(s, g) PROVE Emptied
  BY <1>1 DEF Rebuild, Emptied
<1>2. ASSUME NEW s, RunLogin(s) \/ RunSwitch(s) PROVE Emptied \/ Settled
  <2>1. (\E g : Rebuild(s, g)) \/ UNCHANGED <<sess, served, toMock, toRunner, queue, owed>>
    BY <1>2 DEF RunLogin, RunSwitch, session
  <2> QED
    BY <1>1, <2>1 DEF Settled, LinesInv
<1>3. ASSUME NEW s, RunOuchLogout(s) PROVE LogoutSent
  <2> DEFINE p == Packet("Logout", 0, 0)
  <2>1. /\ pc = "run" /\ sess' = "Disconnecting"
        /\ toMock' = toMock \/ toMock' = Append(toMock, p)
        /\ UNCHANGED <<served, toRunner, queue, owed>>
    BY <1>3 DEF RunOuchLogout, NextStep, Dispatch
  <2>2. p.type = "Logout"
    BY DEF Packet
  <2> HIDE DEF p
  <2> QED
    BY <2>1, <2>2 DEF LogoutSent
<1>4. CASE SendLogin
  <2> DEFINE p == Packet("Login", IF cur.action = "ouch_login" THEN cur.arg ELSE Same, 0)
  <2>1. /\ pc = "dial" /\ sess' = "LoggingIn" /\ toMock' = <<p>>
        /\ UNCHANGED <<served, toRunner, queue, owed>>
    BY <1>4 DEF SendLogin
  <2>2. p.type = "Login"
    BY DEF Packet
  <2> HIDE DEF p
  <2> QED
    BY <2>1, <2>2 DEF LoginSent
<1>5. CASE FirstDial \/ Dials \/ WaitsToDial \/ DialFailed \/ ConnectFailed \/ LoginEnds
  BY <1>5 DEF FirstDial, Dials, WaitsToDial, DialFailed, ConnectFailed, Unconnected, LoginEnds,
              session, Settled,
              LinesInv
<1> QED
  BY <1>2, <1>3, <1>4, <1>5 DEF Transport

\* inactivate_all (replay.hpp): what rests at the primary is announced, once each.
LEMMA SweepEffect ==
    ASSUME LinesInv, clean', NEW s, RunInactivate(s) PROVE Settled \/ Announced
<1> DEFINE m == Cardinality(resting[Primary])
           a == [i \in 1 .. m |-> [msg |-> "order_canceled",
                                   token |-> SetToSortSeq(resting[Primary], <)[i]]]
<1>1. /\ pc = "run" /\ UNCHANGED <<sess, served, toMock, queue>>
      /\ \/ toRunner' = toRunner \o a /\ owed' = owed + Len(a)
         \/ UNCHANGED <<toRunner, owed>>
  BY DEF RunInactivate, NextStep, Dispatch
<1>2. m \in Nat
  <2>1. IsFiniteSet(resting[Primary])
    BY DEF LinesInv, Gateways
  <2> QED
    BY <2>1, FS_CardinalityType
<1> HIDE DEF m
<1>3. \A i \in DOMAIN a : a[i].msg = "order_canceled"
  OBVIOUS
<1>4. \E S : a \in Seq(S)
  <2>1. a \in [1 .. m -> {a[i] : i \in 1 .. m}]
    OBVIOUS
  <2> HIDE DEF a
  <2>2. a \in Seq({a[i] : i \in 1 .. m})
    BY <1>2, <2>1
  <2> QED
    BY <2>2
<1> HIDE DEF a
<1> QED
  BY <1>1, <1>3, <1>4 DEF Settled, Announced, LinesInv

\* The other steps leave the connection alone, or poll it.
LEMMA OtherEffect ==
    ASSUME LinesInv, clean',
           \/ Polls \/ Expects \/ RunThrottled
           \/ \E s : RunPlaceRefused(s) \/ RunCancelById(s) \/ RunBurst(s) \/ RunExpect(s)
           \/ UNCHANGED ouchVars
    PROVE  Settled \/ Polled
<1>1. CASE Polls
  BY <1>1 DEF Polls, Polled
<1>2. CASE Expects
  <2>1. CASE ExpectState
    BY <2>1 DEF ExpectState, session, Settled, LinesInv
  <2>2. CASE ExpectAnswer
    <3>1. queue # <<>> /\ queue' = Tail(queue) /\ owed' = owed - 1 /\ UNCHANGED session
      BY <2>2 DEF ExpectAnswer
    <3> QED
      BY <3>1, QueueLengths DEF session, Settled
  <2>3. CASE ExpectLate \/ ExpectClosed
    BY <2>3 DEF ExpectLate, ExpectClosed, Fails
  <2> QED
    BY <1>2, <2>1, <2>2, <2>3 DEF Expects
<1>3. CASE RunThrottled
  BY <1>3 DEF RunThrottled, Fails
<1>4. ASSUME NEW s, RunPlaceRefused(s) PROVE Settled
  <2> DEFINE x == [msg |-> "order_rejected", token |-> s.id]
  <2>1. queue' = queue \o <<x>> /\ owed' = owed + 1 /\ UNCHANGED session
    BY <1>4 DEF RunPlaceRefused, Fails, Answer1
  <2> HIDE DEF x
  <2>2. Len(queue') = Len(queue) + 1 /\ \E S : queue' \in Seq(S)
    BY <2>1, QueueLengths
  <2> QED
    BY <2>1, <2>2 DEF session, Settled
<1>5. ASSUME NEW s, RunCancelById(s) \/ RunBurst(s) \/ RunExpect(s) PROVE Settled
  BY <1>5 DEF RunCancelById, RunBurst, RunExpect, ouchVars, session, Settled, LinesInv
<1>6. CASE UNCHANGED ouchVars
  BY <1>6 DEF ouchVars, session, Settled, LinesInv
<1> QED
  BY <1>1, <1>2, <1>3, <1>4, <1>5, <1>6

\* Every step of the runner that does not fail has one of the effects.
LEMMA RunnerEffect == ASSUME LinesInv, clean', OuchRunner \/ UNCHANGED ouchVars PROVE Effect
  BY CallEffect, DrainEffect, BurstEffect, ConnectionEffect, SweepEffect, OtherEffect
     DEF OuchRunner, Effect

\* A scenario with a failed step stays one (run() in replay.hpp records every result).
LEMMA CleanBefore == ASSUME OuchNext \/ UNCHANGED ouchVars, clean' PROVE clean
<1>1. CASE GatewayAnswers \/ UNCHANGED ouchVars
  BY <1>1 DEF GatewayAnswers, ouchVars
<1>2. CASE Polls \/ Expects \/ RunThrottled \/ DrainRotates \/ DrainEnds \/ Bursts
  BY <1>2 DEF Polls, Expects, ExpectState, ExpectAnswer, ExpectLate, ExpectClosed, RunThrottled,
              DrainRotates, DrainEnds, Bursts, BurstOrder, BurstRefused, BurstThrottled, Fails, Ok,
              Offer
<1>3. ASSUME NEW s, RunPlace(s) \/ RunPlaceRefused(s) \/ RunCancelByToken(s) \/ RunCancelById(s)
                    \/ RunReplace(s) \/ RunQuote(s) \/ RunBurst(s) \/ RunInactivate(s)
                    \/ RunExpect(s) \/ RunOuchLogout(s)
      PROVE  clean
  BY <1>3 DEF RunPlace, RunPlaceRefused, RunCancelByToken, RunCancelById, RunReplace, RunQuote,
              RunBurst, RunInactivate, RunExpect, RunOuchLogout, ouchVars, Fails, Ok, Offer
<1>4. ASSUME NEW s, RunLogin(s) \/ RunSwitch(s) PROVE clean
  BY <1>4 DEF RunLogin, RunSwitch, Rebuild, EmptySlots, Fails, Ok
<1>5. CASE Transport
  BY <1>5 DEF Transport, FirstDial, Dials, WaitsToDial, SendLogin, DialFailed,
              ConnectFailed, Unconnected, LoginEnds, Fails, Ok
<1> QED
  BY <1>1, <1>2, <1>3, <1>4, <1>5 DEF OuchNext, OuchRunner

-----------------------------------------------------------------------------
(* The queues stay sequences *)

\* What is made of the queues by the steps are sequences.
LEMMA LinesOf ==
    ASSUME LinesInv
    PROVE  /\ \A x : \E S : Append(toMock, x) \in Seq(S)
           /\ \A x : \E S : <<x>> \in Seq(S)
           /\ \E S : <<>> \in Seq(S)
           /\ \A a : (\E S : a \in Seq(S)) => /\ \E S : toRunner \o a \in Seq(S)
                                              /\ \E S : queue \o a \in Seq(S)
           /\ \A k \in 0 .. Len(toRunner) : \E S : SubSeq(toRunner, k + 1, Len(toRunner)) \in Seq(S)
           /\ toMock # <<>> => \E S : Tail(toMock) \in Seq(S)
<1>1. PICK Q : queue \in Seq(Q)
  BY DEF LinesInv
<1>2. PICK R : toRunner \in Seq(R)
  BY DEF LinesInv
<1>3. PICK M : toMock \in Seq(M)
  BY DEF LinesInv
<1>4. ASSUME NEW x PROVE \E S : Append(toMock, x) \in Seq(S)
  <2>1. toMock \in Seq(M \cup {x})
    BY <1>3
  <2>2. Append(toMock, x) \in Seq(M \cup {x})
    BY <2>1
  <2> QED
    BY <2>2
<1>5. ASSUME NEW x PROVE \E S : <<x>> \in Seq(S)
  <2>1. <<x>> \in Seq({x})
    OBVIOUS
  <2> QED
    BY <2>1
<1>6. \E S : <<>> \in Seq(S)
  <2>1. <<>> \in Seq({})
    OBVIOUS
  <2> QED
    BY <2>1
<1>7. ASSUME NEW a, NEW A, a \in Seq(A)
      PROVE  (\E S : toRunner \o a \in Seq(S)) /\ (\E S : queue \o a \in Seq(S))
  <2>1. toRunner \in Seq(R \cup A) /\ a \in Seq(R \cup A)
    BY <1>2, <1>7
  <2>2. queue \in Seq(Q \cup A) /\ a \in Seq(Q \cup A)
    BY <1>1, <1>7
  <2>3. toRunner \o a \in Seq(R \cup A)
    BY <2>1
  <2>4. queue \o a \in Seq(Q \cup A)
    BY <2>2
  <2> QED
    BY <2>3, <2>4
<1>8. ASSUME NEW k \in 0 .. Len(toRunner)
      PROVE  \E S : SubSeq(toRunner, k + 1, Len(toRunner)) \in Seq(S)
  <2> DEFINE l == Len(toRunner)
  <2>1. l \in Nat /\ \A i \in 1 .. l : toRunner[i] \in R
    BY <1>2
  <2> HIDE DEF l
  <2>2. k + 1 \in Int /\ l \in Int /\ \A i \in k + 1 .. l : i \in 1 .. l
    BY <2>1
  <2>3. SubSeq(toRunner, k + 1, l) \in Seq(R)
    BY <2>1, <2>2, SubSeqProperties
  <2> QED
    BY <2>3 DEF l
<1>9. ASSUME toMock # <<>> PROVE \E S : Tail(toMock) \in Seq(S)
  <2>1. Tail(toMock) \in Seq(M)
    BY <1>3, <1>9
  <2> QED
    BY <2>1
<1> QED
  BY <1>4, <1>5, <1>6, <1>7, <1>8, <1>9

\* What poll_io() takes off the connection: its events are queued, each once.
LEMMA PollSplits ==
    ASSUME LinesInv, NEW k \in 0 .. Len(toRunner), Poll(k)
    PROVE  /\ Behind(toRunner, SubSeq(toRunner, 1, k), toRunner')
           /\ Len(queue') = Len(queue) + Cardinality(AnswersIn(SubSeq(toRunner, 1, k)))
           /\ \E S : queue' \in Seq(S)
<1> DEFINE new == SubSeq(toRunner, 1, k)
           c   == Cardinality(AnswersIn(new))
           e   == [n \in 1 .. c |-> new[SetToSortSeq(AnswersIn(new), <)[n]]]
<1>1. queue' = queue \o e /\ toRunner' = SubSeq(toRunner, k + 1, Len(toRunner))
  BY DEF Poll
<1>2. Behind(toRunner, new, toRunner')
  BY <1>1, BehindSeqs DEF LinesInv
<1> HIDE DEF new
<1>3. c \in Nat
  BY <1>2, AnswersAdd
<1> HIDE DEF c
<1>4. e \in [1 .. c -> {e[i] : i \in 1 .. c}]
  OBVIOUS
<1> HIDE DEF e
<1>5. e \in Seq({e[i] : i \in 1 .. c}) /\ Len(e) = c
  <2> DEFINE E == {e[i] : i \in 1 .. c}
  <2>1. e \in [1 .. c -> E]
    BY <1>4
  <2> HIDE DEF E
  <2>2. e \in Seq(E)
    BY <1>3, <2>1
  <2>3. Len(e) \in Nat /\ 1 .. Len(e) = 1 .. c
    BY <2>1, <2>2, LenProperties
  <2>4. Len(e) = c
    BY <1>3, <2>3
  <2> QED
    BY <2>2, <2>4 DEF E
<1>6. PICK Q : queue \in Seq(Q)
  BY DEF LinesInv
<1>7. Len(queue \o e) = Len(queue) + Len(e) /\ \E S : queue \o e \in Seq(S)
  <2> DEFINE E == {e[i] : i \in 1 .. c}
  <2>1. e \in Seq(E)
    BY <1>5
  <2> HIDE DEF E
  <2>2. e \in Seq(Q \cup E) /\ queue \in Seq(Q \cup E)
    BY <1>6, <2>1
  <2>3. Len(queue \o e) = Len(queue) + Len(e) /\ queue \o e \in Seq(Q \cup E)
    BY <2>2
  <2> QED
    BY <2>3
<1> QED
  BY <1>1, <1>2, <1>5, <1>7 DEF new, c

\* What the gateway answers (ouch_gateway.cpp): a login and a logout with a packet for
\* the session, a quote with two events, every other request with one.
LEMMA AnswersToPacket ==
    ASSUME NEW p
    PROVE  /\ \E S : Answers(p) \in Seq(S)
           /\ p.type = "Login" => /\ Len(Answers(p)) = 1 /\ DOMAIN Answers(p) = {1}
                                  /\ Answers(p)[1].msg \in LoginAnswer
           /\ p.type = "Logout" => /\ Len(Answers(p)) = 1 /\ DOMAIN Answers(p) = {1}
                                   /\ Answers(p)[1].msg = "EndOfSession"
           /\ p.type \notin {"Login", "Logout"} =>
                /\ DOMAIN Answers(p) = IF p.type = "Quote" THEN {1, 2} ELSE {1}
                /\ \A i \in DOMAIN Answers(p) : Answers(p)[i].msg \notin Signals
<1>1. CASE p.type = "Quote"
  <2> DEFINE x == [msg |-> "mass_quote_ack", token |-> p.token]
  <2>1. Answers(p) = <<x>> \o <<x>>
    BY <1>1 DEF Answers, QuoteAcks, Answer1
  <2>2. x.msg \notin Signals
    BY DEF Signals
  <2> HIDE DEF x
  <2>3. <<x>> \in Seq({x}) /\ Len(<<x>>) = 1
    OBVIOUS
  <2>4. /\ <<x>> \o <<x>> \in Seq({x}) /\ Len(<<x>> \o <<x>>) = 2
    BY <2>3, ConcatProperties
  <2>5. Answers(p) \in Seq({x}) /\ Len(Answers(p)) = 2
    BY <2>1, <2>4
  <2>6. DOMAIN Answers(p) = {1, 2} /\ \A i \in DOMAIN Answers(p) : Answers(p)[i] = x
    BY <2>5
  <2> QED
    BY <1>1, <2>2, <2>5, <2>6
<1>2. CASE p.type # "Quote"
  <2>1. PICK x : /\ Answers(p) = <<x>>
                 /\ p.type = "Login" => x.msg \in LoginAnswer
                 /\ p.type = "Logout" => x.msg = "EndOfSession"
                 /\ p.type \notin {"Login", "Logout"} => x.msg \notin Signals
    <3> DEFINE y(msg, t) == [msg |-> msg, token |-> t]
    <3>1. CASE p.type = "Login"
      <4> DEFINE m == IF p.token = Wrong THEN "LoginRejected" ELSE "LoginAccepted"
      <4>1. Answers(p) = <<y(m, 0)>> /\ y(m, 0).msg \in LoginAnswer
        BY <3>1 DEF Answers, Answer1, LoginAnswer
      <4> QED
        BY <3>1, <4>1
    <3>2. CASE p.type = "Logout"
      <4>1. Answers(p) = <<y("EndOfSession", 0)>> /\ y("EndOfSession", 0).msg = "EndOfSession"
        BY <3>2 DEF Answers, Answer1
      <4> QED
        BY <3>2, <4>1
    <3>3. CASE p.type = "Enter"
      <4> DEFINE m == IF p.token \in seenTokens[gate] THEN "order_rejected" ELSE "order_accepted"
      <4>1. Answers(p) = <<y(m, p.token)>> /\ y(m, p.token).msg \notin Signals
        BY <3>3 DEF Answers, Answer1, Signals
      <4> QED
        BY <3>3, <4>1
    <3>4. CASE p.type = "Replace"
      <4>1. /\ Answers(p) = <<y("order_replaced", p.token)>>
            /\ y("order_replaced", p.token).msg \notin Signals
        BY <3>4 DEF Answers, Answer1, Signals
      <4> QED
        BY <3>4, <4>1
    <3>5. CASE p.type \notin {"Login", "Logout", "Enter", "Replace"}
      <4>1. /\ Answers(p) = <<y("order_canceled", p.token)>>
            /\ y("order_canceled", p.token).msg \notin Signals
        BY <1>2, <3>5 DEF Answers, Answer1, Signals
      <4> QED
        BY <3>5, <4>1
    <3> QED
      BY <3>1, <3>2, <3>3, <3>4, <3>5
  <2>2. <<x>> \in Seq({x}) /\ DOMAIN <<x>> = {1} /\ Len(<<x>>) = 1 /\ <<x>>[1] = x
    OBVIOUS
  <2> QED
    BY <1>2, <2>1, <2>2
<1> QED
  BY <1>1, <1>2

\* Every step of the runner leaves the queues sequences.
LEMMA EffectLines ==
    ASSUME LinesInv, Effect
    PROVE  (\E S : queue' \in Seq(S)) /\ (\E S : toRunner' \in Seq(S)) /\ (\E S : toMock' \in Seq(S))
<1> DEFINE IsSeq(q) == \E S : q \in Seq(S)
<1>0. IsSeq(queue) /\ IsSeq(toRunner) /\ IsSeq(toMock)
  BY DEF LinesInv
<1>1. ASSUME NEW k \in 1 .. Len(toRunner), Poll(k)
      PROVE  IsSeq(queue') /\ IsSeq(toRunner') /\ IsSeq(toMock')
  <2>1. k \in 0 .. Len(toRunner)
    OBVIOUS
  <2>2. /\ toRunner' = SubSeq(toRunner, k + 1, Len(toRunner)) /\ toMock' = toMock
    BY <1>1 DEF Poll
  <2>3. IsSeq(toRunner')
    BY <2>1, <2>2, LinesOf
  <2>4. IsSeq(queue')
    BY <1>1, <2>1, PollSplits
  <2> QED
    BY <1>0, <2>2, <2>3, <2>4
<1>2. CASE Settled \/ Sent \/ Emptied \/ LoginSent \/ LogoutSent
  <2>1. /\ \A x : IsSeq(Append(toMock, x)) /\ IsSeq(<<x>>)
        /\ IsSeq(<<>>)
    BY LinesOf
  <2>2. CASE Settled
    BY <1>0, <2>2 DEF Settled
  <2>3. CASE Sent
    BY <1>0, <2>1, <2>3 DEF Sent
  <2>4. CASE Emptied
    BY <1>0, <2>1, <2>4 DEF Emptied, EmptySlots
  <2>5. CASE LoginSent
    BY <1>0, <2>1, <2>5 DEF LoginSent
  <2>6. CASE LogoutSent
    BY <1>0, <2>1, <2>6 DEF LogoutSent
  <2> QED
    BY <1>2, <2>2, <2>3, <2>4, <2>5, <2>6
<1>3. CASE Announced
  BY <1>0, <1>3, LinesOf DEF Announced
<1> QED
  BY <1>1, <1>2, <1>3 DEF Effect, Polled

\* Finitely many orders rest: they come and go one by one, or go all at once.
LEMMA RestingStep ==
    ASSUME OuchNext \/ UNCHANGED ouchVars, DOMAIN resting = Gateways,
           \A g \in Gateways : IsFiniteSet(resting[g])
    PROVE  DOMAIN resting' = Gateways /\ \A g \in Gateways : IsFiniteSet(resting'[g])
<1>1. CASE resting' = resting
  BY <1>1
<1>2. ASSUME NEW s, RunInactivate(s)
      PROVE  DOMAIN resting' = Gateways /\ \A g \in Gateways : IsFiniteSet(resting'[g])
  <2>1. resting' = resting \/ resting' = [resting EXCEPT ![Primary] = {}]
    BY <1>2 DEF RunInactivate
  <2> QED
    BY <2>1, FS_EmptySet
<1>3. CASE GatewayAnswers
  <2> DEFINE p == Head(toMock)
             r == resting[gate]
  <2>1. PICK new \in {r, r \cup {p.token}, r \ {p.token}, (r \ {p.orig}) \cup {p.token}} :
            resting' = [resting EXCEPT ![gate] = new]
    BY <1>3 DEF GatewayAnswers
  <2>2. ASSUME gate \in Gateways PROVE IsFiniteSet(new)
    <3>1. IsFiniteSet(r)
      BY <2>2
    <3> HIDE DEF p, r
    <3>2. /\ IsFiniteSet(r \cup {p.token}) /\ IsFiniteSet(r \ {p.token})
          /\ IsFiniteSet(r \ {p.orig})
      BY <3>1, FS_AddElement, FS_RemoveElement
    <3>3. IsFiniteSet((r \ {p.orig}) \cup {p.token})
      BY <3>2, FS_AddElement
    <3> QED
      BY <3>1, <3>2, <3>3
  <2> QED
    BY <2>1, <2>2
<1>4. CASE Polls \/ Expects \/ RunThrottled \/ DrainRotates \/ DrainEnds \/ Bursts
           \/ UNCHANGED ouchVars
  BY <1>1, <1>4 DEF Polls, Expects, ExpectState, ExpectAnswer, ExpectLate, ExpectClosed,
              RunThrottled, DrainRotates, DrainEnds, Bursts, BurstOrder, BurstRefused,
              BurstThrottled, ouchVars, books
<1>5. ASSUME NEW s, RunPlace(s) \/ RunPlaceRefused(s) \/ RunCancelByToken(s) \/ RunCancelById(s)
                    \/ RunReplace(s) \/ RunQuote(s) \/ RunBurst(s)
                    \/ RunExpect(s) \/ RunOuchLogout(s) \/ RunLogin(s) \/ RunSwitch(s)
      PROVE  resting' = resting
  BY <1>5 DEF RunPlace, RunPlaceRefused, RunCancelByToken, RunCancelById, RunReplace, RunQuote,
              RunBurst, RunExpect, RunOuchLogout, RunLogin, RunSwitch, Rebuild, calledVars, ouchVars,
              books
<1>6. CASE Transport
  BY <1>1, <1>6 DEF Transport, FirstDial, Dials, WaitsToDial, SendLogin, DialFailed,
              ConnectFailed, Unconnected, LoginEnds, books
<1> QED
  BY <1>1, <1>2, <1>3, <1>4, <1>5, <1>6 DEF OuchNext, OuchRunner

-----------------------------------------------------------------------------
(* Where the runner is *)

\* A step that begins leaves the runner with its session, or without one at the dial.
LEMMA CallPlace ==
    ASSUME PlaceInv, clean', NEW s,
           \/ RunPlace(s) \/ RunPlaceRefused(s) \/ RunCancelByToken(s) \/ RunCancelById(s)
           \/ RunReplace(s) \/ RunQuote(s) \/ RunBurst(s) \/ RunInactivate(s) \/ RunExpect(s)
           \/ RunOuchLogout(s) \/ RunLogin(s) \/ RunSwitch(s)
    PROVE  PlaceInv'
<1>1. pc = "run" /\ sess \notin {"none", "LoggingIn"}
  BY DEF NextStep, Dispatch, PlaceInv, RunPlace, RunPlaceRefused, RunCancelByToken, RunCancelById,
         RunReplace, RunQuote, RunBurst, RunInactivate, RunExpect, RunOuchLogout, RunLogin, RunSwitch
<1>2. Ok(s) => pc' \in {"run", "expect"}
  BY DEF Ok, Passed, Finish
<1>3. CASE \E g : Rebuild(s, g)
  BY <1>3 DEF Rebuild, EmptySlots, Goto, PlaceInv
<1>4. CASE /\ sess' \in {sess, "Disconnecting"} /\ pc' \in {"run", "expect", "drain", "burst"}
  BY <1>1, <1>4 DEF PlaceInv
<1>5. CASE RunPlace(s) \/ RunCancelByToken(s) \/ RunReplace(s) \/ RunQuote(s)
  BY <1>2, <1>4, <1>5 DEF RunPlace, RunCancelByToken, RunReplace, RunQuote, calledVars, Offer, Fails
<1>6. CASE RunPlaceRefused(s) \/ RunInactivate(s) \/ RunExpect(s) \/ RunOuchLogout(s)
  BY <1>2, <1>4, <1>6 DEF RunPlaceRefused, RunInactivate, RunExpect, RunOuchLogout, session, Fails
<1>7. CASE RunCancelById(s) \/ RunBurst(s)
  BY <1>4, <1>7 DEF RunCancelById, RunBurst, session, ouchVars, Goto
<1>8. CASE RunLogin(s) \/ RunSwitch(s)
  BY <1>2, <1>3, <1>4, <1>8 DEF RunLogin, RunSwitch, session, Fails
<1> QED
  BY <1>5, <1>6, <1>7, <1>8

\* The dial and drive_login() (bist_colo.cpp): a login without an answer fails its step,
\* or ends the program.
LEMMA TransportPlace == ASSUME PlaceInv, clean', Transport PROVE PlaceInv'
<1>1. CASE FirstDial \/ Dials \/ WaitsToDial
  BY <1>1 DEF FirstDial, Dials, WaitsToDial, loopVars, session, PlaceInv
<1>2. CASE SendLogin \/ DialFailed \/ ConnectFailed
  BY <1>2 DEF SendLogin, DialFailed, ConnectFailed, Unconnected, Goto, session, PlaceInv
<1>3. CASE LoginEnds
  <2>1. pc = "login" /\ sess' = sess /\ sess # "none"
    BY <1>3 DEF LoginEnds, session, PlaceInv
  <2>2. \/ pc' = "run" /\ sess = "Active"
        \/ pc' = "done"
        \/ pc' \in {"run", "expect"} /\ sess \in {"Active", "Failed"}
    BY <1>3 DEF LoginEnds, Goto, Ok, Passed, Finish, Fails
  <2> QED
    BY <2>1, <2>2 DEF PlaceInv
<1> QED
  BY <1>1, <1>2, <1>3 DEF Transport

\* Every step keeps the place of a runner without a session.
LEMMA PlaceStep == ASSUME PlaceInv, clean', OuchNext PROVE PlaceInv'
<1>1. CASE GatewayAnswers
  BY <1>1 DEF GatewayAnswers, loopVars, PlaceInv
<1>2. CASE Polls
  <2>1. pc' = pc /\ pc # "dial" /\ \E k : Poll(k)
    BY <1>2 DEF Polls, loopVars
  <2>2. sess' \in {sess, "Active", "Failed", "Disconnected"}
    BY <2>1 DEF Poll, Enters
  <2> QED
    BY <2>1, <2>2 DEF PlaceInv
<1>3. CASE Expects
  <2>1. pc = "expect" /\ sess' = sess /\ pc' \in {"run", "expect"}
    BY <1>3 DEF Expects, ExpectState, ExpectAnswer, ExpectLate, ExpectClosed, Fails, Waiting,
                session, Finish, Count
  <2> QED
    BY <2>1 DEF PlaceInv
<1>4. CASE DrainRotates \/ DrainEnds \/ Bursts
  <2>1. pc \in {"drain", "burst"} /\ sess' = sess /\ pc' \in {"run", "expect", "drain", "burst"}
    BY <1>4 DEF DrainRotates, DrainEnds, Bursts, BurstOrder, BurstRefused, BurstThrottled, Fails,
                session, Offer, Ok, Passed, Finish, loopVars
  <2> QED
    BY <2>1 DEF PlaceInv
<1>5. CASE End(0) /\ UNCHANGED ouchVars
  BY <1>5 DEF End, ouchVars, session, PlaceInv
<1>6. CASE RunThrottled
  BY <1>6 DEF RunThrottled, Fails
<1> QED
  BY <1>1, <1>2, <1>3, <1>4, <1>5, <1>6, CallPlace, TransportPlace DEF OuchNext, OuchRunner

-----------------------------------------------------------------------------
(* What is on the connection *)

\* What is at a place of a sequence is at a place of one of its parts.
LEMMA InBehind ==
    ASSUME NEW r, NEW s, NEW t, Behind(r, s, t)
    PROVE  /\ \A i \in DOMAIN r : \/ i \in DOMAIN s /\ r[i] = s[i]
                                  \/ \E j \in DOMAIN t : i = Len(s) + j /\ r[i] = t[j]
           /\ \A j \in DOMAIN t : Len(s) + j \in DOMAIN r /\ r[Len(s) + j] = t[j]
<1>1. ASSUME NEW i \in DOMAIN r
      PROVE  \/ i \in DOMAIN s /\ r[i] = s[i]
             \/ \E j \in DOMAIN t : i = Len(s) + j /\ r[i] = t[j]
  <2>1. CASE i <= Len(s)
    BY <2>1 DEF Behind
  <2>2. CASE ~(i <= Len(s))
    <3>1. i - Len(s) \in 1 .. Len(t) /\ i = Len(s) + (i - Len(s))
      BY <2>2 DEF Behind
    <3>2. r[i] = t[i - Len(s)]
      BY <3>1 DEF Behind
    <3> QED
      BY <3>1, <3>2 DEF Behind
  <2> QED
    BY <2>1, <2>2
<1> QED
  BY <1>1 DEF Behind

\* The counts of one packet, and of none.
LEMMA CountOne ==
    ASSUME NEW x
    PROVE  /\ Cardinality(AnswersIn(<<x>>)) = IF x.msg \in Signals THEN 0 ELSE 1
           /\ Cardinality(OrdersIn(<<x>>)) = IF x.type \in {"Login", "Logout"} THEN 0 ELSE 1
           /\ Cardinality(QuotesIn(<<x>>)) = IF x.type = "Quote" THEN 1 ELSE 0
           /\ Cardinality(AnswersIn(<<>>)) = 0
           /\ Cardinality(OrdersIn(<<>>)) = 0 /\ Cardinality(QuotesIn(<<>>)) = 0
<1>1. /\ AnswersIn(<<x>>) = IF x.msg \in Signals THEN {} ELSE {1}
      /\ OrdersIn(<<x>>) = IF x.type \in {"Login", "Logout"} THEN {} ELSE {1}
      /\ QuotesIn(<<x>>) = IF x.type = "Quote" THEN {1} ELSE {}
      /\ AnswersIn(<<>>) = {} /\ OrdersIn(<<>>) = {} /\ QuotesIn(<<>>) = {}
  BY DEF AnswersIn, OrdersIn, QuotesIn
<1>2. Cardinality({}) = 0 /\ Cardinality({1}) = 1
  BY FS_EmptySet, FS_Singleton
<1> QED
  BY <1>1, <1>2

\* The count of events alone is their number.
LEMMA CountAll ==
    ASSUME NEW a, \E S : a \in Seq(S), \A i \in DOMAIN a : a[i].msg \notin Signals
    PROVE  Len(a) \in Nat /\ Cardinality(AnswersIn(a)) = Len(a)
<1>1. DOMAIN a = 1 .. Len(a) /\ Len(a) \in Nat
  BY LenProperties
<1>2. AnswersIn(a) = 1 .. Len(a)
  BY <1>1 DEF AnswersIn
<1>3. Cardinality(1 .. Len(a)) = Len(a)
  <2>1. 1 \in Int /\ Len(a) \in Int /\ Len(a) - 1 + 1 = Len(a) /\ (1 > Len(a) => Len(a) = 0)
    BY <1>1
  <2>2. Cardinality(1 .. Len(a)) = IF 1 > Len(a) THEN 0 ELSE Len(a) - 1 + 1
    BY <2>1, FS_Interval, Zenon
  <2> QED
    BY <2>1, <2>2
<1> QED
  BY <1>1, <1>2, <1>3

\* What a packet for the session makes of it (dispatch_packet(), session.hpp:256-292).
LEMMA EntersWhat ==
    /\ Enters("LoginAccepted") = "Active" /\ Enters("LoginRejected") = "Failed"
    /\ Enters("EndOfSession") = "Disconnected"
  BY DEF Enters

\* A request is sent only on an active session, so it is never behind a logout.
LEMMA SentConn == ASSUME LinesInv, ConnInv, Sent PROVE ConnInv'
<1>1. PICK p : toMock' = Append(toMock, p) /\ p.type \notin {"Login", "Logout"}
  BY DEF Sent
<1>2. sess = "Active" /\ UNCHANGED <<sess, served, toRunner>>
  BY DEF Sent
<1>3. Behind(toMock', toMock, <<p>>)
  BY <1>1, BehindSeqs DEF LinesInv
<1>4. \A i \in DOMAIN toMock' : toMock'[i].type \notin {"Login", "Logout"}
  <2>1. \A i \in DOMAIN <<p>> : <<p>>[i] = p
    OBVIOUS
  <2> QED
    BY <1>1, <1>2, <1>3, <2>1, InBehind DEF ConnInv
<1> QED
  BY <1>2, <1>4 DEF ConnInv

\* The connection a login is sent on is new.
LEMMA LoginConn == ASSUME PlaceInv, ConnInv, LoginSent PROVE ConnInv'
<1>1. /\ sess = "none" /\ served' = "no" /\ toRunner' = <<>>
  BY DEF PlaceInv, ConnInv, LoginSent
<1>2. PICK p : toMock' = <<p>> /\ p.type = "Login"
  BY DEF LoginSent
<1>3. Len(toMock') = 1 /\ toMock'[1] = p /\ DOMAIN toMock' = {1}
  BY <1>2
<1>4. sess' = "LoggingIn"
  BY DEF LoginSent
<1> QED
  BY <1>1, <1>2, <1>3, <1>4 DEF ConnInv

\* A logout ends the active session: nothing but logouts comes behind it.
LEMMA LogoutConn == ASSUME LinesInv, PlaceInv, ConnInv, LogoutSent PROVE ConnInv'
<1>1. /\ sess \notin {"none", "LoggingIn"} /\ sess' = "Disconnecting"
      /\ UNCHANGED <<served, toRunner>>
  BY DEF PlaceInv, LogoutSent
<1>2. CASE toMock' = toMock
  BY <1>1, <1>2 DEF ConnInv
<1>3. ASSUME NEW p, toMock' = Append(toMock, p), p.type = "Logout" PROVE ConnInv'
  <2>1. Behind(toMock', toMock, <<p>>)
    BY <1>3, BehindSeqs DEF LinesInv
  <2>2. \A i \in DOMAIN <<p>> : <<p>>[i] = p /\ i = 1
    OBVIOUS
  <2>3. \A i \in DOMAIN toMock' : \/ i \in DOMAIN toMock /\ toMock'[i] = toMock[i]
                                  \/ i = Len(toMock) + 1 /\ toMock'[i] = p
    BY <2>1, <2>2, InBehind
  <2>4. DOMAIN toMock = 1 .. Len(toMock) /\ Len(toMock) \in Nat
    BY <2>1 DEF Behind
  <2>5. \A i \in DOMAIN toMock' : toMock'[i].type # "Login"
    BY <1>1, <1>3, <2>3 DEF ConnInv
  <2>6. ASSUME NEW i \in DOMAIN toMock', NEW j \in DOMAIN toMock', i < j,
               toMock'[i].type = "Logout"
        PROVE  toMock'[j].type = "Logout"
    <3>1. CASE toMock'[j] = p
      BY <1>3, <3>1
    <3>2. CASE j \in DOMAIN toMock /\ toMock'[j] = toMock[j]
      <4>1. i \in DOMAIN toMock /\ toMock'[i] = toMock[i]
        BY <2>3, <2>4, <2>6, <3>2
      <4> QED
        BY <2>6, <3>2, <4>1 DEF ConnInv
    <3> QED
      BY <2>3, <3>1, <3>2
  <2> QED
    BY <1>1, <2>5, <2>6 DEF ConnInv
<1> QED
  BY <1>2, <1>3 DEF LogoutSent

\* The announced cancels are events, so they neither open nor end the session.
LEMMA SweepConn == ASSUME LinesInv, PlaceInv, ConnInv, Announced PROVE ConnInv'
<1>1. sess \notin {"none", "LoggingIn"} /\ UNCHANGED <<sess, served, toMock>>
  BY DEF PlaceInv, Announced
<1>2. PICK a : /\ \E S : a \in Seq(S)
               /\ \A i \in DOMAIN a : a[i].msg = "order_canceled"
               /\ toRunner' = toRunner \o a
  BY DEF Announced
<1>3. Behind(toRunner', toRunner, a)
  BY <1>2, BehindSeqs DEF LinesInv
<1>4. \A i \in DOMAIN toRunner' : \/ toRunner'[i].msg = "order_canceled"
                                  \/ i \in DOMAIN toRunner /\ toRunner'[i] = toRunner[i]
  BY <1>2, <1>3, InBehind
<1> QED
  BY <1>1, <1>4 DEF ConnInv, LoginAnswer

\* poll_io(): the answer to a login makes the session active or failed, and the end of
\* a session is never that of an active one.
LEMMA PollConn ==
    ASSUME LinesInv, ConnInv, NEW k \in 1 .. Len(toRunner), Poll(k) PROVE ConnInv'
<1> DEFINE new == SubSeq(toRunner, 1, k)
<1>1. UNCHANGED <<served, toMock>>
  BY DEF Poll
<1>2. Behind(toRunner, new, toRunner')
  <2>1. k \in 0 .. Len(toRunner)
    OBVIOUS
  <2> QED
    BY <2>1, PollSplits
<1>3. Len(new) = k /\ k >= 1
  <2>1. PICK S : toRunner \in Seq(S)
    BY DEF LinesInv
  <2> DEFINE l == Len(toRunner)
  <2>2. l \in Nat /\ k \in 1 .. l /\ \A i \in 1 .. l : toRunner[i] \in S
    BY <2>1
  <2> HIDE DEF l
  <2>3. /\ 1 \in Int /\ k \in Int /\ (\A i \in 1 .. k : i \in 1 .. l)
        /\ (IF 1 <= k THEN k - 1 + 1 ELSE 0) = k /\ k >= 1
    BY <2>2
  <2> QED
    BY <2>2, <2>3, SubSeqProperties
<1>4. /\ SignalsIn(new) = {} => sess' = sess
      /\ SignalsIn(new) # {} => \E i \in SignalsIn(new) : sess' = Enters(new[i].msg)
  BY DEF Poll
<1> HIDE DEF new
<1>5. \A i \in SignalsIn(new) : i \in DOMAIN toRunner /\ new[i] = toRunner[i]
                                /\ new[i].msg \in Signals
  BY <1>2 DEF Behind, SignalsIn
<1>6. \A i \in DOMAIN toRunner' : \E j \in DOMAIN toRunner : toRunner'[i] = toRunner[j]
  BY <1>2, InBehind
<1>7. sess # "none"
  <2>1. Len(toRunner) # 0
    BY <1>2, <1>3 DEF Behind
  <2> QED
    BY <2>1 DEF ConnInv
<1>8. CASE sess = "LoggingIn"
  <2>1. /\ toMock = <<>> /\ Len(toRunner) = 1 /\ toRunner[1].msg \in LoginAnswer
        /\ served # "closed"
    <3>1. toRunner # <<>>
      <4>1. Len(toRunner) # 0
        BY <1>2, <1>3 DEF Behind
      <4> QED
        BY <4>1
    <3> QED
      BY <1>8, <3>1 DEF ConnInv
  <2>2. k = 1 /\ DOMAIN new = {1} /\ new[1] = toRunner[1] /\ DOMAIN toRunner' = {}
    BY <1>2, <1>3, <2>1 DEF Behind
  <2>3. SignalsIn(new) = {1}
    BY <2>1, <2>2 DEF SignalsIn, Signals, LoginAnswer
  <2>4. sess' \in {"Active", "Failed"}
    BY <1>4, <2>1, <2>2, <2>3, EntersWhat DEF LoginAnswer
  <2> QED
    BY <1>1, <2>1, <2>2, <2>4 DEF ConnInv
<1>9. CASE sess # "LoggingIn"
  <2>1. \A i \in SignalsIn(new) : new[i].msg = "EndOfSession"
    BY <1>5, <1>9 DEF ConnInv, Signals, LoginAnswer
  <2>2. sess' = sess \/ (sess' = "Disconnected" /\ sess # "Active")
    BY <1>4, <1>5, <2>1, EntersWhat DEF ConnInv
  <2> QED
    BY <1>1, <1>6, <1>7, <1>9, <2>2 DEF ConnInv
<1> QED
  BY <1>8, <1>9

\* The gateway answers a login with its result, and a logout with the end.
LEMMA GatewayConn == ASSUME LinesInv, ConnInv, GatewayAnswers PROVE ConnInv'
<1> DEFINE p == Head(toMock)
           a == Answers(p)
<1>1. /\ toMock # <<>> /\ served # "closed" /\ sess' = sess
      /\ toRunner' = toRunner \o a
      /\ served' = IF p.type = "Logout" THEN "closed" ELSE "yes"
      /\ toMock' = IF p.type = "Logout" THEN <<>> ELSE Tail(toMock)
  BY DEF GatewayAnswers
<1>2. Behind(toMock, <<p>>, Tail(toMock)) /\ (\E S : a \in Seq(S)) /\ Behind(toRunner', toRunner, a)
  BY <1>1, BehindSeqs, AnswersToPacket DEF LinesInv
<1>3. /\ Len(<<p>>) = 1 /\ 1 \in DOMAIN toMock /\ toMock[1] = p
      /\ \A i \in DOMAIN Tail(toMock) : i \in Nat /\ 1 + i \in DOMAIN toMock
                                        /\ Tail(toMock)[i] = toMock[1 + i]
  <2>1. Len(<<p>>) = 1 /\ DOMAIN <<p>> = {1} /\ <<p>>[1] = p
    OBVIOUS
  <2> HIDE DEF p
  <2> QED
    BY <1>2, <2>1 DEF Behind
<1>4. /\ p.type = "Login" => /\ Len(a) = 1 /\ DOMAIN a = {1} /\ a[1].msg \in LoginAnswer
      /\ p.type = "Logout" => \A i \in DOMAIN a : a[i].msg = "EndOfSession"
      /\ p.type \notin {"Login", "Logout"} => \A i \in DOMAIN a : a[i].msg \notin Signals
  BY AnswersToPacket
<1>5. sess # "none"
  BY <1>1 DEF ConnInv
<1> HIDE DEF p, a
<1>6. CASE sess = "LoggingIn"
  <2>1. /\ Len(toMock) = 1 /\ p.type = "Login" /\ toRunner = <<>>
    BY <1>1, <1>3, <1>6 DEF ConnInv
  <2>2. DOMAIN toMock' = {} /\ toMock' = <<>>
    <3>1. PICK S : toMock \in Seq(S)
      BY DEF LinesInv
    <3>2. toMock' = Tail(toMock)
      BY <1>1, <2>1
    <3>3. Tail(toMock) \in Seq(S) /\ Len(Tail(toMock)) = 0
      BY <1>1, <2>1, <3>1
    <3>4. Tail(toMock) = <<>>
      BY <3>3, EmptySeq
    <3> QED
      BY <3>2, <3>4
  <2>3. Len(toRunner) = 0 /\ 1 \in DOMAIN a /\ DOMAIN a = {1} /\ Len(a) = 1
    BY <1>4, <2>1
  <2>4. Len(toRunner') = 1 /\ toRunner'[1] = a[1]
    <3>1. toRunner' = <<>> \o a
      BY <1>1, <2>1
    <3>2. PICK S : a \in Seq(S)
      BY <1>2
    <3>3. <<>> \o a = a
      BY <3>2
    <3> QED
      BY <2>3, <3>1, <3>3
  <2> QED
    BY <1>1, <1>4, <1>6, <2>1, <2>2, <2>4 DEF ConnInv
<1>7. CASE sess # "LoggingIn"
  <2>1. p.type # "Login"
    BY <1>3, <1>7 DEF ConnInv
  <2>2. \A i \in DOMAIN toRunner' : \/ i \in DOMAIN toRunner /\ toRunner'[i] = toRunner[i]
                                    \/ \E j \in DOMAIN a : toRunner'[i] = a[j]
    BY <1>2, InBehind
  <2>3. \A i \in DOMAIN toRunner' : toRunner'[i].msg \notin LoginAnswer
    BY <1>4, <1>7, <2>1, <2>2 DEF ConnInv, LoginAnswer, Signals
  <2>4. CASE p.type = "Logout"
    <3>1. sess # "Active" /\ toMock' = <<>>
      BY <1>1, <1>3, <2>4 DEF ConnInv
    <3> QED
      BY <1>1, <1>5, <1>7, <2>3, <3>1 DEF ConnInv
  <2>5. CASE p.type # "Logout"
    <3>1. /\ served' # "closed" /\ toMock' = Tail(toMock)
      BY <1>1, <2>5
    <3>2. \A i \in DOMAIN toMock' : 1 + i \in DOMAIN toMock /\ toMock'[i] = toMock[1 + i] /\ i \in Nat
      BY <1>3, <3>1
    <3>3. sess = "Active" => \A i \in DOMAIN toRunner' : toRunner'[i].msg # "EndOfSession"
      BY <1>4, <2>1, <2>2, <2>5 DEF ConnInv, Signals
    <3>4. /\ \A i \in DOMAIN toMock' : toMock'[i].type # "Login"
          /\ sess = "Active" => \A i \in DOMAIN toMock' : toMock'[i].type # "Logout"
      BY <1>7, <3>2 DEF ConnInv
    <3>5. ASSUME NEW i \in DOMAIN toMock', NEW j \in DOMAIN toMock', i < j,
                 toMock'[i].type = "Logout"
          PROVE  toMock'[j].type = "Logout"
      <4>1. 1 + i \in DOMAIN toMock /\ 1 + j \in DOMAIN toMock /\ 1 + i < 1 + j
        BY <3>2, <3>5
      <4> QED
        BY <3>2, <3>5, <4>1 DEF ConnInv
    <3> QED
      BY <1>1, <1>5, <1>7, <2>3, <3>1, <3>3, <3>4, <3>5 DEF ConnInv
  <2> QED
    BY <2>4, <2>5
<1> QED
  BY <1>6, <1>7

\* What is on the connection agrees with the state of the session after every step.
LEMMA ConnStep == ASSUME LinesInv, PlaceInv, ConnInv, Effect PROVE ConnInv'
<1>1. CASE Settled
  BY <1>1 DEF Settled, ConnInv
<1>2. CASE Emptied
  BY <1>2 DEF Emptied, EmptySlots, ConnInv
<1> QED
  BY <1>1, <1>2, SentConn, LoginConn, LogoutConn, SweepConn, PollConn DEF Effect, Polled

-----------------------------------------------------------------------------
(* What is owed *)

\* The counts are numbers.
LEMMA CountsAreNumbers ==
    ASSUME LinesInv
    PROVE  /\ Len(queue) \in Nat /\ Cardinality(AnswersIn(toRunner)) \in Nat
           /\ Cardinality(OrdersIn(toMock)) \in Nat /\ Cardinality(QuotesIn(toMock)) \in Nat
<1>1. Len(queue) \in Nat
  BY QueueLengths
<1>2. \E x : Behind(Append(toRunner, x), toRunner, <<x>>) /\ Behind(Append(toMock, x), toMock, <<x>>)
  BY BehindSeqs DEF LinesInv
<1> QED
  BY <1>1, <1>2, AnswersAdd, OrdersAdd, QuotesAdd

\* A packet more is owed its answers.
LEMMA AppendCounts ==
    ASSUME LinesInv, NEW p, toMock' = Append(toMock, p)
    PROVE  /\ Cardinality(OrdersIn(toMock')) = Cardinality(OrdersIn(toMock))
                + (IF p.type \in {"Login", "Logout"} THEN 0 ELSE 1)
           /\ Cardinality(QuotesIn(toMock')) = Cardinality(QuotesIn(toMock))
                + (IF p.type = "Quote" THEN 1 ELSE 0)
<1>1. Behind(toMock', toMock, <<p>>)
  BY BehindSeqs DEF LinesInv
<1> QED
  BY <1>1, OrdersAdd, QuotesAdd, CountOne

\* The steps of the runner keep the sum.
LEMMA EffectAddsUp == ASSUME LinesInv, PlaceInv, ConnInv, AddsUp, Effect PROVE AddsUp'
<1>0. /\ Len(queue) \in Nat /\ Cardinality(AnswersIn(toRunner)) \in Nat
      /\ Cardinality(OrdersIn(toMock)) \in Nat /\ Cardinality(QuotesIn(toMock)) \in Nat
      /\ owed \in Nat
  <2>1. /\ Len(queue) \in Nat /\ Cardinality(AnswersIn(toRunner)) \in Nat
        /\ Cardinality(OrdersIn(toMock)) \in Nat /\ Cardinality(QuotesIn(toMock)) \in Nat
    BY CountsAreNumbers
  <2> QED
    BY <2>1 DEF AddsUp
<1>1. CASE Settled
  <2>1. toMock' = toMock /\ toRunner' = toRunner
    BY <1>1 DEF Settled
  <2>2. \/ owed' = owed /\ Len(queue') = Len(queue)
        \/ owed' = owed + 1 /\ Len(queue') = Len(queue) + 1
        \/ owed' = owed - 1 /\ Len(queue') = Len(queue) - 1
    BY <1>1 DEF Settled
  <2>3. /\ Cardinality(AnswersIn(toRunner')) = Cardinality(AnswersIn(toRunner))
        /\ Cardinality(OrdersIn(toMock')) = Cardinality(OrdersIn(toMock))
        /\ Cardinality(QuotesIn(toMock')) = Cardinality(QuotesIn(toMock))
    BY <2>1
  <2> DEFINE l == Len(queue')  A == Cardinality(AnswersIn(toRunner))
             O == Cardinality(OrdersIn(toMock))  Q == Cardinality(QuotesIn(toMock))
  <2>4. owed' = l + A + O + Q
    <3> DEFINE k == Len(queue)
    <3>1. /\ k \in Nat /\ A \in Nat /\ O \in Nat /\ Q \in Nat
          /\ owed = k + A + O + Q
      BY <1>0 DEF AddsUp
    <3>2. \/ owed' = owed /\ l = k
          \/ owed' = owed + 1 /\ l = k + 1
          \/ owed' = owed - 1 /\ l = k - 1
      BY <2>2
    <3> HIDE DEF l, A, O, Q, k
    <3> QED
      BY <3>1, <3>2
  <2> QED
    BY <2>3, <2>4 DEF AddsUp
<1>2. CASE Sent
  <2>1. PICK p : /\ toMock' = Append(toMock, p) /\ p.type \notin {"Login", "Logout"}
                 /\ owed' = owed + (IF p.type = "Quote" THEN 2 ELSE 1)
    BY <1>2 DEF Sent
  <2>2. Len(queue') = Len(queue) /\ toRunner' = toRunner
    BY <1>2 DEF Sent
  <2>3. /\ Cardinality(OrdersIn(toMock')) = Cardinality(OrdersIn(toMock)) + 1
        /\ Cardinality(QuotesIn(toMock')) = Cardinality(QuotesIn(toMock))
              + (IF p.type = "Quote" THEN 1 ELSE 0)
    BY <2>1, AppendCounts
  <2>4. owed' = owed + (IF p.type = "Quote" THEN 2 ELSE 1)
    BY <2>1
  <2> DEFINE k == Len(queue)  A == Cardinality(AnswersIn(toRunner))
             O == Cardinality(OrdersIn(toMock))  Q == Cardinality(QuotesIn(toMock))
             O1 == Cardinality(OrdersIn(toMock'))  Q1 == Cardinality(QuotesIn(toMock'))
  <2>5. owed' = k + A + O1 + Q1
    <3>1. /\ k \in Nat /\ A \in Nat /\ O \in Nat /\ Q \in Nat
          /\ owed = k + A + O + Q /\ O1 = O + 1
      BY <1>0, <2>3 DEF AddsUp
    <3>2. \/ owed' = owed + 2 /\ Q1 = Q + 1
          \/ owed' = owed + 1 /\ Q1 = Q + 0
      BY <2>3, <2>4
    <3> HIDE DEF k, A, O, Q, O1, Q1
    <3> QED
      BY <3>1, <3>2
  <2> QED
    BY <2>2, <2>5 DEF AddsUp
<1>3. CASE Emptied
  <2>1. owed' = owed /\ owed = Len(queue) /\ queue' = queue /\ toMock' = <<>> /\ toRunner' = <<>>
    BY <1>3 DEF Emptied, EmptySlots
  <2>2. /\ Cardinality(AnswersIn(toRunner')) = 0
        /\ Cardinality(OrdersIn(toMock')) = 0 /\ Cardinality(QuotesIn(toMock')) = 0
    BY <2>1, CountOne
  <2>3. owed' = Len(queue')
    BY <2>1
  <2> QED
    BY <1>0, <2>1, <2>2 DEF AddsUp
<1>4. CASE LoginSent
  <2>1. toMock = <<>>
    BY <1>4 DEF LoginSent, PlaceInv, ConnInv
  <2>2. PICK p : toMock' = <<p>> /\ p.type = "Login"
    BY <1>4 DEF LoginSent
  <2>3. UNCHANGED <<toRunner, queue, owed>>
    BY <1>4 DEF LoginSent
  <2>4. /\ Cardinality(OrdersIn(toMock')) = 0 /\ Cardinality(QuotesIn(toMock')) = 0
        /\ Cardinality(OrdersIn(toMock)) = 0 /\ Cardinality(QuotesIn(toMock)) = 0
    BY <2>1, <2>2, CountOne
  <2> QED
    BY <1>0, <2>3, <2>4 DEF AddsUp
<1>5. CASE LogoutSent
  <2>1. UNCHANGED <<toRunner, queue, owed>>
    BY <1>5 DEF LogoutSent
  <2>2. CASE toMock' = toMock
    BY <1>0, <2>1, <2>2 DEF AddsUp
  <2>3. ASSUME NEW p, toMock' = Append(toMock, p), p.type = "Logout" PROVE AddsUp'
    BY <1>0, <2>1, <2>3, AppendCounts DEF AddsUp
  <2> QED
    BY <1>5, <2>2, <2>3 DEF LogoutSent
<1>6. CASE Announced
  <2>1. PICK a : /\ \E S : a \in Seq(S)
                 /\ \A i \in DOMAIN a : a[i].msg = "order_canceled"
                 /\ toRunner' = toRunner \o a /\ owed' = owed + Len(a)
    BY <1>6 DEF Announced
  <2>2. UNCHANGED <<toMock, queue>>
    BY <1>6 DEF Announced
  <2>3. Behind(toRunner', toRunner, a)
    BY <2>1, BehindSeqs DEF LinesInv
  <2>4. Len(a) \in Nat /\ Cardinality(AnswersIn(a)) = Len(a)
    BY <2>1, CountAll DEF Signals
  <2>5. Cardinality(AnswersIn(toRunner')) = Cardinality(AnswersIn(toRunner)) + Len(a)
    BY <2>3, <2>4, AnswersAdd
  <2>6. /\ Len(queue') = Len(queue) /\ owed' = owed + Len(a)
        /\ Cardinality(OrdersIn(toMock')) = Cardinality(OrdersIn(toMock))
        /\ Cardinality(QuotesIn(toMock')) = Cardinality(QuotesIn(toMock))
    BY <2>1, <2>2
  <2> DEFINE l == Len(a)  A == Cardinality(AnswersIn(toRunner))
             O == Cardinality(OrdersIn(toMock))  Q == Cardinality(QuotesIn(toMock))
  <2>7. owed' = Len(queue) + (A + l) + O + Q
    <3> DEFINE k == Len(queue)
    <3>1. /\ k \in Nat /\ A \in Nat /\ O \in Nat /\ Q \in Nat /\ l \in Nat
          /\ owed = k + A + O + Q /\ owed' = owed + l
      BY <1>0, <2>4, <2>6 DEF AddsUp
    <3> HIDE DEF l, A, O, Q, k
    <3>2. owed' = k + (A + l) + O + Q
      BY <3>1
    <3> QED
      BY <3>2 DEF k
  <2> QED
    BY <2>5, <2>6, <2>7 DEF AddsUp
<1>7. CASE Polled
  <2>1. PICK k \in 1 .. Len(toRunner) : Poll(k)
    BY <1>7 DEF Polled
  <2> DEFINE new == SubSeq(toRunner, 1, k)
  <2>2. k \in 0 .. Len(toRunner)
    OBVIOUS
  <2>3. /\ Behind(toRunner, new, toRunner')
        /\ Len(queue') = Len(queue) + Cardinality(AnswersIn(new))
    BY <2>1, <2>2, PollSplits
  <2>4. owed' = owed /\ toMock' = toMock
    BY <1>7, <2>1 DEF Polled, Poll
  <2> HIDE DEF new
  <2>5. /\ Cardinality(AnswersIn(new)) \in Nat /\ Cardinality(AnswersIn(toRunner')) \in Nat
        /\ Cardinality(AnswersIn(toRunner)) =
              Cardinality(AnswersIn(new)) + Cardinality(AnswersIn(toRunner'))
    BY <2>3, AnswersAdd
  <2> QED
    BY <1>0, <2>3, <2>4, <2>5 DEF AddsUp
<1> QED
  BY <1>1, <1>2, <1>3, <1>4, <1>5, <1>6, <1>7 DEF Effect

\* The gateway pays exactly what is owed to the packet it takes; a logout drops what is
\* behind it, which owes nothing.
LEMMA GatewayAddsUp == ASSUME LinesInv, ConnInv, AddsUp, GatewayAnswers PROVE AddsUp'
<1> DEFINE p == Head(toMock)
           a == Answers(p)
           t == Tail(toMock)
<1>1. /\ toMock # <<>> /\ UNCHANGED <<queue, owed>>
      /\ toRunner' = toRunner \o a
      /\ toMock' = IF p.type = "Logout" THEN <<>> ELSE t
  BY DEF GatewayAnswers
<1>2. Behind(toMock, <<p>>, t) /\ Behind(toRunner', toRunner, a)
  BY <1>1, BehindSeqs, AnswersToPacket DEF LinesInv
<1>3. Cardinality(AnswersIn(a)) = Cardinality(OrdersIn(<<p>>)) + Cardinality(QuotesIn(<<p>>))
  <2>1. CASE p.type \in {"Login", "Logout"}
    <3>1. DOMAIN a = {1} /\ a[1].msg \in Signals
      BY <2>1, AnswersToPacket DEF Signals, LoginAnswer
    <3>2. AnswersIn(a) = {}
      BY <3>1 DEF AnswersIn
    <3>3. Cardinality(AnswersIn(a)) = 0
      BY <3>2, FS_EmptySet
    <3> HIDE DEF p, a
    <3> QED
      BY <2>1, <3>3, CountOne
  <2>2. CASE p.type \notin {"Login", "Logout"}
    <3>1. /\ DOMAIN a = IF p.type = "Quote" THEN {1, 2} ELSE {1}
          /\ \A i \in DOMAIN a : a[i].msg \notin Signals
          /\ \E S : a \in Seq(S)
      BY <2>2, AnswersToPacket
    <3> HIDE DEF p, a
    <3>2. Len(a) \in Nat /\ Cardinality(AnswersIn(a)) = Len(a)
      BY <3>1, CountAll
    <3>3. DOMAIN a = 1 .. Len(a)
      BY <3>1, LenProperties
    <3>4. Len(a) = IF p.type = "Quote" THEN 2 ELSE 1
      BY <3>1, <3>2, <3>3
    <3> QED
      BY <2>2, <3>2, <3>4, CountOne
  <2> QED
    BY <2>1, <2>2
<1> HIDE DEF p, a, t
<1>4. /\ Cardinality(OrdersIn(<<p>>)) \in Nat /\ Cardinality(OrdersIn(t)) \in Nat
      /\ Cardinality(QuotesIn(<<p>>)) \in Nat /\ Cardinality(QuotesIn(t)) \in Nat
      /\ Cardinality(OrdersIn(toMock)) = Cardinality(OrdersIn(<<p>>)) + Cardinality(OrdersIn(t))
      /\ Cardinality(QuotesIn(toMock)) = Cardinality(QuotesIn(<<p>>)) + Cardinality(QuotesIn(t))
  BY <1>2, OrdersAdd, QuotesAdd
<1>5. /\ Cardinality(AnswersIn(toRunner)) \in Nat /\ Cardinality(AnswersIn(a)) \in Nat
      /\ Cardinality(AnswersIn(toRunner')) = Cardinality(AnswersIn(toRunner))
                                             + Cardinality(AnswersIn(a))
  BY <1>2, AnswersAdd
<1>6. /\ Cardinality(OrdersIn(toMock')) = Cardinality(OrdersIn(t))
      /\ Cardinality(QuotesIn(toMock')) = Cardinality(QuotesIn(t))
  <2>1. CASE p.type = "Logout"
    <3>1. \A i \in DOMAIN t : t[i].type = "Logout"
      <4>1. /\ 1 \in DOMAIN toMock /\ toMock[1] = p
            /\ \A i \in DOMAIN t : 1 + i \in DOMAIN toMock /\ toMock[1 + i] = t[i] /\ 1 < 1 + i
        <5>1. Len(<<p>>) = 1 /\ <<p>>[1] = p
          OBVIOUS
        <5> QED
          BY <1>2, <5>1 DEF Behind
      <4> QED
        BY <2>1, <4>1 DEF ConnInv
    <3>2. OrdersIn(t) = {} /\ QuotesIn(t) = {}
      BY <3>1 DEF OrdersIn, QuotesIn
    <3>3. Cardinality(OrdersIn(t)) = 0 /\ Cardinality(QuotesIn(t)) = 0
      BY <3>2, FS_EmptySet
    <3> QED
      BY <1>1, <2>1, <3>3, CountOne
  <2>2. CASE p.type # "Logout"
    BY <1>1, <2>2
  <2> QED
    BY <2>1, <2>2
<1>7. Len(queue) \in Nat /\ owed' = owed /\ queue' = queue
  BY <1>1, QueueLengths
<1> DEFINE k == Len(queue)  A == Cardinality(AnswersIn(toRunner))
           Ap == Cardinality(AnswersIn(a))
           Op == Cardinality(OrdersIn(<<p>>))  Qp == Cardinality(QuotesIn(<<p>>))
           Ot == Cardinality(OrdersIn(t))  Qt == Cardinality(QuotesIn(t))
<1>8. owed = k + (A + Ap) + Ot + Qt
  <2>1. /\ k \in Nat /\ A \in Nat /\ Op \in Nat /\ Qp \in Nat /\ Ot \in Nat /\ Qt \in Nat
        /\ Ap = Op + Qp
    BY <1>3, <1>4, <1>5, <1>7
  <2>2. owed = k + A + (Op + Ot) + (Qp + Qt)
    BY <1>4 DEF AddsUp
  <2> HIDE DEF k, A, Ap, Op, Qp, Ot, Qt
  <2> QED
    BY <2>1, <2>2
<1>9. /\ Len(queue') = k /\ Cardinality(AnswersIn(toRunner')) = A + Ap
      /\ Cardinality(OrdersIn(toMock')) = Ot /\ Cardinality(QuotesIn(toMock')) = Qt
  BY <1>5, <1>6, <1>7
<1> HIDE DEF k, A, Ap, Ot, Qt
<1> QED
  BY <1>7, <1>8, <1>9 DEF AddsUp

-----------------------------------------------------------------------------
(* The dial *)

\* The scenario runs the policy of a reconnect as it is: whatever the runner does,
\* the policy takes a step of its own or none, or is left with its variables gone.
LEMMA ScenarioDials ==
    ASSUME OuchNext \/ UNCHANGED ouchVars
    PROVE  [DialStart \/ Dialing \/ DialEnds]_reconnectVars
<1>1. CASE GatewayAnswers \/ UNCHANGED ouchVars
  BY <1>1 DEF GatewayAnswers, ouchVars
<1>2. CASE Polls \/ Expects \/ RunThrottled \/ DrainRotates \/ DrainEnds \/ Bursts
  BY <1>2 DEF Polls, Expects, ExpectState, ExpectAnswer, ExpectLate, ExpectClosed, RunThrottled,
              DrainRotates, DrainEnds, Bursts, BurstOrder, BurstRefused, BurstThrottled
<1>3. ASSUME NEW s, RunPlace(s) \/ RunPlaceRefused(s) \/ RunCancelByToken(s) \/ RunCancelById(s)
                    \/ RunReplace(s) \/ RunQuote(s) \/ RunBurst(s) \/ RunInactivate(s)
                    \/ RunExpect(s) \/ RunOuchLogout(s)
      PROVE  UNCHANGED reconnectVars
  BY <1>3 DEF RunPlace, RunPlaceRefused, RunCancelByToken, RunCancelById, RunReplace, RunQuote,
              RunBurst, RunInactivate, RunExpect, RunOuchLogout, calledVars, ouchVars
<1>4. ASSUME NEW s, RunLogin(s) \/ RunSwitch(s) PROVE DialStart \/ UNCHANGED reconnectVars
  BY <1>4 DEF RunLogin, RunSwitch, Rebuild
<1>5. CASE Transport
  BY <1>5 DEF Transport, FirstDial, Dials, WaitsToDial, SendLogin, DialFailed, DialReturns,
              ConnectFailed, Unconnected, LoginEnds
<1> QED
  BY <1>1, <1>2, <1>3, <1>4, <1>5 DEF OuchNext, OuchRunner

-----------------------------------------------------------------------------
(* Scenarios of every protocol *)

FixInv == WireType /\ LinkInv /\ QuietInv /\ AmrInv /\ IndexInv /\ NamedInv

\* No FIX client is made for an OUCH scenario.
FixUnused ==
    /\ state = "Disconnected" /\ worker = <<>> /\ events = <<>> /\ toGw = <<>> /\ oks = <<>>
    /\ logons = 0 /\ cut = 0

ReplayInv ==
    /\ IF Ouch THEN FixUnused ELSE FixInv
    /\ FixTypeOK /\ TokenInv /\ DialInv /\ AnswerInv

-----------------------------------------------------------------------------
\* The program begins without connections (run_one_scenario in bist_colo.cpp).
LEMMA FixInvInit ==
    ASSUME FixInit, LoopInit("run") PROVE FixInv
<1> USE DEF FixInit, ClientInit, AcceptorInit, LoopInit
<1>1. WireType
  BY DEF WireType
<1>2. LinkInv /\ AmrInv
  BY DEF LinkInv, AmrInv
<1>3. QuietInv
  BY DEF QuietInv, Told
<1>4. IndexInv /\ NamedInv
  BY DEF IndexInv, NamedInv
<1> QED
  BY <1>1, <1>2, <1>3, <1>4 DEF FixInv

\* No answer is owed before the first step (run_one_scenario in bist_colo.cpp).
LEMMA AnswerInit == ASSUME Init PROVE AnswerInv
<1>1. /\ queue = <<>> /\ toRunner = <<>> /\ toMock = <<>> /\ owed = 0
      /\ sess = "none" /\ served = "no" /\ resting = [g \in Gateways |-> {}]
      /\ Ouch => pc = "dial"
  BY DEF Init, OuchInit, LoopInit
<1>2. LinesInv
  <2>1. <<>> \in Seq({})
    OBVIOUS
  <2>2. DOMAIN resting = Gateways /\ \A g \in Gateways : resting[g] = {}
    BY <1>1
  <2> QED
    BY <1>1, <2>1, <2>2, FS_EmptySet DEF LinesInv
<1>3. AddsUp
  <2>1. Len(queue) = 0
    BY <1>1
  <2>2. /\ Cardinality(AnswersIn(toRunner)) = 0 /\ Cardinality(OrdersIn(toMock)) = 0
        /\ Cardinality(QuotesIn(toMock)) = 0
    BY <1>1, CountOne
  <2> QED
    BY <1>1, <2>1, <2>2 DEF AddsUp
<1>4. Ouch => PlaceInv
  BY <1>1 DEF PlaceInv
<1>5. ConnInv
  BY <1>1 DEF ConnInv
<1> QED
  BY <1>2, <1>3, <1>4, <1>5 DEF AnswerInv

\* A scenario of either protocol begins in the invariant (run_one_scenario).
LEMMA ReplayInit == Init => ReplayInv
<1> SUFFICES ASSUME Init PROVE ReplayInv
  OBVIOUS
<1>1. TokenInv /\ DialInv /\ AnswerInv
  BY TokenInit, DialInvInit, AnswerInit DEF Init, OuchInit
<1>4. FixTypeOK
  <2>1. rotate \in BOOLEAN
    BY DEF Init, FixInit, ClientInit
  <2>2. drops = 0 /\ 0 \in 0 .. MaxDrop
    BY DropAssumption DEF Init, FixInit, ClientInit
  <2>3. /\ state = "Disconnected" /\ bound = FALSE /\ enabled = TRUE /\ link = "down"
        /\ peer = FALSE /\ subscribed = FALSE /\ logons = 0 /\ cut = 0
    BY DEF Init, FixInit, ClientInit, AcceptorInit
  <2>4. /\ bound \in BOOLEAN /\ enabled \in BOOLEAN /\ peer \in BOOLEAN
        /\ subscribed \in BOOLEAN
    BY <2>3, Zenon
  <2>5. state \in FixSessionState /\ logons \in Nat /\ cut \in 0 .. logons
    BY <2>3 DEF FixSessionState
  <2> QED
    BY <2>1, <2>2, <2>3, <2>4, <2>5, Zenon DEF FixTypeOK
<1>2. CASE Ouch
  BY <1>1, <1>2, <1>4 DEF Init, FixInit, ClientInit, AcceptorInit, FixUnused, ReplayInv
<1>3. CASE ~Ouch
  BY <1>1, <1>3, <1>4, FixInvInit DEF Init, ReplayInv
<1> QED
  BY <1>2, <1>3

-----------------------------------------------------------------------------
\* A step of a FIX scenario.
LEMMA FixInvStep == ASSUME FixInv, FixNext PROVE FixInv'
  BY TypesStep, LinkStep, QuietStep, AmrStep, IndexStep, NamedStep DEF FixInv

\* The protocol of a scenario is that of its file (scenario_protocol()), and the
\* steps of one stack leave the other alone.
LEMMA NextFrame ==
    ASSUME [Next]_vars
    PROVE  /\ Ouch' = Ouch
           /\ OuchNext \/ UNCHANGED ouchVars
           /\ Ouch => UNCHANGED fixVars /\ (OuchNext \/ UNCHANGED <<loopVars, ouchVars>>)
           /\ ~Ouch => UNCHANGED ouchVars /\ (FixNext \/ UNCHANGED <<loopVars, fixVars>>)
<1>1. CASE OuchRuns \/ GatewayRuns
  <2>1. protocol' = protocol
    BY <1>1 DEF OuchRuns, OuchRunner, GatewayRuns, GatewayAnswers, loopVars
  <2> QED
    BY <1>1, <2>1 DEF OuchRuns, GatewayRuns, OuchNext, Ouch
<1>2. CASE FixRuns \/ QuickFixRuns \/ AcceptorRuns \/ ConnectionIsLost
  <2>1. protocol' = protocol
    BY <1>2 DEF FixRuns, FixRunner, QuickFixRuns, FixQuickFix, AcceptorRuns, FixAccepts,
                ConnectionIsLost, FixDrop, loopVars
  <2> QED
    BY <1>2, <2>1 DEF FixRuns, QuickFixRuns, AcceptorRuns, ConnectionIsLost, FixNext, Ouch
<1>3. CASE UNCHANGED vars
  <2>1. protocol' = protocol
    BY <1>3 DEF vars, loopVars
  <2> QED
    BY <1>3, <2>1 DEF vars, Ouch
<1> QED
  BY <1>1, <1>2, <1>3 DEF Next, Work, Over

\* A step of an OUCH scenario in which no step has failed: the runner's by its effect,
\* the gateway's by what it answers.
LEMMA OuchAnswers ==
    ASSUME LinesInv, AddsUp, PlaceInv, ConnInv, OuchNext, clean'
    PROVE  LinesInv' /\ AddsUp' /\ PlaceInv' /\ ConnInv'
<1>1. PlaceInv'
  BY PlaceStep
<1>2. DOMAIN resting' = Gateways /\ \A g \in Gateways : IsFiniteSet(resting'[g])
  BY RestingStep DEF LinesInv
<1>3. CASE OuchRunner
  <2>1. Effect
    BY <1>3, RunnerEffect
  <2> QED
    BY <1>1, <1>2, <2>1, EffectLines, EffectAddsUp, ConnStep DEF LinesInv
<1>4. CASE GatewayAnswers
  <2>1. LinesInv'
    <3> DEFINE p == Head(toMock)
    <3>1. /\ toMock # <<>> /\ queue' = queue /\ toRunner' = toRunner \o Answers(p)
          /\ toMock' = <<>> \/ toMock' = Tail(toMock)
      BY <1>4 DEF GatewayAnswers
    <3>2. \E S : Answers(p) \in Seq(S)
      BY AnswersToPacket
    <3> HIDE DEF p
    <3>3. (\E S : toRunner' \in Seq(S)) /\ (\E S : toMock' \in Seq(S))
      BY <3>1, <3>2, LinesOf
    <3> QED
      BY <1>2, <3>1, <3>3 DEF LinesInv
  <2> QED
    BY <1>1, <1>4, <2>1, GatewayConn, GatewayAddsUp
<1> QED
  BY <1>3, <1>4 DEF OuchNext

\* Every step of a scenario keeps what its steps are owed under way.
LEMMA AnswerStep == ASSUME AnswerInv, [Next]_vars PROVE AnswerInv'
<1> SUFFICES ASSUME clean' PROVE LinesInv' /\ AddsUp' /\ (Ouch' => PlaceInv' /\ ConnInv')
  BY DEF AnswerInv
<1>1. LinesInv /\ AddsUp /\ (Ouch => PlaceInv /\ ConnInv)
  BY NextFrame, CleanBefore DEF AnswerInv
<1>3. CASE Ouch
  <2>1. CASE OuchNext
    BY <1>1, <1>3, <2>1, OuchAnswers
  <2>2. CASE UNCHANGED <<loopVars, ouchVars>>
    BY <1>1, <1>3, <2>2 DEF loopVars, ouchVars, session, books, LinesInv, AddsUp, PlaceInv, ConnInv
  <2> QED
    BY <1>3, <2>1, <2>2, NextFrame
<1>4. CASE ~Ouch
  <2>1. ~Ouch' /\ UNCHANGED ouchVars
    BY <1>4, NextFrame
  <2>2. UNCHANGED <<queue, toRunner, toMock, owed, resting>>
    BY <2>1 DEF ouchVars, session, books
  <2> QED
    BY <1>1, <2>1, <2>2 DEF LinesInv, AddsUp
<1> QED
  BY <1>3, <1>4

\* Every step of a scenario keeps the invariant.
LEMMA ReplayStep == ASSUME ReplayInv, [Next]_vars PROVE ReplayInv'
<1>1. TokenInv' /\ DialInv' /\ AnswerInv'
  BY NextFrame, TokenStep, ScenarioDials, DialInvStep, AnswerStep DEF ReplayInv
<1>2. CASE Ouch
  <2>1. Ouch' /\ FixUnused
    BY <1>2, NextFrame DEF ReplayInv
  <2>2. UNCHANGED <<state, worker, events, toGw, oks, logons, cut>>
    BY <1>2, NextFrame DEF fixVars, fixOthers, clientVars, wire, history, acceptorVars
  <2>3. FixUnused'
    BY <2>1, <2>2 DEF FixUnused
  <2>4. FixTypeOK'
    BY <1>2, NextFrame DEF ReplayInv, FixTypeOK, fixVars, fixOthers, clientVars, wire, history,
                           acceptorVars
  <2> QED
    BY <1>1, <2>1, <2>3, <2>4 DEF ReplayInv
<1>3. CASE ~Ouch
  <2>1. ~Ouch' /\ FixInv
    BY <1>3, NextFrame DEF ReplayInv
  <2>2. FixInv'
    <3>1. CASE FixNext
      BY <2>1, <3>1, FixInvStep
    <3>2. CASE UNCHANGED <<loopVars, fixVars>>
      BY <2>1, <3>2 DEF FixInv, WireType, LinkInv, QuietInv, AmrInv, IndexInv, NamedInv,
                        loopVars, fixVars, fixOthers, clientVars, wire, history, acceptorVars
    <3> QED
      BY <1>3, <3>1, <3>2, NextFrame
  <2>3. FixTypeOK'
    <3>1. CASE FixNext
      BY <2>1, <2>2, <3>1, FixTypeStep DEF ReplayInv, FixInv, WireType, QuietInv
    <3>2. CASE UNCHANGED <<loopVars, fixVars>>
      BY <3>2 DEF ReplayInv, FixTypeOK, fixVars, fixOthers, clientVars, wire, history, acceptorVars
    <3> QED
      BY <1>3, <3>1, <3>2, NextFrame
  <2> QED
    BY <1>1, <2>1, <2>2, <2>3 DEF ReplayInv
<1> QED
  BY <1>2, <1>3

\* The invariant holds throughout every scenario.
LEMMA ReplayInvariant == Spec => []ReplayInv
  BY ReplayInit, ReplayStep, PTL DEF Spec

-----------------------------------------------------------------------------
\* The state of a FIX client is one of facade.hpp:163-171 whatever callbacks and
\* calls store, and what the scenario's parts keep has its type.
THEOREM FixTypes == Spec => []FixTypeOK
<1>1. ReplayInv => FixTypeOK
  BY DEF ReplayInv
<1> QED
  BY <1>1, ReplayInvariant, PTL

\* Between two callbacks a FIX client that says Active is logged on: only onLogon()
\* stores Active and onLogout() takes it back (oe_app.hpp:42-55), and no call of
\* the runner, login()'s late store included, makes it Active again.
THEOREM ActiveIsLoggedOn == Spec => []ActiveMeansLoggedOn
<1>1. ReplayInv => ActiveMeansLoggedOn
  BY OnLogoutShape DEF ReplayInv, FixUnused, FixInv, LinkInv, ActiveMeansLoggedOn, Idle
<1> QED
  BY <1>1, ReplayInvariant, PTL

\* What a session that is over can leave in the runner's queue, after
\* fix_logout_complete found it down (fix_replay.hpp:490-503), is one LoggedOut.
THEOREM OneBreadcrumbIsLeft == Spec => []OneBreadcrumb
<1>1. ReplayInv => OneBreadcrumb
  <2>1. FixUnused => OneBreadcrumb
    BY DEF FixUnused, OneBreadcrumb
  <2> QED
    BY <2>1, QuietMeansBreadcrumb DEF ReplayInv, FixInv
<1> QED
  BY <1>1, ReplayInvariant, PTL

\* The only expectation it answers is "any" (fix_replay.hpp:524-536).
THEOREM OnlyAnyTakesBreadcrumb == Spec => []OnlyAnyIsMisled
<1>1. ReplayInv => OnlyAnyIsMisled
  <2>1. FixUnused => OnlyAnyIsMisled
    BY DEF FixUnused, OnlyAnyIsMisled, Stale
  <2> QED
    BY <2>1, QuietMeansBreadcrumb DEF ReplayInv, FixInv
<1> QED
  BY <1>1, ReplayInvariant, PTL

\* The acceptor takes one request for reference data in a logon
\* (acceptor_mock.hpp:206-220).
THEOREM OneSubscription == Spec => []DuplicateRejected
<1>1. ReplayInv => DuplicateRejected
  <2>1. FixUnused => DuplicateRejected
    BY DEF FixUnused, DuplicateRejected
  <2>2. FixInv => DuplicateRejected
    BY DEF FixInv, WireType, AmrInv, DuplicateRejected
  <2> QED
    BY <2>1, <2>2 DEF ReplayInv
<1> QED
  BY <1>1, ReplayInvariant, PTL

\* A cancel or a replace of an order the acceptor knows carries the symbol of that
\* order, whatever was lost before (fix_replay.hpp:428-450).
THEOREM SymbolsFollowOrders == Spec => []CancelNamesOrder
<1>1. ReplayInv => CancelNamesOrder
  <2>1. FixUnused => CancelNamesOrder
    BY DEF FixUnused, CancelNamesOrder
  <2>2. FixInv => CancelNamesOrder
    BY DEF FixInv, IndexInv, NamedInv, CancelNamesOrder
  <2> QED
    BY <2>1, <2>2 DEF ReplayInv
<1> QED
  BY <1>1, ReplayInvariant, PTL

\* As long as no step of a scenario has failed the connection agrees with the state of
\* the session (session.hpp, bist_colo.cpp:521-547): a login goes out alone on a new
\* connection, the gateway has not closed that of an active session, and no request is
\* behind a logout, where the gateway would drop it unanswered.
THEOREM ConnectionAgrees == Spec => [](clean /\ Ouch => ConnInv)
<1>1. ReplayInv => (clean /\ Ouch => ConnInv)
  BY DEF ReplayInv, AnswerInv
<1> QED
  BY <1>1, ReplayInvariant, PTL

\* As long as no step of a scenario has failed, every answer a step is owed is queued,
\* on its way or still to be given, and nothing else is: over the polls of poll_io(),
\* the rejects the runner makes itself, quotes, bursts, end-of-day passes, logouts and
\* new logins, for scenarios of any length (replay.hpp:412-700, ouch_gateway.cpp).
THEOREM AnswersAddUpHolds == Spec => []AnswersAddUp
<1>1. ReplayInv => AnswersAddUp
  BY DEF ReplayInv, AnswerInv, AddsUp, AnswersAddUp
<1> QED
  BY <1>1, ReplayInvariant, PTL

\* No order's token reaches a gateway twice or both gateways: the registry belongs to
\* the application and outlives every rebuild (run_one_scenario in bist_colo.cpp).
THEOREM TokensAreSentOnce == Spec => []TokenOnceAnywhere
<1>1. ReplayInv => TokenOnceAnywhere
  BY DEF ReplayInv, TokenInv
<1> QED
  BY <1>1, ReplayInvariant, PTL

\* A reconnect in a scenario keeps the budget of the policy (reconnect_policy.hpp:60),
\* wherever a step of the scenario starts it.
THEOREM ScenarioKeepsBudget == Spec => []AttemptsInBudget
<1>1. ReplayInv => AttemptsInBudget
  BY InvMeansBudget DEF ReplayInv
<1> QED
  BY <1>1, ReplayInvariant, PTL
=============================================================================
