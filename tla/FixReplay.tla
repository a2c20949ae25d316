------------------------------ MODULE FixReplay ------------------------------
(***************************************************************************)
(* One FIX scenario (FixScenarioRunner in runner/fix_replay.hpp, started   *)
(* by run_one_fix_scenario in apps/bist_colo.cpp): the steps of a scenario *)
(* against a client and the mock acceptor.  A step's new id is its number, *)
(* so that ids do not repeat, and so is the symbol of a new order.  A lost *)
(* connection takes the place of a step.                                   *)
(***************************************************************************)
EXTENDS FixAcceptor

VARIABLES
    index,      \* token_index_: the symbol under each id
    cut         \* history: logons that were over when a logout was complete

fixOthers == <<clientVars, wire, history, acceptorVars>>
fixVars   == <<fixOthers, index, cut>>

-----------------------------------------------------------------------------
(* Scenarios: the steps of fix_oe_temel.yaml and fix_rd_temel.yaml *)

LogoutDone   == Expect("fix_logout_complete", "any", 1)
Report1(what) == Expect("fix_execution_report", what, 1)
Ack(what)     == Expect("fix_amr_ack", what, 1)

LogonSteps ==
    {Plain("fix_logon",  Expect("session", w, 1)) :
        w \in {"any"} \cup (IF rotate THEN {"PasswordChanged"} ELSE {})}

LogoutSteps == {Plain("fix_logout", e) : e \in {NoExpect, LogoutDone}}

PassiveSteps ==
    {Plain("expect", Expect("any", "any", 1))}
    \cup IF protocol = "fix_oe"
         THEN {Plain("expect", Expect("fix_execution_report", "any", 2))}
         ELSE {Plain("wait_heartbeat", Expect("server_heartbeat", "any", 1))}

FixOrderSteps ==
    {Step("New", step, 0, step, e) : e \in {NoExpect, Report1("any")}}
    \cup {Step("Short", step, 0, step, Report1("short_sell"))}
    \cup {Step(a, step, o, Unnamed, Report1("any")) :
            a \in {"Cancel", "Replace"}, o \in 1 .. step - 1}

AmrSteps == {Step("Amr", i, 0, Unnamed, Ack(w)) : i \in 1 .. 2, w \in {"processed", "duplicate"}}

FixInit == ClientInit /\ AcceptorInit /\ index = <<>> /\ cut = 0

-----------------------------------------------------------------------------
(* run() *)

\* run_logon(): the arguments of the step are not used.
RunLogon(s) ==
    /\ Dispatch(drops)
    /\ IF state \notin {"LoggedOut", "Disconnected"}
       THEN Passed(s) /\ UNCHANGED fixOthers
       ELSE IF bound THEN Goto("login", s) /\ LoginLocked /\ UNCHANGED acceptorVars
       ELSE Finish /\ UNCHANGED fixOthers
    /\ UNCHANGED <<index, cut>>

RunLogonStore ==
    /\ pc = "login" /\ LoginStore /\ UNCHANGED acceptorVars
    /\ Passed(cur) /\ UNCHANGED <<index, cut>>

RunLogout(s) ==
    /\ Dispatch(drops)
    /\ Logout /\ UNCHANGED acceptorVars
    /\ Passed(s) /\ UNCHANGED <<index, cut>>

ResolveNothing(s) == s.arg              \* a faulty form, for the mutation checks

\* The symbol of a cancel or a replace that names none: that of the order it
\* refers to, if the runner knows it.
Resolve(s) == IF s.arg = Unnamed /\ s.orig \in DOMAIN index THEN index[s.orig] ELSE s.arg

\* run_place(), run_cancel(), run_replace(): the id is indexed once the client has
\* taken the request.
RunOrder(s) ==
    /\ Dispatch(drops)
    /\ Request(Message(s.action, s.id, s.orig, Resolve(s))) /\ UNCHANGED acceptorVars
    /\ IF bound
       THEN /\ Passed(s)
            /\ index' = [k \in DOMAIN index \cup {s.id} |-> IF k = s.id THEN Resolve(s)
                                                             ELSE index[k]]
       ELSE Finish /\ UNCHANGED index
    /\ UNCHANGED cut

RunAmr(s) ==
    /\ Dispatch(drops)
    /\ Subscribe(s.id) /\ UNCHANGED acceptorVars
    /\ IF bound THEN Passed(s) ELSE Finish
    /\ UNCHANGED <<index, cut>>

\* run_wait_hb() and the steps that only expect
RunPassive(s) ==
    /\ Dispatch(drops)
    /\ Passed(s) /\ UNCHANGED fixVars

-----------------------------------------------------------------------------
(* match_expectation() *)

Expecting(complete) == pc = "expect" /\ (complete = (cur.expect.msg = "fix_logout_complete"))

\* A session event that is no successful logon answers no logon.
Matches(e, ev) ==
    \/ e.msg = "any"
    \/ /\ e.msg = ev.kind /\ (e.field = "any" \/ e.field = ev.what)
       /\ (e.msg = "session") => ev.what \in {"Active", "PasswordChanged"}

\* What does not match is dropped.
ExpectEvent ==
    /\ Expecting(FALSE) /\ events # <<>>
    /\ events' = Tail(events) /\ Count(Matches(cur.expect, Head(events)))
    /\ UNCHANGED <<rotate, state, bound, enabled, link, worker, wire, history, acceptorVars,
                   index, cut>>

\* A faulty form for the mutation checks: the wait never ends.
ExpectForever == Expecting(FALSE) /\ events = <<>> /\ UNCHANGED <<loopVars, fixVars>>

ExpectTimeout ==
    /\ Expecting(FALSE) /\ events = <<>>
    /\ Finish /\ UNCHANGED fixVars

\* A faulty form for the mutation checks: the queued events are kept.
LogoutCompleteKeeps ==
    /\ Expecting(TRUE) /\ state # "Active"
    /\ cut' = IF link = "down" THEN logons ELSE cut
    /\ Finish /\ UNCHANGED <<fixOthers, index>>

\* One poll of the loop finds no active session.
LogoutComplete ==
    /\ Expecting(TRUE) /\ state # "Active"
    /\ events' = <<>> /\ cut' = IF link = "down" THEN logons ELSE cut
    /\ Finish
    /\ UNCHANGED <<rotate, state, bound, enabled, link, worker, wire, history, acceptorVars, index>>

LogoutTimeout ==
    /\ Expecting(TRUE) /\ state = "Active"
    /\ Finish /\ UNCHANGED fixVars

FixRunner ==
    /\ \/ \E s \in LogonSteps   : RunLogon(s)
       \/ \E s \in LogoutSteps  : RunLogout(s)
       \/ \E s \in PassiveSteps : RunPassive(s)
       \/ protocol = "fix_oe" /\ \E s \in FixOrderSteps : RunOrder(s)
       \/ protocol = "fix_rd" /\ \E s \in AmrSteps : RunAmr(s)
       \/ RunLogonStore \/ ExpectEvent \/ ExpectTimeout \/ LogoutComplete \/ LogoutTimeout
       \/ End(drops) /\ UNCHANGED fixVars
    /\ UNCHANGED protocol

FixQuickFix == QuickFix /\ UNCHANGED <<loopVars, acceptorVars, index, cut>>
FixAccepts  == Acceptor /\ UNCHANGED <<loopVars, index, cut>>
FixDrop     == step + drops < MaxStep /\ Drop /\ UNCHANGED <<loopVars, acceptorVars, index, cut>>

FixNext == FixRunner \/ FixQuickFix \/ FixAccepts \/ FixDrop

-----------------------------------------------------------------------------
(* Properties *)

FixTypeOK ==
    /\ rotate \in BOOLEAN
    /\ state \in FixSessionState /\ bound \in BOOLEAN
    /\ enabled \in BOOLEAN /\ link \in {"down", "logon_sent", "up", "logout_sent"}
    /\ peer \in BOOLEAN /\ logons \in Nat /\ drops \in 0 .. MaxDrop
    /\ subscribed \in BOOLEAN /\ cut \in 0 .. logons

\* Between two callbacks a client that says Active is logged on: the runner relies
\* on it in fix_logon ("already Active") and in fix_logout_complete.
ActiveMeansLoggedOn == Idle /\ state = "Active" => link \in {"up", "logout_sent"}

\* The first event of the queue, which the runner takes next, is of a logon that was
\* over when a logout was complete.
Stale == Expecting(FALSE) /\ events # <<>> /\ Head(events).logon <= cut

\* fix_logout_complete clears the queue while onLogout() may still be at work: with
\* the session down, what can come of it afterwards is one LoggedOut event at most,
\* and never a second.
OneBreadcrumb ==
    \A i, j \in DOMAIN events :
        events[i].logon <= cut /\ events[j].logon <= cut => i = j /\ events[i].what = "LoggedOut"

\* Of the expectations that follow, that event answers "any" and no other: no wait
\* for a logon or for a report ends on what a session before has left.  Less than the
\* comment at fix_replay.hpp:487-489 says, that no breadcrumb of the prior session
\* satisfies a downstream expect: a LoggedOut fired after the clear does satisfy "any".
OnlyAnyIsMisled == Stale /\ Matches(cur.expect, Head(events)) => cur.expect.msg = "any"

\* Within a logon the acceptor takes one request for reference data; what follows
\* is a duplicate, under the same id or another.
DuplicateRejected == \A i, j \in DOMAIN oks : oks[i] = oks[j] => i = j

\* A cancel or a replace of an order the acceptor knows names its symbol, although
\* the step does not: through chains of replaces, and whatever was lost between.
CancelNamesOrder ==
    \A i \in DOMAIN toGw :
        LET m == toGw[i]
        IN  m.type \in {"Cancel", "Replace"} /\ m.orig \in DOMAIN known => m.body = known[m.orig]

\* A session that was asked to log out while active stops being active, whether or
\* not the runner still waits for it: fix_logout_complete polls for that.
LogoutTakesEffect == (~enabled /\ state = "Active") ~> (state # "Active")
=============================================================================
