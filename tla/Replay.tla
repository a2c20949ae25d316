------------------------------- MODULE Replay -------------------------------
(***************************************************************************)
(* A scenario of any protocol: run_one_scenario() of apps/bist_colo.cpp    *)
(* looks at the protocol of the scenario and runs it against the OUCH or   *)
(* against the FIX stack, with the runner of that protocol.                *)
(***************************************************************************)
EXTENDS FixReplay, OuchReplay

vars == <<loopVars, fixVars, ouchVars>>

Ouch == protocol = "ouch"

Init ==
    /\ protocol \in {"ouch", "fix_oe", "fix_rd"}
    /\ LoopInit(IF Ouch THEN "dial" ELSE "run")
    /\ FixInit /\ OuchInit

OuchRuns      == Ouch /\ OuchRunner /\ UNCHANGED fixVars
GatewayRuns   == Ouch /\ GatewayAnswers /\ UNCHANGED fixVars
FixRuns       == ~Ouch /\ FixRunner /\ UNCHANGED ouchVars
QuickFixRuns  == ~Ouch /\ FixQuickFix /\ UNCHANGED ouchVars
AcceptorRuns  == ~Ouch /\ FixAccepts /\ UNCHANGED ouchVars
ConnectionIsLost == ~Ouch /\ FixDrop /\ UNCHANGED ouchVars

\* The scenario is over, or the program does what C++ does not define.
Over == pc \in {"done", "undefined"} /\ UNCHANGED vars

\* The program and what it talks to.
Work == OuchRuns \/ GatewayRuns \/ FixRuns \/ QuickFixRuns \/ AcceptorRuns

Next == Work \/ ConnectionIsLost \/ Over

Spec == Init /\ [][Next]_vars

\* Some thread runs as long as one can; nothing is assumed of the network.
Fairness == WF_vars(Work)

FairSpec == Spec /\ Fairness

-----------------------------------------------------------------------------
(* Properties *)

\* A scenario of either protocol ends, whatever is lost, late or refused: every
\* wait has its deadline, every retry its bound.  Except in run_cancel_id(): the
\* loop that is to drain the queue may keep the runner for ever.
ScenarioEnds == pc \notin {"done", "undefined", "drain"} ~> pc \in {"done", "undefined", "drain"}

\* "bounded safety" says the comment in the loop of run_cancel_id(): that it comes
\* to its end.
DrainIsBounded == pc = "drain" ~> pc # "drain"

\* The comment on LiveTransportControl: the references of the runner stay valid
\* over a rebuild, because session and client keep their storage.
ReferencesStayValid == pc # "undefined"
=============================================================================
