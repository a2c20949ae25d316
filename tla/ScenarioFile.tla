---------------------------- MODULE ScenarioFile ----------------------------
(***************************************************************************)
(* A scenario file and its three readers: the linter that is the gate of   *)
(* the repository (apps/tools/scenario_lint.cpp), the loader               *)
(* (src/runner/scenario_loader.cpp) and the dispatch of the two runners.   *)
(* Each goes over the steps from the first to the last, so they are taken  *)
(* together, one step at a time.  A step is its id, its action, the values *)
(* of the keys of its args that hold a token, the message it expects and a *)
(* key of the fields it expects of it.                                     *)
(***************************************************************************)
EXTENDS Integers, FiniteSets

CONSTANTS
    MaxStep,    \* steps of a file
    Token       \* tokens that fit the 14 bytes of the wire

ASSUME FileAssumption == MaxStep \in Nat /\ Token \cap {"long", "empty", "map"} = {}

VARIABLES
    proto,      \* preconditions.protocol; "absent" if it has none
    steps,      \* steps read
    clean,      \* the linter has no issue yet
    lastId, seenIds, tokenSeen,     \* last_id, seen_ids, token_seen
    given,      \* what the runner's orders were named
    clash,      \* history: a name was too long, or given twice
    misread     \* history: arguments were not of the type the handler takes

vars == <<proto, steps, clean, lastId, seenIds, tokenSeen, given, clash, misread>>

Absent == "absent"      \* a protocol or an expectation that is not there
NoId   == -2            \* an id that is not there, or no number

\* Other expectations than a message: the scalar "" or a map whose msg is no scalar,
\* and what is neither a scalar nor a map with a msg.
Blank     == "blank"
Malformed == "malformed"

-----------------------------------------------------------------------------
(* The linter *)

ValidProtocols == {"ouch", "fix_oe", "fix_rd", "drop_copy"}

\* What the linter takes to be the protocol.
LintedAsOuch == proto \in {Absent, "ouch"}

OuchActions ==
    {"ouch_login", "ouch_logout", "wait_heartbeat", "expect", "place", "cancel_by_token",
     "cancel_by_order_id", "replace", "mass_quote", "switch_gateway", "burst_place",
     "trigger_opening_match", "inactivate_all"}

FixActions ==
    {"fix_logon", "fix_logout", "fix_amr_subscribe", "fix_amr", "fix_wait_heartbeat",
     "wait_heartbeat", "fix_place", "fix_cancel", "fix_replace", "fix_trade_report", "expect",
     "trigger_match", "trigger_opening_match", "place", "cancel_by_token",
     "cancel_by_order_id", "replace"}

OuchEvents ==
    {"any", "order_accepted", "order_rejected", "order_replaced", "order_canceled",
     "order_executed", "mass_quote_ack", "mass_quote_rejection", "login_accepted",
     "login_rejected", "socket_closed", "server_heartbeat"}

FixEvents ==
    {"any", "fix_logon_response", "fix_logout_complete", "fix_execution_report",
     "fix_cancel_reject", "fix_trade_report", "fix_amr_ack", "fix_session_status",
     "server_heartbeat"}

\* The keys of expect.fields: one of the list for OUCH, one of the list for FIX.
OuchFieldKeys == {"token"}
FixFieldKeys  == {"Symbol"}

\* The keys under which an action names something new.
ProducerKeys(action) ==
    CASE action \in {"place", "fix_place", "mass_quote", "burst_place"} -> {"token", "cl_ord_id"}
      [] action \in {"replace", "fix_replace"} -> {"new_token", "cl_ord_id"}
      [] OTHER -> {}

\* The names a step produces: values of those keys that are scalars.
Names(s) == {k \in ProducerKeys(s.action) \cap DOMAIN s.args : s.args[k] \notin {"empty", "map"}}

ExpectsReject(s) == s.expect \in {"order_rejected", "fix_cancel_reject"}

IdPasses(s) ==
    /\ s.id # NoId
    /\ s.id \geq 0 => s.id \notin seenIds /\ s.id > lastId

\* A message that is empty is not looked up.
ExpectPasses(s) ==
    /\ s.expect \in {Absent, Blank} \cup (IF LintedAsOuch THEN OuchEvents ELSE FixEvents)
    /\ s.fields \subseteq (IF LintedAsOuch THEN OuchFieldKeys ELSE FixFieldKeys)

LengthPasses(s) == \A k \in DOMAIN s.args : s.args[k] = "long" => k = "token_ref"

\* A faulty form, for the mutation checks: a step that expects anything may repeat.
NamesPassLoosely(s) == s.expect # Absent \/ \A k \in Names(s) : s.args[k] \notin tokenSeen

\* No name twice, not in one step either, unless the step expects a reject.
NamesPass(s) ==
    \/ ExpectsReject(s)
    \/ /\ \A k \in Names(s) : s.args[k] \notin tokenSeen
       /\ \A j, k \in Names(s) : s.args[j] = s.args[k] => j = k

ActionPasses(s) == s.action \in (IF LintedAsOuch THEN OuchActions ELSE FixActions)

\* check_step(), check_step_token()
Lint(s) ==
    /\ clean' = (IdPasses(s) /\ ActionPasses(s) /\ ExpectPasses(s)
                    /\ LengthPasses(s) /\ NamesPass(s))
    /\ IF s.id # NoId /\ s.id \geq 0
       THEN lastId' = s.id /\ seenIds' = seenIds \cup {s.id} ELSE UNCHANGED <<lastId, seenIds>>
    /\ tokenSeen' = tokenSeen \cup {s.args[k] : k \in Names(s)}

-----------------------------------------------------------------------------
(* The loader *)

IsFixOeOnly == proto = "fix_oe"         \* a faulty form, for the mutation checks

IsFix == proto \in {"fix_oe", "fix_rd"}

\* scalar(): the value of a key, or what is taken for it.
Scalar(s, key, fallback) ==
    IF key \in DOMAIN s.args /\ s.args[key] # "map" THEN s.args[key] ELSE fallback

\* The type the arguments of an action are parsed into.
ParsedAs(action) ==
    CASE IsFix /\ action = "place"          -> "fix_place"
      [] IsFix /\ action = "replace"        -> "fix_replace"
      [] IsFix /\ action = "wait_heartbeat" -> "fix_wait_heartbeat"
      [] ~IsFix /\ action \in {"place", "replace", "wait_heartbeat"} -> action
      [] action \in {"cancel_by_token", "cancel_by_order_id"} ->
             IF IsFix THEN "fix_cancel" ELSE action
      [] action \in {"fix_amr_subscribe", "fix_amr"} -> "fix_amr"
      [] action \in {"ouch_login", "mass_quote", "switch_gateway", "inactivate_all",
                     "burst_place", "fix_logon", "fix_wait_heartbeat", "fix_place",
                     "fix_cancel", "fix_replace"} -> action
      [] OTHER -> "monostate"

\* The name of a new order: for FIX the cl_ord_id, or what OUCH would take.
NewName(s) ==
    CASE ParsedAs(s.action) \in {"place", "mass_quote"} -> Scalar(s, "token", "empty")
      [] ParsedAs(s.action) = "replace" -> Scalar(s, "new_token", "empty")
      [] ParsedAs(s.action) = "fix_place" -> Scalar(s, "cl_ord_id", Scalar(s, "token", "empty"))
      [] ParsedAs(s.action) = "fix_replace" ->
             Scalar(s, "cl_ord_id", Scalar(s, "new_token", "empty"))
      [] OTHER -> "empty"

-----------------------------------------------------------------------------
(* The dispatch of the runners *)

\* run() of ScenarioRunner: the type each handler takes; "any" if it takes none.
OuchHandler(action) ==
    CASE action \in {"ouch_login", "place", "cancel_by_token", "cancel_by_order_id", "replace",
                     "mass_quote", "switch_gateway", "burst_place"} -> action
      [] action \in {"ouch_logout", "inactivate_all", "expect", "wait_heartbeat",
                     "trigger_opening_match"} -> "any"
      [] OTHER -> "unsupported"

\* run() of FixScenarioRunner
FixHandler(action) ==
    CASE action \in {"fix_amr_subscribe", "fix_amr"} -> "fix_amr"
      [] action \in {"fix_wait_heartbeat", "wait_heartbeat"} -> "fix_wait_heartbeat"
      [] action \in {"fix_place", "place"} -> "fix_place"
      [] action \in {"fix_cancel", "cancel_by_token", "cancel_by_order_id"} -> "fix_cancel"
      [] action \in {"fix_replace", "replace"} -> "fix_replace"
      [] action = "fix_logon" -> action
      [] action \in {"fix_logout", "expect", "trigger_match"} -> "any"
      [] OTHER -> "unsupported"

\* scenario_protocol(): the protocol decides the runner.
FixRuns == proto \in {"fix_oe", "fix_rd"}

Handler(action) == IF FixRuns THEN FixHandler(action) ELSE OuchHandler(action)

Run(s) ==
    LET name == NewName(s)
        makes == Handler(s.action) # "unsupported" /\ name # "empty"
    IN  /\ given' = IF makes THEN given \cup {name} ELSE given
        /\ clash' = (clash \/ (makes /\ ~ExpectsReject(s) /\ (name = "long" \/ name \in given)))
        /\ misread' = (misread \/ (s.hasArgs /\ Handler(s.action) \notin
                                    {"any", "unsupported", ParsedAs(s.action)}))

-----------------------------------------------------------------------------
(* Files *)

Line(id, action, args, hasArgs, expect, fields) ==
    [id |-> id, action |-> action, args |-> args, hasArgs |-> hasArgs, expect |-> expect,
     fields |-> fields]

NoArgs == [k \in {} |-> "empty"]

TokenArgs ==
    UNION {[keys -> Token \cup {"long", "empty", "map"}] :
              keys \in {ks \in SUBSET {"token", "cl_ord_id", "new_token"} : Cardinality(ks) <= 2}}
    \cup [{"orig_cl_ord_id"} -> {"long"}] \cup [{"token_ref"} -> {"long"}]

AllActions == OuchActions \cup FixActions \cup {"other"}
AllEvents  ==
    OuchEvents \cup FixEvents \cup {"fix_quote_status", "other", Absent, Blank, Malformed}
AllFields  == OuchFieldKeys \cup FixFieldKeys \cup {"other"}

\* The actions whose arguments hold tokens.
TokenActions == {a \in AllActions : ProducerKeys(a) # {}} \cup {"fix_cancel", "cancel_by_order_id"}

\* The head of the file: a name, a protocol, the flag.
Init ==
    /\ proto \in ValidProtocols \cup {Absent, "other"}
    /\ clean \in BOOLEAN /\ (clean => proto \in ValidProtocols)
    /\ steps = 0 /\ lastId = -1 /\ seenIds = {} /\ tokenSeen = {} /\ given = {}
    /\ clash = FALSE /\ misread = FALSE

\* Only a file without an issue gets past the gate.
ReadStep(s) ==
    /\ clean /\ steps < MaxStep /\ steps' = steps + 1
    /\ Lint(s) /\ Run(s) /\ UNCHANGED proto

\* A step without an id that follows, or without tokens, or with them, or one that
\* looks at a field of what it expects.
ReadId == \E id \in {NoId, -1, 0} : ReadStep(Line(id, "expect", NoArgs, FALSE, Absent, {}))

ReadAction ==
    \E action \in AllActions, has \in BOOLEAN, expect \in AllEvents :
        ReadStep(Line(steps + 1, action, NoArgs, has, expect, {}))

ReadTokens ==
    \E action \in TokenActions, args \in TokenArgs,
       expect \in {Absent, "any", "order_rejected", "fix_cancel_reject"} :
        ReadStep(Line(steps + 1, action, args, TRUE, expect, {}))

ReadFields ==
    \E fields \in SUBSET AllFields :
        ReadStep(Line(steps + 1, "expect", NoArgs, FALSE, "any", fields))

Next == ReadId \/ ReadAction \/ ReadTokens \/ ReadFields

Spec == Init /\ [][Next]_vars

-----------------------------------------------------------------------------
(* Properties *)

\* The linter's promise about tokens, kept by what the loader makes of the file: in
\* a file that passes, whatever keys its author used, every new order and quote gets
\* a name that fits the wire and that no order before it has, unless a reject is
\* expected.  Left out are the tokens a burst counts up and the ids of FIX cancels,
\* neither of which the linter looks at.
PassedNamesAreFresh == clean => ~clash

\* The loader decides by the protocol what the arguments are parsed into, the runner
\* that the protocol selects takes one type: they agree, and no handler falls back to
\* empty arguments although the step has some.
ArgumentsReachHandler == ~misread
=============================================================================
