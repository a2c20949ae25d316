---------------------------- MODULE ScenarioSteps ----------------------------
(***************************************************************************)
(* What the two scenario runners have in common (run() in runner/replay.hpp*)
(* and in runner/fix_replay.hpp): the loop over the steps of a scenario.   *)
(* A scenario is any sequence of steps; each is chosen when it is run.     *)
(***************************************************************************)
EXTENDS Naturals, Sequences

CONSTANT MaxStep        \* steps of a scenario

VARIABLES
    protocol,   \* scenario_protocol(): "ouch", "fix_oe" or "fix_rd"
    pc,         \* where the runner is; "run" between two steps
    step,       \* number of the step
    cur,        \* the step that is run
    need        \* match_expectation(): events still needed

loopVars == <<protocol, pc, step, cur, need>>

\* An expectation: the message, what its fields must be, how many times.
Expect(msg, field, n) == [msg |-> msg, field |-> field, n |-> n]

NoExpect == Expect("none", "any", 0)

\* A step: the action, the ids of its arguments, a symbol or a tag.
Step(action, id, orig, arg, expect) ==
    [action |-> action, id |-> id, orig |-> orig, arg |-> arg, expect |-> expect]

Unnamed == 0            \* an argument the step leaves out

Plain(action, expect) == Step(action, 0, 0, Unnamed, expect)

Wait == Plain("none", NoExpect)         \* between two steps

LoopInit(first) == pc = first /\ step = 1 /\ cur = Wait /\ need = 0

\* A step is next; the scenario is shorter by what was lost.
Dispatch(lost) == pc = "run" /\ step + lost <= MaxStep

\* The result of the step is recorded and the next one is run, whatever it is.
Finish == pc' = "run" /\ step' = step + 1 /\ cur' = Wait /\ need' = 0

\* The step goes on.
Goto(where, s) == pc' = where /\ cur' = s /\ UNCHANGED <<step, need>>

\* The step was carried out: its expectation, if it has one, is next.
Passed(s) ==
    IF s.expect.msg \in {"none", "server_heartbeat"} THEN Finish
    ELSE pc' = "expect" /\ cur' = s /\ need' = s.expect.n /\ UNCHANGED step

\* An event was taken off the queue.
Count(matched) ==
    IF matched /\ need = 1 THEN Finish
    ELSE need' = (IF matched THEN need - 1 ELSE need) /\ UNCHANGED <<pc, step, cur>>

End(lost) ==
    /\ pc = "run" /\ step + lost > MaxStep
    /\ pc' = "done" /\ UNCHANGED <<step, cur, need>>
=============================================================================
