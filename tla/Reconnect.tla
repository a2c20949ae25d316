------------------------------ MODULE Reconnect ------------------------------
(***************************************************************************)
(* reconnect_with_deadline() of app/reconnect_policy.hpp, as               *)
(* connect_with_retry() of apps/bist_colo.cpp calls it: dial, wait twice   *)
(* as long after each failure, stop when a failure finds the deadline over, *)
(* which has to leave the exchange's cancel-on-disconnect window           *)
(* unreached.  Time is counted from the first attempt.                     *)
(***************************************************************************)
EXTENDS Integers

CONSTANTS
    Deadline,       \* deadline_ms
    InitialBackoff, \* initial_backoff_ms
    MaxBackoff,     \* max_backoff_ms
    MaxDial,        \* the longest connect(): the kernel's bound, not the program's
    Oversleep       \* how late the busy wait may see the clock

ASSUME PolicyAssumption ==
    /\ Deadline \in Nat /\ MaxDial \in Nat /\ Oversleep \in Nat
    /\ InitialBackoff \in Nat \ {0} /\ MaxBackoff \in Nat \ {0}

VARIABLES
    dial,       \* idle, dial, wait, ok, timeout
    elapsed,    \* the time since the first attempt
    backoff, wake, attempts,
    codRisk     \* cod_risk

reconnectVars == <<dial, elapsed, backoff, wake, attempts, codRisk>>

ReconnectInit ==
    /\ dial = "idle" /\ elapsed = 0 /\ backoff = InitialBackoff /\ wake = 0
    /\ attempts = 0 /\ codRisk = FALSE

Lower(a, b) == IF a < b THEN a ELSE b

\* The function is called: the state is reset and the first attempt made.
DialStart ==
    /\ dial = "idle" /\ dial' = "dial" /\ elapsed' = 0 /\ backoff' = InitialBackoff /\ wake' = 0
    /\ attempts' = 1 /\ codRisk' = FALSE

\* try_connect() returns after d; the clock is looked at only when it failed.
DialOk(d) ==
    /\ dial = "dial" /\ dial' = "ok" /\ elapsed' = elapsed + d
    /\ UNCHANGED <<backoff, wake, attempts, codRisk>>

\* A faulty form of DialWaits, for the mutation checks: the wait is not cut.
WaitsFull(d) ==
    /\ dial = "dial" /\ elapsed + d < Deadline
    /\ dial' = "wait" /\ elapsed' = elapsed + d
    /\ wake' = elapsed + d + backoff
    /\ backoff' = Lower(2 * backoff, MaxBackoff)
    /\ UNCHANGED <<attempts, codRisk>>

\* The wait is cut at the deadline.
DialWaits(d) ==
    /\ dial = "dial" /\ elapsed + d < Deadline
    /\ dial' = "wait" /\ elapsed' = elapsed + d
    /\ wake' = elapsed + d + Lower(backoff, Deadline - (elapsed + d))
    /\ backoff' = Lower(2 * backoff, MaxBackoff)
    /\ UNCHANGED <<attempts, codRisk>>

DialGivesUp(d) ==
    /\ dial = "dial" /\ elapsed + d >= Deadline
    /\ dial' = "timeout" /\ elapsed' = elapsed + d /\ codRisk' = TRUE
    /\ UNCHANGED <<backoff, wake, attempts>>

DialWakes ==
    /\ dial = "wait" /\ dial' = "dial" /\ attempts' = attempts + 1
    /\ \E late \in 0 .. Oversleep : elapsed' = wake + late
    /\ UNCHANGED <<backoff, wake, codRisk>>

\* A call that is under way.
Dialing ==
    \/ \E d \in 0 .. MaxDial : DialOk(d) \/ DialWaits(d) \/ DialGivesUp(d)
    \/ DialWakes

\* It returns, and its variables are gone.
DialEnds ==
    /\ dial' = "idle" /\ elapsed' = 0 /\ backoff' = InitialBackoff /\ wake' = 0
    /\ attempts' = 0 /\ codRisk' = FALSE

DialReturns == dial \in {"ok", "timeout"} /\ DialEnds

ReconnectSpec == ReconnectInit /\ [][DialStart \/ Dialing \/ DialReturns]_reconnectVars

-----------------------------------------------------------------------------
(* Properties *)

\* The call is not "hard-bounded", as reconnect_policy.hpp:24 has it: a connect() that
\* blocks past the deadline is waited for, and its success is taken (75).  What is bounded,
\* over any backoff, any length of the dials and a clock that is seen late: no wait goes beyond the deadline, no attempt begins later than one late wake
\* up after it, and the call does not give up before it.
AttemptsInBudget ==
    /\ dial = "wait" => wake <= Deadline
    /\ dial = "dial" => elapsed <= Deadline + Oversleep
    /\ dial = "timeout" => elapsed >= Deadline
=============================================================================
