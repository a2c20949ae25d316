------------------------------ MODULE AuditLog ------------------------------
(***************************************************************************)
(* bist::observability::AuditLog (include/bist/observability/audit.hpp):   *)
(* the hot thread queues records on a SpscRing, a worker thread drains the *)
(* ring into a file that is rotated when the date changes, stop() joins    *)
(* the worker.  The ring's steps are those of SpscRing; this module adds   *)
(* when each thread may take them.                                         *)
(***************************************************************************)
EXTENDS SpscRing

CONSTANTS
    MaxStart,       \* bound of the model: calls of start()
    MaxDay,         \* bound of the model: the date runs from 1 to MaxDay
    MaxOpenFailure  \* how many times opening the file may fail

ASSUME AuditAssumption ==
    MaxStart \in Nat /\ MaxDay \in Nat /\ MaxOpenFailure \in Nat

VARIABLES
    hot,        \* the hot thread: before start, recording, or joining in stop()
    running,    \* running_
    worker,     \* where the worker is in run()
    fileOpen,   \* file_.is_open()
    today,      \* today_: the date of the file
    date,       \* the wall clock's date
    written,    \* history: the records that reached a file
    starts,     \* history: calls of start() that succeeded
    failures    \* history: failed opens

auditVars == <<hot, running, worker, fileOpen, today, date, written, starts, failures>>
allVars   == <<ringVars, auditVars>>

AuditInit ==
    /\ Init
    /\ hot = "off" /\ running = FALSE /\ worker = "none"
    /\ fileOpen = FALSE /\ today = 0 /\ date = 1
    /\ written = <<>> /\ starts = 0 /\ failures = 0

-----------------------------------------------------------------------------
\* Faulty forms of the definitions below, for the mutation checks.
WorkerTestWithoutDrain ==        \* no drain after the loop
    /\ worker = "loop"
    /\ worker' = IF running THEN "drain" ELSE "done"
    /\ UNCHANGED <<ringVars, hot, running, fileOpen, today, date, written, starts, failures>>

JoinLost ==                      \* the final drain waits for running_ again
    /\ worker = "final" /\ pop = "idle" /\ Empty /\ running
    /\ worker' = "done"
    /\ UNCHANGED <<ringVars, hot, running, fileOpen, today, date, written, starts, failures>>

WriteWhileRunning ==               \* the last drain writes nothing
    /\ worker \in {"drain", "final"}
    /\ TryPopRelease
    /\ written' = IF fileOpen /\ running THEN Append(written, cval) ELSE written
    /\ UNCHANGED <<hot, running, worker, fileOpen, today, date, starts, failures>>

-----------------------------------------------------------------------------
\* open_for_today(): today_ is assigned before the file is opened, so a
\* failed open is not tried again until the date changes.
OpenForToday(ok) ==
    /\ today' = date
    /\ fileOpen' = ok
    /\ \/ ok /\ UNCHANGED failures
       \/ ~ok /\ failures < MaxOpenFailure /\ failures' = failures + 1

(* The hot thread *)

\* start(): opens the file, then spawns the worker; a failed open is an error
\* and leaves the log stopped.
Start(ok) ==
    /\ hot = "off" /\ ~running
    /\ starts < MaxStart
    /\ OpenForToday(ok)
    /\ running' = ok
    /\ hot' = (IF ok THEN "up" ELSE "off")
    /\ worker' = (IF ok THEN "loop" ELSE "none")
    /\ starts' = (IF ok THEN starts + 1 ELSE starts)
    /\ UNCHANGED <<ringVars, date, written>>

\* record(): one try_push.
Record ==
    /\ hot = "up"
    /\ Producer
    /\ UNCHANGED auditVars

\* stop(): running_.exchange(false), then the join ...
Stop ==
    /\ hot = "up" /\ push = "idle"
    /\ running' = FALSE
    /\ hot' = "join"
    /\ UNCHANGED <<ringVars, worker, fileOpen, today, date, written, starts, failures>>

\* ... which returns when run() has; the file is flushed and closed.
StopJoined ==
    /\ hot = "join" /\ worker = "done"
    /\ hot' = "off" /\ worker' = "none"
    /\ fileOpen' = FALSE
    /\ UNCHANGED <<ringVars, running, today, date, written, starts, failures>>

-----------------------------------------------------------------------------
(* The worker: run() *)

WorkerTest ==
    /\ worker = "loop"
    /\ worker' = IF running THEN "drain" ELSE "final"
    /\ UNCHANGED <<ringVars, hot, running, fileOpen, today, date, written, starts, failures>>

\* try_pop up to its releasing store
WorkerPop ==
    /\ worker \in {"drain", "final"}
    /\ TryPopBegin \/ TryPopMove
    /\ UNCHANGED auditVars

\* The releasing store of try_pop and write_one(), which drops the record
\* silently when no file is open.
WorkerWrite ==
    /\ worker \in {"drain", "final"}
    /\ TryPopRelease
    /\ written' = IF fileOpen THEN Append(written, cval) ELSE written
    /\ UNCHANGED <<hot, running, worker, fileOpen, today, date, starts, failures>>

\* The inner loop ends (and sleeps if it took nothing).
WorkerDrained ==
    /\ worker = "drain" /\ pop = "idle" /\ Empty
    /\ worker' = "rotate"
    /\ UNCHANGED <<ringVars, hot, running, fileOpen, today, date, written, starts, failures>>

\* maybe_rotate(); the result of open_for_today() is ignored.
WorkerRotate(ok) ==
    /\ worker = "rotate"
    /\ \/ today # date /\ OpenForToday(ok)
       \/ today = date /\ ok /\ UNCHANGED <<today, fileOpen, failures>>
    /\ worker' = "loop"
    /\ UNCHANGED <<ringVars, hot, running, date, written, starts>>

\* The drain after the loop ends, and with it the thread.
WorkerExit ==
    /\ worker = "final" /\ pop = "idle" /\ Empty
    /\ worker' = "done"
    /\ UNCHANGED <<ringVars, hot, running, fileOpen, today, date, written, starts, failures>>

\* Midnight UTC
NewDay ==
    /\ date < MaxDay
    /\ date' = date + 1
    /\ UNCHANGED <<ringVars, hot, running, worker, fileOpen, today, written, starts, failures>>

-----------------------------------------------------------------------------
Worker == WorkerTest \/ WorkerPop \/ WorkerWrite \/ WorkerDrained
            \/ (\E ok \in BOOLEAN : WorkerRotate(ok)) \/ WorkerExit

AuditNext ==
    \/ \E ok \in BOOLEAN : Start(ok)
    \/ Record
    \/ Stop
    \/ StopJoined
    \/ Worker
    \/ NewDay

AuditSpec == AuditInit /\ [][AuditNext]_allVars

\* Both threads are scheduled: the worker runs, a call of record() or stop()
\* that began goes on.  Nothing forces the hot thread to record or to stop.
FairAuditSpec ==
    /\ AuditSpec
    /\ WF_allVars(Worker)
    /\ WF_allVars(StopJoined)
    /\ WF_allVars(Record /\ push # "idle")

-----------------------------------------------------------------------------
\* When stop() has returned, the worker's exit test, its last drain and the
\* join have left nothing behind in the ring; and unless a rotation failed to
\* open its file, every record that record() accepted is in a file, in order.
DrainedAtStop ==
    hot = "off" => taken = accepted /\ (failures = 0 => written = accepted)

\* stop() returns: the worker cannot be kept in its loops (audit.hpp:68-75).
StopReturns == hot = "join" ~> hot = "off"

\* A record that was accepted reaches the file without any further call.
RecordReachesFile ==
    \A n \in 1 .. MaxPush :
        Len(accepted) >= n ~> (Len(written) >= n \/ failures > 0)
=============================================================================
