# Verification of bist-colo-client

TLA+ models of the stateful parts of the co-location client for Borsa Istanbul
(OUCH over SoupBinTCP, FIX), TLC configurations that check them on small
instances, and TLAPS proofs of what matters most for every instance.  Paths are
relative to the repository; line numbers are those of the commit beside which
this directory is kept.  `PROJECT.json` lists components, runs, mutants, the
map from definitions to lines, findings, hazards and theorems.

## 1. The system and its parts

| Part | State it keeps | Operations | Talks to |
|---|---|---|---|
| SPSC ring `core/ring_buffer.hpp` | two counters, slots | `try_push`, `try_pop` | one producer thread, one consumer thread |
| Audit log `observability/audit.hpp` | ring, `running_`, file, date | `start`, `record`, `stop`, worker loop, rotation | I/O thread records, worker writes |
| OUCH session `ouch/session.hpp` | session state, inbound buffer, stashed output, next sequence number, timers | `begin_login`, `send_*`, `poll_io`, `request_logout` | `TcpSocket`, handlers, audit callbacks |
| TCP socket `net/tcp_socket.hpp` | descriptor | `connect`, `send`, `recv`, `close` | kernel |
| Sequence store `observability/sequence_store.hpp` | file, last saved number and time | `load`, `save`, `save_if_due`, `flush` | live client |
| Live client `apps/bist_colo.cpp` `run_live`, `LiveTransportControl` | slots for socket, session and client; login parameters | start, resident loop, rebuild, gateway switch, exit | session, store, audit log, scenario runner |
| Throttler `domain/throttler.hpp` | ten window slots | `try_acquire`, `available`, `reset` | OUCH client |
| OUCH client, token registry, order book | `seen_`, `sequence_`, `states_` | `place`, `replace`, `cancel_by_token`, `cancel_by_order_id`, `mass_quote` | throttler, session |
| Mock OUCH gateway `src/mock/ouch_gateway.cpp` | resting orders, seen tokens, quotes, current descriptor | worker thread, `inactivate_all_resting`, `stop` | client socket, scenario thread |
| Mock wiring `apps/bist_colo.cpp` `run_one_scenario`, `run_one_fix_scenario`, `MockTransportControl` | slots, both gateways | choice of the stack, login, rebuild, teardown | runners, mock gateways, acceptor |
| Scenario runner `runner/replay.hpp` | event queue, token index | steps, `wait_for_event`, expectations | OUCH client, transport |
| Reconnect policy `app/reconnect_policy.hpp` | attempts, backoff, `cod_risk` | dial, wait, give up at the deadline | both transports |
| FIX runner `runner/fix_replay.hpp` | event queue, token index | logon, logout, order, request and expectation steps | FIX clients |
| FIX clients `src/fix/internal/oe_app.hpp`, `rd_app.hpp` | `state_`, `bound_`, `new_password_` | callbacks of QuickFIX, requests, `login`, `logout` | QuickFIX, FIX runner |
| FIX acceptor `src/fix/internal/acceptor_mock.hpp` | subscriptions, request ids | handlers of logons, orders, requests | QuickFIX |
| Scenario files: `runner/scenario.hpp`, `src/runner/scenario_loader.cpp`, `apps/tools/scenario_lint.cpp` | lists of a pass over a file | lint, load, dispatch | runners |
| Reactors, instrument cache, PTRM, codec, configuration, other tools | handler tables, maps or nothing | | |

The client is one I/O thread that polls a non-blocking socket, a worker thread
of the audit log joined by the ring, in mock mode the worker of each gateway,
and in a FIX scenario the threads of QuickFIX for the initiator and the
acceptor.  What makes it hard:

* **Threads.** The ring's two sides; `stop()` of the audit log against its
  worker; the mock gateway's worker against the scenario thread that calls
  `inactivate_all_resting()` on the same socket and the same map; the QuickFIX
  callbacks against the runner that reads and stores the same state.
* **Partial I/O.** Packets arrive cut anywhere; a write may take part of a
  buffer and stash the rest; the last packets may come together with the end of
  the connection.
* **Crashes and lost connections.** The cursor on disk has to be neither lost nor
  ahead of what was handled, wherever the process is killed and whichever save
  fails; a FIX request may be accepted by a session that has lost its connection.
* **Time.** Heartbeats and the watchdog; throttle windows that are recycled
  lazily; a rotation at midnight that may fail; a reconnect that has to end
  before the exchange cancels on disconnect; expectations with a deadline.
* **Several connections.** Tokens, the token indices, the acceptor's
  subscriptions and the gateway's books outlive a connection; packets and
  answers do not.
* **Three readings of a file.** The linter, the loader and the runner each have
  their own idea of what an action, an event and a token are.

What each part must do to be correct:

* ring: a bounded FIFO queue; no two threads in one slot;
* audit log: nothing accepted remains in the ring at stop, stop returns,
  accepted records reach a file;
* session: its sequence number is the gateway's; no byte is lost or repeated;
  a silent peer is noticed; bytes leave in order;
* live client: the cursor on disk never passes a message that was not handled;
  a clean exit leaves it exact; it catches up; a restart skips nothing;
* throttler: exactly the budget of the last ten windows;
* order flow: no order lost or ended twice; a token names one order; an order
  id known to the client is that of its token; logins are answered; the
  gateway stops;
* scenarios: a step is answered by its own answers; a cancel names the order it
  means; a session that says it is active is; what a session that is over leaves
  behind answers no later step; a reconnect keeps its budget; every scenario ends;
* scenario files: what the linter passes, the loader and the runner understand.

Not all of this holds of the code: section 3 says which runs show it, which refute it, and
where code and comments differ without a run.

## 2. Modules

| Module | Models | Extends / implements |
|---|---|---|
| `BoundedQueue` | abstract queue with a bounded number of values | |
| `SpscRing` | `SpscRing<T, Capacity>` split at each access another thread sees | implements `BoundedQueue` |
| `AuditLog` | `AuditLog` with its worker, clock and failing opens | extends `SpscRing` |
| `OuchSession` | `OuchSession` over a socket that blocks, cuts, closes and resets | |
| `LiveClient` | `run_live`, `LiveTransportControl`, `SequenceStore` and the process being killed | |
| `RollingBudget` | abstract budget told from the whole history of orders | |
| `Throttler` | `Throttler` | implements `RollingBudget` |
| `OrderWire` | the TCP connections between client and mock gateway | |
| `OuchClient` | `OuchClient`, `TokenRegistry`, `OrderBook` | extends `OrderWire` |
| `MockGateway` | `OuchMockGateway`: worker and `inactivate_all_resting` | extends `OrderWire` |
| `OrderFlow` | `run_one_scenario`, `MockTransportControl`, reading and the two threads together | extends `OuchClient`, `MockGateway` |
| `ScenarioSteps` | the loop over the steps that both runners share | |
| `Reconnect` | `reconnect_with_deadline` | |
| `OuchReplay` | `ScenarioRunner` over either transport and two gateways | extends `ScenarioSteps`, `Reconnect` |
| `FixClient` | `OeApp`, `RdApp` on a QuickFIX initiator | extends `ScenarioSteps` |
| `FixAcceptor` | `AcceptorMockApp` | extends `FixClient` |
| `FixReplay` | `FixScenarioRunner` with client and acceptor | extends `FixAcceptor` |
| `Replay` | a scenario of any protocol | extends `FixReplay`, `OuchReplay` |
| `ScenarioFile` | linter, loader and dispatch over one file | |
| `AuditLogProofs`, `OuchSessionProofs`, `LiveClientProofs`, `ThrottlerProofs`, `OrderFlowProofs`, `FixReplayProofs`, `ReplayProofs`, `ScenarioFileProofs` | theorems and proofs about the module they are named after and the modules it extends | |

**Ring.** `head` and `tail` are counted modulo `Modulus` (2^64 in the code, 4 in
the runs, so that both wrap) and a call is split into the read of the other
side's counter, the access to the slot and the release store.  The
acquire/release pairs make these steps sequentially consistent as far as the
slots are concerned, so interleaving is enough.

**Audit log.** `record` is the producer's call; the worker's loop is `WorkerTest`,
`WorkerPop`, `WorkerWrite`, `WorkerDrained`, `WorkerRotate`, `WorkerExit`.
`OpenForToday` may fail; `today_` is assigned before the open, as in the code.

**Session.** The inbound stream is counted in halves of a packet (a packet is
complete when both are there), the outbound stream in halves of a write, so every
cut that matters is a state.  A write is `Writes`: the socket takes some bytes and then
would block (`Write` stashes the rest), or takes some and fails (`Tear` drops the rest, and
the connection is gone).  One `poll_io` is `ReadSome`, then the dispatch of the
packets one by one, then `TickTimers`; an error ends the poll where the code
returns.  Timers count up to the two thresholds.

**Live client.** A packet is handled in two steps, `AuditRecv` (which may save) and
`Dispatch` (which counts and calls handlers), because the process can be killed
between them.  `Field` is what `snprintf` leaves of the sequence number in the
login request.  `rebuilds` counts the rebuilds of the current process; a resident
process has none.

**Throttler.** `Used` sums ten slots by their window ids; `window_id` divides a
clock of `Resolution` ticks per window; the first window is arbitrary.

**Order flow.** The scenario thread (`main`, and `caller` while it is inside
`inactivate_all_resting`) and the worker (`worker.at`).  A handler of the gateway is
one action up to its sends, because its state is the worker's own or is held under
`state_mu_`; each write is an action, because the other thread may write in
between.  `resting` maps a token to the id of the order, `orders`, `rested` and
`ended` are history.  A new connection takes the client's slot: unread answers
are lost, unread requests may be.  A descriptor the worker has closed may
be the number of the next connection (`Behind`).  The tokens in `Long` have more than 14
bytes and begin with the 14 of `Stem`: the registry remembers them whole, `OnWire` is what
messages carry.  A stream whose framing is broken
(`garbled`) yields no more order events until the next login: what the parser makes
of such bytes is arbitrary.

**Scenarios.** A scenario is any sequence of the kinds of steps that the files under
`scenarios/` use, chosen as they are run; it goes on after a step that failed, as
`run()` does.  `pc` is where the runner is, `cur` the step, `need` the `occurrences`
that are left.  A timeout may come at any moment at which the runner waits with an empty
queue, because the peer is as slow as it likes.

**OUCH scenarios.** `OuchReplay` sees a session as its state and two queues, since
`OuchSession` and `OrderFlow` have the detail; `sess = "none"` are the emptied slots of
a rebuild under way.  `mode` is the mock with two gateways, the live client, or the live
client without a secondary host.  The exchange of the live modes answers as the mock
gateway does.  A step may fail at a session that is not active, at the throttle, the
registry, the deadline or a mismatch, the one connect of the mock's rebuild may fail
(`ConnectFailed`); `clean` remembers whether a step failed, or a connection was given up with
answers on it that no step will get (`EmptySlots`).  `owed` counts the
answers that are owed to the steps so far and not yet taken.  A step that uses the session in
slots that a failed rebuild left empty has undefined behaviour: the program stops in
`pc = "undefined"`.

**FIX scenarios.** QuickFIX is external.  Its initiator thread connects, takes and
sends logons and logouts, and runs a callback as the substeps `Store` and `Fire` in the
order in which the code makes them; the thread of the runner may call the client
between any two.  Requests are taken while `bound_`, whatever the connection is; one made
before the logon is answered may stay in the store (`Send`).  `cut` counts the logons that
were over when a `fix_logout_complete` found the session down; one that passes with the
connection still up ends none.  A
connection may be lost at any moment outside of a callback, up to `MaxDrop` times.  The
acceptor's handlers are one action each: they run on one thread and share no state with
the client.

**Scenario files.** A file is read one step at a time by the linter's `check_step`, by the
loader and by the dispatch of the runner together, so that the state is what each of
them remembers of the steps before.  A step is its id, its action, the values under the
keys that may hold a token, whether it has arguments, the event it expects and the keys of
the fields it expects; the actions and events range over everything the lists name and over
one they do not, the expectations also over those without a message (`Blank`), which the
linter does not look up, and the field keys over one of each list and one of none.

## 3. Runs

Every property of a passing run has a mutant in `PROJECT.json`: a plausible
bug of the code under which TLC finds that property violated.  The other runs are findings: each
checks one property that a comment of the code states, and TLC refutes it.

| Run | Bounds | Shows |
|---|---|---|
| `audit` | ring of 2, counters mod 4, 5 records, 2 starts, 1 midnight, 1 failing open | `NoSlotRace`, `RingInv`, `ImplementsQueue` for the ring in use; `DrainedAtStop`, `StopReturns`, `RecordReachesFile` |
| `session` | 3 packets in, 3 writes out, cut or failing at any byte | `TypeOK`, `SequenceAgreement`, `EveryByteOnce`, `SilentPeerDetected` |
| `session_wire_order` | 3 writes | finding: `WireInOrder` fails |
| `live` | 3 messages, 2 starts, 2 rebuilds, 1 failing save | `CursorInv`, `CursorSafe`, `ReplayCursorSafe`, `CleanExitKeepsCursor`, `CursorCatchesUp` |
| `live_resume` | 4 messages, 2 starts | finding: `ResumeSkipsNothing` fails |
| `throttler` | limit 2, 14 windows, one refusal, one reset | `RollingBound`, `AvailableIsExact`, `ThrottlerInv`, `ImplementsBudget` |
| `order_flow` | 2 calls, quotes among them, 2 connections, logins accepted and rejected, 1 pinned token, cut on the wire, 1 heartbeat, 1 end-of-day pass | `OneFate`, `TokenOnce`, `HeardIsRight`, `OrdersAreKnown`, `OnlyPassGarbles`, `LoginAnswered`, `StopReturns` |
| `order_framing` | 2 calls, 1 connection, 1 end-of-day pass | finding: `FramesIntact` fails |
| `replay` | 3 steps, OUCH over the mock or over one live host, FIX OE or RD with 1 lost connection, bursts of 2 orders with 2 attempts, deadline 2, backoff 1 to 2, dials and wake-ups 1 late | `FixTypeOK`, `ActiveMeansLoggedOn`, `OneBreadcrumb`, `OnlyAnyIsMisled`, `DuplicateRejected`, `CancelNamesOrder`, `AttemptsInBudget`, `AnswersAddUp`, `TokenOnceAnywhere`, `LogoutTakesEffect`, `ScenarioEnds` |
| `replay_cancel_id` | the same, mock only | finding: `DrainIsBounded` fails |
| `replay_dangling` | the same, live with both hosts or with one | finding: `ReferencesStayValid` fails |
| `scenario_file` | files of 3 steps, 2 tokens that fit and one that is too long | `PassedNamesAreFresh`, `ArgumentsReachHandler` |

Why the bounds are enough.  Five pushes into two slots pass the wrap of the
counters and reuse every slot twice.  Three packets are one that is cut, one behind it
and one that is an error between them; three writes are one stashed, one that
overtakes and one after the flush.  Two starts are one kill and one resumption
and two rebuilds let the second begin from a base the first has made stale.  Fourteen
windows reuse four of the ten slots, from any starting window.  Two calls are an
order and its replacement, its cancel or the same token once more, while two connections,
a heartbeat and one end-of-day pass cut that at every point; longer chains of replacements
are what the theorems of `OrderFlowProofs` are for, which are about any number of calls.
Of the rejected logins the run has those the gateway is armed to reject: a wrong password
is rejected by the same branch.  `Radix` is 2 in `live` so that the loss of the
last digit changes numbers as small as 2; the finding `live_resume` uses 10.

Three steps of a scenario are an order, its replacement and a cancel through that chain;
an order, a reconnect or a change of gateway and the same token again; a logout, a
logon and the step that a leftover might answer.  A lost connection takes the
place of a step, so that a scenario with one has two steps around it.  The policy's times are
small numbers whose order is that of the code's constants: a backoff that doubles once
and is then capped, a wait that the deadline cuts.  `EventCap` is 1 (1024 in
`replay.hpp:483`) so that a queue below, at and above it occurs, `MaxTry` is 2 (1000
attempts of an order of a burst).  Three lines of a file are two that clash with one
between them.

Deadlock is checked where the system goes on: the session polls for ever, an
order flow ends in the explicit step `Stopped` and a scenario in `Over`, so a join that
never returns is a deadlock there.  The audit log stops after its last stop, the live
client after its last start, the throttler's clock ends with `MaxWindow` and a file ends
where it is refused or read; those configurations switch the check off.

**Fairness.**  `AuditLog`: the worker's steps and the caller's half-finished calls,
since both are running threads.  `OuchSession`: `Poll`, which the resident loop and
`wait_for_event` call without end, and the clock.  `LiveClient`: reading and
dispatching, which are one loop, and the clock; nothing is assumed of saves,
kills or the gateway.  `OrderFlow`: the worker, and of the scenario's thread only what
it does without a further step of the scenario (`Going`): finish a call it is in, read
while it waits for a login, shut down.  The login's timeout is never forced.
`Replay`: some thread of the process runs as long as one can (`Work`); no loss of a
connection is forced, and no thread is preferred over another.

### Findings

1. `session_wire_order`: a write made while bytes are stashed goes out before them
   (`session.hpp:187`).  The disorder is bounded by two theorems: bytes in order stay in
   order over every step that leaves nothing stashed, and a session whose socket takes
   every write whole sends its packets in order.
2. `live_resume`: the login request loses the last digit of the cursor
   (`session.hpp:95`).
3. `replay_cancel_id`: the loop with which `run_cancel_id` drains the queue pushes every
   event back, so that with 1 to 1024 events queued it never ends (`replay.hpp:476`);
   its comment says "bounded safety".
4. `replay_dangling`: a rebuild whose connection cannot be made leaves the slots empty,
   and the runner reads the state of the session in them (`bist_colo.cpp:794`,
   `replay.hpp:375` and 649); the comment at `bist_colo.cpp:711-713` says that the runner's
   references stay valid.  With one host it takes a change of gateway that is refused:
   `on_secondary_` stays set (`bist_colo.cpp:762`) and the next relogin dials a host without a name.
5. `order_framing`: the two writes of a message of the worker and those of an end-of-day pass on
   the scenario's thread go to one socket without a lock (`ouch_gateway.cpp:261`), and the client's
   stream loses its framing; the comment at `ouch_gateway.cpp:290-292` says that the two "can
   safely interleave".  `OnlyPassGarbles` bounds it: nothing but a pass breaks the framing, and the next
   connection is framed again.

Differences between code and comments that were seen while modelling and have no run.  Of the
first six, what the comment says is false in the model, so no property states it; the
properties named are what does hold:

* `reconnect_policy.hpp:24` calls the reconnect budget "hard-bounded", and lines 10-13 have it stay
  below the cancel-on-disconnect window.  `connect()` blocks for as long as the kernel tries
  (`tcp_socket.hpp:86`) and the clock is looked at after a failure only (`reconnect_policy.hpp:75-80`):
  one attempt may end any time after the deadline, and its success is taken.  `MaxDial` is that
  time, which nothing in the program bounds.  Bounded are the waits and the beginning of the attempts
  (`AttemptsInBudget`);
* `fix_replay.hpp:487-489` says that "every breadcrumb in flight is from the prior session and must
  not satisfy a downstream expect".  The wait for `fix_logout_complete` ends when the state is no longer
  Active, which `onLogout()` stores before it fires its event: that event comes after the queue was
  cleared and answers an `expect any` (529).  One such event is left at most (`OneBreadcrumb`), and
  it answers nothing but `any` (`OnlyAnyIsMisled`);
* "once the session is disconnected" (`fix_replay.hpp:487`) is not always so either: `login()`
  may store LoggingIn over the Active of the logon it caused (`oe_app.hpp:266`), and a
  `fix_logout_complete` behind it passes at once, with the session logged on.  What holds is that a
  session that says Active is logged on (`ActiveMeansLoggedOn`);
* `token_registry.hpp:6-7` promises "enforcing uniqueness locally".  `allocate()` does not look at
  `seen_` (33), and `register_external` remembers texts of which the wire carries 14 bytes
  (`client.hpp:100`, `types.hpp:182-189`): a replacement may make a second order of one token.  The
  linter refuses tokens that are too long, the runner does not.  `TokenOnce` holds with pinned tokens
  kept apart from those;
* `sequence_store.hpp:3` calls the cursor durable.  The first packet of a relogin is audited
  before it is counted, and the unsigned difference in `save_if_due` (118) makes the 0 of the new
  session a huge advance: the file names no session until the next save, and a process
  killed by then starts "from current".  No message counted as handled is lost by it (`ReplayCursorSafe`);
* `scenario_lint.cpp:13-14` and 36-37 want what passes to be known to the loader and the runner.
  The linter passes `fix_trade_report` and `trigger_opening_match` in a FIX scenario
  and any FIX step in one of `drop_copy`; an expectation whose `msg` is empty or no scalar
  (230-232, 252), `fix_session_status`, and the FIX events in `drop_copy`; and keys of fields that
  no event has (`OrderQty`, `MsgType`, `next_sequence` and more).  No runner knows them.  What agrees
  are the names and the types of the arguments (`PassedNamesAreFresh`, `ArgumentsReachHandler`);
* after a rotation whose open fails, every record is dropped until the next midnight
  (`audit.hpp:147`, 152), and `audit.hpp:6` says every message is recorded; the worker
  rotates only when it finds the ring empty;
* complete packets read together with the end of the connection are never dispatched
  (`session.hpp:135`, against 132);
* a packet whose rest was stashed is never audited: `on_audit_sent` is only called on
  the path of a whole write (`session.hpp:193-200`);
* `heartbeat_ms * 1000000` is computed in 32 bits (`bist_colo.cpp:978`) and wraps above
  4294 ms; while a socket stays blocked each poll stashes one more heartbeat
  (`session.hpp:381`); the watchdog watches an active session only;
* the resident loop ends at the first error of `poll_io` (`bist_colo.cpp:1008`); nothing
  reconnects;
* throttle windows are those of the client's monotonic clock; eleven of them can
  fall in ten of the exchange's, with up to twice the budget (`throttler.hpp:27`);
* `OrderBook` is never updated from events and `TokenRegistry::map_to_order_id` is
  never called by the client (`client.hpp:8-9`, `token_registry.hpp:4-5`);
* the gateway sends Accepted before it tracks the order, so that an end-of-day pass the
  runner starts on hearing it can miss the order (`ouch_gateway.cpp:330`);
* the mock answers a cancel by order id without removing the order from `resting_`;
* only the primary gateway is hooked to `inactivate_all` (`bist_colo.cpp:662`): after a
  change of gateway the step does nothing to what rests on the secondary one;
* a `fix_logon` step that runs before the initiator's own first logon fails, because
  `login()` wants `bound_` (`oe_app.hpp:259`); a `fix_logout` there does nothing and
  succeeds, and `fix_logout_complete` then passes because the state is not Active;
* the acceptor keeps a subscription over logons, so that the first request of a later
  logon is a duplicate too, while its comment (`acceptor_mock.hpp:208`) speaks of a second
  request within the same logon;
* the linter checks neither negative ids, nor the tokens a burst
  counts up, nor the ids of FIX cancels;
* step 9 of `scenarios/fix_oe_temel.yaml` writes `msg` and `occurrences` under `args`,
  where `load_scenario` does not read them: the step expects nothing.

## 4. Proofs

Every theorem is proved for all values of the constants under the module's named
assumption, none of which is more than typing and positivity (`RingAssumption` also
asks that the capacity divides the modulus, and is smaller than it by two, which the
power-of-two capacity of the code ensures).  A hypothesis that a theorem has besides, as
`PinnedApart` of two of them, is explained with it.

* `AuditLogProofs`.  `RingInv` relates the counters modulo `Modulus`, the slots
  between them and what each thread holds between its steps; without the part
  on the stale copy of the other side's counter it is not inductive.  It yields
  `SlotRaceFreedom` and the refinement `RingImplementsQueue`: a publication is an
  enqueue, a release is a dequeue, everything else stutters.  `AuditDrivesRing` shows
  that the audit log's threads touch the ring only by the steps of its producer and its
  consumer, so that `AuditSlotRaceFreedom` and everything else proved of the ring holds
  of the log.  `DrainedAtStopHolds` rests on `AuditInv`, which adds to `RingInv` where the
  two threads can be at once (`ThreadsInv`: the worker leaves its loop only after `running_`
  was cleared, and nobody is inside `record` by then), what was taken (`DrainInv`: a prefix
  of what was accepted, and all of it once the worker is through its last, empty pop)
  and what is in the file (`FileInv`: all that was taken, as long as every open succeeded).
* `OuchSessionProofs`.  `SessionInv` is the type invariant with the ordering of the
  stream positions, the gateway's numbering of its packets and the agreement of the
  two cursors; the agreement alone is not inductive because a login answer in flight
  will set the client's number.  It yields `SessionTypes` and `SequencesAgree`.
  `EveryByteOnceHolds` rests on `ByteInv`: every byte is kept, or one buffer was torn and all
  before it are kept, and then nothing is written any more.  `Joined` and `Parted` say
  that joining and cutting buffers loses and adds nothing, `WriteKeeps` and `FlushKeeps`
  apply them to `write_bytes()` and `flush_pending()`, `KeptMeansOnce` adds the torn buffer.
  `Faithful` says that what went out and
  what is stashed are the buffers in the order of the calls.  A write while something is
  stashed breaks it, which is the finding on `WireInOrder`; `OnlyStashedIsOvertaken` shows that
  nothing else does: a step at whose end nothing is stashed keeps it.  `WholeWritesInOrder`
  follows: as long as nothing is ever stashed (a hypothesis on the socket, which TLC shows
  to be needed) `WireInOrder` holds.
* `LiveClientProofs`.  `CursorInv` says what the disk, the session, the packet between
  its two steps and the gateway's flow have to do with one another while the process
  has made no rebuild.  It yields `CursorSafety` and `CleanExit`, for any number of
  starts, kills, failing saves and rebuilds of other processes.  With rebuilds the number on
  disk may be ahead of the session's own, which starts again from 0.  `CountInv`, the part
  of `CursorInv` about counting, holds all the same; `StoreInv` adds that the number on disk
  is covered since the last accepted login, and is 0 by the time another acceptance is
  dispatched, because its audit finds a smaller number and saves it.  That save may not
  fail, so `ReplayCursorSafety` is about behaviours without a failing save.
* `ThrottlerProofs`.  `ThrottlerInv` says that each window of the last ten with orders
  owns its slot and that the slot holds their number.  It yields `BudgetHolds`,
  `AvailableExact` and the refinement `ThrottlerImplementsBudget`.
* `OrderFlowProofs`, over any number of calls, connections, tokens, quotes, heartbeats and
  end-of-day passes.  The proofs first say what a step of any thread may do to one part
  of the state (`TokenEffect` to the registry and the requests on the wire, `StreamEffect` to
  the answers on the wire, `WorkerEffect`, `HeardEffect`, `BooksEffect`), so that each
  invariant is shown for a few effects and not for every action.
  - `OrdersAreKnownHolds`: with `KnownInv`, the same of every request still on the wire.
  - `HeardIsRightHolds`: with `HeardInv`, the same of every message the worker still has to
    send and of every segment on its way; orders only grow, so what was true stays true.
  - `TokenOnceHolds`: with `FreshInv`, no token of a request on the wire is that of an order
    or of another such request.  Hypothesis `PinnedApart`: no pinned token is of the form that
    `allocate()` counts up, neither whole nor cut to 14 bytes, and no two are cut to one.  Without
    it the property is false (see the differences in section 3).
  - `OneFateHolds`, under the same hypothesis: with `FateInv`, which names the three
    fates of an order and says that the order a handler has accepted and not yet added to
    `resting_` has none so far.  It needs `TokenOnce`: with two orders of one token the second
    would take the place of the first.
  - `FramingRecovers`, over any number of passes: `StreamWhole`, that behind every header on the
    stream is its message, except behind the last while the worker is between its two writes,
    is kept by every step that begins no pass (`WholeStep`), and every
    reconnection made outside of a pass establishes it, whatever was on the old connection
    (`NewStream`).
* `FixReplayProofs` has the invariants of FIX scenarios, of any length and with any
  number of lost connections.  `WireType` types the queues.  `LinkInv`: the link is up, or
  `onLogout` has not begun, or the state is no longer Active.  `QuietInv`: without a
  connection nothing is under way but the rest of `onLogout`, a logout found complete
  with the session down leaves it down, and the events of the logons before, in the queue or still
  to be fired, are one LoggedOut at most (`Told`).
  `AmrInv`: the acceptor has taken one request at most and is subscribed from then on.  `IndexInv` and
  `NamedInv`: the runner's index agrees with the symbols on the wire and with those the
  acceptor knows, although messages between them may be lost.
* `ReplayProofs`.  Of the policy: the wait is cut at the deadline, so the time to wake up at is
  never past it (`DialInv`); the attempt after it starts at most one late wake-up
  later.  It yields `ReconnectBudget`, for any deadline, backoff and duration of a dial.  Of
  OUCH scenarios: `TokenInv`, every token on the wire or at a gateway is in the
  registry, and no token is twice on the wire; a step that sends an order registers its token
  first, all others send none.  Of both: a step of one protocol leaves the variables of
  the other as they began, so each invariant is kept by the steps of its own stack.  This yields
  `FixTypes`, `ActiveIsLoggedOn`, `OneBreadcrumbIsLeft`, `OnlyAnyTakesBreadcrumb`,
  `OneSubscription`, `SymbolsFollowOrders`,
  `TokensAreSentOnce` and `ScenarioKeepsBudget` for `Spec` of `Replay`.
  `AnswersAddUpHolds` needs `AnswerInv`, which speaks of a scenario in which no step has failed:
  what is owed is under way (`AddsUp`); a session that is being rebuilt or logged in is found
  only at the places of the runner where that happens (`PlaceInv`); and the connection agrees
  with the state of the session (`ConnInv`, stated by itself as `ConnectionAgrees`).  Without
  the last the sum is not inductive: a request behind a logout, or on a connection the
  gateway has closed, would be owed an answer that never comes.  Messages are counted by the
  sets of their places, with the library's facts about cardinalities, since `SelectSeq` is
  recursive; a few effects (`Settled` and those beside it) say what the steps of the runner,
  the poll and the gateway do to the sum, and each action is shown to have one of them.
* `ScenarioFileProofs`, for files of any length and any tokens.  `PassedNamesHold`: what the
  linter has seen contains every name the loader gives to an order.  `ArgumentsHold`
  compares the lists of loader and dispatch; it is about a single step,
  and the provers check every entry of the lists.

Only model-checked: the liveness properties (`StopReturns`, `RecordReachesFile`,
`SilentPeerDetected`, `CursorCatchesUp`, `LoginAnswered`, `LogoutTakesEffect`, `ScenarioEnds`),
because the prover has no fairness.  Every invariant and every safety property of a passing run
is a theorem, two of them under `PinnedApart`.

## 5. Not modelled, and why

* `TcpSocket::connect` and `close`, DNS, options: calls of the kernel without state of
  their own; `Reconnect` takes from `connect` only that it fails or not, and when.
* Loss of power: `save` does not sync the file, the model's disk keeps what was renamed.
* In the order flow: the heartbeat watchdog of the session (the mock beats every
  second), mass quotes of several entries, malformed packets, `start_on_fd`,
  `set_accepted_password`.
* In scenarios: which fields other than token, symbol and kind an expectation compares; the
  session name and the number a login step may give; the live FIX session
  (`run_one_live_fix_scenario`); the requests of `OeApp` that no step makes (mass cancel,
  quotes, trade reports); rejections by QuickFIX itself.
* The drop copy client: nothing constructs one.
* In scenario files: the keys that hold numbers and texts, and errors of the YAML parser.
* Reactors: no application of the repository constructs one; every loop polls its session.
* Message layouts, codec, configuration, instrument cache, the other tools: data,
  parsing or programs without state of interest.
* PTRM evaluation: stateless and not called.

## 6. Plan

Done: ring, audit log, session, live client, throttler, order flow, reconnect policy, OUCH
and FIX scenarios, scenario files; proofs of every safety property of the passing runs, and of
where the disorder of two of the findings and differences ends (`WholeWritesInOrder`,
`FramingRecovers`).

Worth adding, should the code grow there:

1. Bounds for the queues of a scenario, from the number of steps.
2. The order of the answers of a scenario, which `AnswersAddUp` only counts: the gateway
   answers requests in turn, so a clean step takes the answers to its own requests.
3. A live FIX session (`run_one_live_fix_scenario`) over the same `FixClient`.
