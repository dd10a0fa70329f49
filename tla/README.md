# EduHarness in TLA+

This directory models EduHarness: the FastAPI backend (`src/eduharness`) that runs
one agent *turn* per student question, and the parts of the MiniCode engine
(`src/minicode`) which such a turn runs in, with the sessions of its terminal
program. The modules are written from the code;
TLC checks them on small instances, and TLAPS proves for every instance each
invariant that a passing run checks, one of the bus under a condition (section 5), and
that the turn runtime implements its abstract specification.

## 1. Inventory

### Parts, state, operations

| Part | Code | State | Operations that change it |
| --- | --- | --- | --- |
| Turn runtime | `application/runtime_manager.py`, `harness_adapter.py` | `_lock`, `_active_sessions`, `_turns`, semaphore, cancel flags; tables `turns`, `messages` | `start_turn`, `_execute`, `cancel_turn`, `shutdown`; the worker thread of `run_turn` |
| Event bus | `application/event_bus.py` | `_sequence`, `_history`, `_subscribers` and their queues, `_closed`, `_lock`; table `agent_events` | `emit`, `emit_from_worker`, `subscribe`, `close` |
| Permission bridge | `application/permission_bridge.py` | `_pending`, a `threading.Event` and a response per request; table `approval_requests` | `prompt` (worker thread), `resolve` (event loop) |
| Mastery and appeals | `infrastructure/repositories.py`, `domain/mastery.py` | tables `learning_attempts`, `mastery_states`, `appeals` | `record_attempt`, `create_appeal`, `resolve_appeal`, `recompute_student_kp_mastery` |
| Routes | `api/routes.py`, `api/app.py` | none that lasts, except per stream or socket | HTTP calls, SSE stream, WebSocket, lifespan |
| Agent loop | `minicode/agent_loop.py`, `turn_kernel.py`, `agent_intelligence.py` | `turn_state`, the transcript, the batch in hand, the scheduler's conflicts | `run_agent_turn`, `decide_*`, `schedule_calls`, `_execute_tool_calls` |
| MCP client | `minicode/mcp.py` | the server process, `_pending`, `next_id`, caches, a reader thread per server | `start`, `request`, `call_tool`, `close`, `_consume_stdout` |
| Tool permissions | `minicode/permissions.py` | decisions for a session, a turn and for ever; `permissions.json` | `ensure_path_access`, `ensure_command`, `ensure_edit`, `begin_turn`, `end_turn` |
| Sessions and rewind | `minicode/session.py`, `file_review.py`, `tty_app.py` | `session.checkpoints`, the session file, the files of the workspace | `apply_reviewed_file_change`, `create_file_checkpoint`, `save_session`, `rewind_session_data`, `load_session`, autosave |
| Daily plan | `application/learning_service.py`, `domain/planning.py` | table `daily_tasks` | plan, mark done, next review date |
| Accounts, courses, question bank | `application/auth.py`, `repositories.py`, `mcp_servers/` | their tables | registration, enrolment, search, grading |
| Rest of the engine | `minicode/` | task graph, memory, background tasks, circuit breaker | persistence, retrieval, user interface |
| Front ends, scripts, evaluation, documents | the rest | none at run time of the service | none |

### How they interact

A request (HTTP or WebSocket) calls `start_turn`, which stores the question and
spawns the asyncio task `_execute`. The task takes a permit and runs the agent
loop in a worker thread. The loop asks the model, runs its tools (some of them in
a thread pool) and reports their results. A tool that touches something
sensitive asks the `PermissionManager`; what nobody has decided yet goes to the
bridge's `prompt`, which waits for a person. Tools of an MCP server are calls of
that server's client. From the worker thread there are two ways back into the
event loop: `emit_from_worker` puts an event on the turn's bus and waits for it,
and `prompt` has its request stored and announced there. Other requests
meanwhile subscribe to the bus, cancel the turn, or call `resolve` on the
bridge. Everything that has to survive goes through `EduRepository`; each of its
methods is a short transaction with several awaits. The route for appeals calls
the repository directly, in several transactions. The terminal program runs the
same agent loop in a thread beside its own: the tools that edit files leave
checkpoints in the session, the main loop saves and rewinds it.

### What is hard, and what has to hold

* **Await points.** All coroutines share one thread, so code between two awaits is
  atomic and everything else is not. `start_turn` tests `_active_sessions`, awaits
  three database calls and only then writes it; `append_message`,
  `resolve_approval`, `resolve_appeal`, `record_attempt` and the recomputation
  read, await and write. *One turn per session; no colliding sequence; no lost
  attempt; one decision per request.*
* **Threads.** The agent's worker waits on futures with a 30 s limit and on a
  `threading.Event` with the approval timeout; its tools run in a pool beside each
  other and ask for permission beside each other; every MCP server has a reader
  thread that outlives it. *No lost wake-up, no permission without a decision, no
  unsafe tool in company, no tool at work after its turn, no answer to somebody
  else's request, no timed wait without an end.*
* **Hand-over and back-pressure.** A subscriber switches from replay to live
  events while others emit and close; queues are bounded; a client may break off
  and resume. *Every reader sees the stored record in order, and all of it.*
* **Failure and restart.** A database call may raise between any two steps, a
  tool, the model or an MCP server may fail at any time, and the process may die.
  *Sessions are given back, conversations stay well formed, what is reported as
  done was done and is stored.*
* **Files.** A session file is rewritten in place by two threads, one of which may
  be killed at any step; a rewind changes several files and the list it rewinds by.
  *No edit without its checkpoint; a rewind goes back to where it says.*
* **Retries.** The agent loop repeats for several reasons, each with a counter
  that another one resets. *The turn ends, within its steps.*

`PROJECT.json` lists each hazard with its line and the properties about it.

## 2. Plan

1. `TurnRuntime`, its abstract specification `SessionLog` and its proofs: done.
2. `EventBus`, with the SSE route around it, and its proofs: done.
3. `PermissionBridge` and its proofs: done.
4. `MasteryLedger` and its proofs: done.
5. `ToolGate`, the permissions between the agent and the bridge, and its proofs: done.
6. `AgentLoop`, what happens inside a turn, and its proofs: done.
7. `McpClient` and its proofs: done.
8. `SessionStore`, the checkpoints of the terminal program, and its proofs: done.

What could follow: the completeness of the streams of `EventBus` when queues
overflow but emits come one after the other (`bus_narrow` checks it). The parts that are not
modelled have no behaviour of the kind this project checks (section 7).

## 3. Modules

| Module | Content |
| --- | --- |
| `TurnRuntime` | one process per turn, from the request to the end of its task; cancel, shutdown, restart |
| `SessionLog` | what the runtime promises about conversations, without locks and tasks |
| `EventBus` | one bus, its emitters, its readers (SSE and WebSocket) and its closing |
| `PermissionBridge` | calls of `prompt` against calls of `resolve` |
| `MasteryLedger` | the attempts and appeals of one student |
| `AgentLoop` | one turn of the agent: replies, batches of tool calls, retries, limits |
| `McpClient` | one MCP client, its servers and their reader threads |
| `ToolGate` | permission managers, the calls that pass them and `permissions.json` |
| `SessionStore` | one session of the terminal program: edits, checkpoints, saves, rewinds, restarts |
| `..._proofs` | theorems about each of these modules, and the refinement of `SessionLog` by `TurnRuntime` |
| `MC...` | constants of the instances |

The names with `Mut` in front are variants of an action with a plausible mistake
in it; nothing refers to them. They record which mistake each property would
reveal.

### TurnRuntime

`phase[t]` is the await at which the coroutine of turn `t` stands: `checked`,
`listed`, `created`, `userSeq`, `saved` inside `start_turn` (the lock is held),
`queued` until the permit, `permit` to `deciding` inside the semaphore, `closing`,
`sentinels` (inside `bus.close()`, which puts an end mark into each reader's queue) and
`closed` in the finally clause. `local[t]` holds what the coroutine remembers
across awaits: the history it read, the sequence it read, the agent's outcome,
the text, the status. `memory` dies with the process, `db` does not. Each action
is the code between two awaits; `StartFails`, `ExecuteFails` and `AgentRaises` are
the exceptions. The agent loop is reduced to what `_execute` distinguishes: a new
assistant message, text in the events only, or neither; it may raise. `AgentLoop`
looks inside. A message row is identified with its position, because rows are
inserted at `max + 1` and never deleted. The agent's compaction of its context is
ignored in `FinalText`. `Restart` is both a crash at any moment and a start after
a shutdown.

`SessionLog` knows only who is busy, the conversations and who has asked. The
mapping at the end of `TurnRuntime` calls a session busy from the moment the question is
stored, although `_active_sessions` says so a step later.

### EventBus

Each call of `emit` is a coroutine: it takes the lock and a number (`Begin`),
awaits the persist callback (`Persist`, `PersistFails`), then updates the history,
takes the snapshot of subscribers, releases the lock and puts without waiting as
far as it can (`Publish`); a put into a full queue waits (`ResumePut`). As in
`asyncio.Queue`, a later put may find room before the one that waits is resumed.
The worker waits for its emit but may give up (`WorkerResumes`). `CommitStatus` is
the final status of `_execute`, written before its `Close`.

`stream_turn_events` is `ReadStatus`, `ReadEventTable`, then either `TellClosed`
(the status was final: `stream.closed`) or `Subscribe` with the last number sent.
A reader that leaves (`Disconnect`, `Discard`) may come back with `Last-Event-ID`
(`Reconnect`), which is the number of the last event it received, and gets a queue
of its own; a put that waits for the old one goes on waiting. A WebSocket
reader subscribes at once. An event is its number, 0 is the sentinel `None`.

### PermissionBridge

`phase[p]` is where a call of `prompt` stands in its thread, `resolver[r]` where a
call of `resolve` stands on the loop, with its target and decision. `CommitCreate`
and `Announce` run on the loop and may happen after the worker has given up.
`Expire` and `DenyExpired` are separate because `_pending` is emptied one lock
acquisition after the wait returned.

### MasteryLedger

`mastery_states` stores a moving average. The model stores the list of scores it
is the average of, because the properties ask which attempts count, in which
order, and with which score. `Stamp` takes `created_at`, `Insert` begins the
transaction, `Commit` ends it. With `WriteLock` one writing transaction excludes
others from its first write to its commit (SQLite, the default database);
without, several run side by side (PostgreSQL). A sustained appeal always carries
a new score in the model. `overlap` remembers whether a call has ever arrived
while another was under way: what the repository promises of calls one after
the other is stated under `~overlap`.

### AgentLoop

`pc` is where `run_agent_turn` stands: at the `top` of its loop, waiting for the
model (`ask`), running a batch (`tools`), `returned` or `raised`. `BeginStep` and
`StepsExhausted` are the loop's condition. Each branch of `decide_assistant_turn`
and each outcome of the model call is an action (`ReplyProgress`, `ReplyThinking`,
`ReplyEmpty`, `Widen`, `ReplyStalled`, `ReplyWithheld`, `ReplyFinal`, `GuardBlocks`,
`ModelFails`, `ModelRecovers`); `Phase`, `AllowWidening` and `VerifyAfter` are the
turn policy they depend on. The transcript is left out: what a model is asked with is
also decided by compaction, which cuts and merges messages. A batch is the sequence `calls` of tool names. `Schedule` is
`schedule_calls`: a stable order by score, the safe calls without known conflicts
in `concurrent`, the others in `serial`. `StartPooled`, `StartSerial`, `SkipSerial`
and `Finish` run it; `Finish` may say failed of a tool that did its work, because
`TOOL_TIMEOUT` judges a tool afterwards. The direct call of a tool after an exception
other than the time-out (`agent_loop.py:434-438`) is part of `Finish`: such an
exception comes from the executor, not from the tool, whose exceptions
`ToolRegistry.execute` turns into results. `effects` counts the work of each call.
`Report` appends the results in call order up to one that awaits the user, learns
conflicts, and lets the feedback controller lower the limit. `CallbackRaises` is
an exception of the application's callbacks outside a tool.

### McpClient

Server processes are numbered in the order of their start, and so are the reader
threads started for them. `pc` is where the caller stands in `request`, `start` or
`close`; the steps end where another thread can come in between, at the lock of
`_pending` above all: `Register`, `Send` (which a server that does not read may hold up: `Writing`), `Receive`, `Expire` (the queue was empty)
and `Withdraw` (the entry is removed) are separate, as are the three parts of
`close`. A reader looks up `self.process` for every line (`ReaderLooks`), reads
(`ReaderReads`), hands the answer to whoever waits for its id (`ReaderHandles`), and
at the end fails everything that is pending (`ReaderTests`, `ReaderFails`). A server
answers in any order, late or never, and dies. `box[id]` is the queue of a request
with who each message came from, which is what `AnswerIsOwn` compares with
`asked[id]`, the server the request was written to.

### ToolGate

A manager (`Open`, `OpenUnreadable` when the file cannot be read and is taken for empty,
`NextTurn`, `Leave`) has decisions for as long as it lives
(`session`), for a turn (`turnEdits`, `turnAll`) and for ever (`always`, loaded from
`store`, which is `permissions.json`). A call passes one `Check` for each resource
in its plan: denied, allowed, or a person is asked. The answers are `AllowOnce`,
`AllowTurn`, `DenyOnce`, `DenyWithFeedback` and `DecideAlways`; the last one writes
the file in two steps (`Snapshot`, `Replace`), between which another call may
write. Calls of one manager overlap only when their tools are safe for
concurrency. What people said is kept in the history variables `approvals`,
`refusals` and `lasting`; `disturbed` says whether managers or writers of the file have
overlapped or a manager has begun without what the file holds.
A prompt is a choice of its answers here; how an answer reaches the prompt is
the subject of `PermissionBridge`.

### SessionStore

`mem` is `session.checkpoints` of the running process, `disk` the session file,
`files` the workspace. The agent's thread goes through
`apply_reviewed_file_change` (`ReadPrevious`, `Refuse` or `CreateCheckpoint`,
`WriteFile`), the main loop through `Autosave`, `BeginRewind`, `Restore`,
`ReplaceSelected` and `Exit`; both save by `Serialize`, `Open` (which empties the
file), `Write` or `SaveFails`. Only a full save exists: a delta is written only
after `_delta_save_count` has left 0, which only loading a delta does. `End` is an
exit or a crash at any point, `Resume` a process that loads the file, also that of
`--rewind`. Checkpoints are numbered; those of one rewind share a number, in place
of their `group_id`, and the text an edit writes is the number of its checkpoint.
Rewinds start at every place that a number of steps or a checkpoint id selects.

History variables say what the properties compare with: `base`, the workspace at
each checkpoint; `applied`, the edits done and not rewound; `strayed`, the files
changed by others, left half way by a failure or a crash, or of a group that a rewind
starts in the middle of, with those that the
session file does not account for when a process ends (`Unaccounted`: it lacks an
edit or a rewind of them, holds checkpoints that have been restored, or a rewind of
them was under way); `behind`, whether saves have overlapped since one was last
alone.

## 4. Runs

| Run | Instance | Shows |
| --- | --- | --- |
| `turns` | 2 turns, of 1 session with 1 restart, or of 2 sessions without; 1 permit, 1 failed call | `OneTurnPerSession`, `ActiveIsLive`, `SequenceIsFresh`, `HistoryIsCurrent`, `TerminalHasAnswer`, `ShutdownDrains`; every behaviour is one of `SessionLog` (`KeepsSessionLog`); sessions are given back and shutdown ends unless a `bus.close()` never returns (`SessionReleased`, `ShutdownEnds`) |
| `bus_wide` | 2 worker events, 1 request event, a WebSocket and an SSE reader that come and go, queues of 3, 2 faults (failed persist, resumed stream), timeouts | order and completeness (`ReadersSeePrefix`, `EndedIsComplete`), nothing after close (`ClosedIsFinal`) |
| `bus_narrow` | 3 worker events, readers that stay, queues of 1 | completeness under back-pressure; streams end (`ReadersEnd`), close returns (`CloseReturns`) |
| `approval` | 2 requests, 2 people, 3 decisions (one not on offer), 1 failed call, 1 restart | `AllowIsCommitted`, `DecidedWakesWorker`, `WaitingIsAnswerable`, `LostIsFrozen`, `PromptReturns` |
| `mastery` | 3 attempts, 2 points, 2 teachers, write lock, 1 failed call | `CountedOnce`, `AttemptsKept`; for calls one after the other `LedgerIsReplay` |
| `agent_loop` | 3 tools (safe, unsafe, asking), batches of up to 3 calls, 3 steps and a bonus of 2, deep profile | `SerialAlone`, `SerialInOrder`, `BatchAccounted`, `ToolsEndInTurn`, `StepsBounded`, `TurnEnds` |
| `mcp_client` | 2 protocols, 2 servers, 2 calls, 1 fault | `AnswerIsOwn`, `PendingIsOwed`, `CacheIsCurrent`, `CallEnds` |
| `tool_gate` | 2 managers, 4 calls on 2 paths of a directory and a file to change, 2 turns, 3 prompts, 1 fault (a prompt, a write, an unreadable file) | `GrantIsDecided`, `DenialHolds` |
| `session` | 2 files, 1 of them new; 5 events: edits, rewinds, autosaves, failures, restarts, changes by others | `EditIsCovered`, `RewindIsExact` |

Three further runs each check one statement of the repository that the code does
not keep, and TLC shows the behaviour:

| Run | Statement | What happens |
| --- | --- | --- |
| `turns_answer` | a turn without a final answer raises (`runtime_manager.py:166-170`) | the last assistant message of the *history* is stored as the answer |
| `bus_stuck` | the finally clause is certainly executed (`runtime_manager.py:234`) | `close` waits for room in the queue of a reader that has left |
| `mastery_lost` | re-grades replay the full evidence (`README.md:39`) | an attempt committed during a recomputation is overwritten |

### Bounds, and why they are enough

* *Turns.* Two turns of one session are what mutual exclusion, stale history and
  sequence collisions need; a second session is needed only for the competition
  for a permit. There a restart has nothing to add, and a failing call and a
  shutdown are not seen together (`TwoRequests` in `MCTurnRuntime`, which also lets
  the turn called `t1` always come first, the turns being alike). In one session one
  failed call, one restart and a shutdown can fall between any two steps.
* *Bus.* A queue of 1 is full after one event, a queue of 3 holds the events of
  its run: `bus_wide` has no waiting put for an event, `bus_narrow` has them at
  every event. Full queues together with timeouts are not one run, because then a
  put that waits is overtaken and the order is lost (section 6). `HistorySize` is at
  least the number of events: a turn with more events than the history has
  places leaves a gap, which is listed among the limits. Three events suffice for
  one that is replayed, one that is live, and one under way at the hand-over.
* *Approvals, mastery.* Two people suffice for a race of `resolve`; three
  attempts, of which one cites two points, give replays whose order matters.
* *Agent loop.* Three calls are the fewest with which a pool, a call that
  conflicts and an unsafe call meet in one batch; 3 steps and a bonus of 2 give
  five rounds, enough to widen at step 2, learn a conflict and meet it again. The
  limits a controller may impose include one below the steps already taken.
* *MCP.* Two servers are a server and its replacement, with the readers of both;
  `MaxSpawns` stands for the rest: a further start fails. One fault is a server
  that dies or a reader that breaks.
* *Tool gate.* Two managers share the file, two turns of one manager tell a turn's
  permission from a session's; two parallel reads of one directory ask twice for
  the same scope. The symmetry over managers is sound: no constant, and no
  property, names one.

* *Sessions.* Two files tell the order of restores from their effect, and one that
  did not exist has to be removed by a rewind. Five events are an edit, another of
  the same file, a rewind of both, a rewind of that rewind and one thing that goes
  wrong; saves, restores and the end of a process are not counted.

Cut-offs: `MaxFaults`, `MaxCrashes`, `MaxSpawns`, `MaxAsks`, `MaxTurns`, `MaxEvents`, `TwoRequests`; the
identities of turns, calls and attempts are finite sets and each is used once.
Runs have `CHECK_DEADLOCK FALSE` because a system whose clients ask for nothing
more rests, as does a turn or a client that has come to its end.

### Fairness

Only what the code's scheduling owes is fair. `TurnFairness` of `TurnRuntime` gives
each coroutine weak fairness for its next step: the event loop resumes what is
ready, database calls return or raise, the agent is bounded in steps. The agent's
return is assumed here and is the subject of `AgentLoop` and `McpClient`. The one
step that is not fair is the return of `bus.close()` (`CloseReturns`): its puts may
wait for ever for a reader that has left (`bus_stuck`), and then neither the session is
given back nor does a shutdown end. `SessionReleased` and `ShutdownEnds` say that
nothing else holds them up; that close does return when readers stay or leave room is
what `bus_narrow` shows. Weak fairness for the disjunction suffices because a
coroutine's step, once possible, stays possible, except at the lock and the
semaphore, and there only finitely many others can go first. Clients, cancels,
faults, shutdown and restarts owe nothing. In `EventBus`, connected readers read;
`FairLoyalSpec` leaves out disconnections, and `FairSpec` is the same with them.
In `PermissionBridge` the timed wait ends; nobody owes a decision. In `AgentLoop`
the loop's thread takes its steps, the pool starts its calls and a tool that runs
comes to an end: `TOOL_TIMEOUT` does not cut a tool off, so this is owed by the
tools (their own time-outs, of commands and MCP requests). In `McpClient` only
the caller's thread is fair, and not while it writes to a server that lives
(`Writing`): that write is not timed and waits for a server which does not read
(`mcp.py:491-497`). Neither a server nor a reader has to do anything else, because the
waits for answers are timed: `CallEnds` says that a call ends or hangs in that write.

## 5. Proofs

`TurnRuntime_proofs` proves for any sets of sessions and turns, any number of
permits, faults and restarts, from `TurnRuntimeAssumption` alone:

* `TypeCorrect`, `SessionsFollowTasks` (`ActiveIsLive`) and `OneTurn`
  (`OneTurnPerSession`) from the inductive invariant `IndInv`. `ActiveIsLive` alone
  is not inductive: `SpawnTask` writes `_active_sessions` without a test, and what
  makes that right is `LockGuardsStart`, that a turn between its test and its
  write holds the lock while its session is still idle.
* `SequencesNeverCollide` (`SequenceIsFresh`): by `SessionIsExclusive`, two
  coroutines inside `start_turn` or `_execute` never work for the same session, so
  an insert outdates nobody's sequence.
* `ShutdownWaitsForAll` (`ShutdownDrains`): strengthened by `TasksAreRegistered`,
  that every living task is in `_turns` and no start is under way once shutdown has
  begun. `StepsOfTheService` abstracts each step to what this argument needs.
* `ReportedTurnsAreAnswered` (`TerminalHasAnswer`): strengthened by
  `AnswerStored`, that also a coroutine past its insert has its answer stored; no
  step removes a message.
* `HistoriesStayCurrent` (`HistoryIsCurrent`): strengthened by `ConversationTracked`,
  which says for every await what the conversation is beyond the history that the
  coroutine has read: nothing, then its question, then its question and its answer.
  `CoroutineIsLocal` and `SessionIsExclusive` keep the others out of it.
* `RuntimeImplementsLog` (`KeepsSessionLog`): under the mapping the initial state is
  one of `SessionLog`, and each step of the runtime is one of its steps or a stutter.
  `AskedLater`, that a turn has asked nothing before its insert, gives the guard of
  the abstract question; `IndInv` gives the guards of taking and giving back a
  session; `ConversationTracked` that an answer follows its question.

`EventBus_proofs` proves, from `EventBusAssumption`, for any number of emits, readers,
faults and events:

* `BusTypeCorrect` and `ClosingIsFinal` (`ClosedIsFinal`) from `BusInv`: the lock is
  held by exactly the emit that is between its number and its publication, and by
  none once the bus is closed (`LockIsHeld`); the rows of the table have rising
  numbers (`RowsInOrder`).
* `ReadersMissNothing` (`ReadersSeePrefix`) and `EndedReadersHaveAll`
  (`EndedIsComplete`), for every state in which the turn has had no more events than
  fit in a queue and in the history (`Small`). The invariant `Streams` says where
  each event is on its way to a reader: received, replayed and queued events
  together are the history without a gap (`Carries`), the history is the table
  (`HistoryIsTable`), and no put waits. The condition is not a convenience: beyond it
  both can fail (section 6), when a put that waits is overtaken or the history has
  dropped what a reader has not seen. The readers may still come, leave and come back
  at any moment, and a persist may fail. `close` adds a sentinel to a queue that may
  be full by then; what `Carries` says of it does not depend on that.

`PermissionBridge_proofs` proves, from `PermissionBridgeAssumption`:

* `BridgeTypeCorrect` (`TypeOK`, inductive only with `ResolverHasDecision`: a
  resolver past its validation carries a decision), `AnswerableWhileWaiting`
  (`WaitingIsAnswerable`), whose strengthening says the same of every earlier
  phase of `prompt`, and `NoPermissionByDefault` (`AllowIsCommitted`), whose
  strengthening ties every response in memory, and every decision in the table,
  to a resolver that committed it.
* `NoWakeUpIsLost` (`DecidedWakesWorker`): `DecisionsAreOwed` says it already of a
  worker that does not wait yet, and that a resolver past its lookup is about a
  request that was announced by a process that still lives.
* `LostRequestsStay` (`LostIsFrozen`), from the same: after a restart no resolver that
  had found an entry is left.

`MasteryLedger_proofs` proves, from `MasteryLedgerAssumption`, for any attempts, points and
teachers:

* `MasteryTypeCorrect` and `AttemptsCountOnce` (`CountedOnce`), with or without a write
  lock: `OnceInv` says it also of what an attempt has read and of what a review is
  about to write.
* `AttemptsAreKept` (`AttemptsKept`), under the write lock only: `LockInv` says that who
  is between its first write and its commit is the writer, and has read what is
  stored. Without the lock attempts are lost.
* `LedgerIsTheReplay` (`LedgerIsReplay`), for calls one after the other: `AloneInv` says that one call is under way at most, that
  its stamp is the latest and what it has read is current; `ReplayInv`, that every
  point is the replay of its evidence but those a review has still to recompute.
  That appending to a moving average is the same as replaying it rests on the order
  of the stamps: `OlderCounts`, `SameOrder` and `OneMore` are the lemmas about the
  attempt at each place of a replay, which the model finds by counting the older ones.

`ToolGate_proofs` proves, from `ToolGateAssumption`, for any managers, calls, plans and
resources:

* `GateTypeCorrect` and `GrantsAreDecided` (`GrantIsDecided`) from `GateInv`. Its centre is
  `PermissionsAreGiven`: every permission that a manager, the file or a save under way
  holds was given by a person, and each check that a call has passed is covered by
  one. `LeftIsTail` says which checks those are, `CallsAreCurrent` that a call is of
  its manager's current turn, `GoneIsForgotten` that a new manager starts from nothing.
* `DenialsHold` (`DenialHolds`): `DenialsAreKept` says that a manager denies for as long
  as it lives what a person has denied to it, and that no check of a call has passed
  for what was denied before the call began. For lasting denials this rests on the
  file: `OneWriter` says that unless something has disturbed it there is one manager
  and one save, the manager knows all that is in the file, and a snapshot is what
  the manager knows; hence the file has all that was written (`WrittenStays`).

`AgentLoop_proofs` proves, from `AgentAssumption`, for batches of any length, any
tools, scores, conflicts and limits, the type invariant and the five invariants
of its run. The inductive invariant `LoopInv` has two parts beside the types:

* `LimitInv`: the limit in force never exceeds the profile's by more than the
  bonus, which is added in the step that sets `widened` (`AgentStepsBounded`).
* `BatchInv`, about the batch in hand: only safe calls are in the pool
  (`PoolIsSafe`), the pool runs or one call after it (`OnePhase`), what is left or
  running is undone (`LeftIsUndone`), every call is finished, running or still to
  come unless a question to the user cut the rest off (`Covered`), a tool works
  only in the step that gives its call an outcome (`WorkIsCounted`), and without
  scores the order of the scheduler is that of the reply (`PlacesFollow`). From
  these follow `AgentSerialAlone`, `AgentSerialInOrder`, `AgentBatchAccounted` and
  `AgentToolsEndInTurn`.
  `ScheduleDivides` is the lemma about the scheduler, `StepsOfTheLoop` takes the
  steps that leave the batch alone together.

`McpClient_proofs` proves, from `McpAssumption`, for any number of protocols,
servers, calls and faults, `McpTypeCorrect`, `McpAnswerIsOwn`, `McpPendingIsOwed`
and `McpCacheIsCurrent`. `McpInv` follows an id from its birth to its answer: it
is new until it is taken (`FreshIds`, `CurrentIsTaken`), written to one server, in
whose inbox and output alone it can be (`ServerIsAsked`), in the hands of a reader
only if it came from the stdout that reader reads (`ReaderIsOn`), and so in a queue
only as an answer of the server it was written to (`OwnAnswers`). That ids are
never used twice is the point: `next_id` is never set back, and `IdsAreCounted`
shows that the finite set `Ids` of the model, one per server and one per call, is
never exhausted.

`SessionStore_proofs` proves, from `SessionStoreAssumption`, for any files and any
bound:

* `SessionTypeCorrect` and `EditsAreCovered` (`EditIsCovered`). That the file has every
  edit's checkpoint is not inductive: `OwedIsKept` says it also of memory and of the
  text of every save under way that is alone, and counts the checkpoint of an edit
  that is about to be done. `AloneOrBehind` ties the overlap of saves to `behind`,
  `Turns` says who may be where, and `RestoresTail` that the checkpoints a rewind
  removes are the end of the list, so that the rest stays (`ReplacedTail`).
* `RewindsAreExact` (`RewindIsExact`). The invariant says what a list of checkpoints
  *tells* of a file (`Tells`): from any place in the list on, the first checkpoint of
  the file holds what the file was when the checkpoint at that place was made, and
  if there is none the file is so still. Excepted are files that a later rewind in
  the list has brought back (`Undone`) and those of a group that the place is in the
  middle of (`Shared`).
  `ListsTell` says it of the session's list, the session file and every save under way,
  each for the files it accounts for (`Accounts`): an old list is of use only for
  files that no later edit or rewind has touched, and the end of a process adds the
  others to `strayed`. `ListsHold` says that a checkpoint has the text the file had when
  it was made, `ListsOrdered` that numbers never fall along a list; `NewestIsEdited`,
  `ReviewIsCurrent`, `RewindCaptures`, `RestoredSoFar` and `CutsAreStrayed` describe an
  edit and a rewind between their steps. The lemmas `EditTells`, `WriteTellsLists`,
  `BeginTells` and the one about the list a rewind leaves take them one by one.
  Without the rewinds in `Unaccounted` the invariant fails, but not within the bound of
  the run: an autosave that was overtaken, a rewind, a failed save, a rewind of that
  rewind and a restart bring back a list that undoes what has been undone already.

Only model-checked:

* the liveness properties `SessionReleased`, `ShutdownEnds`, `ReadersEnd`,
  `CloseReturns`, `PromptReturns`, `TurnEnds` and `CallEnds`: temporal proofs with
  `ENABLED` are out of the prover's reach;
* the completeness of streams when queues overflow (`bus_narrow`): it holds there
  because the worker waits for each emit and nobody else emits, an argument about
  the order of puts that no theorem makes;
* that the three statements of the repository below the table of runs are not kept:
  a behaviour shows it.

## 6. Known limits

Behaviour met while modelling that no run states, because the repository promises
nothing precise about it or a listed run shows its like:

* *Runtime.* `cancel_turn` on a finished turn finds it in `_turns`, which is never
  pruned, and raises `RuntimeError` from the closed bus instead of the refusal at
  `runtime_manager.py:249`; the route catches `RepositoryError` only. The clause
  that writes `failed` is commented out (`runtime_manager.py:227-233`): the row of a
  failed turn stays `queued` or `running`, as after a restart, and nothing repairs it.
  A shutdown waits for a worker that waits for a person, up to the approval timeout.
* *Bus.* When a put waits for room, the event of a cancel or an approval, or after
  a 30 s timeout the worker's own next one, can overtake it in the reader's queue.
  A stream that takes the table and subscribes after more than
  `event_history_size` further events has a gap. `stream.closed` is sent with the
  id after the last one, which a late event may also get.
* *Bridge.* A decision that is committed while the wait times out is stored as
  `allow` for a tool that was denied. Two concurrent calls of `resolve`
  may both pass their test and both succeed; the second overwrites the first.
* *Mastery.* Two concurrent reviews of one appeal both pass the test of its status and
  the second replaces the outcome of the first, although a reviewed appeal "cannot be
  processed again" (`repositories.py:1172-1175`). `created_at` is taken before the write lock: concurrent attempts may
  commit in another order than the replay uses; `LedgerIsReplay` leaves calls that
  overlap out. A request that dies between
  `resolve_appeal` and the recomputation leaves the old mastery, and the appeal
  cannot be resolved again.
* *Agent loop.* With a metrics collector, which the service does not pass, the
  scheduler sorts a batch by the scores of its tools before it divides it: the serial
  calls then run in that order, not in the "original order" of `agent_loop.py:1777`;
  `SerialInOrder` leaves scores out. When a question of the pool awaits the user, the results of the
  calls behind it are not reported, although their tools have run
  (`agent_loop.py:1793-1795`). A reply with an empty list of calls and no text raises
  from `calls[0]`. Compaction may turn the last call and its result into a message
  of the assistant (`context_manager.py`, phase 3), after which the model is asked with
  its own words last; the task state follows them as a system message.
* *MCP client.* The write of a request to a server that lives but does not read has
  no time-out. A reader that ends while its server lives is not replaced, since
  `_stdout_thread` is set: later requests time out. The reader of a dead server
  reads on from its successor, or fails the successor's requests.
* *Tool permissions.* Two managers, or two lasting answers of one, may write the file
  at the same time, and the older sets win (`permissions.py:255-265`): writing
  atomically does not "prevent races", as line 179 has it. A file that cannot be read
  is taken for empty, and the next lasting answer replaces it (`permissions.py:171-175`).
  Either way lasting decisions are lost, which is why `DenialHolds` speaks of lasting
  denials only while nothing has disturbed the file.
  "Allow once" holds for as long as the manager lives.
* *Sessions.* An autosave, or the save on exit, that overlaps the save of a
  checkpoint may leave the older list or a garbled file, although
  `create_file_checkpoint` speaks of a durable snapshot; hence `behind`. A crash in
  the middle of a save leaves a file that cannot be read, and with it every
  checkpoint. A rewind that goes back behind an earlier rewind restores that one's
  checkpoints, which bring back what it had removed, and then the older ones; the
  checkpoints it had restored are gone, so files that only they covered end where
  they were before the earlier rewind. A number of steps may begin in the middle of
  an earlier rewind's group. Two processes on one session overwrite each other.

## 7. Not modelled

* Daily plans: one row is inserted or replaced per call; the rest is arithmetic
  on dates.
* Accounts, courses, the education MCP servers and the routes that read or insert
  one row: queries and single statements.
* Hashing, tokens, formatting, the exponential average itself: data
  transformations without state.
* The agent's controllers, model adapters, memory and context compaction: scores
  and cuts over text and floating-point signals; `AgentLoop` has what they can do
  to the loop.
* Sessions: the index file, deleting and listing, the transcript and settings a
  session also holds, several sessions or processes at once. The task graph: a
  file that one thread writes. Background tasks: a registry that nothing asks for
  slots or for completions. The circuit breaker: a counter of one thread in front
  of compaction.
* The terminal interface, the front ends, scripts, benchmarks, packaging and the
  static documentation tooling: no state of the service.
