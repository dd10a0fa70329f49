---------------------------- MODULE TurnRuntime ----------------------------
(***************************************************************************)
(* RuntimeManager (eduharness/application/runtime_manager.py): the object  *)
(* that admits one turn per learning session, bounds the number of agents  *)
(* running at once, stores the conversation and the turn's status, and     *)
(* answers cancel and shutdown.                                            *)
(*                                                                         *)
(* A turn is its own process.  Up to "saved" it is the HTTP or WebSocket   *)
(* request inside start_turn, which keeps RuntimeManager._lock across its  *)
(* database awaits; from "queued" on it is the asyncio task of _execute.   *)
(* Every await that lets another coroutine run ends a step.  The event bus *)
(* is reduced to open or closed (module EventBus has the rest), the agent  *)
(* loop to what it can return.                                             *)
(***************************************************************************)
EXTENDS Integers, Sequences, FiniteSets

CONSTANTS
    Sessions,       \* learning sessions
    Turns,          \* identities of the turns that clients will ask for
    SessionOf,      \* the session each of those requests names
    MaxConcurrent,  \* settings.max_concurrent_turns
    MaxCrashes,     \* bound: how often the process dies or is restarted
    MaxFaults,      \* bound: how many database calls raise
    NoTurn          \* "no turn": a free lock, an idle session, no text

ASSUME TurnRuntimeAssumption ==
    /\ SessionOf \in [Turns -> Sessions]
    /\ MaxConcurrent \in Nat \ {0}
    /\ MaxCrashes \in Nat
    /\ MaxFaults \in Nat
    /\ NoTurn \notin Turns

VARIABLES
    phase,        \* where start_turn or _execute of each turn stands
    lock,         \* the turn holding RuntimeManager._lock across awaits
    active,       \* _active_sessions
    registered,   \* keys of _turns: never removed while the process lives
    cancelled,    \* turns whose cancel_requested event is set
    busOpen,      \* turns whose TurnEventBus accepts events
    local,        \* what each coroutine keeps between its awaits
    row,          \* turns.status in the database
    messages,     \* rows of each session in the messages table, by sequence
    cancelCall,   \* the client's cancel request for each turn
    service,      \* the life of the FastAPI application
    crashes, faults

memory == <<lock, active, registered, cancelled, busOpen>>
db     == <<row, messages>>
env    == <<cancelCall, service, crashes, faults>>
vars   == <<phase, local, memory, db, env>>

Starting  == {"checked", "listed", "created", "userSeq", "saved"}
Working   == {"permit", "running", "agent", "returned", "answering",
              "answerSeq", "answered", "deciding"}
Live      == {"queued", "closing", "sentinels", "closed"} \cup Working
Ended     == {"done", "refused", "aborted", "lost"}
Phases    == {"idle"} \cup Starting \cup Live \cup Ended
Terminal  == {"completed", "failed", "cancelled"}
Statuses  == {"absent", "queued", "running"} \cup Terminal

Message == [turn : Turns, role : {"user", "assistant"},
            text : Turns \cup {NoTurn}]

\* What the agent left behind: a new assistant message in its result, text in
\* the turn's events only, or neither.
Outcome == {"answered", "streamed", "silent"}

Local == [history : Seq(Message), seq : Nat, outcome : Outcome,
          text : Turns \cup {NoTurn}, status : Terminal]

NewLocal == [history |-> <<>>, seq |-> 0, outcome |-> "silent",
             text |-> NoTurn, status |-> "completed"]

TypeOK ==
    /\ phase \in [Turns -> Phases]
    /\ lock \in Turns \cup {NoTurn}
    /\ active \in [Sessions -> Turns \cup {NoTurn}]
    /\ registered \subseteq Turns
    /\ cancelled \subseteq Turns
    /\ busOpen \subseteq Turns
    /\ local \in [Turns -> Local]
    /\ row \in [Turns -> Statuses]
    /\ messages \in [Sessions -> Seq(Message)]
    /\ cancelCall \in [Turns -> {"none", "flagged", "accepted", "refused", "error"}]
    /\ service \in {"up", "draining", "disposed"}
    /\ crashes \in Nat
    /\ faults \in Nat

Init ==
    /\ phase = [t \in Turns |-> "idle"]
    /\ lock = NoTurn
    /\ active = [s \in Sessions |-> NoTurn]
    /\ registered = {}
    /\ cancelled = {}
    /\ busOpen = {}
    /\ local = [t \in Turns |-> NewLocal]
    /\ row = [t \in Turns |-> "absent"]
    /\ messages = [s \in Sessions |-> <<>>]
    /\ cancelCall = [t \in Turns |-> "none"]
    /\ service = "up"
    /\ crashes = 0
    /\ faults = 0

Move(t, from, to) == phase[t] = from /\ phase' = [phase EXCEPT ![t] = to]

\* The text of the last assistant message of a conversation, if it has one.
LastAnswer(log) ==
    LET answers == {i \in DOMAIN log : log[i].role = "assistant"}
        IsLast(i) == \A j \in answers : j <= i
    IN IF \E i \in answers : IsLast(i)
       THEN log[CHOOSE i \in answers : IsLast(i)].text
       ELSE NoTurn

(***************************************************************************)
(* start_turn                                                              *)
(***************************************************************************)

\* Mutant of CheckSession: the test of _active_sessions is gone.
MutCheckSessionUntested(t) ==
    /\ service = "up"
    /\ lock = NoTurn
    /\ Move(t, "idle", "checked")
    /\ lock' = t
    /\ UNCHANGED <<active, registered, cancelled, busOpen, local, db, env>>

\* Mutant of CheckSession: the lock is not waited for.
MutCheckSessionUnlocked(t) ==
    /\ service = "up"
    /\ active[SessionOf[t]] = NoTurn
    /\ Move(t, "idle", "checked")
    /\ lock' = t
    /\ UNCHANGED <<active, registered, cancelled, busOpen, local, db, env>>

\* async with self._lock, and the test that the session is idle.
CheckSession(t) ==
    /\ service = "up"
    /\ lock = NoTurn
    /\ \/ /\ active[SessionOf[t]] # NoTurn
          /\ Move(t, "idle", "refused")
          /\ UNCHANGED lock
       \/ /\ active[SessionOf[t]] = NoTurn
          /\ Move(t, "idle", "checked")
          /\ lock' = t
    /\ UNCHANGED <<active, registered, cancelled, busOpen, local, db, env>>

ListMessages(t) ==
    /\ Move(t, "checked", "listed")
    /\ local' = [local EXCEPT ![t].history = messages[SessionOf[t]]]
    /\ UNCHANGED <<memory, db, env>>

CreateTurn(t) ==
    /\ Move(t, "listed", "created")
    /\ row' = [row EXCEPT ![t] = "queued"]
    /\ UNCHANGED <<memory, local, messages, env>>

\* append_message, first half: SELECT coalesce(max(sequence), 0).
ReadSequence(t) ==
    /\ \/ Move(t, "created", "userSeq")
       \/ Move(t, "answering", "answerSeq")
    /\ local' = [local EXCEPT ![t].seq = Len(messages[SessionOf[t]])]
    /\ UNCHANGED <<memory, db, env>>

\* append_message, second half: INSERT under UNIQUE(session_id, sequence).
Insert(t, role, text) ==
    LET s == SessionOf[t]
    IN /\ local[t].seq = Len(messages[s])
       /\ messages' = [messages EXCEPT ![s] =
                          Append(@, [turn |-> t, role |-> role, text |-> text])]

InsertQuestion(t) ==
    /\ Move(t, "userSeq", "saved")
    /\ Insert(t, "user", t)
    /\ UNCHANGED <<memory, local, row, env>>

\* The synchronous end of start_turn: bus, task and both dictionaries.
SpawnTask(t) ==
    /\ Move(t, "saved", "queued")
    /\ active' = [active EXCEPT ![SessionOf[t]] = t]
    /\ registered' = registered \cup {t}
    /\ busOpen' = busOpen \cup {t}
    /\ lock' = NoTurn
    /\ UNCHANGED <<cancelled, local, db, env>>

\* A database call of start_turn raises: the lock is released, what was
\* committed stays.
StartFails(t) ==
    /\ phase[t] \in Starting
    /\ \/ /\ faults < MaxFaults
          /\ faults' = faults + 1
       \/ /\ phase[t] = "userSeq"
          /\ local[t].seq # Len(messages[SessionOf[t]])
          /\ UNCHANGED faults
    /\ phase' = [phase EXCEPT ![t] = "aborted"]
    /\ lock' = NoTurn
    /\ local' = [local EXCEPT ![t] = NewLocal]
    /\ UNCHANGED <<active, registered, cancelled, busOpen, db,
                   cancelCall, service, crashes>>

(***************************************************************************)
(* _execute                                                                *)
(***************************************************************************)

EnterSemaphore(t) ==
    /\ Cardinality({u \in Turns : phase[u] \in Working}) < MaxConcurrent
    /\ Move(t, "queued", "permit")
    /\ UNCHANGED <<memory, local, db, env>>

MarkRunning(t) ==
    /\ Move(t, "permit", "running")
    /\ row' = [row EXCEPT ![t] = "running"]
    /\ UNCHANGED <<memory, local, messages, env>>

\* The worker thread tests cancel_requested once, before the agent loop.
WorkerStarts(t) ==
    /\ \/ t \in cancelled /\ Move(t, "running", "returned")
       \/ t \notin cancelled /\ Move(t, "running", "agent")
    /\ UNCHANGED <<memory, local, db, env>>

AgentReturns(t) ==
    /\ Move(t, "agent", "returned")
    /\ \E o \in Outcome : local' = [local EXCEPT ![t].outcome = o]
    /\ UNCHANGED <<memory, db, env>>

\* Mutant of AgentRaises: the task ends without the finally clause.
MutAgentRaisesUncaught(t) ==
    /\ Move(t, "running", "done") \/ Move(t, "agent", "done")
    /\ UNCHANGED <<memory, local, db, env>>

\* Loading the runtime or the agent loop raises.  The exception leaves the
\* async with; nothing records it in the row.
AgentRaises(t) ==
    /\ \/ Move(t, "running", "closing")
       \/ Move(t, "agent", "closing")
    /\ UNCHANGED <<memory, local, db, env>>

\* The last assistant message of the result, which begins with the history
\* handed to the agent; failing that the text of this turn's events.
FinalText(t) ==
    IF local[t].outcome = "answered" THEN t
    ELSE IF LastAnswer(local[t].history) # NoTurn
         THEN LastAnswer(local[t].history)
         ELSE IF local[t].outcome = "streamed" THEN t ELSE NoTurn

\* Mutant of ChooseText: no text is no error, and no message.
MutChooseTextSilently(t) ==
    /\ \/ FinalText(t) # NoTurn /\ Move(t, "returned", "answering")
       \/ FinalText(t) = NoTurn /\ Move(t, "returned", "answered")
    /\ local' = [local EXCEPT ![t].text = FinalText(t)]
    /\ UNCHANGED <<memory, db, env>>

ChooseText(t) ==
    /\ \/ FinalText(t) # NoTurn /\ Move(t, "returned", "answering")
       \/ FinalText(t) = NoTurn /\ Move(t, "returned", "closing")
    /\ local' = [local EXCEPT ![t].text = FinalText(t)]
    /\ UNCHANGED <<memory, db, env>>

InsertAnswer(t) ==
    /\ Move(t, "answerSeq", "answered")
    /\ Insert(t, "assistant", local[t].text)
    /\ UNCHANGED <<memory, local, row, env>>

DecideStatus(t) ==
    /\ Move(t, "answered", "deciding")
    /\ local' = [local EXCEPT ![t].status =
                    IF t \in cancelled THEN "cancelled" ELSE "completed"]
    /\ UNCHANGED <<memory, db, env>>

CommitStatus(t) ==
    /\ Move(t, "deciding", "closing")
    /\ row' = [row EXCEPT ![t] = local[t].status]
    /\ UNCHANGED <<memory, local, messages, env>>

\* A database call of _execute raises: straight to the finally clause.
ExecuteFails(t) ==
    /\ phase[t] \in Working \ {"running", "agent"}
    /\ \/ /\ faults < MaxFaults
          /\ faults' = faults + 1
       \/ /\ phase[t] = "answerSeq"
          /\ local[t].seq # Len(messages[SessionOf[t]])
          /\ UNCHANGED faults
    /\ phase' = [phase EXCEPT ![t] = "closing"]
    /\ UNCHANGED <<memory, local, db, cancelCall, service, crashes>>

\* bus.close(), first half: under the bus's lock, no more events are taken.
CloseBus(t) ==
    /\ Move(t, "closing", "sentinels")
    /\ busOpen' = busOpen \ {t}
    /\ UNCHANGED <<lock, active, registered, cancelled, local, db, env>>

\* bus.close(), second half: the sentinel is in every subscriber's queue.  The
\* put into the full queue of a reader who has left never returns.
CloseReturns(t) ==
    /\ Move(t, "sentinels", "closed")
    /\ UNCHANGED <<memory, local, db, env>>

\* Mutant of ReleaseSession: a task that ends during shutdown keeps waiting.
MutReleaseSessionWhileUp(t) ==
    /\ service = "up"
    /\ lock = NoTurn
    /\ Move(t, "closed", "done")
    /\ active' = [active EXCEPT ![SessionOf[t]] = NoTurn]
    /\ local' = [local EXCEPT ![t] = NewLocal]
    /\ UNCHANGED <<lock, registered, cancelled, busOpen, db, env>>

\* async with self._lock: pop the session, whatever turn it names.
ReleaseSession(t) ==
    /\ lock = NoTurn
    /\ Move(t, "closed", "done")
    /\ active' = [active EXCEPT ![SessionOf[t]] = NoTurn]
    /\ local' = [local EXCEPT ![t] = NewLocal]
    /\ UNCHANGED <<lock, registered, cancelled, busOpen, db, env>>

(***************************************************************************)
(* cancel_turn and shutdown                                                *)
(***************************************************************************)

\* A client that has seen the turn's row asks for it to be cancelled.
RequestCancel(t) ==
    /\ service = "up"
    /\ row[t] # "absent"
    /\ cancelCall[t] = "none"
    /\ \/ /\ t \in registered
          /\ cancelled' = cancelled \cup {t}
          /\ cancelCall' = [cancelCall EXCEPT ![t] = "flagged"]
       \/ /\ t \notin registered
          /\ cancelCall' = [cancelCall EXCEPT ![t] = "refused"]
          /\ UNCHANGED cancelled
    /\ UNCHANGED <<phase, local, lock, active, registered, busOpen, db,
                   service, crashes, faults>>

\* bus.emit("turn.cancel_requested"): RuntimeError once the bus is closed.
EmitCancel(t) ==
    /\ cancelCall[t] = "flagged"
    /\ cancelCall' = [cancelCall EXCEPT ![t] =
                         IF t \in busOpen THEN "accepted" ELSE "error"]
    /\ UNCHANGED <<phase, local, memory, db, service, crashes, faults>>

\* The server has stopped taking requests and has finished those it had.
Shutdown ==
    /\ service = "up"
    /\ \A t \in Turns : phase[t] \notin Starting /\ cancelCall[t] # "flagged"
    /\ service' = "draining"
    /\ cancelled' = cancelled \cup {t \in registered : phase[t] # "done"}
    /\ UNCHANGED <<phase, local, lock, active, registered, busOpen, db,
                   cancelCall, crashes, faults>>

\* Mutant of Dispose: the tasks are not gathered.
MutDisposeAtOnce ==
    /\ service = "draining"
    /\ service' = "disposed"
    /\ UNCHANGED <<phase, local, memory, db, cancelCall, crashes, faults>>

\* gather() returns when every task of _turns is done, then the engine goes.
Dispose ==
    /\ service = "draining"
    /\ \A t \in registered : phase[t] = "done"
    /\ service' = "disposed"
    /\ UNCHANGED <<phase, local, memory, db, cancelCall, crashes, faults>>

\* The process dies at any moment, or is started again after a shutdown.
\* Only the database survives; nothing at start-up looks at old rows.
Restart ==
    /\ crashes < MaxCrashes
    /\ crashes' = crashes + 1
    /\ service' = "up"
    /\ phase' = [t \in Turns |->
                    IF phase[t] \in Starting \cup Live THEN "lost" ELSE phase[t]]
    /\ lock' = NoTurn
    /\ active' = [s \in Sessions |-> NoTurn]
    /\ registered' = {}
    /\ cancelled' = {}
    /\ busOpen' = {}
    /\ local' = [t \in Turns |-> NewLocal]
    /\ cancelCall' = [t \in Turns |->
                         IF cancelCall[t] = "flagged" THEN "none" ELSE cancelCall[t]]
    /\ UNCHANGED <<db, faults>>

StartStep(t) ==
    \/ CheckSession(t) \/ ListMessages(t) \/ CreateTurn(t)
    \/ InsertQuestion(t) \/ SpawnTask(t) \/ StartFails(t)

TaskStep(t) ==
    \/ EnterSemaphore(t) \/ MarkRunning(t) \/ WorkerStarts(t)
    \/ AgentReturns(t) \/ AgentRaises(t) \/ ChooseText(t) \/ InsertAnswer(t)
    \/ DecideStatus(t) \/ CommitStatus(t) \/ ExecuteFails(t)
    \/ CloseBus(t) \/ CloseReturns(t) \/ ReleaseSession(t)

Next ==
    \/ \E t \in Turns : \/ StartStep(t) \/ ReadSequence(t) \/ TaskStep(t)
                        \/ RequestCancel(t) \/ EmitCancel(t)
    \/ Shutdown \/ Dispose \/ Restart

Spec == Init /\ [][Next]_vars

\* What the event loop, the thread pool and the database owe a coroutine that
\* is ready to run.  The agent returns or raises because its model calls,
\* tool runs, approvals and number of steps are all bounded.  A close that is
\* putting sentinels is owed nothing: module EventBus shows that it may wait
\* for ever.  Requests, cancels, faults, shutdown and crashes are owed by
\* nobody.
Progress(t) ==
    \/ phase[t] # "idle" /\ StartStep(t)
    \/ ReadSequence(t)
    \/ phase[t] # "sentinels" /\ TaskStep(t)

TurnFairness ==
    /\ \A t \in Turns : WF_vars(Progress(t))
    /\ WF_vars(Dispose)

-----------------------------------------------------------------------------
\* One session never has two live turns, whatever start_turn, _execute and
\* the clients' requests do between awaits ("确保同一会话只能运行一个 turn").
OneTurnPerSession ==
    \A t, u \in Turns :
        /\ phase[t] \in Live /\ phase[u] \in Live
        /\ SessionOf[t] = SessionOf[u]
        => t = u

\* _active_sessions names a turn exactly while that turn's task is alive: no
\* session stays locked after its task, no task runs on an idle session.
ActiveIsLive ==
    /\ \A t \in Turns : phase[t] \in Live => active[SessionOf[t]] = t
    /\ \A s \in Sessions : active[s] # NoTurn =>
           SessionOf[active[s]] = s /\ phase[active[s]] \in Live

\* A coroutine between the two halves of append_message still holds the right
\* next sequence, so the UNIQUE(session_id, sequence) constraint never fires.
SequenceIsFresh ==
    \A t \in Turns : phase[t] \in {"userSeq", "answerSeq"} =>
        local[t].seq = Len(messages[SessionOf[t]])

\* What a running turn was given as history is still the conversation up to
\* its own question: nothing slips in between question and answer.
HistoryIsCurrent ==
    \A t \in Turns : phase[t] \in Live =>
        LET log == messages[SessionOf[t]]
            n   == Len(local[t].history)
        IN /\ Len(log) \in {n + 1, n + 2}
           /\ SubSeq(log, 1, n) = local[t].history
           /\ log[n + 1].turn = t /\ log[n + 1].role = "user"
           /\ Len(log) = n + 2 => log[n + 2].turn = t

\* A turn reported as completed or cancelled has its answer in the conversation,
\* even if the process died right after the report.
TerminalHasAnswer ==
    \A t \in Turns : row[t] \in {"completed", "cancelled"} =>
        \E i \in DOMAIN messages[SessionOf[t]] :
            /\ messages[SessionOf[t]][i].turn = t
            /\ messages[SessionOf[t]][i].role = "assistant"

\* A shut-down application has no task left that could touch the disposed
\* database: shutdown waited for every turn of the process.
ShutdownDrains ==
    service = "disposed" => \A t \in Turns : phase[t] \notin Starting \cup Live

\* A session in use is given back whatever happens to its turn (the finally
\* clause of _execute), unless the close of that very turn's bus waits for
\* ever: it gets as far as that close, and from there on if the close returns.
\* A close that waits elsewhere keeps no other session taken.
SessionReleased ==
    \A t \in Turns :
        active[SessionOf[t]] = t /\ phase[t] # "sentinels"
            ~> active[SessionOf[t]] # t \/ phase[t] = "sentinels"

\* A shutdown in progress ends, unless it gathers a task whose close waits for
\* ever: no other task of _turns, queued, working or ended, holds it up.
ShutdownEnds ==
    LET closing == \E t \in Turns : phase[t] = "sentinels"
    IN service = "draining" /\ ~closing ~> service # "draining" \/ closing

\* What the exception "没有获得最终回答文本" promises: a turn for which the
\* agent produced no answer stores none, so every answer is its turn's own.
AnswerIsOwn ==
    \A s \in Sessions : \A i \in DOMAIN messages[s] :
        messages[s][i].text = messages[s][i].turn

-----------------------------------------------------------------------------
(***************************************************************************)
(* What a client of the module may rely on: module SessionLog              *)
(***************************************************************************)

\* The session is taken from the moment the question is in the table.
BusyWith(s) ==
    IF active[s] # NoTurn THEN active[s]
    ELSE IF /\ lock # NoTurn /\ phase[lock] = "saved"
            /\ SessionOf[lock] = s
         THEN lock ELSE NoTurn

Asked == {t \in Turns : \E i \in DOMAIN messages[SessionOf[t]] :
              /\ messages[SessionOf[t]][i].turn = t
              /\ messages[SessionOf[t]][i].role = "user"}

Log == INSTANCE SessionLog WITH
           busy  <- [s \in Sessions |-> BusyWith(s)],
           log   <- messages,
           asked <- Asked

\* RuntimeManager keeps the promise of SessionLog: a conversation is a row of
\* questions, each with at most one answer right after it, of turns that never
\* overlap.
KeepsSessionLog == Log!LogSpec
=============================================================================
