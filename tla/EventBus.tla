------------------------------ MODULE EventBus ------------------------------
(***************************************************************************)
(* TurnEventBus (eduharness/application/event_bus.py): the broadcast of    *)
(* one turn's events to any number of SSE and WebSocket readers, each with *)
(* its own bounded asyncio.Queue.                                          *)
(*                                                                         *)
(* Every call of emit is a coroutine of its own: the agent's worker thread *)
(* starts one at a time and waits for it, at most 30 seconds; the cancel   *)
(* and approval requests start theirs when they like.  An event is its     *)
(* sequence number.  A put into a queue with room does not suspend, so one *)
(* step fills every queue up to the first full one; a put that waits may   *)
(* be overtaken when the reader makes room, as in asyncio.Queue.           *)
(***************************************************************************)
EXTENDS Integers, Sequences, FiniteSets

CONSTANTS
    WorkerCalls,   \* calls of emit_from_worker
    RequestCalls,  \* calls of emit by cancel and approval requests
    Closer,        \* the call of close
    Subscribers,   \* readers: SSE generators and WebSocket forwarders
    SSEReaders,    \* those that first read the event table
    QueueSize,     \* settings.event_queue_size
    HistorySize,   \* settings.event_history_size
    MaxFaults,     \* bound: persist callbacks that raise, SSE clients that
                   \* come back
    TimeoutsOn,    \* whether the worker may give up on an emit after 30 s
    Nobody         \* a free lock, an idle worker, a put that does not wait

ASSUME EventBusAssumption ==
    /\ WorkerCalls \cap RequestCalls = {}
    /\ Closer \notin WorkerCalls \cup RequestCalls
    /\ SSEReaders \subseteq Subscribers
    /\ QueueSize \in Nat \ {0}
    /\ HistorySize \in Nat \ {0}
    /\ MaxFaults \in Nat
    /\ TimeoutsOn \in BOOLEAN
    /\ Nobody \notin WorkerCalls \cup RequestCalls \cup {Closer} \cup Subscribers

Emits == WorkerCalls \cup RequestCalls
Calls == Emits \cup {Closer}
Sentinel == 0   \* the None that ends a subscription
Unset    == -1  \* turns.status is not final yet

VARIABLES
    lock,         \* the emit holding _lock while it persists
    closed,       \* _closed
    sequence,     \* _sequence
    history,      \* _history
    subscribers,  \* _subscribers, each reader standing for its queue
    queue,        \* what waits in each reader's queue
    persisted,    \* the turn's rows of agent_events, in commit order
    callState,    \* where each emit, and close, stands
    todo,         \* per call: readers its item must still be put to
    waitsOn,      \* per call: the full queue its put is suspended on
    event,        \* per emit: the event it made
    worker,       \* the emit the worker thread is waiting for
    readState,    \* where each reader stands
    replay,       \* per reader: events of the history still to be yielded
    received,     \* per reader: events yielded to it so far
    stored,       \* rows there when the final status was written, or Unset
    sawOver,      \* per reader: the status it read was final
    faults

bus     == <<closed, sequence, history, subscribers>>
calls   == <<callState, todo, waitsOn, event, worker>>
readers == <<readState, replay, received, sawOver>>
rows    == <<persisted, stored>>
vars    == <<lock, bus, queue, rows, calls, readers, faults>>

TypeOK ==
    /\ lock \in Emits \cup {Nobody}
    /\ closed \in BOOLEAN
    /\ sequence \in Nat
    /\ history \in Seq(Nat)
    /\ subscribers \subseteq Subscribers
    /\ queue \in [Subscribers -> Seq(Nat)]
    /\ \A s \in Subscribers : Len(queue[s]) <= QueueSize
    /\ persisted \in Seq(Nat)
    /\ callState \in [Calls -> {"idle", "persisting", "persisted",
                              "putting", "done", "raised"}]
    /\ todo \in [Calls -> SUBSET Subscribers]
    /\ waitsOn \in [Calls -> Subscribers \cup {Nobody}]
    /\ event \in [Calls -> Nat]
    /\ worker \in WorkerCalls \cup {Nobody}
    /\ readState \in [Subscribers ->
           {"idle", "opening", "reading", "live", "drain", "finishing",
            "leaving", "ended", "told", "gone"}]
    /\ replay \in [Subscribers -> Seq(Nat)]
    /\ received \in [Subscribers -> Seq(Nat)]
    /\ stored \in Nat \cup {Unset}
    /\ sawOver \in [Subscribers -> BOOLEAN]
    /\ faults \in 0..MaxFaults

Init ==
    /\ lock = Nobody
    /\ closed = FALSE
    /\ sequence = 0
    /\ history = <<>>
    /\ subscribers = {}
    /\ queue = [s \in Subscribers |-> <<>>]
    /\ persisted = <<>>
    /\ callState = [c \in Calls |-> "idle"]
    /\ todo = [c \in Calls |-> {}]
    /\ waitsOn = [c \in Calls |-> Nobody]
    /\ event = [c \in Calls |-> Sentinel]
    /\ worker = Nobody
    /\ readState = [s \in Subscribers |-> "idle"]
    /\ replay = [s \in Subscribers |-> <<>>]
    /\ received = [s \in Subscribers |-> <<>>]
    /\ stored = Unset
    /\ sawOver = [s \in Subscribers |-> FALSE]
    /\ faults = 0

\* Mutant of Full: one place too few.
MutFullEarly(s) == Len(queue[s]) >= QueueSize - 1

Full(s) == Len(queue[s]) >= QueueSize

\* Mutant of PutUntilFull: put_nowait, and what does not fit is dropped.
MutPutOrDrop(c, item, targets) ==
    /\ queue' = [s \in Subscribers |->
                    IF s \in targets /\ (~Full(s) \/ item = Sentinel)
                    THEN Append(queue[s], item) ELSE queue[s]]
    /\ waitsOn' = [waitsOn EXCEPT ![c] = Nobody]
    /\ todo' = [todo EXCEPT ![c] = {}]
    /\ callState' = [callState EXCEPT ![c] = "done"]

\* for queue in subscribers: await queue.put(item), run from the state the
\* call is in until it has served them all or meets a full queue.  A set has
\* no order, so any of the queues with room may come before the full one.
PutUntilFull(c, item, targets) ==
    \E given \in SUBSET {s \in targets : ~Full(s)} :
        /\ queue' = [s \in Subscribers |->
                        IF s \in given THEN Append(queue[s], item) ELSE queue[s]]
        /\ \/ /\ given = targets
              /\ waitsOn' = [waitsOn EXCEPT ![c] = Nobody]
              /\ todo' = [todo EXCEPT ![c] = {}]
              /\ callState' = [callState EXCEPT ![c] = "done"]
           \/ \E s \in targets \ given :
              /\ Full(s)
              /\ waitsOn' = [waitsOn EXCEPT ![c] = s]
              /\ todo' = [todo EXCEPT ![c] = targets \ given]
              /\ callState' = [callState EXCEPT ![c] = "putting"]

(***************************************************************************)
(* emit and emit_from_worker                                               *)
(***************************************************************************)

\* The lock is taken; a closed bus raises, an open one numbers the event and
\* hands it to the persist callback.
Begin(c) ==
    /\ callState[c] = "idle"
    /\ lock = Nobody
    /\ \/ /\ closed
          /\ callState' = [callState EXCEPT ![c] = "raised"]
          /\ UNCHANGED <<lock, sequence, event>>
       \/ /\ ~closed
          /\ callState' = [callState EXCEPT ![c] = "persisting"]
          /\ lock' = c
          /\ sequence' = sequence + 1
          /\ event' = [event EXCEPT ![c] = sequence + 1]
    /\ UNCHANGED <<closed, history, subscribers, queue, rows, todo,
                   waitsOn, readers, faults>>

\* The worker thread blocks in future.result for each of its emits; it emits
\* nothing once its turn is over and the bus is being closed.
EmitFromWorker(c) ==
    /\ worker = Nobody
    /\ callState[Closer] = "idle"
    /\ Begin(c)
    /\ worker' = c

EmitFromRequest(c) == Begin(c) /\ UNCHANGED worker

\* The event is in agent_events: commit of append_event.
Persist(c) ==
    /\ callState[c] = "persisting"
    /\ callState' = [callState EXCEPT ![c] = "persisted"]
    /\ persisted' = Append(persisted, event[c])
    /\ UNCHANGED <<stored, lock, bus, queue, todo, waitsOn, event, worker,
                   readers, faults>>

\* The callback raises: the number is spent, the lock is released.
PersistFails(c) ==
    /\ callState[c] = "persisting"
    /\ faults < MaxFaults
    /\ faults' = faults + 1
    /\ lock' = Nobody
    /\ callState' = [callState EXCEPT ![c] = "raised"]
    /\ UNCHANGED <<bus, queue, rows, todo, waitsOn, event, worker, readers>>

\* After the await: history, snapshot of the subscribers, release, and the
\* puts that need not wait.
Publish(c) ==
    LET kept == Append(history, event[c])
    IN /\ callState[c] = "persisted"
       /\ history' = IF Len(kept) > HistorySize THEN Tail(kept) ELSE kept
       /\ lock' = Nobody
       /\ PutUntilFull(c, event[c], subscribers)
       /\ UNCHANGED <<closed, sequence, subscribers, rows, event, worker,
                      readers, faults>>

\* A suspended put finds room; the queue of a client that went is not read.
ResumePut(c) ==
    /\ callState[c] = "putting"
    /\ waitsOn[c] # Nobody
    /\ ~Full(waitsOn[c])
    /\ PutUntilFull(c, event[c], todo[c])
    /\ UNCHANGED <<lock, bus, rows, event, worker, readers, faults>>

\* future.result returns, or gives up: the coroutine goes on without it.
WorkerResumes ==
    /\ worker # Nobody
    /\ TimeoutsOn \/ callState[worker] \in {"done", "raised"}
    /\ worker' = Nobody
    /\ UNCHANGED <<lock, bus, queue, rows, callState, todo, waitsOn,
                   event, readers, faults>>

(***************************************************************************)
(* close                                                                   *)
(***************************************************************************)

\* Mutant of Close: it does not wait for an emit that is persisting.
MutCloseUnlocked ==
    /\ callState[Closer] = "idle"
    /\ worker = Nobody
    /\ closed' = TRUE
    /\ PutUntilFull(Closer, Sentinel, subscribers)
    /\ UNCHANGED <<lock, sequence, history, subscribers, rows, event,
                   worker, readers, faults>>

\* Mutant of Close: no sentinel is put.
MutCloseSilently ==
    /\ callState[Closer] = "idle"
    /\ worker = Nobody
    /\ lock = Nobody
    /\ closed' = TRUE
    /\ PutUntilFull(Closer, Sentinel, {})
    /\ UNCHANGED <<lock, sequence, history, subscribers, rows, event,
                   worker, readers, faults>>

Close ==
    /\ callState[Closer] = "idle"
    /\ worker = Nobody
    /\ lock = Nobody
    /\ closed' = TRUE
    /\ PutUntilFull(Closer, Sentinel, subscribers)
    /\ UNCHANGED <<lock, sequence, history, subscribers, rows, event,
                   worker, readers, faults>>

(***************************************************************************)
(* subscribe, and the SSE route that calls it                              *)
(***************************************************************************)

\* The turn's final status is written before its bus is closed, or never.
CommitStatus ==
    /\ callState[Closer] = "idle"
    /\ worker = Nobody
    /\ stored = Unset
    /\ stored' = Len(persisted)
    /\ UNCHANGED <<lock, bus, queue, persisted, calls, readers, faults>>

\* stream_turn_events looks at the status first, once ...
ReadStatus(s) ==
    /\ s \in SSEReaders
    /\ readState[s] = "idle"
    /\ readState' = [readState EXCEPT ![s] = "opening"]
    /\ sawOver' = [sawOver EXCEPT ![s] = stored # Unset]
    /\ UNCHANGED <<lock, bus, queue, rows, calls, replay, received, faults>>

\* after_sequence: the number of the last event sent, which is also the one
\* an SSE client comes back with; 0 for a WebSocket.
After(s) == IF received[s] = <<>> THEN 0 ELSE received[s][Len(received[s])]

\* Both the table and the history are in the order of the numbers, so that the
\* events with a higher one are the last ones.
Newer(s, events) ==
    LET seen == {i \in DOMAIN events : events[i] <= After(s)}
    IN SubSeq(events, Cardinality(seen) + 1, Len(events))

\* ... and then sends the rows the client has not seen.
ReadEventTable(s) ==
    /\ readState[s] = "opening"
    /\ readState' = [readState EXCEPT ![s] = "reading"]
    /\ received' = [received EXCEPT ![s] = @ \o Newer(s, persisted)]
    /\ UNCHANGED <<lock, bus, queue, rows, calls, replay, sawOver, faults>>

\* Mutant of TellClosed: the status as it is now.
MutTellClosedLate(s) ==
    /\ readState[s] = "reading"
    /\ stored # Unset
    /\ readState' = [readState EXCEPT ![s] = "told"]
    /\ UNCHANGED <<lock, bus, queue, rows, calls, replay, received, sawOver,
                   faults>>

\* The status was final: stream.closed, and no subscription.
TellClosed(s) ==
    /\ readState[s] = "reading"
    /\ sawOver[s]
    /\ readState' = [readState EXCEPT ![s] = "told"]
    /\ UNCHANGED <<lock, bus, queue, rows, calls, replay, received, sawOver,
                   faults>>

\* Mutant of Subscribe: the history is read while an emit is persisting.
MutSubscribeUnlocked(s) ==
    /\ readState[s] = IF s \in SSEReaders THEN "reading" ELSE "idle"
    /\ ~sawOver[s]
    /\ ~closed
    /\ replay' = [replay EXCEPT ![s] = Newer(s, history)]
    /\ readState' = [readState EXCEPT ![s] = "live"]
    /\ subscribers' = subscribers \cup {s}
    /\ UNCHANGED <<lock, closed, sequence, history, queue, rows, calls,
                   received, sawOver, faults>>

Subscribe(s) ==
    /\ readState[s] = IF s \in SSEReaders THEN "reading" ELSE "idle"
    /\ ~sawOver[s]
    /\ lock = Nobody
    /\ replay' = [replay EXCEPT ![s] = Newer(s, history)]
    /\ \/ /\ closed
          /\ readState' = [readState EXCEPT ![s] = "drain"]
          /\ UNCHANGED subscribers
       \/ /\ ~closed
          /\ readState' = [readState EXCEPT ![s] = "live"]
          /\ subscribers' = subscribers \cup {s}
    /\ UNCHANGED <<lock, closed, sequence, history, queue, rows, calls,
                   received, sawOver, faults>>

YieldReplay(s) ==
    /\ readState[s] \in {"live", "drain"}
    /\ replay[s] # <<>>
    /\ received' = [received EXCEPT ![s] = Append(@, Head(replay[s]))]
    /\ replay' = [replay EXCEPT ![s] = Tail(@)]
    /\ UNCHANGED <<lock, bus, queue, rows, calls, readState, sawOver, faults>>

\* The bus was closed at the time of the subscription: the replay is all.
EndOfReplay(s) ==
    /\ readState[s] = "drain"
    /\ replay[s] = <<>>
    /\ readState' = [readState EXCEPT ![s] = "ended"]
    /\ UNCHANGED <<lock, bus, queue, rows, calls, replay, received, sawOver,
                   faults>>

\* queue.get: an event is yielded, the sentinel ends the loop.
YieldLive(s) ==
    /\ readState[s] = "live"
    /\ replay[s] = <<>>
    /\ queue[s] # <<>>
    /\ queue' = [queue EXCEPT ![s] = Tail(@)]
    /\ \/ /\ Head(queue[s]) # Sentinel
          /\ received' = [received EXCEPT ![s] = Append(@, Head(queue[s]))]
          /\ UNCHANGED readState
       \/ /\ Head(queue[s]) = Sentinel
          /\ readState' = [readState EXCEPT ![s] = "finishing"]
          /\ UNCHANGED received
    /\ UNCHANGED <<lock, bus, rows, calls, replay, sawOver, faults>>

\* The client is gone: the generator is closed at its yield.
Disconnect(s) ==
    /\ readState[s] \in {"live", "drain"}
    /\ readState' = [readState EXCEPT ![s] = "leaving"]
    /\ UNCHANGED <<lock, bus, queue, rows, calls, replay, received, sawOver,
                   faults>>

\* The finally clause of subscribe forgets the queue, with what is in it.
Discard(s) ==
    /\ lock = Nobody
    /\ \/ /\ readState[s] = "finishing"
          /\ readState' = [readState EXCEPT ![s] = "ended"]
       \/ /\ readState[s] = "leaving"
          /\ readState' = [readState EXCEPT ![s] = "gone"]
    /\ subscribers' = subscribers \ {s}
    /\ UNCHANGED <<lock, closed, sequence, history, queue, rows, calls,
                   replay, received, sawOver, faults>>

\* A client of the SSE route comes back with Last-Event-ID, and gets another
\* queue: a put that waits for the one it had waits for ever.
Reconnect(s) ==
    /\ s \in SSEReaders
    /\ readState[s] = "gone"
    /\ faults < MaxFaults
    /\ faults' = faults + 1
    /\ readState' = [readState EXCEPT ![s] = "idle"]
    /\ queue' = [queue EXCEPT ![s] = <<>>]
    /\ replay' = [replay EXCEPT ![s] = <<>>]
    /\ waitsOn' = [c \in Calls |-> IF waitsOn[c] = s THEN Nobody ELSE waitsOn[c]]
    /\ todo' = [c \in Calls |-> todo[c] \ {s}]
    /\ UNCHANGED <<lock, bus, rows, callState, event, worker, received, sawOver>>

EmitStep(c) == Persist(c) \/ PersistFails(c) \/ Publish(c) \/ ResumePut(c)

ReadStep(s) ==
    \/ ReadStatus(s) \/ ReadEventTable(s) \/ TellClosed(s) \/ Subscribe(s)
    \/ YieldReplay(s) \/ EndOfReplay(s) \/ YieldLive(s) \/ Discard(s)

Base ==
    \/ \E c \in WorkerCalls : EmitFromWorker(c)
    \/ \E c \in RequestCalls : EmitFromRequest(c)
    \/ \E c \in Calls : EmitStep(c)
    \/ WorkerResumes \/ CommitStatus \/ Close
    \/ \E s \in Subscribers : ReadStep(s)

Next == Base \/ \E s \in Subscribers : Disconnect(s) \/ Reconnect(s)

\* Readers that stay to the end, and readers that may leave.
LoyalSpec == Init /\ [][Base]_vars
Spec      == Init /\ [][Next]_vars

\* The event loop runs what can run, the agent comes to its end and its turn
\* closes the bus, and a connected client reads.  No request and no reader is
\* owed, nor a disconnection.
Fairness ==
    /\ \A c \in Calls : WF_vars(EmitStep(c))
    /\ WF_vars(WorkerResumes) /\ WF_vars(Close)
    /\ \A s \in Subscribers :
          /\ WF_vars(YieldReplay(s)) /\ WF_vars(EndOfReplay(s))
          /\ WF_vars(Discard(s)) /\ WF_vars(YieldLive(s))

FairLoyalSpec == LoyalSpec /\ Fairness
FairSpec      == Spec /\ Fairness

-----------------------------------------------------------------------------
IsPrefixOf(a, b) == Len(a) <= Len(b) /\ \A i \in DOMAIN a : a[i] = b[i]

\* What a reader has been sent is at every moment a beginning of what the
\* database holds: replay and live events meet without a gap, a duplicate or
\* a swap, and nobody sees an event a restart could forget.  It is what lets
\* a client resume after the last number it saw ("resume by sequence").
ReadersSeePrefix ==
    \A s \in Subscribers : IsPrefixOf(received[s], persisted)

\* A stream that the bus ended has carried every event of the turn, one ended
\* by stream.closed at least those stored when the final status was written:
\* the route may not learn of an end later than it read the table.
EndedIsComplete ==
    \A s \in Subscribers :
        /\ readState[s] = "ended" => received[s] = persisted
        /\ readState[s] = "told" => Len(received[s]) >= stored

\* Once the bus is closed the turn's record is final: no emit that was under
\* way when close was called adds to it.
ClosedIsFinal ==
    [][closed => UNCHANGED <<closed, sequence, history, persisted>>]_vars

\* A reader that stays comes to the end of the stream once the bus is closed.
ReadersEnd ==
    \A s \in Subscribers :
        (closed /\ readState[s] \in {"live", "drain"}) ~> readState[s] = "ended"

\* close returns, so that _execute can give its session back (
\* "不管正常结束、抛出异常、任务被取消，一定会执行").
CloseReturns == closed ~> callState[Closer] = "done"
=============================================================================
