------------------------------ MODULE McpClient ------------------------------
(***************************************************************************)
(* StdioMcpClient of minicode/mcp.py: a client that starts its server       *)
(* process when it is first needed, sends numbered requests to its stdin    *)
(* and lets a thread read the answers from its stdout.                      *)
(*                                                                         *)
(* The tools of a turn that use a client are not concurrency-safe, so it    *)
(* has one caller.  What runs beside it: the server, which answers late, in *)
(* any order or never, and dies; and one reader thread per server started,  *)
(* which outlives its server and finds the current one in self.process.     *)
(* Processes and their readers are numbered in the order of their start.    *)
(* Contents of requests, headers and stderr are left out: a message is the  *)
(* id it carries.                                                           *)
(***************************************************************************)
EXTENDS Integers, Sequences

CONSTANTS
    Candidates,  \* how many protocols start() tries
    MaxSpawns,   \* bound: server processes that come to life
    MaxCalls,    \* bound: calls of the client
    MaxFaults    \* bound: servers that die, outputs that end a reader

ASSUME McpAssumption ==
    /\ Candidates \in Nat \ {0}
    /\ MaxSpawns \in Nat /\ MaxCalls \in Nat /\ MaxFaults \in Nat

Procs  == 1..MaxSpawns
Ids    == 1..(MaxSpawns + MaxCalls)
NoProc == 0
NoId   == 0

VARIABLES
    process,   \* self.process
    started,   \* _started
    thread,    \* _stdout_thread
    pending,   \* ids in _pending
    nextId,    \* next_id
    cache,     \* the process whose tool list is cached, or NoProc
    box,       \* per id: what was put into its queue
    pc,        \* where the caller stands
    op,        \* what was called
    current,   \* the id of the caller's request
    candidate, \* which protocol start() is trying
    goal,      \* where close() goes back to
    spawned,   \* how many processes have been started
    alive,     \* the processes that live
    asked,     \* per id: the process it was written to
    inbox,     \* per process: ids it has yet to answer
    output,    \* per process: ids of the answers in its stdout
    reader,    \* per reader: where it stands, on which stdout, with which id
    callsMade,
    faults

client == <<process, started, thread, nextId, cache>>
answers == <<pending, box>>
caller == <<pc, op, current, candidate, goal, callsMade>>
server == <<spawned, alive, asked, inbox, output>>
vars   == <<client, answers, caller, server, reader, faults>>

Messages   == [kind : {"answer", "exited", "closed"}, from : Procs \cup {NoProc}]
Answer(p)  == [kind |-> "answer", from |-> p]
Exited(p)  == [kind |-> "exited", from |-> p]
Closed(p)  == [kind |-> "closed", from |-> p]
States     == {"unborn", "born", "loop", "reading", "handling", "finally",
               "failing", "done"}
Readers    == [state : States, on : Procs \cup {NoProc}, id : Ids \cup {NoId}]
Unborn     == [state |-> "unborn", on |-> NoProc, id |-> NoId]

TypeOK ==
    /\ process \in Procs \cup {NoProc} /\ thread \in Procs \cup {NoProc}
    /\ cache \in Procs \cup {NoProc}
    /\ started \in BOOLEAN
    /\ pending \subseteq Ids
    /\ nextId \in 1..(MaxSpawns + MaxCalls + 1)
    /\ box \in [Ids -> Seq(Messages)]
    /\ pc \in {"idle", "ensure", "spawn", "register", "send", "wait", "expired",
               "notify", "clear", "kill", "forget"}
    /\ op \in {"none", "list", "call"}
    /\ current \in Ids \cup {NoId}
    /\ candidate \in 1..Candidates
    /\ goal \in {"idle", "start", "next"}
    /\ callsMade \in 0..MaxCalls
    /\ spawned \in 0..MaxSpawns
    /\ alive \subseteq 1..spawned
    /\ asked \in [Ids -> Procs \cup {NoProc}]
    /\ inbox \in [Procs -> SUBSET Ids]
    /\ output \in [Procs -> Seq(Ids)]
    /\ reader \in [Procs -> Readers]
    /\ faults \in 0..MaxFaults

Init ==
    /\ process = NoProc /\ started = FALSE /\ thread = NoProc
    /\ pending = {} /\ nextId = 1 /\ cache = NoProc
    /\ box = [i \in Ids |-> <<>>]
    /\ pc = "idle" /\ op = "none" /\ current = NoId /\ candidate = 1
    /\ goal = "idle"
    /\ spawned = 0 /\ alive = {}
    /\ asked = [i \in Ids |-> NoProc]
    /\ inbox = [p \in Procs |-> {}] /\ output = [p \in Procs |-> <<>>]
    /\ reader = [p \in Procs |-> Unborn]
    /\ callsMade = 0 /\ faults = 0

(***************************************************************************)
(* The caller: list_tools and call_tool, which start the server lazily     *)
(***************************************************************************)
Goto(where) ==
    pc' = where /\ UNCHANGED <<op, current, candidate, goal, callsMade>>

\* An exception: start() closes the client and tries the next protocol, any
\* other request hands it to its caller.
Raise ==
    /\ pc' = IF started THEN "idle" ELSE "clear"
    /\ goal' = IF started THEN goal ELSE "next"
    /\ UNCHANGED <<op, current, candidate, callsMade>>

\* A cached list needs no server.
Invoke(what) ==
    /\ pc = "idle"
    /\ callsMade < MaxCalls
    /\ callsMade' = callsMade + 1
    /\ op' = what
    /\ pc' = IF what = "list" /\ cache # NoProc THEN "idle" ELSE "ensure"
    /\ UNCHANGED <<current, candidate, goal, client, answers, server, reader, faults>>

EnsureStarted ==
    /\ pc = "ensure"
    /\ pc' = IF ~started THEN "spawn"
             ELSE IF process \in alive THEN "register" ELSE "clear"
    /\ candidate' = 1
    /\ goal' = "start"
    /\ UNCHANGED <<op, current, callsMade, client, answers, server, reader, faults>>

\* Mutant of Spawn: a new server is counted from 1 again.
MutSpawnRestartsIds ==
    /\ pc = "spawn"
    /\ spawned < MaxSpawns
    /\ spawned' = spawned + 1
    /\ process' = spawned + 1
    /\ alive' = alive \cup {spawned + 1}
    /\ pending' = {}
    /\ nextId' = 1
    /\ Goto("register")
    /\ UNCHANGED <<started, thread, cache, box, asked, inbox, output, reader, faults>>

\* Popen, and an empty _pending.
Spawn ==
    /\ pc = "spawn"
    /\ spawned < MaxSpawns
    /\ spawned' = spawned + 1
    /\ process' = spawned + 1
    /\ alive' = alive \cup {spawned + 1}
    /\ pending' = {}
    /\ Goto("register")
    /\ UNCHANGED <<started, thread, nextId, cache, box, asked, inbox, output,
                   reader, faults>>

SpawnFails ==
    /\ pc = "spawn"
    /\ Raise
    /\ UNCHANGED <<client, answers, server, reader, faults>>

(***************************************************************************)
(* request: initialize as long as the client is not started, then op       *)
(***************************************************************************)
Register ==
    /\ pc = "register"
    /\ current' = nextId
    /\ nextId' = nextId + 1
    /\ pending' = pending \cup {nextId}
    /\ box' = [box EXCEPT ![nextId] = <<>>]
    /\ pc' = "send"
    /\ UNCHANGED <<op, candidate, goal, callsMade, process, started, thread, cache,
                   server, reader, faults>>

\* Behind each write the client makes sure that a thread reads the answers.
EnsureStdoutThread ==
    /\ thread' = IF thread = NoProc THEN process ELSE thread
    /\ reader' = IF thread = NoProc
                 THEN [reader EXCEPT ![process].state = "born"] ELSE reader
    /\ UNCHANGED <<process, started, nextId, cache>>

\* The pipe of a dead server is broken: the write raises.
SendFails ==
    /\ pc \in {"send", "notify"}
    /\ process \notin alive
    /\ Raise
    /\ UNCHANGED <<client, answers, server, reader, faults>>

\* The write comes to an end.  While the pipe is full and the server does not
\* read, it does not.
Send ==
    /\ pc = "send"
    /\ process \in alive
    /\ asked' = [asked EXCEPT ![current] = process]
    /\ inbox' = [inbox EXCEPT ![process] = @ \cup {current}]
    /\ EnsureStdoutThread
    /\ Goto("wait")
    /\ UNCHANGED <<answers, spawned, alive, output, faults>>

Reply == Head(box[current])

\* queue.get returns: an answer completes the request, an error raises.
Receive ==
    /\ pc = "wait"
    /\ box[current] # <<>>
    /\ \/ /\ Reply.kind = "answer"
          /\ IF started
             THEN /\ Goto("idle")
                  /\ cache' = IF op = "list" THEN process ELSE cache
             ELSE Goto("notify") /\ UNCHANGED cache
       \/ Raise /\ UNCHANGED cache   \* an error, or an answer that is one
    /\ UNCHANGED <<process, started, thread, nextId, answers, server, reader, faults>>

\* notifications/initialized, and the server is in use.
Notify ==
    /\ pc = "notify"
    /\ process \in alive
    /\ started' = TRUE
    /\ Goto("register")
    /\ UNCHANGED <<process, thread, nextId, cache, answers, server, reader, faults>>

\* Mutant of Expire: the wait ends with an answer or with the server.
MutExpireDead ==
    /\ pc = "wait"
    /\ box[current] = <<>>
    /\ process \notin alive
    /\ Goto("expired")
    /\ UNCHANGED <<client, answers, server, reader, faults>>

\* queue.get raises Empty ...
Expire ==
    /\ pc = "wait"
    /\ box[current] = <<>>
    /\ Goto("expired")
    /\ UNCHANGED <<client, answers, server, reader, faults>>

\* Mutant of Withdraw: the entry stays.
MutWithdrawForgets ==
    /\ pc = "expired"
    /\ Raise
    /\ UNCHANGED <<client, answers, server, reader, faults>>

\* ... and the entry is removed, if the answer has not just done it.
Withdraw ==
    /\ pc = "expired"
    /\ pending' = pending \ {current}
    /\ Raise
    /\ UNCHANGED <<client, box, server, reader, faults>>

(***************************************************************************)
(* close                                                                   *)
(***************************************************************************)

\* The tool registry is disposed of at the end of a turn.
Dispose ==
    /\ pc = "idle"
    /\ process # NoProc
    /\ pc' = "clear"
    /\ goal' = "idle"
    /\ UNCHANGED <<op, current, candidate, callsMade, client, answers, server,
                   reader, faults>>

\* Everybody who waits gets m, and is forgotten.
AnswerAll(m) ==
    /\ box' = [i \in Ids |-> IF i \in pending THEN Append(box[i], m) ELSE box[i]]
    /\ pending' = {}

CloseClear ==
    /\ pc = "clear"
    /\ AnswerAll(Closed(process))
    /\ Goto("kill")
    /\ UNCHANGED <<client, server, reader, faults>>

\* terminate or kill, and wait.
CloseKill ==
    /\ pc = "kill"
    /\ alive' = alive \ {process}
    /\ Goto("forget")
    /\ UNCHANGED <<client, answers, spawned, asked, inbox, output, reader, faults>>

\* Back to the dead server's replacement, the next protocol, or the caller.
Resume ==
    /\ pc' = IF goal = "start" \/ (goal = "next" /\ candidate < Candidates)
             THEN "spawn" ELSE "idle"
    /\ candidate' = IF goal = "next" /\ candidate < Candidates
                    THEN candidate + 1 ELSE candidate

\* Mutant of CloseForget: the lists of the old server are kept.
MutCloseForgetKeepsCache ==
    /\ pc = "forget"
    /\ process' = NoProc /\ thread' = NoProc
    /\ started' = FALSE
    /\ Resume
    /\ UNCHANGED <<op, current, goal, callsMade, nextId, cache, answers, server,
                   reader, faults>>

CloseForget ==
    /\ pc = "forget"
    /\ process' = NoProc /\ thread' = NoProc
    /\ started' = FALSE /\ cache' = NoProc
    /\ Resume
    /\ UNCHANGED <<op, current, goal, callsMade, nextId, answers, server, reader,
                   faults>>

(***************************************************************************)
(* _consume_stdout: reader r was started for process r                     *)
(***************************************************************************)
ReaderGoes(r, from, to) ==
    reader[r].state = from /\ reader' = [reader EXCEPT ![r].state = to]

\* The assertion at the head of the thread.
ReaderStarts(r) ==
    /\ ReaderGoes(r, "born", IF process = NoProc THEN "done" ELSE "loop")
    /\ UNCHANGED <<client, answers, caller, server, faults>>

\* self.process is looked up anew for every line: the reader may go on with a
\* server that is not its own, or fail because there is none.
ReaderLooks(r) ==
    /\ reader[r].state = "loop"
    /\ reader' = [reader EXCEPT
          ![r].state = IF process = NoProc THEN "finally" ELSE "reading",
          ![r].on = process]
    /\ UNCHANGED <<client, answers, caller, server, faults>>

ReaderReads(r) ==
    LET p == reader[r].on
    IN /\ reader[r].state = "reading"
       /\ output[p] # <<>>
       /\ reader' = [reader EXCEPT ![r].state = "handling", ![r].id = Head(output[p])]
       /\ output' = [output EXCEPT ![p] = Tail(@)]
       /\ UNCHANGED <<client, answers, caller, spawned, alive, asked, inbox, faults>>

\* _handle_message: an id nobody waits for any more is dropped.
ReaderHandles(r) ==
    /\ reader[r].state = "handling"
    /\ reader' = [reader EXCEPT ![r].state = "loop", ![r].id = NoId]
    /\ IF reader[r].id \in pending
       THEN /\ box' = [box EXCEPT ![reader[r].id] = Append(@, Answer(reader[r].on))]
            /\ pending' = pending \ {reader[r].id}
       ELSE UNCHANGED answers
    /\ UNCHANGED <<client, caller, server, faults>>

ReaderMeetsEnd(r) ==
    /\ reader[r].on \notin alive
    /\ ReaderGoes(r, "reading", "finally")
    /\ output[reader[r].on] = <<>>
    /\ UNCHANGED <<client, answers, caller, server, faults>>

\* An answer that ends the thread while its server lives: a body that comes in
\* two pieces, a header that is no text, a message that is no object, or a line
\* torn between two readers of one server.
ReaderBreaks(r) ==
    LET p == reader[r].on
    IN /\ reader[r].state = "reading"
       /\ output[p] # <<>>
       /\ faults < MaxFaults
       /\ faults' = faults + 1
       /\ output' = [output EXCEPT ![p] = Tail(@)]
       /\ reader' = [reader EXCEPT ![r].state = "finally"]
       /\ UNCHANGED <<client, answers, caller, spawned, alive, asked, inbox>>

\* if self.process: whichever server that is now ...
ReaderTests(r) ==
    /\ ReaderGoes(r, "finally", IF process = NoProc THEN "done" ELSE "failing")
    /\ UNCHANGED <<client, answers, caller, server, faults>>

\* ... every request in hand fails, unless poll finds no process any more.
ReaderFails(r) ==
    /\ ReaderGoes(r, "failing", "done")
    /\ IF process = NoProc THEN UNCHANGED answers ELSE AnswerAll(Exited(process))
    /\ UNCHANGED <<client, caller, server, faults>>

(***************************************************************************)
(* The server                                                              *)
(***************************************************************************)
ServerAnswers(p, id) ==
    /\ p \in alive
    /\ id \in inbox[p]
    /\ inbox' = [inbox EXCEPT ![p] = @ \ {id}]
    /\ output' = [output EXCEPT ![p] = Append(@, id)]
    /\ UNCHANGED <<client, answers, caller, spawned, alive, asked, reader, faults>>

ServerDies(p) ==
    /\ p \in alive
    /\ faults < MaxFaults
    /\ faults' = faults + 1
    /\ alive' = alive \ {p}
    /\ UNCHANGED <<client, answers, caller, spawned, asked, inbox, output, reader>>

-----------------------------------------------------------------------------
CallerStep ==
    \/ EnsureStarted \/ Spawn \/ SpawnFails
    \/ Register \/ Send \/ SendFails \/ Receive \/ Notify \/ Expire \/ Withdraw
    \/ CloseClear \/ CloseKill \/ CloseForget

ReaderStep(r) ==
    \/ ReaderStarts(r) \/ ReaderLooks(r) \/ ReaderReads(r) \/ ReaderHandles(r)
    \/ ReaderMeetsEnd(r) \/ ReaderBreaks(r) \/ ReaderTests(r) \/ ReaderFails(r)

Next ==
    \/ \E what \in {"list", "call"} : Invoke(what)
    \/ Dispose
    \/ CallerStep
    \/ \E r \in Procs : ReaderStep(r)
    \/ \E p \in Procs : ServerDies(p) \/ \E id \in Ids : ServerAnswers(p, id)

Spec == Init /\ [][Next]_vars

\* The caller stands in stdin.write or flush of a living server: the only wait
\* of a call that no time-out ends.
Writing == pc \in {"send", "notify"} /\ process \in alive

\* The caller's thread runs, its waits for answers time out and its write to a
\* dead server raises.  Nothing is owed by the server, not even that it takes
\* what is written to it, nor by the readers.
FairSpec == Spec /\ WF_vars(~Writing /\ CallerStep)

-----------------------------------------------------------------------------
\* What a request takes for its answer was sent by the server it was written
\* to: answers that come late, after a time-out, a crash or a restart, and are
\* read by whichever thread, never answer a request of another server.
AnswerIsOwn ==
    \A id \in Ids : \A i \in DOMAIN box[id] :
        box[id][i].kind = "answer" => box[id][i].from = asked[id]

\* A request is answered or still expected, and never both: the reader, the
\* time-out, the reader's end and close race for its entry, one of them wins,
\* and no put meets a full queue with the lock held.  No entry outlives its
\* request ("removed from pending"), unless it could not even be written.
InHand == pc \in {"send", "wait", "expired"}

PendingIsOwed ==
    /\ \A id \in Ids : Len(box[id]) <= IF id \in pending THEN 0 ELSE 1
    /\ InHand => current \in pending \/ box[current] # <<>>
    /\ \A id \in pending : (InHand /\ id = current) \/ asked[id] = NoProc

\* A cached list was given by the server that is in use.
CacheIsCurrent == cache # NoProc => started /\ cache = process

\* Every call comes back, whatever the server and the reader threads answer,
\* break or leave out; only a server that lives and never takes what is written
\* to it can hold one for ever.
CallEnds == pc # "idle" ~> (pc = "idle" \/ []Writing)
=============================================================================
