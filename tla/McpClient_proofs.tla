--------------------------- MODULE McpClient_proofs ---------------------------
(***************************************************************************)
(* Proofs about module McpClient, for any number of protocols, servers,    *)
(* calls and faults.                                                       *)
(***************************************************************************)
EXTENDS McpClient, SequenceTheorems, TLAPS

\* start() is under way, or the call of the tool has still to be registered.
Owes ==
    \/ pc \in {"ensure", "spawn", "register", "notify"}
    \/ InHand /\ ~started
    \/ pc \in {"clear", "kill", "forget"} /\ goal # "idle"

\* Ids do not run out: a server started allows one request, initialize, and a
\* call of the client another one.
IdsAreCounted ==
    nextId + (IF Owes THEN 1 ELSE 0)
           + (IF pc = "register" /\ ~started THEN 1 ELSE 0)
        <= spawned + callsMade + 1

SpawnsWhenStopped == pc = "spawn" => ~started

\* An id is new until it is taken from next_id.
FreshIds ==
    \A id \in Ids : id >= nextId =>
        asked[id] = NoProc /\ box[id] = <<>> /\ id \notin pending

CurrentIsTaken ==
    /\ InHand => current \in Ids /\ current < nextId
    /\ pc = "send" => asked[current] = NoProc

\* What a server has to answer, or has answered, was written to it.
ServerIsAsked ==
    \A p \in Procs : /\ \A id \in inbox[p] : asked[id] = p
                     /\ \A k \in DOMAIN output[p] : asked[output[p][k]] = p

\* A reader that found a server reads that server's answers.
ReaderIsOn ==
    \A r \in Procs :
        /\ reader[r].state \in {"reading", "handling"} => reader[r].on \in Procs
        /\ reader[r].state = "handling" =>
              reader[r].id \in Ids /\ asked[reader[r].id] = reader[r].on

\* AnswerIsOwn, and no answer came from nowhere.
OwnAnswers ==
    \A id \in Ids : \A i \in DOMAIN box[id] :
        box[id][i].kind = "answer" =>
            box[id][i].from = asked[id] /\ asked[id] # NoProc

McpInv ==
    /\ TypeOK
    /\ IdsAreCounted /\ SpawnsWhenStopped /\ FreshIds /\ CurrentIsTaken
    /\ ServerIsAsked /\ ReaderIsOn /\ OwnAnswers
    /\ PendingIsOwed /\ CacheIsCurrent

-----------------------------------------------------------------------------
\* What the caller does between the steps that deal with requests.
Walk ==
    \/ \E what \in {"list", "call"} : Invoke(what)
    \/ Dispose \/ EnsureStarted \/ SpawnFails \/ SendFails \/ Notify \/ Expire
    \/ CloseKill \/ CloseForget

\* The reader threads and the servers.
Beside ==
    \/ \E r \in Procs : ReaderStep(r)
    \/ \E p \in Procs : ServerDies(p) \/ \E id \in Ids : ServerAnswers(p, id)

\* Next, with the steps that only move the caller taken together.
LEMMA StepsOfTheClient ==
    ASSUME Next
    PROVE  \/ Walk \/ Beside \/ Spawn \/ Register \/ Send \/ Receive \/ Withdraw
           \/ CloseClear
BY DEF Next, CallerStep, Walk, Beside

\* The caller's walk touches no request, no server and no reader.
LEMMA WalkLeaves ==
    ASSUME Walk
    PROVE  UNCHANGED <<nextId, pending, box, spawned, asked, inbox, output, reader,
                       thread, faults>>
           \/ CloseForget
BY DEF Walk, Invoke, Dispose, EnsureStarted, SpawnFails, SendFails, Notify, Expire,
       CloseKill, CloseForget, Raise, Goto, client, answers, server

\* Readers and servers neither move the caller nor change the client's state.
LEMMA BesideLeaves ==
    ASSUME Beside
    PROVE  UNCHANGED <<client, caller, spawned, asked>>
BY DEF Beside, ReaderStep, ReaderStarts, ReaderLooks, ReaderReads, ReaderHandles,
       ReaderMeetsEnd, ReaderBreaks, ReaderTests, ReaderFails, ReaderGoes,
       ServerDies, ServerAnswers, server

\* Its length tells an empty sequence, and Append adds one element at the end.
LEMMA AppendElements ==
    ASSUME NEW S, NEW s \in Seq(S), NEW e \in S
    PROVE  /\ Append(s, e) \in Seq(S)
           /\ Len(s) \in Nat /\ (s = <<>> <=> Len(s) = 0)
           /\ Len(Append(s, e)) = Len(s) + 1
           /\ \A i \in DOMAIN Append(s, e) :
                 Append(s, e)[i] = e \/ (i \in DOMAIN s /\ Append(s, e)[i] = s[i])
<1>1. /\ Append(s, e) \in Seq(S) /\ Len(Append(s, e)) = Len(s) + 1
      /\ \A i \in 1..Len(s) : Append(s, e)[i] = s[i]
      /\ Append(s, e)[Len(s) + 1] = e
  BY AppendProperties
<1>2. /\ Len(s) \in Nat /\ DOMAIN s = 1..Len(s)
      /\ DOMAIN Append(s, e) = 1..Len(Append(s, e))
  BY <1>1, LenProperties
<1>3. s = <<>> <=> Len(s) = 0
  BY EmptySeq
<1>4. ASSUME NEW i \in DOMAIN Append(s, e)
      PROVE  Append(s, e)[i] = e \/ (i \in DOMAIN s /\ Append(s, e)[i] = s[i])
  <2>1. i \in 1..Len(s) \/ i = Len(s) + 1
    <3>1. i \in 1..(Len(s) + 1)
      BY <1>1, <1>2
    <3> QED BY <1>2, <3>1
  <2>2. CASE i \in 1..Len(s)
    BY <1>1, <1>2, <2>2
  <2>3. CASE i = Len(s) + 1
    BY <1>1, <2>3
  <2> QED BY <2>1, <2>2, <2>3
<1> QED BY <1>1, <1>2, <1>3, <1>4

\* The tail of a sequence has no other elements, its head is one of them.
LEMMA TailElements ==
    ASSUME NEW S, NEW s \in Seq(S), s # <<>>
    PROVE  /\ Tail(s) \in Seq(S) /\ Head(s) \in S
           /\ \E j \in DOMAIN s : Head(s) = s[j]
           /\ \A i \in DOMAIN Tail(s) : \E j \in DOMAIN s : Tail(s)[i] = s[j]
<1>1. /\ Tail(s) \in Seq(S) /\ Len(Tail(s)) = Len(s) - 1 /\ Head(s) \in S
      /\ \A i \in 1..Len(Tail(s)) : Tail(s)[i] = s[i + 1]
  BY HeadTailProperties
<1>2. /\ Len(s) \in Nat /\ DOMAIN s = 1..Len(s) /\ Len(s) # 0
      /\ DOMAIN Tail(s) = 1..Len(Tail(s))
  BY <1>1, LenProperties, EmptySeq
<1>3. ASSUME NEW i \in DOMAIN Tail(s)
      PROVE  \E j \in DOMAIN s : Tail(s)[i] = s[j]
  <2>1. i + 1 \in DOMAIN s /\ Tail(s)[i] = s[i + 1]
    BY <1>1, <1>2
  <2> QED BY <2>1
<1>4. Head(s) = s[1] /\ 1 \in DOMAIN s
  BY <1>2
<1> QED BY <1>1, <1>3, <1>4

-----------------------------------------------------------------------------
\* At the beginning no server runs, no id is taken and nothing was asked.
LEMMA InitMcpInv == Init => McpInv
<1> SUFFICES ASSUME Init PROVE McpInv
  OBVIOUS
<1> USE McpAssumption DEF Init, Procs, Ids, NoProc, NoId, Unborn
<1>1. TypeOK
  <2>1. /\ box \in [Ids -> Seq(Messages)]
        /\ output \in [Procs -> Seq(Ids)]
    OBVIOUS
  <2>2. /\ asked \in [Ids -> Procs \cup {NoProc}]
        /\ inbox \in [Procs -> SUBSET Ids]
        /\ reader \in [Procs -> Readers]
    BY DEF Readers, States
  <2>3. /\ nextId \in 1..(MaxSpawns + MaxCalls + 1) /\ candidate \in 1..Candidates
        /\ spawned \in 0..MaxSpawns /\ callsMade \in 0..MaxCalls
        /\ faults \in 0..MaxFaults
    OBVIOUS
  <2> QED BY <2>1, <2>2, <2>3 DEF TypeOK
<1>2. IdsAreCounted /\ SpawnsWhenStopped /\ FreshIds /\ CurrentIsTaken
  BY DEF IdsAreCounted, Owes, SpawnsWhenStopped, FreshIds, CurrentIsTaken, InHand
<1>3. ServerIsAsked /\ ReaderIsOn /\ OwnAnswers
  BY DEF ServerIsAsked, ReaderIsOn, OwnAnswers
<1>4. PendingIsOwed /\ CacheIsCurrent
  BY DEF PendingIsOwed, InHand, CacheIsCurrent
<1> QED BY <1>1, <1>2, <1>3, <1>4 DEF McpInv

-----------------------------------------------------------------------------
\* The next id is one of Ids as long as a request is due.
LEMMA IdsSuffice ==
    ASSUME McpInv, Owes
    PROVE  nextId \in Ids
BY McpAssumption DEF McpInv, TypeOK, IdsAreCounted, Ids

\* Every call pays for its request, every server for its initialize.
LEMMA NextIdsAreCounted ==
    McpInv /\ [Next]_vars => IdsAreCounted' /\ SpawnsWhenStopped'
<1> SUFFICES ASSUME McpInv, [Next]_vars
             PROVE  IdsAreCounted' /\ SpawnsWhenStopped'
  OBVIOUS
<1> USE DEF McpInv, TypeOK, IdsAreCounted, SpawnsWhenStopped, Owes, InHand
<1>0. CASE UNCHANGED vars
  BY <1>0 DEF vars, client, caller, server
<1>1. CASE Beside
  BY <1>1, BesideLeaves DEF client, caller
<1>2. CASE Walk
  <2>1. UNCHANGED <<nextId, spawned>>
    BY <1>2, WalkLeaves DEF Walk, CloseForget, server
  <2>2. CASE \E what \in {"list", "call"} : Invoke(what)
    BY <2>1, <2>2 DEF Invoke, client
  <2>3. CASE Dispose \/ EnsureStarted
    BY <2>1, <2>3 DEF Dispose, EnsureStarted, client
  <2>4. CASE SpawnFails \/ SendFails
    BY <2>1, <2>4 DEF SpawnFails, SendFails, Raise, client
  <2>5. CASE Notify \/ Expire \/ CloseKill
    BY <2>1, <2>5 DEF Notify, Expire, CloseKill, Goto, client
  <2>6. CASE CloseForget
    BY <2>1, <2>6 DEF CloseForget, Resume
  <2> QED BY <1>2, <2>2, <2>3, <2>4, <2>5, <2>6 DEF Walk
<1>3. CASE Spawn
  BY <1>3 DEF Spawn, Goto
<1>4. CASE Register
  BY <1>4 DEF Register, server
<1>5. CASE Send
  BY <1>5 DEF Send, Goto, EnsureStdoutThread
<1>6. CASE Receive
  <2>1. UNCHANGED <<nextId, spawned, started, callsMade, candidate>>
    BY <1>6 DEF Receive, Raise, Goto, server
  <2>2. /\ pc = "wait"
        /\ \/ pc' \in {"idle", "notify"} /\ (pc' = "idle" <=> started)
           \/ IF started THEN pc' = "idle" ELSE pc' = "clear" /\ goal' = "next"
    BY <1>6 DEF Receive, Raise, Goto
  <2> QED BY <2>1, <2>2
<1>7. CASE Withdraw
  BY <1>7 DEF Withdraw, Raise, client, server
<1>8. CASE CloseClear
  BY <1>8 DEF CloseClear, Goto, client, server
<1> QED BY <1>0, <1>1, <1>2, <1>3, <1>4, <1>5, <1>6, <1>7, <1>8, StepsOfTheClient

-----------------------------------------------------------------------------
\* How readers are updated.
LEMMA ReaderUpdates ==
    ASSUME NEW f \in [Procs -> Readers], NEW r \in Procs, NEW to \in States,
           NEW p \in Procs \cup {NoProc}, NEW id \in Ids \cup {NoId}
    PROVE  /\ [f EXCEPT ![r].state = to] \in [Procs -> Readers]
           /\ [f EXCEPT ![r].state = to, ![r].on = p] \in [Procs -> Readers]
           /\ [f EXCEPT ![r].state = to, ![r].id = id] \in [Procs -> Readers]
<1>1. ASSUME NEW x \in Readers
      PROVE  /\ [x EXCEPT !.state = to] \in Readers
             /\ [x EXCEPT !.on = p] \in Readers
             /\ [x EXCEPT !.id = id] \in Readers
  BY DEF Readers
<1>2. /\ [f EXCEPT ![r].state = to] \in [Procs -> Readers]
      /\ [f EXCEPT ![r].on = p] \in [Procs -> Readers]
      /\ [f EXCEPT ![r].id = id] \in [Procs -> Readers]
  BY <1>1
<1>3. [f EXCEPT ![r].state = to, ![r].on = p] \in [Procs -> Readers]
  BY <1>1
<1>4. [f EXCEPT ![r].state = to, ![r].id = id] \in [Procs -> Readers]
  BY <1>1
<1> QED BY <1>2, <1>3, <1>4

\* Types, step by step.
LEMMA NextMcpTypeOK == McpInv /\ [Next]_vars => TypeOK'
<1> SUFFICES ASSUME McpInv, [Next]_vars PROVE TypeOK'
  OBVIOUS
<1> USE McpAssumption
<1>t. TypeOK
  BY DEF McpInv
<1> USE DEF TypeOK
<1>s. /\ \A s \in {"born", "loop", "reading", "handling", "finally", "failing",
                   "done"} : s \in States
      /\ NoId \in Ids \cup {NoId}
  BY DEF States
<1>p. \A p \in 1..spawned : p \in Procs
  BY <1>t DEF Procs
<1>0. CASE UNCHANGED vars
  BY <1>t, <1>0 DEF vars, client, answers, caller, server
<1>1. ASSUME Walk, ~CloseForget PROVE TypeOK'
  <2>1. UNCHANGED <<nextId, pending, box, spawned, asked, inbox, output, reader,
                    thread, faults>>
    BY <1>1, WalkLeaves
  <2>2. /\ UNCHANGED <<process, cache>> /\ alive' \subseteq alive
        /\ started' \in BOOLEAN
    BY <1>t, <1>1 DEF Walk, Invoke, Dispose, EnsureStarted, SpawnFails, SendFails,
           Notify, Expire, CloseKill, client, server
  <2>3. /\ pc' \in {"idle", "ensure", "spawn", "register", "send", "wait",
                    "expired", "notify", "clear", "kill", "forget"}
        /\ goal' \in {"idle", "start", "next"} /\ op' \in {"none", "list", "call"}
        /\ current' = current
    BY <1>t, <1>1 DEF Walk, Invoke, Dispose, EnsureStarted, SpawnFails, SendFails,
           Notify, Expire, CloseKill, Goto, Raise
  <2>4. candidate' \in 1..Candidates /\ callsMade' \in 0..MaxCalls
    BY <1>t, <1>1 DEF Walk, Invoke, Dispose, EnsureStarted, SpawnFails, SendFails,
           Notify, Expire, CloseKill, Goto, Raise
  <2> QED BY <1>t, <2>1, <2>2, <2>3, <2>4
<1>2. CASE CloseForget
  <2>1. candidate' \in 1..Candidates
    <3>1. candidate' = candidate \/ (candidate' = candidate + 1 /\ candidate < Candidates)
      BY <1>2 DEF CloseForget, Resume
    <3> QED BY <1>t, <3>1
  <2>2. pc' \in {"spawn", "idle"}
    BY <1>2 DEF CloseForget, Resume
  <2> QED BY <1>t, <1>2, <2>1, <2>2 DEF CloseForget, answers, server
<1>3. CASE Spawn
  <2>1. /\ spawned' \in 0..MaxSpawns /\ process' \in Procs
        /\ alive' \subseteq 1..spawned'
    BY <1>t, <1>3 DEF Spawn, Procs
  <2> QED BY <1>t, <1>3, <2>1 DEF Spawn, Goto
<1>4. CASE Register
  <2>1. nextId \in Ids /\ nextId' \in 1..(MaxSpawns + MaxCalls + 1)
    BY <1>t, <1>4, IdsSuffice DEF Register, Owes, Ids
  <2>2. box' \in [Ids -> Seq(Messages)]
    <3>1. <<>> \in Seq(Messages)
      OBVIOUS
    <3> QED BY <1>t, <1>4, <2>1, <3>1 DEF Register
  <2> QED BY <1>t, <1>4, <2>1, <2>2 DEF Register, server
<1>5. CASE Send
  <2>1. process \in Procs
    BY <1>t, <1>p, <1>5 DEF Send
  <2>2. current \in Ids
    BY <1>5 DEF Send, McpInv, CurrentIsTaken, InHand
  <2>3. /\ asked' \in [Ids -> Procs \cup {NoProc}]
        /\ inbox' \in [Procs -> SUBSET Ids]
    BY <1>t, <1>5, <2>1, <2>2 DEF Send
  <2>4. /\ thread' \in Procs \cup {NoProc}
        /\ reader' \in [Procs -> Readers]
    BY <1>t, <1>5, <2>1, <1>s, ReaderUpdates DEF Send, EnsureStdoutThread
  <2> QED BY <1>t, <1>5, <2>3, <2>4 DEF Send, EnsureStdoutThread, Goto, answers
<1>6. CASE Receive
  <2>1. UNCHANGED <<process, started, thread, nextId, answers, server, reader,
                    faults, op, current, candidate, callsMade>>
    BY <1>6 DEF Receive, Goto, Raise
  <2>2. /\ cache' = cache \/ cache' = process
        /\ pc' \in {"idle", "notify", "clear"} /\ goal' \in {goal, "next"}
    BY <1>6 DEF Receive, Goto, Raise
  <2> QED BY <1>t, <2>1, <2>2 DEF answers, server
<1>7. CASE Withdraw
  BY <1>t, <1>7 DEF Withdraw, Raise, client, server
<1>8. CASE CloseClear
  <2>1. Closed(process) \in Messages
    BY <1>t DEF Closed, Messages
  <2>2. ASSUME NEW s \in Seq(Messages) PROVE Append(s, Closed(process)) \in Seq(Messages)
    BY <2>1, AppendElements
  <2>3. box' \in [Ids -> Seq(Messages)]
    BY <1>t, <1>8, <2>2 DEF CloseClear, AnswerAll
  <2> QED BY <1>t, <1>8, <2>3 DEF CloseClear, AnswerAll, Goto, client, server
<1>9. ASSUME NEW r \in Procs, ReaderStep(r) PROVE TypeOK'
  <2>1. UNCHANGED <<client, caller, spawned, alive, asked, inbox>>
    BY <1>9 DEF ReaderStep, ReaderStarts, ReaderLooks, ReaderReads, ReaderHandles,
           ReaderMeetsEnd, ReaderBreaks, ReaderTests, ReaderFails, ReaderGoes, server
  <2>2. CASE ReaderStarts(r) \/ ReaderLooks(r) \/ ReaderMeetsEnd(r) \/ ReaderTests(r)
    <3>1. UNCHANGED <<answers, output, faults>>
      BY <2>2 DEF ReaderStarts, ReaderLooks, ReaderMeetsEnd, ReaderTests, server
    <3>2. reader' \in [Procs -> Readers]
      <4>1. CASE ReaderLooks(r)
        <5>1. /\ \/ reader' = [reader EXCEPT ![r].state = "finally", ![r].on = process]
                 \/ reader' = [reader EXCEPT ![r].state = "reading", ![r].on = process]
              /\ process \in Procs \cup {NoProc}
          BY <1>t, <4>1 DEF ReaderLooks
        <5>2. reader \in [Procs -> Readers] /\ "finally" \in States /\ "reading" \in States
          BY <1>t, <1>s
        <5>3. /\ [reader EXCEPT ![r].state = "finally", ![r].on = process]
                    \in [Procs -> Readers]
              /\ [reader EXCEPT ![r].state = "reading", ![r].on = process]
                    \in [Procs -> Readers]
          BY <5>1, <5>2, ReaderUpdates, Zenon
        <5> QED BY <5>1, <5>3
      <4>2. PICK to \in {"done", "loop", "finally", "failing"} :
               ReaderLooks(r) \/ reader' = [reader EXCEPT ![r].state = to]
        BY <2>2 DEF ReaderStarts, ReaderMeetsEnd, ReaderTests, ReaderGoes
      <4>3. to \in States /\ reader \in [Procs -> Readers]
        BY <1>t, <1>s, <4>2
      <4>4. [reader EXCEPT ![r].state = to] \in [Procs -> Readers]
        BY <4>3, ReaderUpdates, Zenon
      <4> QED BY <4>1, <4>2, <4>4
    <3> QED BY <1>t, <2>1, <3>1, <3>2 DEF answers, client, caller
  <2>3. CASE ReaderReads(r) \/ ReaderBreaks(r)
    <3>1. /\ reader[r].state = "reading" /\ output[reader[r].on] # <<>>
          /\ output' = [output EXCEPT ![reader[r].on] = Tail(@)]
          /\ UNCHANGED answers
          /\ faults' \in 0..MaxFaults
      BY <1>t, <2>3 DEF ReaderReads, ReaderBreaks
    <3>2. reader[r].on \in Procs
      BY <3>1 DEF McpInv, ReaderIsOn
    <3>3. /\ Tail(output[reader[r].on]) \in Seq(Ids)
          /\ Head(output[reader[r].on]) \in Ids
      BY <1>t, <3>1, <3>2, TailElements
    <3>4. output' \in [Procs -> Seq(Ids)]
      BY <1>t, <3>1, <3>3
    <3>5. reader' \in [Procs -> Readers]
      <4>1. CASE ReaderReads(r)
        BY <1>t, <1>s, <3>3, <4>1, ReaderUpdates DEF ReaderReads
      <4>2. CASE ReaderBreaks(r)
        BY <1>t, <1>s, <4>2, ReaderUpdates DEF ReaderBreaks
      <4> QED BY <2>3, <4>1, <4>2
    <3> QED BY <1>t, <2>1, <3>1, <3>4, <3>5 DEF answers, client, caller
  <2>4. CASE ReaderHandles(r)
    <3>1. reader[r].id \in Ids /\ reader[r].on \in Procs
      BY <2>4 DEF ReaderHandles, McpInv, ReaderIsOn
    <3>2. Append(box[reader[r].id], Answer(reader[r].on)) \in Seq(Messages)
      <4>1. Answer(reader[r].on) \in Messages
        BY <3>1 DEF Answer, Messages
      <4> QED BY <1>t, <3>1, <4>1, AppendElements
    <3>3. box' \in [Ids -> Seq(Messages)] /\ pending' \subseteq Ids
      BY <1>t, <2>4, <3>1, <3>2 DEF ReaderHandles, answers
    <3>4. reader' \in [Procs -> Readers]
      BY ZenonT(60), <1>t, <1>s, <2>4, ReaderUpdates DEF ReaderHandles
    <3> QED BY SMTT(30), <1>t, <2>1, <2>4, <3>3, <3>4
            DEF ReaderHandles, client, caller, server
  <2>5. CASE ReaderFails(r)
    <3>1. Exited(process) \in Messages
      BY <1>t DEF Exited, Messages
    <3>2. ASSUME NEW s \in Seq(Messages)
          PROVE  Append(s, Exited(process)) \in Seq(Messages)
      BY <3>1, AppendElements
    <3>3. box' \in [Ids -> Seq(Messages)] /\ pending' \subseteq Ids
      <4>1. CASE process = NoProc
        BY <1>t, <2>5, <4>1 DEF ReaderFails, answers
      <4>2. CASE process # NoProc
        <5>1. /\ box' = [i \in Ids |-> IF i \in pending
                                       THEN Append(box[i], Exited(process))
                                       ELSE box[i]]
              /\ pending' = {}
          BY <2>5, <4>2 DEF ReaderFails, AnswerAll
        <5> QED BY <1>t, <3>2, <5>1
      <4> QED BY <4>1, <4>2
    <3>4. reader' \in [Procs -> Readers]
      BY <1>t, <1>s, <2>5, ReaderUpdates DEF ReaderFails, ReaderGoes
    <3> QED BY <1>t, <2>1, <2>5, <3>3, <3>4 DEF ReaderFails, client, caller, server
  <2> QED BY <1>9, <2>2, <2>3, <2>4, <2>5 DEF ReaderStep
<1>10. ASSUME NEW p \in Procs, ServerDies(p) PROVE TypeOK'
  BY <1>t, <1>10 DEF ServerDies, client, answers, caller
<1>11. ASSUME NEW p \in Procs, NEW id \in Ids, ServerAnswers(p, id) PROVE TypeOK'
  <2>1. Append(output[p], id) \in Seq(Ids)
    BY <1>t, AppendElements
  <2>2. output' \in [Procs -> Seq(Ids)] /\ inbox' \in [Procs -> SUBSET Ids]
    BY <1>t, <1>11, <2>1 DEF ServerAnswers
  <2> QED BY SMTT(30), <1>t, <1>11, <2>2 DEF ServerAnswers, client, answers, caller
<1> QED BY <1>0, <1>1, <1>2, <1>3, <1>4, <1>5, <1>6, <1>7, <1>8, <1>9, <1>10,
           <1>11, StepsOfTheClient DEF Beside

-----------------------------------------------------------------------------
\* A reader hands over one answer to a request that is pending.
HandsOver(r) ==
    LET id == reader[r].id
    IN /\ reader[r].state = "handling" /\ id \in pending
       /\ box' = [box EXCEPT ![id] = Append(@, Answer(reader[r].on))]
       /\ pending' = pending \ {id}

\* Whoever gives up on the server tells every pending request.
GivesUp ==
    \E m \in Messages :
        m.kind # "answer" /\ AnswerAll(m)

\* What may happen to the answers beside Spawn, Register and Withdraw.
LEMMA AnswersChange ==
    ASSUME McpInv, Beside \/ CloseClear
    PROVE  UNCHANGED answers \/ GivesUp \/ \E r \in Procs : HandsOver(r)
<1>0. process \in Procs \cup {NoProc}
  BY DEF McpInv, TypeOK
<1>1. CASE CloseClear
  <2>1. Closed(process) \in Messages /\ Closed(process).kind # "answer"
    BY <1>0 DEF Closed, Messages
  <2> QED BY <1>1, <2>1 DEF CloseClear, GivesUp
<1>2. ASSUME NEW r \in Procs, ReaderFails(r)
      PROVE  UNCHANGED answers \/ GivesUp
  <2>1. Exited(process) \in Messages /\ Exited(process).kind # "answer"
    BY <1>0 DEF Exited, Messages
  <2> QED BY <1>2, <2>1 DEF ReaderFails, GivesUp
<1>3. ASSUME NEW r \in Procs, ReaderHandles(r)
      PROVE  UNCHANGED answers \/ HandsOver(r)
  BY <1>3 DEF ReaderHandles, HandsOver
<1>4. ASSUME NEW r \in Procs,
             \/ ReaderStarts(r) \/ ReaderLooks(r) \/ ReaderReads(r)
             \/ ReaderMeetsEnd(r) \/ ReaderBreaks(r) \/ ReaderTests(r)
      PROVE  UNCHANGED answers
  BY <1>4 DEF ReaderStarts, ReaderLooks, ReaderReads, ReaderMeetsEnd,
              ReaderBreaks, ReaderTests
<1>5. ASSUME NEW p \in Procs, NEW id \in Ids, ServerDies(p) \/ ServerAnswers(p, id)
      PROVE  UNCHANGED answers
  BY <1>5 DEF ServerDies, ServerAnswers
<1>6. ASSUME NEW p \in Procs, ServerDies(p)
      PROVE  UNCHANGED answers
  BY <1>6 DEF ServerDies
<1> QED BY <1>1, <1>2, <1>3, <1>4, <1>5, <1>6 DEF Beside, ReaderStep

\* Either way an answer is put only where a request is pending, its server is
\* the one that was asked, and the queue of the request was empty.
LEMMA PendingGetsOne ==
    ASSUME McpInv, GivesUp \/ \E r \in Procs : HandsOver(r)
    PROVE  /\ pending' \subseteq pending
           /\ \A id \in Ids :
                 IF id \in pending \ pending'
                 THEN \E m \in Messages :
                         /\ box'[id] = Append(box[id], m)
                         /\ m.kind = "answer" => m.from = asked[id] /\ asked[id] # NoProc
                 ELSE box'[id] = box[id]
<1> USE DEF McpInv, TypeOK
<1>1. CASE GivesUp
  BY <1>1 DEF GivesUp, AnswerAll
<1>2. ASSUME NEW r \in Procs, HandsOver(r)
      PROVE  /\ pending' \subseteq pending
             /\ \A id \in Ids :
                 IF id \in pending \ pending'
                 THEN \E m \in Messages :
                         /\ box'[id] = Append(box[id], m)
                         /\ m.kind = "answer" => m.from = asked[id] /\ asked[id] # NoProc
                 ELSE box'[id] = box[id]
  <2>1. /\ reader[r].on \in Procs /\ reader[r].id \in Ids
        /\ asked[reader[r].id] = reader[r].on
    BY <1>2 DEF HandsOver, ReaderIsOn
  <2>2. /\ Answer(reader[r].on) \in Messages
        /\ Answer(reader[r].on).from = reader[r].on /\ reader[r].on # NoProc
    BY <2>1 DEF Answer, Messages, Procs, NoProc
  <2>3. /\ box' = [box EXCEPT ![reader[r].id] = Append(@, Answer(reader[r].on))]
        /\ pending' = pending \ {reader[r].id}
    BY <1>2 DEF HandsOver
  <2>4. box'[reader[r].id] = Append(box[reader[r].id], Answer(reader[r].on))
    BY <2>1, <2>3
  <2>5. \A id \in Ids : id # reader[r].id => box'[id] = box[id]
    BY <2>3
  <2>6. reader[r].id \in pending
    BY <1>2 DEF HandsOver
  <2>7. \A id \in Ids : id \in pending \ pending' <=> id = reader[r].id
    BY <2>3, <2>6
  <2> QED BY <2>1, <2>2, <2>3, <2>4, <2>5, <2>7
<1> QED BY <1>1, <1>2

-----------------------------------------------------------------------------
\* An id that was not handed out is unknown to the server, the readers and the
\* table, and a request begins with such an id.
LEMMA NextFreshIds == McpInv /\ [Next]_vars => FreshIds' /\ CurrentIsTaken'
<1> SUFFICES ASSUME McpInv, [Next]_vars PROVE FreshIds' /\ CurrentIsTaken'
  OBVIOUS
<1> USE DEF McpInv, TypeOK, FreshIds, CurrentIsTaken, InHand
<1>0. CASE UNCHANGED vars
  BY <1>0 DEF vars, client, answers, caller, server
<1>1. CASE Walk
  <2>1. UNCHANGED <<nextId, pending, box, asked>>
    BY <1>1, WalkLeaves DEF CloseForget, answers, server
  <2>2. current' = current /\ pc' # "send" /\ (InHand' => InHand)
    BY <1>1 DEF Walk, Invoke, Dispose, EnsureStarted, SpawnFails, SendFails, Notify,
           Expire, CloseKill, CloseForget, Resume, Raise, Goto
  <2> QED BY <2>1, <2>2
<1>2. CASE Beside
  <2>1. UNCHANGED <<nextId, asked, pc, current>>
    BY <1>2, BesideLeaves DEF client, caller
  <2>2. \A id \in Ids : id \notin pending => id \notin pending' /\ box'[id] = box[id]
    BY <1>2, AnswersChange, PendingGetsOne DEF answers
  <2> QED BY <2>1, <2>2
<1>3. CASE CloseClear
  <2>1. UNCHANGED <<nextId, asked>> /\ pc' = "kill"
    BY <1>3 DEF CloseClear, Goto, client, server
  <2>2. \A id \in Ids : id \notin pending => id \notin pending' /\ box'[id] = box[id]
    BY <1>3, AnswersChange, PendingGetsOne DEF answers
  <2> QED BY <2>1, <2>2
<1>4. CASE Spawn
  BY <1>4 DEF Spawn, Goto
<1>5. CASE Register
  <2>1. /\ nextId \in Ids /\ current' = nextId /\ nextId' = nextId + 1
        /\ asked' = asked /\ nextId \in Nat
    BY <1>5, IdsSuffice, McpAssumption DEF Register, Owes, server
  <2>2. CurrentIsTaken'
    BY <2>1
  <2>3. FreshIds'
    BY SMTT(30), <1>5, <2>1, McpAssumption DEF Register, Ids
  <2> QED BY <2>2, <2>3
<1>6. CASE Send
  BY <1>6, McpAssumption DEF Send, EnsureStdoutThread, Goto, answers, Ids
<1>7. CASE Receive
  BY <1>7 DEF Receive, Raise, Goto, answers, server
<1>8. CASE Withdraw
  BY <1>8 DEF Withdraw, Raise, client, server
<1> QED BY <1>0, <1>1, <1>2, <1>3, <1>4, <1>5, <1>6, <1>7, <1>8, StepsOfTheClient

-----------------------------------------------------------------------------
\* A request is written to one server, which alone can answer it.
LEMMA SendKeepsServers ==
    ASSUME McpInv, Send
    PROVE  /\ ServerIsAsked' /\ ReaderIsOn' /\ OwnAnswers'
           /\ asked' = [asked EXCEPT ![current] = process]
           /\ asked[current] = NoProc /\ current \in Ids
           /\ UNCHANGED <<box, pending>>
<1> USE DEF McpInv, TypeOK
<1>1. /\ current \in Ids /\ asked[current] = NoProc
      /\ asked' = [asked EXCEPT ![current] = process]
      /\ UNCHANGED <<box, pending, output>>
  BY DEF Send, CurrentIsTaken, InHand, answers
<1>2. process \in Procs /\ inbox' = [inbox EXCEPT ![process] = @ \cup {current}]
  <2>1. process \in 1..spawned /\ spawned \in 0..MaxSpawns
    BY DEF Send
  <2>2. process \in Procs
    BY <2>1, McpAssumption DEF Procs
  <2> QED BY <2>2 DEF Send
<1>3. NoProc \notin Procs
  BY DEF NoProc, Procs
<1>4. \A id \in Ids : asked[id] # NoProc => asked'[id] = asked[id]
  BY <1>1
<1>5. ASSUME NEW p \in Procs
      PROVE  /\ \A id \in inbox'[p] : asked'[id] = p
             /\ \A k \in DOMAIN output[p] : asked'[output[p][k]] = p
  <2>1. \A id \in inbox[p] : id \in Ids /\ asked[id] = p /\ asked[id] # NoProc
    BY <1>3 DEF ServerIsAsked
  <2>2. \A k \in DOMAIN output[p] :
           output[p][k] \in Ids /\ asked[output[p][k]] = p
    BY ElementOfSeq, LenProperties DEF ServerIsAsked
  <2>3. \A id \in inbox'[p] : id \in inbox[p] \/ (id = current /\ p = process)
    BY <1>2
  <2>4. \A id \in inbox'[p] : asked'[id] = p
    BY <1>1, <1>4, <2>1, <2>3
  <2>5. \A k \in DOMAIN output[p] : asked'[output[p][k]] = p
    BY <1>3, <1>4, <2>2
  <2> QED BY <2>4, <2>5
<1>6. ServerIsAsked'
  BY <1>1, <1>5 DEF ServerIsAsked
<1>7. ASSUME NEW r \in Procs
      PROVE  /\ reader'[r].on = reader[r].on /\ reader'[r].id = reader[r].id
             /\ reader'[r].state \in {"reading", "handling"} =>
                   reader'[r].state = reader[r].state
  BY <1>2 DEF Send, EnsureStdoutThread, Readers
<1>8. ReaderIsOn'
  <2> SUFFICES ASSUME NEW r \in Procs, reader'[r].state \in {"reading", "handling"}
               PROVE  /\ reader'[r].on \in Procs
                      /\ reader'[r].state = "handling" =>
                           /\ reader'[r].id \in Ids
                           /\ asked'[reader'[r].id] = reader'[r].on
    BY DEF ReaderIsOn
  <2>1. reader[r].state = reader'[r].state /\ reader[r].on \in Procs
    BY <1>7 DEF ReaderIsOn
  <2>2. reader[r].state = "handling" =>
           reader[r].id \in Ids /\ asked[reader[r].id] = reader[r].on
    BY DEF ReaderIsOn
  <2> QED BY <1>3, <1>4, <1>7, <2>1, <2>2
<1>9. OwnAnswers'
  BY <1>1, <1>4 DEF OwnAnswers
<1> QED BY <1>1, <1>6, <1>8, <1>9

\* A server has only ids that were written to it, in its inbox, its output and
\* the hands of its readers; a reader that reads has a server to read from.
LEMMA NextServerIsAsked == McpInv /\ [Next]_vars => ServerIsAsked' /\ ReaderIsOn'
<1> SUFFICES ASSUME McpInv, [Next]_vars PROVE ServerIsAsked' /\ ReaderIsOn'
  OBVIOUS
<1> USE DEF McpInv, TypeOK
<1>1. CASE UNCHANGED <<asked, inbox, output, reader>>
  BY <1>1 DEF ServerIsAsked, ReaderIsOn
<1>2. CASE Send
  BY <1>2, SendKeepsServers
<1>3. ASSUME ~Send, ~Beside
      PROVE  UNCHANGED <<asked, inbox, output, reader>>
  <2>1. CASE Walk
    BY <2>1, WalkLeaves DEF CloseForget, server
  <2>2. CASE UNCHANGED vars
    BY <2>2 DEF vars, server
  <2> QED BY <1>3, <2>1, <2>2, StepsOfTheClient DEF Spawn, Register, Receive, Withdraw,
             CloseClear, server
<1>4. ASSUME NEW r \in Procs, ReaderStep(r) PROVE ServerIsAsked' /\ ReaderIsOn'
  <2>1. UNCHANGED <<asked, inbox>>
    BY <1>4 DEF ReaderStep, ReaderStarts, ReaderLooks, ReaderReads, ReaderHandles,
           ReaderMeetsEnd, ReaderBreaks, ReaderTests, ReaderFails, server
  <2>2. CASE ReaderReads(r) \/ ReaderBreaks(r)
    <3>1. /\ reader[r].state = "reading" /\ output[reader[r].on] # <<>>
          /\ output' = [output EXCEPT ![reader[r].on] = Tail(@)]
      BY <2>2 DEF ReaderReads, ReaderBreaks
    <3>2. reader[r].on \in Procs
      BY <3>1 DEF ReaderIsOn
    <3> DEFINE s == output[reader[r].on]
    <3>3. s \in Seq(Ids) /\ \A k \in DOMAIN s : asked[s[k]] = reader[r].on
      BY <3>2 DEF ServerIsAsked
    <3>4. /\ Head(s) \in Ids /\ asked[Head(s)] = reader[r].on
          /\ \A k \in DOMAIN Tail(s) : asked[Tail(s)[k]] = reader[r].on
      <4>1. /\ Head(s) \in Ids
            /\ \E j \in DOMAIN s : Head(s) = s[j]
            /\ \A k \in DOMAIN Tail(s) : \E j \in DOMAIN s : Tail(s)[k] = s[j]
        BY <3>1, <3>3, TailElements, ZenonT(30)
      <4> HIDE DEF s
      <4> QED BY <3>3, <4>1
    <3>5. \A p \in Procs : output'[p] = IF p = reader[r].on THEN Tail(s) ELSE output[p]
      BY <3>1, <3>2
    <3>6. ServerIsAsked'
      BY <2>1, <3>4, <3>5 DEF ServerIsAsked
    <3>7. CASE ReaderReads(r)
      <4>1. reader' = [reader EXCEPT ![r].state = "handling", ![r].id = Head(s)]
        BY <3>7 DEF ReaderReads
      <4>2. \A q \in Procs : reader'[q] =
              IF q = r THEN [reader[r] EXCEPT !.state = "handling", !.id = Head(s)]
                       ELSE reader[q]
        BY <4>1
      <4>3. /\ reader'[r].on = reader[r].on /\ reader'[r].id = Head(s)
            /\ \A q \in Procs \ {r} : reader'[q] = reader[q]
        BY <4>2 DEF Readers
      <4>4. ReaderIsOn'
        <5>1. asked'[reader'[r].id] = reader'[r].on /\ reader'[r].id \in Ids
          BY <2>1, <3>4, <4>3
        <5>2. ASSUME NEW q \in Procs \ {r}
              PROVE  /\ reader'[q].state \in {"reading", "handling"} =>
                           reader'[q].on \in Procs
                     /\ reader'[q].state = "handling" =>
                           /\ reader'[q].id \in Ids
                           /\ asked'[reader'[q].id] = reader'[q].on
          BY <2>1, <4>3 DEF ReaderIsOn
        <5> QED BY <3>2, <4>3, <5>1, <5>2 DEF ReaderIsOn
      <4> QED BY <3>6, <4>4
    <3>8. CASE ReaderBreaks(r)
      <4>1. reader' = [reader EXCEPT ![r].state = "finally"]
        BY <3>8 DEF ReaderBreaks
      <4>2. reader'[r].state = "finally" /\ \A q \in Procs \ {r} : reader'[q] = reader[q]
        BY <4>1 DEF Readers
      <4>3. ReaderIsOn'
        BY <2>1, <4>2 DEF ReaderIsOn
      <4> QED BY <3>6, <4>3
    <3> QED BY <2>2, <3>7, <3>8
  <2>3. CASE ReaderLooks(r)
    <3>1. /\ reader'[r].state = "reading" => reader'[r].on \in Procs
          /\ reader'[r].state \in {"reading", "finally"}
          /\ \A q \in Procs \ {r} : reader'[q] = reader[q]
      BY <2>3 DEF ReaderLooks, Readers
    <3>2. ReaderIsOn'
      BY <2>1, <3>1 DEF ReaderIsOn
    <3> QED BY <2>1, <2>3, <3>2 DEF ReaderLooks, ServerIsAsked, server
  <2>4. CASE \/ ReaderStarts(r) \/ ReaderHandles(r) \/ ReaderMeetsEnd(r)
             \/ ReaderTests(r) \/ ReaderFails(r)
    <3>1. /\ reader'[r].state \notin {"reading", "handling"}
          /\ \A q \in Procs \ {r} : reader'[q] = reader[q]
      BY <2>4 DEF ReaderStarts, ReaderHandles, ReaderMeetsEnd, ReaderTests,
             ReaderFails, ReaderGoes, Readers
    <3>2. output' = output
      BY <2>4 DEF ReaderStarts, ReaderHandles, ReaderMeetsEnd, ReaderTests,
             ReaderFails, server
    <3> QED BY <2>1, <3>1, <3>2 DEF ReaderIsOn, ServerIsAsked
  <2> QED BY <1>4, <2>2, <2>3, <2>4 DEF ReaderStep
<1>5. ASSUME NEW p \in Procs, ServerDies(p) PROVE ServerIsAsked' /\ ReaderIsOn'
  BY <1>1, <1>5 DEF ServerDies
<1>6. ASSUME NEW p \in Procs, NEW id \in Ids, ServerAnswers(p, id)
      PROVE  ServerIsAsked' /\ ReaderIsOn'
  <2>1. /\ UNCHANGED <<asked, reader>>
        /\ inbox' = [inbox EXCEPT ![p] = @ \ {id}]
        /\ output' = [output EXCEPT ![p] = Append(@, id)]
        /\ asked[id] = p
    BY <1>6 DEF ServerAnswers, ServerIsAsked
  <2>2. \A k \in DOMAIN Append(output[p], id) :
           \/ Append(output[p], id)[k] = id
           \/ k \in DOMAIN output[p] /\ Append(output[p], id)[k] = output[p][k]
    <3> DEFINE s == output[p]
    <3>1. s \in Seq(Ids)
      OBVIOUS
    <3> HIDE DEF s
    <3>2. \A k \in DOMAIN Append(s, id) :
             Append(s, id)[k] = id \/ (k \in DOMAIN s /\ Append(s, id)[k] = s[k])
      BY SMTT(30), <3>1, AppendElements
    <3> QED BY <3>2 DEF s
  <2>3. \A k \in DOMAIN Append(output[p], id) : asked[Append(output[p], id)[k]] = p
    BY <2>1, <2>2 DEF ServerIsAsked
  <2>4. \A q \in Procs : /\ output'[q] = IF q = p THEN Append(output[p], id)
                                                  ELSE output[q]
                         /\ inbox'[q] \subseteq inbox[q]
    BY <2>1
  <2>5. ServerIsAsked'
    BY <2>1, <2>3, <2>4 DEF ServerIsAsked
  <2> QED BY <2>1, <2>5 DEF ReaderIsOn
<1> QED BY <1>1, <1>2, <1>3, <1>4, <1>5, <1>6 DEF Beside

-----------------------------------------------------------------------------
\* An answer comes into the queue of a request from the server it went to.
LEMMA NextOwnAnswers == McpInv /\ [Next]_vars => OwnAnswers'
<1> SUFFICES ASSUME McpInv, [Next]_vars PROVE OwnAnswers'
  OBVIOUS
<1> USE DEF McpInv, TypeOK
<1>1. CASE UNCHANGED <<asked, box>>
  BY <1>1 DEF OwnAnswers
<1>2. CASE Send
  BY <1>2, SendKeepsServers
<1>3. CASE Register
  <2>1. /\ asked' = asked
        /\ \A id \in Ids : box'[id] = box[id] \/ box'[id] = <<>>
    BY <1>3 DEF Register, server
  <2>2. \A id \in Ids : box'[id] = <<>> => DOMAIN box'[id] = {}
    OBVIOUS
  <2>3. \A id \in Ids : \A i \in DOMAIN box'[id] :
           box'[id] = box[id] /\ i \in DOMAIN box[id]
    BY <2>1, <2>2
  <2> QED BY <2>1, <2>3 DEF OwnAnswers
<1>4. CASE Beside \/ CloseClear
  <2>1. asked' = asked
    BY <1>4, BesideLeaves DEF CloseClear, server
  <2>2. CASE UNCHANGED answers
    BY <1>1, <2>1, <2>2 DEF answers
  <2>3. ASSUME GivesUp \/ \E r \in Procs : HandsOver(r), NEW id \in Ids
        PROVE  \A i \in DOMAIN box'[id] : box'[id][i].kind = "answer" =>
                   box'[id][i].from = asked[id] /\ asked[id] # NoProc
    <3>1. \/ box'[id] = box[id]
          \/ \E m \in Messages :
               /\ box'[id] = Append(box[id], m)
               /\ m.kind = "answer" => m.from = asked[id] /\ asked[id] # NoProc
      BY <2>3, PendingGetsOne
    <3>2. CASE box'[id] = box[id]
      BY <3>2 DEF OwnAnswers
    <3>3. ASSUME NEW m \in Messages, box'[id] = Append(box[id], m),
                 m.kind = "answer" => m.from = asked[id] /\ asked[id] # NoProc
          PROVE  \A i \in DOMAIN box'[id] : box'[id][i].kind = "answer" =>
                     box'[id][i].from = asked[id] /\ asked[id] # NoProc
      <4> DEFINE s == box[id]
      <4>1. s \in Seq(Messages) /\ \A i \in DOMAIN s : s[i].kind = "answer" =>
                s[i].from = asked[id] /\ asked[id] # NoProc
        BY DEF OwnAnswers
      <4>2. box'[id] = Append(s, m)
        BY <3>3
      <4> HIDE DEF s
      <4>3. \A i \in DOMAIN Append(s, m) :
               Append(s, m)[i] = m \/ (i \in DOMAIN s /\ Append(s, m)[i] = s[i])
        BY <4>1, AppendElements
      <4> QED BY <3>3, <4>1, <4>2, <4>3
    <3> QED BY <3>1, <3>2, <3>3
  <2> QED BY <1>4, <2>1, <2>2, <2>3, AnswersChange DEF OwnAnswers
<1>5. CASE Walk
  <2>1. UNCHANGED <<asked, box>>
    BY <1>5, WalkLeaves DEF CloseForget, answers, server
  <2> QED BY <1>1, <2>1
<1>6. CASE Spawn \/ Receive \/ Withdraw \/ UNCHANGED vars
  <2>1. UNCHANGED <<asked, box>>
    BY <1>6 DEF Spawn, Receive, Withdraw, vars, answers, server
  <2> QED BY <1>1, <2>1
<1> QED BY <1>2, <1>3, <1>4, <1>5, <1>6, StepsOfTheClient

-----------------------------------------------------------------------------
\* One put for every request, by whoever takes its entry away first.
LEMMA NextPendingIsOwed == McpInv /\ [Next]_vars => PendingIsOwed'
<1> SUFFICES ASSUME McpInv, [Next]_vars PROVE PendingIsOwed'
  OBVIOUS
<1> USE DEF McpInv, TypeOK, PendingIsOwed
<1>l. \A id \in Ids : /\ Len(box[id]) \in Nat
                      /\ box[id] = <<>> <=> Len(box[id]) = 0
  <2> SUFFICES ASSUME NEW id \in Ids
               PROVE  Len(box[id]) \in Nat /\ (box[id] = <<>> <=> Len(box[id]) = 0)
    OBVIOUS
  <2>1. box[id] \in Seq(Messages)
    OBVIOUS
  <2> QED BY <2>1, LenProperties, EmptySeq
<1>1. ASSUME UNCHANGED <<pending, box, asked, current>>, InHand' <=> InHand
      PROVE  PendingIsOwed'
  BY <1>1
<1>2. CASE Walk
  <2>1. UNCHANGED <<pending, box, asked>>
    BY <1>2, WalkLeaves DEF CloseForget, answers, server
  <2>2. current' = current /\ (InHand' => InHand)
    BY <1>2 DEF Walk, Invoke, Dispose, EnsureStarted, SpawnFails, SendFails, Notify,
           Expire, CloseKill, CloseForget, Resume, Raise, Goto, InHand
  <2>3. ASSUME InHand, ~InHand' PROVE asked[current] = NoProc
    <3>1. SendFails
      BY <1>2, <2>3 DEF Walk, Invoke, Dispose, EnsureStarted, SpawnFails, Notify,
             Expire, CloseKill, CloseForget, Goto, InHand
    <3> QED BY <2>3, <3>1 DEF SendFails, InHand, CurrentIsTaken
  <2> QED BY <2>1, <2>2, <2>3
<1>3. CASE Beside \/ CloseClear
  <2>1. asked' = asked /\ current' = current
    BY <1>3, BesideLeaves DEF CloseClear, Goto, server, caller
  <2>2. InHand' => InHand
    BY <1>3, BesideLeaves DEF CloseClear, Goto, caller, InHand
  <2>3. ~InHand' /\ InHand => CloseClear
    BY <1>3, BesideLeaves DEF caller, InHand
  <2>4. CloseClear => ~InHand
    BY DEF CloseClear, InHand
  <2>5. CASE UNCHANGED answers
    BY <1>1, <2>1, <2>2, <2>3, <2>4, <2>5 DEF answers
  <2>6. CASE GivesUp \/ \E r \in Procs : HandsOver(r)
    <3>1. /\ pending' \subseteq pending
          /\ \A id \in Ids :
                IF id \in pending \ pending'
                THEN \E m \in Messages : box'[id] = Append(box[id], m)
                ELSE box'[id] = box[id]
      BY <2>6, PendingGetsOne
    <3>2. ASSUME NEW id \in Ids, id \in pending \ pending'
          PROVE  Len(box'[id]) = 1 /\ box'[id] # <<>>
      <4>1. PICK m \in Messages : box'[id] = Append(box[id], m)
        BY <3>1, <3>2
      <4>2. Len(box[id]) = 0
        BY <1>l, <3>2
      <4>3. Append(box[id], m) \in Seq(Messages) /\ Len(Append(box[id], m)) = 1
        BY <4>2, AppendElements
      <4>4. Len(<<>>) = 0
        OBVIOUS
      <4>5. Len(box'[id]) = 1
        BY <4>1, <4>3, Zenon
      <4>6. box'[id] # <<>>
        <5> SUFFICES ASSUME box'[id] = <<>> PROVE FALSE
          OBVIOUS
        <5>1. Len(box'[id]) = 0
          BY <4>4, Zenon
        <5> QED BY <4>5, <5>1
      <4> QED BY <4>5, <4>6
    <3>3. \A id \in Ids : Len(box'[id]) <= IF id \in pending' THEN 0 ELSE 1
      BY <1>l, <3>1, <3>2
    <3>4. InHand' => current \in pending' \/ box'[current] # <<>>
      BY <2>2, <3>1, <3>2 DEF CurrentIsTaken
    <3>5. \A id \in pending' : (InHand' /\ id = current) \/ asked[id] = NoProc
      BY <2>3, <2>4, <3>1
    <3> QED BY <2>1, <3>3, <3>4, <3>5
  <2> QED BY <1>3, <2>5, <2>6, AnswersChange
<1>4. CASE Spawn
  <2>1. pending' = {} /\ box' = box /\ ~InHand'
    BY <1>4 DEF Spawn, Goto, InHand
  <2> QED BY <1>l, <2>1
<1>5. CASE Register
  <2>1. /\ nextId \in Ids /\ current' = nextId /\ asked' = asked
        /\ pending' = pending \cup {nextId} /\ box' = [box EXCEPT ![nextId] = <<>>]
        /\ ~InHand
    BY <1>5, IdsSuffice DEF Register, Owes, server, InHand
  <2>2. InHand'
    BY <1>5 DEF Register, InHand
  <2>3. Len(<<>>) = 0
    OBVIOUS
  <2>4. \A id \in Ids : Len(box'[id]) <= IF id \in pending' THEN 0 ELSE 1
    BY <1>l, <2>1, <2>3
  <2> QED BY <2>1, <2>2, <2>4
<1>6. CASE Send
  <2>1. /\ asked' = [asked EXCEPT ![current] = process] /\ current \in Ids
        /\ UNCHANGED <<box, pending>>
    BY <1>6, SendKeepsServers
  <2>2. current' = current /\ InHand /\ InHand'
    BY <1>6 DEF Send, Goto, InHand
  <2> QED BY <2>1, <2>2
<1>7. CASE Receive
  <2>1. UNCHANGED <<box, pending, asked, current>> /\ ~InHand' /\ InHand
        /\ box[current] # <<>> /\ current \in Ids
    BY <1>7 DEF Receive, Raise, Goto, InHand, answers, server, CurrentIsTaken
  <2>2. current \notin pending
    BY <1>l, <2>1
  <2> QED BY <2>1, <2>2
<1>8. CASE Withdraw
  <2>1. /\ UNCHANGED <<box, asked, current>> /\ ~InHand'
        /\ pending' = pending \ {current}
    BY <1>8 DEF Withdraw, Raise, InHand, server
  <2> QED BY <1>l, <2>1
<1>9. CASE UNCHANGED vars
  BY <1>1, <1>9 DEF vars, answers, server, caller, InHand
<1> QED BY <1>2, <1>3, <1>4, <1>5, <1>6, <1>7, <1>8, <1>9, StepsOfTheClient

-----------------------------------------------------------------------------
\* close() forgets the list together with the process, and another process is
\* started only afterwards.
LEMMA NextCacheIsCurrent == McpInv /\ [Next]_vars => CacheIsCurrent'
<1> SUFFICES ASSUME McpInv, [Next]_vars PROVE CacheIsCurrent'
  OBVIOUS
<1> USE DEF McpInv, CacheIsCurrent
<1>1. CASE UNCHANGED <<cache, started, process>>
  BY <1>1
<1>2. CASE Walk
  <2>1. \/ UNCHANGED <<cache, started, process>>
        \/ started' /\ UNCHANGED <<cache, process>>
        \/ cache' = NoProc
    BY <1>2 DEF Walk, Invoke, Dispose, EnsureStarted, SpawnFails, SendFails, Notify,
           Expire, CloseKill, CloseForget, client
  <2> QED BY <2>1
<1>3. CASE Spawn
  BY <1>3 DEF Spawn, SpawnsWhenStopped
<1>4. CASE Receive
  <2>1. UNCHANGED <<started, process>> /\ (cache' = cache \/ (started /\ cache' = process))
    BY <1>4 DEF Receive
  <2> QED BY <2>1
<1>5. CASE Beside
  BY <1>1, <1>5, BesideLeaves DEF client
<1>6. CASE Register \/ Send \/ Withdraw \/ CloseClear \/ UNCHANGED vars
  BY <1>1, <1>6 DEF Register, Send, EnsureStdoutThread, Withdraw, CloseClear, vars,
         client
<1> QED BY <1>2, <1>3, <1>4, <1>5, <1>6, StepsOfTheClient

-----------------------------------------------------------------------------
\* What the client keeps of its ids, its entries and its readers is inductive.
THEOREM McpInvariant == Spec => []McpInv
<1>1. McpInv /\ [Next]_vars => McpInv'
  BY NextMcpTypeOK, NextIdsAreCounted, NextFreshIds, NextServerIsAsked,
     NextOwnAnswers, NextPendingIsOwed, NextCacheIsCurrent DEF McpInv
<1> QED BY InitMcpInv, <1>1, PTL DEF Spec

\* Every variable of the client keeps its type: no reader reads the output of no
\* server, and no answer carries an id that was never given out.
THEOREM McpTypeCorrect == Spec => []TypeOK
<1>1. McpInv => TypeOK
  BY DEF McpInv
<1> QED BY McpInvariant, <1>1, PTL

\* No late answer is taken for the answer of another server, over any number of
\* restarts.
THEOREM McpAnswerIsOwn == Spec => []AnswerIsOwn
<1>1. McpInv => AnswerIsOwn
  BY DEF McpInv, OwnAnswers, AnswerIsOwn
<1> QED BY McpInvariant, <1>1, PTL

\* Whatever wins the race for a request, it is answered once or still expected.
THEOREM McpPendingIsOwed == Spec => []PendingIsOwed
<1>1. McpInv => PendingIsOwed
  BY DEF McpInv
<1> QED BY McpInvariant, <1>1, PTL

\* A cached list of tools is that of the server in use.
THEOREM McpCacheIsCurrent == Spec => []CacheIsCurrent
<1>1. McpInv => CacheIsCurrent
  BY DEF McpInv
<1> QED BY McpInvariant, <1>1, PTL
=============================================================================
