------------------------ MODULE TurnRuntime_proofs ------------------------
(***************************************************************************)
(* Proofs about module TurnRuntime, for any number of sessions, turns,     *)
(* permits, faults and crashes.  The inductive invariant is IndInv: what   *)
(* makes ActiveIsLive inductive is that start_turn holds the lock from its *)
(* test of _active_sessions to its write of it (LockGuardsStart).          *)
(***************************************************************************)
EXTENDS TurnRuntime, TLAPS

\* A turn between the test of _active_sessions and SpawnTask holds the lock,
\* and its session is still idle.
LockGuardsStart ==
    \A t \in Turns : phase[t] \in Starting =>
        lock = t /\ active[SessionOf[t]] = NoTurn

\* Every living task is in _turns, and none is being started after Shutdown.
TasksAreRegistered ==
    /\ \A t \in Turns : phase[t] \in Live => t \in registered
    /\ service # "up" => \A t \in Turns : phase[t] \notin Starting

IndInv == TypeOK /\ ActiveIsLive /\ LockGuardsStart

-----------------------------------------------------------------------------
\* The last assistant message of a conversation has a text of the right type.
LEMMA LastAnswerType ==
    ASSUME NEW log \in Seq(Message)
    PROVE  LastAnswer(log) \in Turns \cup {NoTurn}
<1> DEFINE answers == {i \in DOMAIN log : log[i].role = "assistant"}
           IsLast(i) == \A j \in answers : j <= i
<1>1. CASE \E i \in answers : IsLast(i)
  <2>1. PICK i \in answers : i = CHOOSE k \in answers : IsLast(k)
    BY <1>1
  <2>2. log[i] \in Message
    OBVIOUS
  <2>3. log[i].text \in Turns \cup {NoTurn}
    BY <2>2 DEF Message
  <2> QED BY <1>1, <2>1, <2>3 DEF LastAnswer
<1>2. CASE ~ \E i \in answers : IsLast(i)
  BY <1>2 DEF LastAnswer
<1> QED BY <1>1, <1>2

\* A coroutine's record stays in Local when one field gets a value of its type.
LEMMA LocalUpdates ==
    ASSUME NEW l \in Local
    PROVE  /\ \A h \in Seq(Message) : [l EXCEPT !.history = h] \in Local
           /\ \A n \in Nat : [l EXCEPT !.seq = n] \in Local
           /\ \A o \in Outcome : [l EXCEPT !.outcome = o] \in Local
           /\ \A x \in Turns \cup {NoTurn} : [l EXCEPT !.text = x] \in Local
           /\ \A x \in Terminal : [l EXCEPT !.status = x] \in Local
BY DEF Local

\* The text _execute chooses has the right type.
LEMMA FinalTextType ==
    ASSUME TypeOK, NEW t \in Turns
    PROVE  FinalText(t) \in Turns \cup {NoTurn}
<1>1. local[t].history \in Seq(Message)
  BY DEF TypeOK, Local
<1> QED BY <1>1, LastAnswerType DEF FinalText

-----------------------------------------------------------------------------
\* Init gives every variable its type, with every session idle.
LEMMA InitIndInv == Init => IndInv
<1> SUFFICES ASSUME Init PROVE IndInv
  OBVIOUS
<1> USE TurnRuntimeAssumption DEF Init
<1>1. NewLocal \in Local
  BY DEF NewLocal, Local, Terminal, Outcome
<1>2. TypeOK
  BY <1>1 DEF TypeOK, Phases, Statuses
<1>3. ActiveIsLive
  BY DEF ActiveIsLive, Live, Working
<1>4. LockGuardsStart
  BY DEF LockGuardsStart, Starting
<1> QED BY <1>2, <1>3, <1>4 DEF IndInv

\* Every step keeps every variable in its type.
LEMMA NextTypeOK == TypeOK /\ [Next]_vars => TypeOK'
<1> SUFFICES ASSUME TypeOK, [Next]_vars PROVE TypeOK'
  OBVIOUS
<1> USE TurnRuntimeAssumption DEF TypeOK, Move, memory, db, env
<1> DEFINE PhaseNames == Phases = {"idle", "checked", "listed", "created",
             "userSeq", "saved", "queued", "permit", "running", "agent",
             "returned", "answering", "answerSeq", "answered", "deciding",
             "closing", "sentinels", "closed", "done", "refused", "aborted", "lost"}
<1>p. PhaseNames
  BY DEF Phases, Starting, Live, Working, Ended
<1>n. NewLocal \in Local
  BY DEF NewLocal, Local, Terminal, Outcome
<1> USE <1>p
<1>1. ASSUME NEW t \in Turns, StartStep(t) PROVE TypeOK'
  <2>1. CASE CheckSession(t)
    BY ZenonT(60), <2>1 DEF CheckSession
  <2>2. CASE ListMessages(t)
    <3>1. messages[SessionOf[t]] \in Seq(Message) /\ local[t] \in Local
      OBVIOUS
    <3>2. local' \in [Turns -> Local]
      BY <2>2, <3>1, LocalUpdates DEF ListMessages
    <3> QED BY <2>2, <3>2 DEF ListMessages
  <2>3. CASE CreateTurn(t)
    BY <2>3 DEF CreateTurn, Statuses
  <2>4. CASE InsertQuestion(t)
    <3>1. [turn |-> t, role |-> "user", text |-> t] \in Message
      BY DEF Message
    <3>2. messages' \in [Sessions -> Seq(Message)]
      BY <2>4, <3>1 DEF InsertQuestion, Insert
    <3> QED BY <2>4, <3>2 DEF InsertQuestion
  <2>5. CASE SpawnTask(t)
    BY <2>5 DEF SpawnTask
  <2>6. CASE StartFails(t)
    BY <2>6, <1>n DEF StartFails
  <2> QED BY <1>1, <2>1, <2>2, <2>3, <2>4, <2>5, <2>6 DEF StartStep
<1>2. ASSUME NEW t \in Turns, ReadSequence(t) PROVE TypeOK'
  <2>1. Len(messages[SessionOf[t]]) \in Nat
    OBVIOUS
  <2>2. local' \in [Turns -> Local]
    BY <1>2, <2>1, LocalUpdates DEF ReadSequence
  <2> QED BY <1>2, <2>2 DEF ReadSequence
<1>3. ASSUME NEW t \in Turns, TaskStep(t) PROVE TypeOK'
  <2>1. CASE EnterSemaphore(t)
    BY <2>1 DEF EnterSemaphore
  <2>2. CASE MarkRunning(t)
    BY <2>2 DEF MarkRunning, Statuses
  <2>3. CASE WorkerStarts(t)
    BY <2>3 DEF WorkerStarts
  <2>4. CASE AgentReturns(t)
    <3>1. local' \in [Turns -> Local]
      BY <2>4, LocalUpdates DEF AgentReturns
    <3> QED BY <2>4, <3>1 DEF AgentReturns
  <2>5. CASE AgentRaises(t)
    BY <2>5 DEF AgentRaises
  <2>6. CASE ChooseText(t)
    <3>1. FinalText(t) \in Turns \cup {NoTurn}
      BY FinalTextType
    <3>2. local' \in [Turns -> Local]
      BY <2>6, <3>1, LocalUpdates DEF ChooseText
    <3> QED BY <2>6, <3>2 DEF ChooseText
  <2>7. CASE InsertAnswer(t)
    <3>1. [turn |-> t, role |-> "assistant", text |-> local[t].text] \in Message
      BY DEF Message, Local
    <3>2. messages' \in [Sessions -> Seq(Message)]
      BY <2>7, <3>1 DEF InsertAnswer, Insert
    <3> QED BY <2>7, <3>2 DEF InsertAnswer
  <2>8. CASE DecideStatus(t)
    <3>1. local' \in [Turns -> Local]
      BY <2>8, LocalUpdates DEF DecideStatus, Terminal
    <3> QED BY <2>8, <3>1 DEF DecideStatus
  <2>9. CASE CommitStatus(t)
    BY <2>9 DEF CommitStatus, Local, Statuses
  <2>10. CASE ExecuteFails(t)
    BY <2>10 DEF ExecuteFails
  <2>11. CASE CloseBus(t)
    BY <2>11 DEF CloseBus
  <2>12. CASE CloseReturns(t)
    BY <2>12 DEF CloseReturns
  <2>13. CASE ReleaseSession(t)
    BY <2>13, <1>n DEF ReleaseSession
  <2> QED BY <1>3, <2>1, <2>2, <2>3, <2>4, <2>5, <2>6, <2>7, <2>8, <2>9,
             <2>10, <2>11, <2>12, <2>13 DEF TaskStep
<1>4. ASSUME NEW t \in Turns, RequestCancel(t) PROVE TypeOK'
  BY <1>4 DEF RequestCancel
<1>5. ASSUME NEW t \in Turns, EmitCancel(t) PROVE TypeOK'
  BY <1>5 DEF EmitCancel
<1>6. CASE Shutdown
  BY <1>6 DEF Shutdown
<1>7. CASE Dispose
  BY <1>7 DEF Dispose
<1>8. CASE Restart
  BY <1>8, <1>n DEF Restart
<1>9. CASE UNCHANGED vars
  BY <1>9 DEF vars
<1> QED BY <1>1, <1>2, <1>3, <1>4, <1>5, <1>6, <1>7, <1>8, <1>9 DEF Next

-----------------------------------------------------------------------------
\* A step inside start_turn or inside _execute that touches neither the lock
\* nor _active_sessions keeps both parts of the invariant.
LEMMA StaysInPlace ==
    ASSUME IndInv, NEW t \in Turns, NEW to,
           phase' = [phase EXCEPT ![t] = to],
           UNCHANGED <<lock, active>>,
           \/ phase[t] \in Live /\ to \in Live
           \/ phase[t] \in Starting /\ to \in Starting
    PROVE  ActiveIsLive' /\ LockGuardsStart'
<1> USE TurnRuntimeAssumption DEF IndInv, TypeOK
<1>1. \A p : ~ (p \in Live /\ p \in Starting)
  BY DEF Live, Working, Starting
<1>2. \A u \in Turns : /\ phase'[u] \in Live <=> phase[u] \in Live
                       /\ phase'[u] \in Starting <=> phase[u] \in Starting
  BY <1>1
<1>3. ActiveIsLive'
  <2>1. ASSUME NEW u \in Turns, phase'[u] \in Live
        PROVE  active'[SessionOf[u]] = u
    BY <1>2, <2>1 DEF ActiveIsLive
  <2>2. ASSUME NEW s \in Sessions, active'[s] # NoTurn
        PROVE  SessionOf[active'[s]] = s /\ phase'[active'[s]] \in Live
    BY <1>2, <2>2 DEF ActiveIsLive
  <2> QED BY <2>1, <2>2 DEF ActiveIsLive
<1>4. LockGuardsStart'
  BY <1>2 DEF LockGuardsStart
<1> QED BY <1>3, <1>4

\* A step that leaves phase, lock and _active_sessions alone keeps both parts.
LEMMA TouchesNothing ==
    ASSUME IndInv, UNCHANGED <<phase, lock, active>>
    PROVE  ActiveIsLive' /\ LockGuardsStart'
BY DEF IndInv, ActiveIsLive, LockGuardsStart

\* Every step keeps the sessions' bookkeeping right.
LEMMA NextActiveIsLive ==
    IndInv /\ [Next]_vars => ActiveIsLive' /\ LockGuardsStart'
<1> SUFFICES ASSUME IndInv, [Next]_vars PROVE ActiveIsLive' /\ LockGuardsStart'
  OBVIOUS
<1> USE TurnRuntimeAssumption DEF Move, memory, db, env
<1>t. TypeOK
  BY DEF IndInv
<1>s. \A t \in Turns : SessionOf[t] \in Sessions
  OBVIOUS
<1>1. ASSUME NEW t \in Turns, StartStep(t)
      PROVE  ActiveIsLive' /\ LockGuardsStart'
  <2>1. CASE CheckSession(t)
    <3>1. phase[t] = "idle" /\ lock = NoTurn /\ active' = active
      BY <2>1 DEF CheckSession
    <3>2. \A u \in Turns : phase[u] \notin Starting
      BY <3>1 DEF IndInv, LockGuardsStart
    <3>3. PICK to \in {"refused", "checked"} :
             /\ phase' = [phase EXCEPT ![t] = to]
             /\ to = "checked" => lock' = t /\ active[SessionOf[t]] = NoTurn
      BY <2>1 DEF CheckSession
    <3>4. ActiveIsLive'
      BY <1>t, <3>1, <3>3 DEF IndInv, TypeOK, ActiveIsLive, Live, Working
    <3>5. LockGuardsStart'
      BY <1>t, <3>1, <3>2, <3>3 DEF TypeOK, LockGuardsStart, Starting
    <3> QED BY <3>4, <3>5
  <2>2. CASE ListMessages(t)
    BY <2>2, StaysInPlace DEF ListMessages, Starting
  <2>3. CASE CreateTurn(t)
    BY <2>3, StaysInPlace DEF CreateTurn, Starting
  <2>4. CASE InsertQuestion(t)
    BY <2>4, StaysInPlace DEF InsertQuestion, Starting
  <2>5. CASE SpawnTask(t)
    <3>1. /\ phase[t] \in Starting
          /\ phase' = [phase EXCEPT ![t] = "queued"]
          /\ active' = [active EXCEPT ![SessionOf[t]] = t]
      BY <2>5 DEF SpawnTask, Starting
    <3>2. lock = t /\ active[SessionOf[t]] = NoTurn
      BY <3>1 DEF IndInv, LockGuardsStart
    <3>3. "queued" \in Live /\ "queued" \notin Starting
      BY DEF Live, Working, Starting
    <3>4. ActiveIsLive'
      <4>1. ASSUME NEW u \in Turns, phase'[u] \in Live
            PROVE  active'[SessionOf[u]] = u
        BY <1>t, <1>s, <3>1, <3>2, <4>1 DEF IndInv, TypeOK, ActiveIsLive
      <4>2. ASSUME NEW s \in Sessions, active'[s] # NoTurn
            PROVE  SessionOf[active'[s]] = s /\ phase'[active'[s]] \in Live
        BY <1>t, <1>s, <3>1, <3>2, <3>3, <4>2 DEF IndInv, TypeOK, ActiveIsLive
      <4> QED BY <4>1, <4>2 DEF ActiveIsLive
    <3>5. LockGuardsStart'
      BY <1>t, <3>1, <3>2, <3>3 DEF IndInv, TypeOK, LockGuardsStart
    <3> QED BY <3>4, <3>5
  <2>6. CASE StartFails(t)
    <3>1. /\ phase[t] \in Starting /\ active' = active
          /\ phase' = [phase EXCEPT ![t] = "aborted"]
      BY <2>6 DEF StartFails
    <3>2. \A u \in Turns : phase[u] \in Starting => u = t
      BY <3>1 DEF IndInv, LockGuardsStart
    <3>3. phase[t] \notin Live /\ "aborted" \notin Live /\ "aborted" \notin Starting
      BY <3>1 DEF Live, Working, Starting
    <3>4. ActiveIsLive'
      BY <1>t, <3>1, <3>3 DEF IndInv, TypeOK, ActiveIsLive
    <3>5. LockGuardsStart'
      BY <1>t, <3>1, <3>2, <3>3 DEF TypeOK, LockGuardsStart
    <3> QED BY <3>4, <3>5
  <2> QED BY <1>1, <2>1, <2>2, <2>3, <2>4, <2>5, <2>6 DEF StartStep
<1>2. ASSUME NEW t \in Turns, ReadSequence(t)
      PROVE  ActiveIsLive' /\ LockGuardsStart'
  BY <1>2, StaysInPlace DEF ReadSequence, Starting, Live, Working
<1>3. ASSUME NEW t \in Turns, TaskStep(t)
      PROVE  ActiveIsLive' /\ LockGuardsStart'
  <2> USE DEF Live, Working
  <2>1. CASE EnterSemaphore(t)
    BY <2>1, StaysInPlace DEF EnterSemaphore
  <2>2. CASE MarkRunning(t)
    BY <2>2, StaysInPlace DEF MarkRunning
  <2>3. CASE WorkerStarts(t)
    BY <2>3, StaysInPlace DEF WorkerStarts
  <2>4. CASE AgentReturns(t)
    BY <2>4, StaysInPlace DEF AgentReturns
  <2>5. CASE AgentRaises(t)
    BY <2>5, StaysInPlace DEF AgentRaises
  <2>6. CASE ChooseText(t)
    BY <2>6, StaysInPlace DEF ChooseText
  <2>7. CASE InsertAnswer(t)
    BY <2>7, StaysInPlace DEF InsertAnswer
  <2>8. CASE DecideStatus(t)
    BY <2>8, StaysInPlace DEF DecideStatus
  <2>9. CASE CommitStatus(t)
    BY <2>9, StaysInPlace DEF CommitStatus
  <2>10. CASE ExecuteFails(t)
    BY <2>10, StaysInPlace DEF ExecuteFails
  <2>11. CASE CloseBus(t)
    BY <2>11, StaysInPlace DEF CloseBus
  <2>12. CASE CloseReturns(t)
    BY <2>12, StaysInPlace DEF CloseReturns
  <2>13. CASE ReleaseSession(t)
    <3>1. /\ phase[t] = "closed" /\ lock' = lock /\ lock = NoTurn
          /\ phase' = [phase EXCEPT ![t] = "done"]
          /\ active' = [active EXCEPT ![SessionOf[t]] = NoTurn]
      BY <2>13 DEF ReleaseSession
    <3>2. active[SessionOf[t]] = t
      BY <3>1 DEF IndInv, ActiveIsLive
    <3>3. \A u \in Turns : phase[u] \notin Starting
      BY <3>1 DEF IndInv, LockGuardsStart
    <3>4. ActiveIsLive'
      <4>1. ASSUME NEW u \in Turns, phase'[u] \in Live
            PROVE  active'[SessionOf[u]] = u
        <5>1. u # t /\ phase[u] \in Live
          BY <1>t, <3>1, <4>1 DEF TypeOK
        <5>2. active[SessionOf[u]] = u
          BY <5>1 DEF IndInv, ActiveIsLive
        <5> QED BY <1>t, <1>s, <3>1, <3>2, <5>1, <5>2 DEF TypeOK
      <4>2. ASSUME NEW s \in Sessions, active'[s] # NoTurn
            PROVE  SessionOf[active'[s]] = s /\ phase'[active'[s]] \in Live
        <5>1. s # SessionOf[t] /\ active'[s] = active[s]
          BY <1>t, <1>s, <3>1, <4>2 DEF TypeOK
        <5>2. SessionOf[active[s]] = s /\ phase[active[s]] \in Live
          BY <4>2, <5>1 DEF IndInv, ActiveIsLive
        <5> QED BY <1>t, <3>1, <5>1, <5>2 DEF TypeOK
      <4> QED BY <4>1, <4>2 DEF ActiveIsLive
    <3>5. LockGuardsStart'
      BY <1>t, <3>1, <3>3 DEF TypeOK, LockGuardsStart, Starting
    <3> QED BY <3>4, <3>5
  <2> QED BY <1>3, <2>1, <2>2, <2>3, <2>4, <2>5, <2>6, <2>7, <2>8, <2>9,
             <2>10, <2>11, <2>12, <2>13 DEF TaskStep
<1>4. ASSUME NEW t \in Turns, RequestCancel(t)
      PROVE  ActiveIsLive' /\ LockGuardsStart'
  BY <1>4, TouchesNothing DEF RequestCancel
<1>5. ASSUME NEW t \in Turns, EmitCancel(t)
      PROVE  ActiveIsLive' /\ LockGuardsStart'
  BY <1>5, TouchesNothing DEF EmitCancel
<1>6. CASE Shutdown
  BY <1>6, TouchesNothing DEF Shutdown
<1>7. CASE Dispose
  BY <1>7, TouchesNothing DEF Dispose
<1>8. CASE Restart
  <2>1. \A t \in Turns : phase'[t] \notin Starting \cup Live
    BY <1>t, <1>8 DEF Restart, TypeOK, Phases, Starting, Live, Working
  <2>2. \A s \in Sessions : active'[s] = NoTurn
    BY <1>8 DEF Restart
  <2> QED BY <2>1, <2>2 DEF ActiveIsLive, LockGuardsStart
<1>9. CASE UNCHANGED vars
  BY <1>9, TouchesNothing DEF vars
<1> QED BY <1>1, <1>2, <1>3, <1>4, <1>5, <1>6, <1>7, <1>8, <1>9 DEF Next

-----------------------------------------------------------------------------
\* IndInv is an inductive invariant of the specification.
THEOREM Bookkeeping == Spec => []IndInv
<1>1. IndInv /\ [Next]_vars => IndInv'
  BY NextTypeOK, NextActiveIsLive DEF IndInv
<1> QED BY <1>1, InitIndInv, PTL DEF Spec

\* Every variable keeps its type, whatever the clients, the agent, the
\* database and the crashes do.
THEOREM TypeCorrect == Spec => []TypeOK
<1>1. IndInv => TypeOK
  BY DEF IndInv
<1> QED BY <1>1, Bookkeeping, PTL

\* _active_sessions names a turn exactly while its task is alive: the lock of
\* start_turn closes the window between its test and its write.
THEOREM SessionsFollowTasks == Spec => []ActiveIsLive
<1>1. IndInv => ActiveIsLive
  BY DEF IndInv
<1> QED BY <1>1, Bookkeeping, PTL

\* One session never runs two turns at once, for any number of sessions,
\* concurrent requests, failed calls and restarts.
THEOREM OneTurn == Spec => []OneTurnPerSession
<1>1. IndInv => OneTurnPerSession
  BY DEF IndInv, ActiveIsLive, OneTurnPerSession
<1> QED BY <1>1, Bookkeeping, PTL

-----------------------------------------------------------------------------
\* Two coroutines that are both inside start_turn or _execute never work for
\* the same session.
LEMMA SessionIsExclusive ==
    ASSUME IndInv, NEW t \in Turns, NEW u \in Turns,
           phase[t] \in Starting \cup Live, phase[u] \in Starting \cup Live,
           SessionOf[t] = SessionOf[u]
    PROVE  t = u
BY TurnRuntimeAssumption DEF IndInv, ActiveIsLive, LockGuardsStart

\* A step that neither enters append_message nor inserts a row.
LEMMA NoSequenceTaken ==
    ASSUME SequenceIsFresh, messages' = messages,
           \A u \in Turns : phase'[u] \in {"userSeq", "answerSeq"} =>
               phase'[u] = phase[u] /\ local'[u].seq = local[u].seq
    PROVE  SequenceIsFresh'
BY DEF SequenceIsFresh

\* The insert of one coroutine does not outdate the sequence of another.
LEMMA InsertKeepsOthersFresh ==
    ASSUME IndInv, SequenceIsFresh, NEW t \in Turns,
           phase[t] \in {"userSeq", "answerSeq"},
           phase'[t] \notin {"userSeq", "answerSeq"},
           \A u \in Turns \ {t} : phase'[u] = phase[u],
           \A s \in Sessions \ {SessionOf[t]} : messages'[s] = messages[s],
           local' = local
    PROVE  SequenceIsFresh'
<1> SUFFICES ASSUME NEW u \in Turns, phase'[u] \in {"userSeq", "answerSeq"}
             PROVE  local'[u].seq = Len(messages'[SessionOf[u]])
  BY DEF SequenceIsFresh
<1> USE TurnRuntimeAssumption
<1>1. TypeOK
  BY DEF IndInv
<1>2. u # t /\ phase[u] \in {"userSeq", "answerSeq"}
  BY <1>1 DEF TypeOK
<1>3. {phase[t], phase[u]} \subseteq Starting \cup Live
  BY <1>2 DEF Starting, Live, Working
<1>4. SessionOf[u] # SessionOf[t]
  BY <1>2, <1>3, SessionIsExclusive
<1>5. messages'[SessionOf[u]] = messages[SessionOf[u]]
  BY <1>1, <1>4 DEF TypeOK
<1> QED BY <1>2, <1>5 DEF SequenceIsFresh

\* Every step keeps the sequences fresh.
LEMMA NextSequenceIsFresh ==
    IndInv /\ SequenceIsFresh /\ [Next]_vars => SequenceIsFresh'
<1> SUFFICES ASSUME IndInv, SequenceIsFresh, [Next]_vars PROVE SequenceIsFresh'
  OBVIOUS
<1> USE TurnRuntimeAssumption DEF Move, memory, db, env
<1>t. TypeOK
  BY DEF IndInv
<1> USE <1>t DEF TypeOK
<1>1. ASSUME NEW t \in Turns, StartStep(t) PROVE SequenceIsFresh'
  <2>1. CASE CheckSession(t)
    BY <2>1, NoSequenceTaken DEF CheckSession
  <2>2. CASE ListMessages(t)
    BY <2>2, NoSequenceTaken DEF ListMessages
  <2>3. CASE CreateTurn(t)
    BY <2>3, NoSequenceTaken DEF CreateTurn
  <2>4. CASE InsertQuestion(t)
    <3>1. phase[t] = "userSeq" /\ phase'[t] = "saved" /\ local' = local
      BY <2>4 DEF InsertQuestion
    <3>2. \A u \in Turns \ {t} : phase'[u] = phase[u]
      BY <2>4 DEF InsertQuestion
    <3>3. \A s \in Sessions \ {SessionOf[t]} : messages'[s] = messages[s]
      BY <2>4 DEF InsertQuestion, Insert
    <3> QED BY <3>1, <3>2, <3>3, InsertKeepsOthersFresh
  <2>5. CASE SpawnTask(t)
    BY <2>5, NoSequenceTaken DEF SpawnTask
  <2>6. CASE StartFails(t)
    BY <2>6, NoSequenceTaken DEF StartFails
  <2> QED BY <1>1, <2>1, <2>2, <2>3, <2>4, <2>5, <2>6 DEF StartStep
<1>2. ASSUME NEW t \in Turns, ReadSequence(t) PROVE SequenceIsFresh'
  <2>1. ASSUME NEW u \in Turns, phase'[u] \in {"userSeq", "answerSeq"}
        PROVE  local'[u].seq = Len(messages'[SessionOf[u]])
    <3>1. CASE u = t
      BY <1>2, <3>1 DEF ReadSequence, Local
    <3>2. CASE u # t
      BY <1>2, <2>1, <3>2 DEF ReadSequence, SequenceIsFresh
    <3> QED BY <3>1, <3>2
  <2> QED BY <2>1 DEF SequenceIsFresh
<1>3. ASSUME NEW t \in Turns, TaskStep(t) PROVE SequenceIsFresh'
  <2>1. CASE EnterSemaphore(t)
    BY <2>1, NoSequenceTaken DEF EnterSemaphore
  <2>2. CASE MarkRunning(t)
    BY <2>2, NoSequenceTaken DEF MarkRunning
  <2>3. CASE WorkerStarts(t)
    BY <2>3, NoSequenceTaken DEF WorkerStarts
  <2>4. CASE AgentReturns(t)
    BY <2>4, NoSequenceTaken DEF AgentReturns
  <2>5. CASE AgentRaises(t)
    BY <2>5, NoSequenceTaken DEF AgentRaises
  <2>6. CASE ChooseText(t)
    BY <2>6, NoSequenceTaken DEF ChooseText
  <2>7. CASE InsertAnswer(t)
    <3>1. phase[t] = "answerSeq" /\ phase'[t] = "answered" /\ local' = local
      BY <2>7 DEF InsertAnswer
    <3>2. \A u \in Turns \ {t} : phase'[u] = phase[u]
      BY <2>7 DEF InsertAnswer
    <3>3. \A s \in Sessions \ {SessionOf[t]} : messages'[s] = messages[s]
      BY <2>7 DEF InsertAnswer, Insert
    <3> QED BY <3>1, <3>2, <3>3, InsertKeepsOthersFresh
  <2>8. CASE DecideStatus(t)
    BY <2>8, NoSequenceTaken DEF DecideStatus
  <2>9. CASE CommitStatus(t)
    BY <2>9, NoSequenceTaken DEF CommitStatus
  <2>10. CASE ExecuteFails(t)
    BY <2>10, NoSequenceTaken DEF ExecuteFails
  <2>11. CASE CloseBus(t)
    BY <2>11, NoSequenceTaken DEF CloseBus
  <2>12. CASE CloseReturns(t)
    BY <2>12, NoSequenceTaken DEF CloseReturns
  <2>13. CASE ReleaseSession(t)
    BY <2>13, NoSequenceTaken DEF ReleaseSession
  <2> QED BY <1>3, <2>1, <2>2, <2>3, <2>4, <2>5, <2>6, <2>7, <2>8, <2>9,
             <2>10, <2>11, <2>12, <2>13 DEF TaskStep
<1>4. ASSUME NEW t \in Turns, RequestCancel(t) PROVE SequenceIsFresh'
  BY <1>4, NoSequenceTaken DEF RequestCancel
<1>5. ASSUME NEW t \in Turns, EmitCancel(t) PROVE SequenceIsFresh'
  BY <1>5, NoSequenceTaken DEF EmitCancel
<1>6. CASE Shutdown
  BY <1>6, NoSequenceTaken DEF Shutdown
<1>7. CASE Dispose
  BY <1>7, NoSequenceTaken DEF Dispose
<1>8. CASE Restart
  <2>1. \A u \in Turns : phase'[u] \notin {"userSeq", "answerSeq"}
    BY <1>8 DEF Restart, Starting, Live, Working
  <2> QED BY <2>1 DEF SequenceIsFresh
<1>9. CASE UNCHANGED vars
  BY <1>9, NoSequenceTaken DEF vars
<1> QED BY <1>1, <1>2, <1>3, <1>4, <1>5, <1>6, <1>7, <1>8, <1>9 DEF Next

\* The sequence read by append_message is still free when it inserts: the
\* UNIQUE(session_id, sequence) constraint cannot fail a turn.
THEOREM SequencesNeverCollide == Spec => []SequenceIsFresh
<1>1. Init => SequenceIsFresh
  BY DEF Init, SequenceIsFresh
<1> QED BY <1>1, Bookkeeping, NextSequenceIsFresh, PTL DEF Spec

-----------------------------------------------------------------------------
\* What is true of every step once the guards are forgotten: a task only
\* comes from start_turn, start_turn only from a running service, and tasks
\* leave _turns only when the process does.
LEMMA StepsOfTheService ==
    ASSUME TypeOK, [Next]_vars
    PROVE  \/ Shutdown \/ Dispose \/ Restart
           \/ /\ service' = service
              /\ registered \subseteq registered'
              /\ \A t \in Turns :
                   /\ phase'[t] \in Starting =>
                         phase[t] \in Starting \/ service = "up"
                   /\ phase'[t] \in Live =>
                         \/ phase[t] \in Live
                         \/ phase[t] \in Starting /\ t \in registered'
<1> USE DEF Move, memory, db, env
<1>t. phase \in [Turns -> Phases]
  BY DEF TypeOK
<1> USE <1>t DEF Starting, Live, Working
<1>1. ASSUME NEW t \in Turns, StartStep(t)
      PROVE  /\ service' = service /\ registered \subseteq registered'
             /\ \A u \in Turns \ {t} : phase'[u] = phase[u]
             /\ phase'[t] \in Starting => phase[t] \in Starting \/ service = "up"
             /\ phase'[t] \in Live => phase[t] \in Starting /\ t \in registered'
  BY <1>1 DEF StartStep, CheckSession, ListMessages, CreateTurn,
              InsertQuestion, SpawnTask, StartFails
<1>2. ASSUME NEW t \in Turns, ReadSequence(t) \/ TaskStep(t)
      PROVE  /\ service' = service /\ registered' = registered
             /\ \A u \in Turns \ {t} : phase'[u] = phase[u]
             /\ phase'[t] \in Starting => phase[t] \in Starting
             /\ phase'[t] \in Live => phase[t] \in Live
  BY <1>2 DEF ReadSequence, TaskStep, EnterSemaphore, MarkRunning,
              WorkerStarts, AgentReturns, AgentRaises, ChooseText,
              InsertAnswer, DecideStatus, CommitStatus, ExecuteFails,
              CloseBus, CloseReturns, ReleaseSession
<1>3. ASSUME NEW t \in Turns, RequestCancel(t) \/ EmitCancel(t)
      PROVE  UNCHANGED <<service, registered, phase>>
  BY <1>3 DEF RequestCancel, EmitCancel
<1>4. ASSUME UNCHANGED vars
      PROVE  UNCHANGED <<service, registered, phase>>
  BY <1>4 DEF vars
<1> HIDE DEF Starting, Live, Working
<1>5. CASE \E t \in Turns : StartStep(t)
  BY <1>1, <1>5
<1>6. CASE \E t \in Turns : ReadSequence(t) \/ TaskStep(t)
  BY <1>2, <1>6
<1>7. CASE \E t \in Turns : RequestCancel(t) \/ EmitCancel(t)
  BY <1>3, <1>7
<1>8. CASE UNCHANGED vars
  BY <1>4, <1>8
<1> QED BY <1>5, <1>6, <1>7, <1>8 DEF Next

\* TasksAreRegistered is what ShutdownDrains needs to be inductive: gather()
\* in shutdown only waits for the tasks it finds in _turns.
LEMMA NextShutdownDrains ==
    TypeOK /\ TasksAreRegistered /\ ShutdownDrains /\ [Next]_vars
        => TasksAreRegistered' /\ ShutdownDrains'
<1> SUFFICES ASSUME TypeOK, TasksAreRegistered, ShutdownDrains, [Next]_vars
             PROVE  TasksAreRegistered' /\ ShutdownDrains'
  OBVIOUS
<1>1. CASE Shutdown
  BY <1>1 DEF Shutdown, TasksAreRegistered, ShutdownDrains
<1>2. CASE Dispose
  <2>1. phase' = phase /\ registered' = registered /\ service = "draining"
    BY <1>2 DEF Dispose, memory
  <2>2. \A t \in Turns : phase[t] \notin Live
    BY <1>2 DEF Dispose, TasksAreRegistered, Live, Working
  <2> QED BY <2>1, <2>2 DEF TasksAreRegistered, ShutdownDrains
<1>3. CASE Restart
  <2>1. service' = "up" /\ \A t \in Turns : phase'[t] \notin Live
    BY <1>3 DEF Restart, Live, Working, Starting
  <2> QED BY <2>1 DEF TasksAreRegistered, ShutdownDrains
<1>4. CASE ~ (Shutdown \/ Dispose \/ Restart)
  BY <1>4, StepsOfTheService DEF TasksAreRegistered, ShutdownDrains
<1> QED BY <1>1, <1>2, <1>3, <1>4

\* When shutdown has disposed of the database engine, no coroutine is left
\* that could still use it.
THEOREM ShutdownWaitsForAll == Spec => []ShutdownDrains
<1>1. Init => TasksAreRegistered /\ ShutdownDrains
  BY DEF Init, TasksAreRegistered, ShutdownDrains, Live, Working
<1> QED BY <1>1, TypeCorrect, NextShutdownDrains, PTL DEF Spec

-----------------------------------------------------------------------------
\* The conversation holds the answer of turn t.
HasAnswer(t) ==
    \E i \in DOMAIN messages[SessionOf[t]] :
        /\ messages[SessionOf[t]][i].turn = t
        /\ messages[SessionOf[t]][i].role = "assistant"

\* A coroutine past InsertAnswer has its answer in the conversation, and so has
\* a turn whose row says it is over.
AnswerStored ==
    \A t \in Turns :
        phase[t] \in {"answered", "deciding"} \/ row[t] \in {"completed", "cancelled"}
            => HasAnswer(t)

\* Appending to a sequence moves nothing.
LEMMA AppendKeeps ==
    ASSUME NEW S, NEW q \in Seq(S), NEW e \in S
    PROVE  \A i \in DOMAIN q : i \in DOMAIN Append(q, e) /\ Append(q, e)[i] = q[i]
OBVIOUS

\* No step removes an answer, whether it appends a row or does nothing.
LEMMA AnswersStay ==
    ASSUME TypeOK, [Next]_vars, NEW t \in Turns, HasAnswer(t)
    PROVE  HasAnswer(t)'
<1> USE TurnRuntimeAssumption DEF TypeOK, Move, memory, db, env
<1>1. CASE messages' = messages
  BY <1>1 DEF HasAnswer
<1>2. ASSUME NEW u \in Turns, NEW r \in Message,
             messages' = [messages EXCEPT ![SessionOf[u]] = Append(@, r)]
      PROVE  HasAnswer(t)'
  <2> DEFINE old == messages[SessionOf[t]]
             new == messages'[SessionOf[t]]
  <2>1. new = old \/ new = Append(old, r)
    BY <1>2
  <2>2. old \in Seq(Message)
    OBVIOUS
  <2>3. \A i \in DOMAIN old : i \in DOMAIN new /\ new[i] = old[i]
    <3>1. CASE new = old
      BY <3>1
    <3>2. CASE new = Append(old, r)
      <4>1. \A i \in DOMAIN old : /\ i \in DOMAIN Append(old, r)
                                 /\ Append(old, r)[i] = old[i]
        BY <2>2, AppendKeeps
      <4> HIDE DEF old, new
      <4> QED BY <3>2, <4>1
    <3> QED BY <2>1, <3>1, <3>2
  <2>4. PICK i \in DOMAIN old : old[i].turn = t /\ old[i].role = "assistant"
    BY DEF HasAnswer
  <2>5. i \in DOMAIN new /\ new[i].turn = t /\ new[i].role = "assistant"
    BY <2>3, <2>4
  <2> QED BY <2>5 DEF HasAnswer
<1>3. ASSUME NEW u \in Turns, InsertQuestion(u) PROVE HasAnswer(t)'
  <2>1. [turn |-> u, role |-> "user", text |-> u] \in Message
    BY DEF Message
  <2> QED BY <1>2, <1>3, <2>1 DEF InsertQuestion, Insert
<1>4. ASSUME NEW u \in Turns, InsertAnswer(u) PROVE HasAnswer(t)'
  <2>1. [turn |-> u, role |-> "assistant", text |-> local[u].text] \in Message
    BY DEF Message, Local
  <2> QED BY <1>2, <1>4, <2>1 DEF InsertAnswer, Insert
<1>5. CASE ~ \E u \in Turns : InsertQuestion(u) \/ InsertAnswer(u)
  <2>1. messages' = messages
    BY <1>5 DEF Next, StartStep, TaskStep, vars, CheckSession, ListMessages,
          CreateTurn, SpawnTask, StartFails, ReadSequence, EnterSemaphore,
          MarkRunning, WorkerStarts, AgentReturns, AgentRaises, ChooseText,
          DecideStatus, CommitStatus, ExecuteFails, CloseBus, CloseReturns, ReleaseSession,
          RequestCancel, EmitCancel, Shutdown, Dispose, Restart
  <2> QED BY <1>1, <2>1
<1> QED BY <1>3, <1>4, <1>5

\* A step brings a turn into the hypothesis of AnswerStored only by storing its
\* answer, or from a place where it was already stored.
LEMMA NextAnswerStored ==
    TypeOK /\ AnswerStored /\ [Next]_vars => AnswerStored'
<1> SUFFICES ASSUME TypeOK, AnswerStored, [Next]_vars, NEW t \in Turns,
                    \/ phase'[t] \in {"answered", "deciding"}
                    \/ row'[t] \in {"completed", "cancelled"}
             PROVE  HasAnswer(t)'
  BY DEF AnswerStored
<1> USE TurnRuntimeAssumption DEF TypeOK, Move, memory, db, env
<1>1. CASE InsertAnswer(t)
  <2> DEFINE old == messages[SessionOf[t]]
             r == [turn |-> t, role |-> "assistant", text |-> local[t].text]
  <2>1. old \in Seq(Message) /\ r \in Message
    BY DEF Message, Local
  <2>2. messages'[SessionOf[t]] = Append(old, r)
    BY <1>1 DEF InsertAnswer, Insert
  <2>3. /\ Len(old) + 1 \in DOMAIN Append(old, r)
        /\ Append(old, r)[Len(old) + 1] = r
    BY <2>1
  <2>4. r.turn = t /\ r.role = "assistant"
    OBVIOUS
  <2> HIDE DEF r, old
  <2> QED BY <2>2, <2>3, <2>4 DEF HasAnswer
<1>2. CASE ~ InsertAnswer(t)
  <2>1. \/ phase[t] \in {"answered", "deciding"}
        \/ row[t] \in {"completed", "cancelled"}
    <3>1. CASE \E u \in Turns : StartStep(u)
      BY <3>1 DEF StartStep, CheckSession, ListMessages, CreateTurn,
            InsertQuestion, SpawnTask, StartFails
    <3>2. CASE \E u \in Turns : ReadSequence(u) \/ RequestCancel(u) \/ EmitCancel(u)
      BY <3>2 DEF ReadSequence, RequestCancel, EmitCancel
    <3>3. CASE \E u \in Turns : TaskStep(u)
      BY <1>2, <3>3 DEF TaskStep, EnterSemaphore, MarkRunning,
            WorkerStarts, AgentReturns, AgentRaises, ChooseText, InsertAnswer,
            DecideStatus, CommitStatus, ExecuteFails, CloseBus, CloseReturns, ReleaseSession
    <3>4. CASE Shutdown \/ Dispose \/ Restart \/ UNCHANGED vars
      BY <3>4 DEF Shutdown, Dispose, Restart, vars
    <3> QED BY <3>1, <3>2, <3>3, <3>4 DEF Next
  <2> QED BY <2>1, AnswersStay DEF AnswerStored
<1> QED BY <1>1, <1>2

\* A turn reported as completed or cancelled has its answer stored: the row is
\* written last, and nothing removes a message.
THEOREM ReportedTurnsAreAnswered == Spec => []TerminalHasAnswer
<1>1. Init => AnswerStored
  BY TurnRuntimeAssumption DEF Init, AnswerStored
<1>2. AnswerStored => TerminalHasAnswer
  BY DEF AnswerStored, HasAnswer, TerminalHasAnswer
<1> QED BY <1>1, <1>2, TypeCorrect, NextAnswerStored, PTL DEF Spec
-----------------------------------------------------------------------------
(***************************************************************************)
(* The conversation of a turn.                                             *)
(***************************************************************************)
Conversation(t) == messages[SessionOf[t]]
Question(t)     == [turn |-> t, role |-> "user", text |-> t]
AnswerOf(t, x)  == [turn |-> t, role |-> "assistant", text |-> x]

\* Nothing came after the history but the question, or its answer too.
Questioned(t) == Conversation(t) = Append(local[t].history, Question(t))
Answered(t) ==
    \E x \in Turns : Conversation(t) =
        Append(Append(local[t].history, Question(t)), AnswerOf(t, x))

BeforeQuestion == {"listed", "created", "userSeq"}
BeforeAnswer   == {"saved", "queued", "permit", "running", "agent", "returned",
                   "answering", "answerSeq"}

\* What the coroutine of t may take for granted at each of its awaits.
Tracks(t) ==
    /\ phase[t] \in BeforeQuestion => Conversation(t) = local[t].history
    /\ phase[t] \in BeforeAnswer => Questioned(t)
    /\ phase[t] \in {"answered", "deciding"} => Answered(t)
    /\ phase[t] \in {"closing", "sentinels", "closed"} => Questioned(t) \/ Answered(t)
    /\ phase[t] \in {"answering", "answerSeq"} => local[t].text \in Turns

ConversationTracked == \A t \in Turns : Tracks(t)

\* The steps of the coroutine of t.
Coroutine(t) == StartStep(t) \/ ReadSequence(t) \/ TaskStep(t)

\* A coroutine leaves the state of the others and other sessions alone, and
\* writes a message only while it is starting or alive.
LEMMA CoroutineIsLocal ==
    ASSUME TypeOK, NEW u \in Turns, Coroutine(u)
    PROVE  /\ \A t \in Turns \ {u} : phase'[t] = phase[t] /\ local'[t] = local[t]
           /\ \A s \in Sessions \ {SessionOf[u]} : messages'[s] = messages[s]
           /\ messages' = messages \/ phase[u] \in {"userSeq", "answerSeq"}
<1> USE TurnRuntimeAssumption DEF TypeOK, Move, memory, db, env
<1>1. CASE InsertQuestion(u)
  BY <1>1 DEF InsertQuestion, Insert
<1>2. CASE InsertAnswer(u)
  BY <1>2 DEF InsertAnswer, Insert
<1>3. CASE StartStep(u) /\ ~InsertQuestion(u)
  BY <1>3 DEF StartStep, CheckSession, ListMessages, CreateTurn, SpawnTask, StartFails
<1>4. CASE ReadSequence(u)
  BY <1>4 DEF ReadSequence
<1>5. CASE TaskStep(u) /\ ~InsertAnswer(u)
  BY <1>5 DEF TaskStep, EnterSemaphore, MarkRunning, WorkerStarts, AgentReturns,
              AgentRaises, ChooseText, DecideStatus, CommitStatus, ExecuteFails,
              CloseBus, CloseReturns, ReleaseSession
<1> QED BY <1>1, <1>2, <1>3, <1>4, <1>5 DEF Coroutine

\* A step that is not the turn's own, and no restart, leaves a turn that is
\* starting or alive where it was, with the conversation it saw.
LEMMA OthersStepAside ==
    ASSUME IndInv, [Next]_vars, ~Restart, NEW t \in Turns, ~Coroutine(t)
    PROVE  /\ phase'[t] = phase[t] /\ local'[t] = local[t]
           /\ phase[t] \in Starting \cup Live => Conversation(t)' = Conversation(t)
<1> USE TurnRuntimeAssumption
<1>t. TypeOK
  BY DEF IndInv
<1>1. ASSUME NEW u \in Turns, u # t, Coroutine(u)
      PROVE  /\ phase'[t] = phase[t] /\ local'[t] = local[t]
             /\ phase[t] \in Starting \cup Live => Conversation(t)' = Conversation(t)
  <2>1. phase'[t] = phase[t] /\ local'[t] = local[t]
    BY <1>t, <1>1, CoroutineIsLocal
  <2>2. ASSUME phase[t] \in Starting \cup Live PROVE Conversation(t)' = Conversation(t)
    <3>1. CASE messages' = messages
      BY <3>1 DEF Conversation
    <3>2. CASE phase[u] \in {"userSeq", "answerSeq"}
      <4>1. phase[u] \in Starting \cup Live
        BY <3>2 DEF Starting, Live, Working
      <4>2. SessionOf[u] # SessionOf[t]
        BY <1>1, <2>2, <4>1, SessionIsExclusive
      <4> QED BY <1>t, <1>1, <4>2, CoroutineIsLocal DEF Conversation
    <3> QED BY <1>t, <1>1, <3>1, <3>2, CoroutineIsLocal
  <2> QED BY <2>1, <2>2
<1>2. CASE \E u \in Turns : RequestCancel(u) \/ EmitCancel(u)
  BY <1>2 DEF RequestCancel, EmitCancel, Conversation, db
<1>3. CASE Shutdown \/ Dispose \/ UNCHANGED vars
  BY <1>3 DEF Shutdown, Dispose, Conversation, db, vars
<1> QED BY <1>1, <1>2, <1>3 DEF Next, Coroutine

\* The coroutine's own steps keep track of its conversation.
LEMMA CoroutineTracks ==
    ASSUME IndInv, SequenceIsFresh, NEW t \in Turns, Tracks(t), Coroutine(t)
    PROVE  Tracks(t)'
<1> USE TurnRuntimeAssumption DEF Move, memory, db, env, BeforeQuestion, BeforeAnswer
<1>t. TypeOK
  BY DEF IndInv
<1>l. local[t] \in Local /\ phase \in [Turns -> Phases] /\ local \in [Turns -> Local]
  BY <1>t DEF TypeOK
<1> DEFINE Same == /\ Conversation(t)' = Conversation(t)
                   /\ local'[t].history = local[t].history
<1>s. Same => (Questioned(t)' <=> Questioned(t)) /\ (Answered(t)' <=> Answered(t))
  BY DEF Questioned, Answered, Question, AnswerOf
<1>1. CASE CheckSession(t)
  BY <1>1, <1>l DEF CheckSession, Tracks
<1>2. CASE ListMessages(t)
  BY <1>2, <1>l DEF ListMessages, Tracks, Local, Conversation
<1>3. CASE CreateTurn(t)
  BY <1>3, <1>l DEF CreateTurn, Tracks, Conversation
<1>4. CASE InsertQuestion(t)
  <2>1. messages'[SessionOf[t]] = Append(messages[SessionOf[t]], Question(t))
    BY <1>4, <1>t DEF InsertQuestion, Insert, TypeOK, Question
  <2>2. messages[SessionOf[t]] = local[t].history
    BY <1>4 DEF InsertQuestion, Tracks, Conversation
  <2>3. local'[t] = local[t] /\ phase'[t] = "saved"
    BY <1>4, <1>l DEF InsertQuestion
  <2>4. Questioned(t)'
    BY <2>1, <2>2, <2>3 DEF Questioned, Conversation, Question
  <2> QED BY <2>3, <2>4 DEF Tracks
<1>5. CASE SpawnTask(t)
  <2>1. Same /\ phase[t] = "saved" /\ phase'[t] = "queued"
    BY <1>5, <1>l DEF SpawnTask, Conversation
  <2> QED BY <2>1, <1>s DEF Tracks
<1>6. CASE StartFails(t)
  BY <1>6, <1>l DEF StartFails, Tracks
<1>7. CASE ReadSequence(t)
  <2>1. /\ Same /\ local'[t].text = local[t].text
        /\ \/ phase[t] = "created" /\ phase'[t] = "userSeq"
           \/ phase[t] = "answering" /\ phase'[t] = "answerSeq"
    BY <1>7, <1>l DEF ReadSequence, Conversation, Local
  <2> HIDE DEF Same
  <2>2. Conversation(t)' = Conversation(t) /\ local'[t].history = local[t].history
    BY <2>1 DEF Same
  <2> QED BY <2>1, <2>2, <1>s DEF Tracks
<1>8. CASE /\ \/ EnterSemaphore(t) \/ MarkRunning(t) \/ WorkerStarts(t)
              \/ AgentReturns(t)
  <2>1. /\ Same
        /\ phase[t] \in {"queued", "permit", "running", "agent"}
        /\ phase'[t] \in {"permit", "running", "agent", "returned"}
    BY <1>8, <1>l DEF EnterSemaphore, MarkRunning, WorkerStarts, AgentReturns,
                      Conversation, Local
  <2> QED BY <2>1, <1>s DEF Tracks
<1>9. CASE AgentRaises(t)
  <2>1. /\ Same /\ phase[t] \in {"running", "agent"} /\ phase'[t] = "closing"
    BY <1>9, <1>l DEF AgentRaises, Conversation
  <2> QED BY <2>1, <1>s DEF Tracks
<1>10. CASE ChooseText(t)
  <2>1. /\ Same /\ phase[t] = "returned" /\ phase'[t] \in {"answering", "closing"}
        /\ local'[t].text = FinalText(t)
        /\ phase'[t] = "answering" => FinalText(t) # NoTurn
    BY <1>10, <1>l DEF ChooseText, Conversation, Local
  <2>2. phase'[t] = "answering" => local'[t].text \in Turns
    BY <1>t, <2>1, FinalTextType
  <2> HIDE DEF Same
  <2> QED BY <2>1, <2>2, <1>s DEF Tracks
<1>11. CASE InsertAnswer(t)
  <2>1. /\ messages'[SessionOf[t]] =
              Append(messages[SessionOf[t]], AnswerOf(t, local[t].text))
        /\ local'[t] = local[t] /\ phase'[t] = "answered"
    BY <1>11, <1>t DEF InsertAnswer, Insert, TypeOK, AnswerOf
  <2>2. messages[SessionOf[t]] = Append(local[t].history, Question(t))
        /\ local[t].text \in Turns
    BY <1>11 DEF InsertAnswer, Tracks, Questioned, Conversation
  <2>3. Answered(t)'
    BY <2>1, <2>2 DEF Answered, Conversation, Question, AnswerOf
  <2> QED BY <2>1, <2>3 DEF Tracks
<1>12. CASE DecideStatus(t)
  <2>1. Same /\ phase[t] = "answered" /\ phase'[t] = "deciding"
    BY <1>12, <1>l DEF DecideStatus, Conversation, Local
  <2> QED BY <2>1, <1>s DEF Tracks
<1>13. CASE CommitStatus(t)
  <2>1. Same /\ phase[t] = "deciding" /\ phase'[t] = "closing"
    BY <1>13, <1>l DEF CommitStatus, Conversation
  <2> QED BY <2>1, <1>s DEF Tracks
<1>14. CASE ExecuteFails(t)
  <2>1. Same /\ phase[t] \in Working \ {"running", "agent"} /\ phase'[t] = "closing"
    BY <1>14, <1>l DEF ExecuteFails, Conversation
  <2>2. Questioned(t) \/ Answered(t)
    BY <2>1 DEF Tracks, Working
  <2> QED BY <2>1, <2>2, <1>s DEF Tracks
<1>15. CASE CloseBus(t)
  <2>1. Same /\ phase[t] = "closing" /\ phase'[t] = "sentinels"
    BY <1>15, <1>l DEF CloseBus, Conversation
  <2> QED BY <2>1, <1>s DEF Tracks
<1>17. CASE CloseReturns(t)
  <2>1. Same /\ phase[t] = "sentinels" /\ phase'[t] = "closed"
    BY <1>17, <1>l DEF CloseReturns, Conversation
  <2> QED BY <2>1, <1>s DEF Tracks
<1>16. CASE ReleaseSession(t)
  BY <1>16, <1>l DEF ReleaseSession, Tracks
<1> QED BY <1>1, <1>2, <1>3, <1>4, <1>5, <1>6, <1>7, <1>8, <1>9, <1>10, <1>11,
           <1>12, <1>13, <1>14, <1>15, <1>16, <1>17 DEF Coroutine, StartStep, TaskStep

\* Every step keeps every turn's track of its conversation.
LEMMA NextConversationTracked ==
    IndInv /\ SequenceIsFresh /\ ConversationTracked /\ [Next]_vars
        => ConversationTracked'
<1> SUFFICES ASSUME IndInv, SequenceIsFresh, ConversationTracked, [Next]_vars,
                    NEW t \in Turns
             PROVE  Tracks(t)'
  BY DEF ConversationTracked
<1>0. Tracks(t)
  BY DEF ConversationTracked
<1>1. CASE Coroutine(t)
  BY <1>0, <1>1, CoroutineTracks
<1>2. CASE Restart
  <2>1. phase'[t] \notin Starting \cup Live
    BY <1>2 DEF Restart, Starting, Live, Working
  <2> QED BY <2>1 DEF Tracks, BeforeQuestion, BeforeAnswer, Starting, Live, Working
<1>3. CASE ~Coroutine(t) /\ ~Restart
  <2>1. /\ phase'[t] = phase[t] /\ local'[t] = local[t]
        /\ phase[t] \in Starting \cup Live => Conversation(t)' = Conversation(t)
    BY <1>3, OthersStepAside
  <2>2. CASE phase[t] \in Starting \cup Live
    BY <1>0, <2>1, <2>2 DEF Tracks, Questioned, Answered, Question, AnswerOf
  <2>3. CASE phase[t] \notin Starting \cup Live
    BY <2>1, <2>3 DEF Tracks, BeforeQuestion, BeforeAnswer, Starting, Live, Working
  <2> QED BY <2>2, <2>3
<1> QED BY <1>1, <1>2, <1>3

\* ConversationTracked is an invariant.
LEMMA ConversationInvariant == Spec => []ConversationTracked
<1>1. Init => ConversationTracked
  BY DEF Init, ConversationTracked, Tracks, BeforeQuestion, BeforeAnswer
<1> QED BY <1>1, Bookkeeping, SequencesNeverCollide, NextConversationTracked, PTL DEF Spec

\* What has been appended once or twice, index by index.
LEMMA AppendedTwice ==
    ASSUME NEW S, NEW q \in Seq(S), NEW a \in S, NEW b \in S
    PROVE  /\ Len(Append(q, a)) = Len(q) + 1
           /\ Len(Append(Append(q, a), b)) = Len(q) + 2
           /\ SubSeq(Append(q, a), 1, Len(q)) = q
           /\ SubSeq(Append(Append(q, a), b), 1, Len(q)) = q
           /\ Append(q, a)[Len(q) + 1] = a
           /\ Append(Append(q, a), b)[Len(q) + 1] = a
           /\ Append(Append(q, a), b)[Len(q) + 2] = b
<1>1. Append(q, a) \in Seq(S) /\ Append(Append(q, a), b) \in Seq(S)
  OBVIOUS
<1>2. /\ Len(Append(q, a)) = Len(q) + 1
      /\ Len(Append(Append(q, a), b)) = Len(q) + 2
  OBVIOUS
<1>3. /\ \A i \in 1..Len(q) : Append(q, a)[i] = q[i] /\ Append(Append(q, a), b)[i] = q[i]
      /\ Append(q, a)[Len(q) + 1] = a
      /\ Append(Append(q, a), b)[Len(q) + 1] = a
      /\ Append(Append(q, a), b)[Len(q) + 2] = b
  OBVIOUS
<1>4. \A w \in Seq(S) : Len(w) >= Len(q) /\ (\A i \in 1..Len(q) : w[i] = q[i])
                           => SubSeq(w, 1, Len(q)) = q
  OBVIOUS
<1> QED BY <1>1, <1>2, <1>3, <1>4

\* What the agent was given is still the conversation up to the turn's own
\* question, and only its own answer follows: the restarts, faults and
\* requests between its awaits slip nothing in.
THEOREM HistoriesStayCurrent == Spec => []HistoryIsCurrent
<1>1. TypeOK /\ ConversationTracked => HistoryIsCurrent
  <2> SUFFICES ASSUME TypeOK, ConversationTracked, NEW t \in Turns, phase[t] \in Live
               PROVE  LET log == messages[SessionOf[t]]
                          n   == Len(local[t].history)
                      IN /\ Len(log) \in {n + 1, n + 2}
                         /\ SubSeq(log, 1, n) = local[t].history
                         /\ log[n + 1].turn = t /\ log[n + 1].role = "user"
                         /\ Len(log) = n + 2 => log[n + 2].turn = t
    BY DEF HistoryIsCurrent
  <2> DEFINE h == local[t].history
  <2>1. h \in Seq(Message) /\ Len(h) \in Nat
    BY DEF TypeOK, Local
  <2>2. /\ Question(t) \in Message /\ \A x \in Turns : AnswerOf(t, x) \in Message
        /\ Question(t).turn = t /\ Question(t).role = "user"
        /\ \A x \in Turns : AnswerOf(t, x).turn = t
    BY DEF Question, AnswerOf, Message
  <2>3. Questioned(t) \/ Answered(t)
    BY DEF ConversationTracked, Tracks, BeforeAnswer, Live, Working
  <2> HIDE DEF h
  <2>4. CASE Conversation(t) = Append(h, Question(t))
    BY <2>1, <2>2, <2>4, AppendedTwice DEF h, Conversation
  <2>5. ASSUME NEW x \in Turns,
               Conversation(t) = Append(Append(h, Question(t)), AnswerOf(t, x))
        PROVE  LET log == messages[SessionOf[t]]
                   n   == Len(h)
               IN /\ Len(log) \in {n + 1, n + 2}
                  /\ SubSeq(log, 1, n) = h
                  /\ log[n + 1].turn = t /\ log[n + 1].role = "user"
                  /\ Len(log) = n + 2 => log[n + 2].turn = t
    BY <2>1, <2>2, <2>5, AppendedTwice DEF Conversation
  <2> QED BY <2>3, <2>4, <2>5 DEF Questioned, Answered, h
<1> QED BY <1>1, TypeCorrect, ConversationInvariant, PTL
-----------------------------------------------------------------------------
(***************************************************************************)
(* RuntimeManager implements SessionLog.                                   *)
(***************************************************************************)

\* Places where the question of a turn cannot be in the conversation yet.
Unheard == {"idle", "checked", "listed", "created", "userSeq", "refused"}
AskedLater == \A t \in Turns : phase[t] \in Unheard => t \notin Asked

\* The refinement mapping: whom each session is busy with.
Busy == [s \in Sessions |-> BusyWith(s)]

\* A message appended for turn u counts as its question if its role says so.
LEMMA AskedGrows ==
    ASSUME TypeOK, NEW u \in Turns, NEW m \in Message, m.turn = u,
           messages' = [messages EXCEPT ![SessionOf[u]] = Append(@, m)]
    PROVE  Asked' = IF m.role = "user" THEN Asked \cup {u} ELSE Asked
<1> USE TurnRuntimeAssumption DEF TypeOK
<1>1. ASSUME NEW t \in Turns
      PROVE  t \in Asked' <=> t \in Asked \/ (t = u /\ m.role = "user")
  <2> DEFINE old == messages[SessionOf[t]]
             new == messages'[SessionOf[t]]
  <2>1. old \in Seq(Message)
    OBVIOUS
  <2>2. CASE SessionOf[t] # SessionOf[u]
    BY <2>2 DEF Asked
  <2>3. CASE SessionOf[t] = SessionOf[u]
    <3>1. new = Append(old, m)
      BY <2>3
    <3> HIDE DEF old, new
    <3>2. /\ DOMAIN new = 1..(Len(old) + 1) /\ DOMAIN old = 1..Len(old)
          /\ \A i \in 1..Len(old) : new[i] = old[i]
          /\ new[Len(old) + 1] = m /\ Len(old) \in Nat
      BY <2>1, <3>1
    <3>3. (\E i \in DOMAIN new : new[i].turn = t /\ new[i].role = "user")
             <=> \/ \E i \in DOMAIN old : old[i].turn = t /\ old[i].role = "user"
                 \/ t = u /\ m.role = "user"
      <4>1. ASSUME NEW i \in DOMAIN new, new[i].turn = t, new[i].role = "user"
            PROVE  \/ \E j \in DOMAIN old : old[j].turn = t /\ old[j].role = "user"
                   \/ t = u /\ m.role = "user"
        <5>1. i \in DOMAIN old \/ i = Len(old) + 1
          BY <3>2
        <5> QED BY <3>2, <4>1, <5>1
      <4>2. ASSUME NEW j \in DOMAIN old, old[j].turn = t, old[j].role = "user"
            PROVE  \E i \in DOMAIN new : new[i].turn = t /\ new[i].role = "user"
        <5>1. j \in DOMAIN new /\ new[j] = old[j]
          BY <3>2
        <5> QED BY <4>2, <5>1
      <4>3. ASSUME t = u, m.role = "user"
            PROVE  \E i \in DOMAIN new : new[i].turn = t /\ new[i].role = "user"
        <5>1. Len(old) + 1 \in DOMAIN new
          BY <3>2
        <5> QED BY <3>2, <4>3, <5>1
      <4> QED BY <4>1, <4>2, <4>3
    <3> QED BY <3>3 DEF Asked, old, new
  <2> QED BY <2>2, <2>3
<1>2. Asked \subseteq Turns /\ Asked' \subseteq Turns
  BY DEF Asked
<1>3. CASE m.role = "user"
  BY <1>1, <1>2, <1>3
<1>4. CASE m.role # "user"
  BY <1>1, <1>2, <1>4
<1> QED BY <1>3, <1>4

\* The two inserts of append_message, seen from Asked.
LEMMA InsertsAndAsked ==
    ASSUME TypeOK, NEW u \in Turns
    PROVE  /\ InsertQuestion(u) => Asked' = Asked \cup {u}
           /\ InsertAnswer(u) => Asked' = Asked
<1> USE TurnRuntimeAssumption
<1>1. ASSUME InsertQuestion(u) PROVE Asked' = Asked \cup {u}
  <2> DEFINE m == [turn |-> u, role |-> "user", text |-> u]
  <2>1. m \in Message /\ m.turn = u /\ m.role = "user"
    BY DEF Message
  <2>2. messages' = [messages EXCEPT ![SessionOf[u]] = Append(@, m)]
    BY <1>1 DEF InsertQuestion, Insert
  <2> HIDE DEF m
  <2> QED BY <2>1, <2>2, AskedGrows
<1>2. ASSUME InsertAnswer(u) PROVE Asked' = Asked
  <2> DEFINE m == [turn |-> u, role |-> "assistant", text |-> local[u].text]
  <2>1. m \in Message /\ m.turn = u /\ m.role # "user"
    BY DEF Message, TypeOK, Local
  <2>2. messages' = [messages EXCEPT ![SessionOf[u]] = Append(@, m)]
    BY <1>2 DEF InsertAnswer, Insert
  <2> HIDE DEF m
  <2> QED BY <2>1, <2>2, AskedGrows
<1> QED BY <1>1, <1>2

\* No step but the two inserts writes a message.
LEMMA OnlyInsertsWrite ==
    ASSUME [Next]_vars, \A u \in Turns : ~InsertQuestion(u) /\ ~InsertAnswer(u)
    PROVE  messages' = messages
BY DEF Next, StartStep, TaskStep, vars, memory, db, env, CheckSession, ListMessages,
       CreateTurn, SpawnTask, StartFails, ReadSequence, EnterSemaphore,
       MarkRunning, WorkerStarts, AgentReturns, AgentRaises, ChooseText,
       DecideStatus, CommitStatus, ExecuteFails, CloseBus, CloseReturns, ReleaseSession,
       RequestCancel, EmitCancel, Shutdown, Dispose, Restart

\* Only InsertQuestion makes a turn heard, and it leaves Unheard with it.
LEMMA NextAskedLater == TypeOK /\ AskedLater /\ [Next]_vars => AskedLater'
<1> SUFFICES ASSUME TypeOK, AskedLater, [Next]_vars, NEW t \in Turns,
                    phase'[t] \in Unheard
             PROVE  t \notin Asked'
  BY DEF AskedLater
<1> USE TurnRuntimeAssumption DEF Move, memory, db, env
<1>1. phase[t] \in Unheard
  <2> USE DEF TypeOK, Unheard
  <2>1. CASE \E u \in Turns : StartStep(u)
    BY <2>1 DEF StartStep, CheckSession, ListMessages, CreateTurn, InsertQuestion,
                SpawnTask, StartFails
  <2>2. CASE \E u \in Turns : ReadSequence(u) \/ RequestCancel(u) \/ EmitCancel(u)
    BY <2>2 DEF ReadSequence, RequestCancel, EmitCancel
  <2>3. CASE \E u \in Turns : TaskStep(u)
    BY <2>3 DEF TaskStep, EnterSemaphore, MarkRunning, WorkerStarts, AgentReturns,
                AgentRaises, ChooseText, InsertAnswer, DecideStatus, CommitStatus,
                ExecuteFails, CloseBus, CloseReturns, ReleaseSession
  <2>4. CASE Shutdown \/ Dispose \/ Restart \/ UNCHANGED vars
    BY <2>4 DEF Shutdown, Dispose, Restart, vars
  <2> QED BY <2>1, <2>2, <2>3, <2>4 DEF Next
<1>2. t \notin Asked
  BY <1>1 DEF AskedLater
<1>3. ASSUME NEW u \in Turns, InsertQuestion(u) PROVE t \notin Asked'
  <2>1. u # t
    BY <1>3 DEF InsertQuestion, Unheard, TypeOK
  <2> QED BY <1>2, <1>3, <2>1, InsertsAndAsked
<1>4. ASSUME NEW u \in Turns, InsertAnswer(u) PROVE t \notin Asked'
  BY <1>2, <1>4, InsertsAndAsked
<1>5. CASE \A u \in Turns : ~InsertQuestion(u) /\ ~InsertAnswer(u)
  BY <1>2, <1>5, OnlyInsertsWrite DEF Asked
<1> QED BY <1>3, <1>4, <1>5

\* The session of a turn that is being started, or that is alive.
LEMMA BusyWhen ==
    ASSUME IndInv, NEW t \in Turns
    PROVE  /\ phase[t] \in Live => BusyWith(SessionOf[t]) = t
           /\ phase[t] = "saved" => BusyWith(SessionOf[t]) = t
           /\ phase[t] \in Starting \ {"saved"} => BusyWith(SessionOf[t]) = NoTurn
<1> USE TurnRuntimeAssumption
<1>1. "saved" \in Starting
  BY DEF Starting
<1> QED BY <1>1 DEF IndInv, ActiveIsLive, LockGuardsStart, BusyWith

\* What _active_sessions and the lock say of a session decides whom it is
\* busy with.
LEMMA BusyUnchanged ==
    ASSUME TypeOK, NEW s \in Sessions, active'[s] = active[s],
           \A t \in Turns : lock' = t /\ phase'[t] = "saved"
                               <=> lock = t /\ phase[t] = "saved",
           lock' \in Turns \cup {NoTurn}
    PROVE  BusyWith(s)' = BusyWith(s)
BY DEF TypeOK, BusyWith

\* Steps that neither write a message nor take or give up a session.
LEMMA StuttersWhen ==
    ASSUME TypeOK, messages' = messages,
           \A s \in Sessions : BusyWith(s)' = BusyWith(s)
    PROVE  UNCHANGED Log!logVars
BY DEF Log!logVars, Asked

\* A session is given up.
LEMMA LeavesWhen ==
    ASSUME TypeOK, NEW t \in Turns, messages' = messages,
           BusyWith(SessionOf[t]) = t, BusyWith(SessionOf[t])' = NoTurn,
           \A s \in Sessions \ {SessionOf[t]} : BusyWith(s)' = BusyWith(s)
    PROVE  Log!Leave(t)
BY TurnRuntimeAssumption DEF Log!Leave, Asked

\* Every step is a step of SessionLog or changes nothing it speaks of.
LEMMA StepKeepsLog ==
    IndInv /\ IndInv' /\ ConversationTracked /\ AskedLater /\ [Next]_vars
        => [Log!LogNext]_(Log!logVars)
<1> SUFFICES ASSUME IndInv, IndInv', ConversationTracked, AskedLater, [Next]_vars
             PROVE  [Log!LogNext]_(Log!logVars)
  OBVIOUS
<1> USE TurnRuntimeAssumption DEF Move, memory, db, env
<1>t. TypeOK /\ TypeOK'
  BY DEF IndInv
<1>l. phase \in [Turns -> Phases] /\ lock' \in Turns \cup {NoTurn}
  BY <1>t DEF TypeOK
<1>q. \A t \in Turns : SessionOf[t] \in Sessions
  OBVIOUS
<1>1. ASSUME NEW t \in Turns, InsertQuestion(t) PROVE Log!Ask(t)
  <2>1. /\ phase[t] = "userSeq" /\ phase' = [phase EXCEPT ![t] = "saved"]
        /\ active' = active /\ lock' = lock
        /\ messages' = [messages EXCEPT ![SessionOf[t]] = Append(@, Question(t))]
    BY <1>1 DEF InsertQuestion, Insert, Question
  <2>2. phase[t] \in Starting \ {"saved"} /\ phase[t] \in Unheard /\ phase'[t] = "saved"
    BY <1>l, <2>1 DEF Starting, Unheard
  <2>3. BusyWith(SessionOf[t]) = NoTurn /\ t \notin Asked
    BY <2>2, BusyWhen DEF AskedLater
  <2>4. BusyWith(SessionOf[t])' = t
    BY <2>1, <2>2 DEF BusyWith, IndInv, LockGuardsStart
  <2>5. ASSUME NEW s \in Sessions, s # SessionOf[t] PROVE BusyWith(s)' = BusyWith(s)
    BY <1>l, <2>1, <2>2, <2>5 DEF BusyWith, IndInv, LockGuardsStart
  <2>6. Busy' = [Busy EXCEPT ![SessionOf[t]] = t]
    BY <2>4, <2>5 DEF Busy
  <2>7. Asked' = Asked \cup {t}
    BY <1>t, <1>1, InsertsAndAsked
  <2> QED BY <2>1, <2>3, <2>6, <2>7, <1>q DEF Log!Ask, Busy, Question
<1>2. ASSUME NEW t \in Turns, InsertAnswer(t) PROVE Log!Answer(t)
  <2>1. /\ phase[t] = "answerSeq" /\ phase' = [phase EXCEPT ![t] = "answered"]
        /\ active' = active /\ lock' = lock
        /\ messages' = [messages EXCEPT ![SessionOf[t]] =
                           Append(@, AnswerOf(t, local[t].text))]
    BY <1>2 DEF InsertAnswer, Insert, AnswerOf
  <2>2. BusyWith(SessionOf[t]) = t
    BY <2>1, BusyWhen DEF Live, Working
  <2>3. messages[SessionOf[t]] = Append(local[t].history, Question(t))
        /\ local[t].text \in Turns
    BY <2>1 DEF ConversationTracked, Tracks, BeforeAnswer, Questioned, Conversation
  <2>4. local[t].history \in Seq(Message) /\ Question(t) \in Message
    BY <1>t DEF TypeOK, Local, Question, Message
  <2>5. messages[SessionOf[t]][Len(messages[SessionOf[t]])] = Question(t)
    BY <2>3, <2>4
  <2>6. \A s \in Sessions : BusyWith(s)' = BusyWith(s)
    BY <1>t, <1>l, <2>1, BusyUnchanged
  <2>7. Asked' = Asked
    BY <1>t, <1>2, InsertsAndAsked
  <2>8. Question(t).turn = t /\ Question(t).role = "user"
    BY DEF Question
  <2>9. \E x \in Turns : messages' = [messages EXCEPT ![SessionOf[t]] =
           Append(@, [turn |-> t, role |-> "assistant", text |-> x])]
    BY <2>1, <2>3 DEF AnswerOf
  <2>10. Busy' = Busy /\ Busy[SessionOf[t]] = t
    BY <1>q, <2>2, <2>6 DEF Busy
  <2> QED BY <2>5, <2>7, <2>8, <2>9, <2>10 DEF Log!Answer, Busy
<1>3. ASSUME NEW t \in Turns, SpawnTask(t) PROVE UNCHANGED Log!logVars
  <2>1. /\ phase[t] = "saved" /\ phase' = [phase EXCEPT ![t] = "queued"]
        /\ active' = [active EXCEPT ![SessionOf[t]] = t] /\ lock' = NoTurn
        /\ messages' = messages
    BY <1>3 DEF SpawnTask
  <2>2. lock = t /\ active[SessionOf[t]] = NoTurn
    BY <2>1 DEF IndInv, LockGuardsStart, Starting
  <2>3. \A s \in Sessions : BusyWith(s)' = BusyWith(s)
    BY <1>t, <1>q, <2>1, <2>2 DEF BusyWith, TypeOK
  <2> QED BY <1>t, <2>1, <2>3, StuttersWhen
<1>4. ASSUME NEW t \in Turns, StartFails(t)
      PROVE  Log!Leave(t) \/ UNCHANGED Log!logVars
  <2>1. /\ phase[t] \in Starting /\ phase' = [phase EXCEPT ![t] = "aborted"]
        /\ active' = active /\ lock' = NoTurn /\ messages' = messages
    BY <1>4 DEF StartFails
  <2>2. lock = t /\ active[SessionOf[t]] = NoTurn
    BY <2>1 DEF IndInv, LockGuardsStart
  <2>3. ASSUME NEW s \in Sessions, s # SessionOf[t] PROVE BusyWith(s)' = BusyWith(s)
    BY <2>1, <2>2, <2>3 DEF BusyWith
  <2>4. BusyWith(SessionOf[t])' = NoTurn
    BY <2>1, <2>2 DEF BusyWith
  <2>5. CASE phase[t] = "saved"
    BY <1>t, <2>1, <2>3, <2>4, <2>5, BusyWhen, LeavesWhen
  <2>6. CASE phase[t] # "saved"
    <3>1. BusyWith(SessionOf[t]) = NoTurn
      BY <2>1, <2>6, BusyWhen
    <3> QED BY <1>t, <2>1, <2>3, <2>4, <3>1, StuttersWhen
  <2> QED BY <2>5, <2>6
<1>5. ASSUME NEW t \in Turns, ReleaseSession(t) PROVE Log!Leave(t)
  <2>1. /\ phase[t] = "closed" /\ phase' = [phase EXCEPT ![t] = "done"]
        /\ active' = [active EXCEPT ![SessionOf[t]] = NoTurn]
        /\ lock = NoTurn /\ lock' = NoTurn /\ messages' = messages
    BY <1>5 DEF ReleaseSession
  <2>2. BusyWith(SessionOf[t]) = t
    BY <2>1, BusyWhen DEF Live
  <2>3. /\ BusyWith(SessionOf[t])' = NoTurn
        /\ \A s \in Sessions \ {SessionOf[t]} : BusyWith(s)' = BusyWith(s)
    BY <1>t, <1>q, <2>1 DEF BusyWith, TypeOK
  <2> QED BY <1>t, <2>1, <2>2, <2>3, LeavesWhen
<1>6. CASE Restart
  <2>1. \A s \in Sessions : BusyWith(s)' = NoTurn
    BY <1>6 DEF Restart, BusyWith
  <2>2. messages' = messages
    BY <1>6 DEF Restart
  <2> QED BY <2>1, <2>2 DEF Log!LogNext, Log!LeaveAll, Asked
<1>7. ASSUME NEW t \in Turns, CheckSession(t) \/ ListMessages(t) \/ CreateTurn(t)
                              \/ ReadSequence(t)
      PROVE  UNCHANGED Log!logVars
  <2>1. /\ active' = active /\ messages' = messages
        /\ \A u \in Turns : lock' = u /\ phase'[u] = "saved"
                              <=> lock = u /\ phase[u] = "saved"
    BY <1>l, <1>7 DEF CheckSession, ListMessages, CreateTurn, ReadSequence
  <2> QED BY <1>t, <1>l, <2>1, BusyUnchanged, StuttersWhen
<1>8. ASSUME NEW t \in Turns, TaskStep(t), ~InsertAnswer(t), ~ReleaseSession(t)
      PROVE  UNCHANGED Log!logVars
  <2>1. /\ active' = active /\ messages' = messages /\ lock' = lock
        /\ \A u \in Turns : phase'[u] = "saved" <=> phase[u] = "saved"
    BY <1>l, <1>8 DEF TaskStep, EnterSemaphore, MarkRunning, WorkerStarts,
          AgentReturns, AgentRaises, ChooseText, DecideStatus, CommitStatus,
          ExecuteFails, CloseBus, CloseReturns, Working
  <2> QED BY <1>t, <1>l, <2>1, BusyUnchanged, StuttersWhen
<1>9. CASE \/ \E t \in Turns : RequestCancel(t) \/ EmitCancel(t)
           \/ Shutdown \/ Dispose \/ UNCHANGED vars
  <2>1. UNCHANGED <<active, messages, lock, phase>>
    BY <1>9 DEF RequestCancel, EmitCancel, Shutdown, Dispose, vars
  <2> QED BY <1>t, <1>l, <2>1, BusyUnchanged, StuttersWhen
<1> QED BY <1>1, <1>2, <1>3, <1>4, <1>5, <1>6, <1>7, <1>8, <1>9
           DEF Next, StartStep, TaskStep, Log!LogNext

\* RuntimeManager implements SessionLog: whatever its coroutines, faults and
\* restarts do, a client sees a session taken by one turn at a time, its
\* question, and at most one answer after it.
THEOREM RuntimeImplementsLog == Spec => KeepsSessionLog
<1>1. Init => Log!LogInit /\ AskedLater
  <2> SUFFICES ASSUME Init PROVE Log!LogInit /\ AskedLater
    OBVIOUS
  <2>1. Asked = {}
    BY TurnRuntimeAssumption DEF Init, Asked
  <2>2. \A s \in Sessions : BusyWith(s) = NoTurn
    BY DEF Init, BusyWith
  <2>3. messages = [s \in Sessions |-> <<>>]
    BY DEF Init
  <2> QED BY <2>1, <2>2, <2>3 DEF Log!LogInit, AskedLater
<1>2. Spec => []AskedLater
  BY <1>1, TypeCorrect, NextAskedLater, PTL DEF Spec
<1> QED BY <1>1, <1>2, Bookkeeping, ConversationInvariant, StepKeepsLog, PTL
           DEF Spec, KeepsSessionLog, Log!LogSpec
=============================================================================
