-------------------------- MODULE AgentLoop_proofs --------------------------
(***************************************************************************)
(* Proofs about module AgentLoop, for any tools, batches, step and retry   *)
(* limits, with and without scores, widening and a context guard.          *)
(***************************************************************************)
EXTENDS AgentLoop, SequenceTheorems, TLAPS

\* The limit in force is the profile's or lower, and the bonus is added once.
LimitInv ==
    /\ maxSteps <= MaxSteps + (IF widened THEN Bonus ELSE 0)
    /\ step <= MaxSteps + Bonus

\* The model is asked without a batch in hand.
NoBatchWhileAsked == pc = "ask" => calls = <<>>

\* Only safe calls are in the pool, and what still has to run or is running
\* has no outcome.
PoolIsSafe   == \A i \in concurrent : calls[i] \in SafeTools
LeftIsUndone == \A i \in serial \cup running : ~Finished(i)
Apart        == serial \cap running = {}

\* The pool runs, or one call after it.
OnePhase ==
    \/ running \subseteq concurrent
    \/ /\ \A i \in concurrent : Finished(i)
       /\ \A i, j \in running : i = j

\* No call is lost before a question to the user ended the serial phase.
Covered ==
    serial # {} \/ Awaiting = {} =>
        \A i \in DOMAIN calls :
            Finished(i) \/ i \in concurrent \cup serial \cup running

\* A tool does its work in the step that gives its call an outcome.
WorkIsCounted ==
    \A i \in DOMAIN calls :
        IF Finished(i) THEN /\ effects[i] \in {0, 1}
                            /\ outcome[i] = "ok" => effects[i] = 1
                       ELSE effects[i] = 0

\* Equal scores leave the calls where the model put them.
PlacesFollow ==
    ~Scored => \A i, j \in DOMAIN calls : place[i] < place[j] <=> i < j

BatchInv ==
    /\ PoolIsSafe /\ LeftIsUndone /\ Apart /\ ToolsEndInTurn /\ OnePhase
    /\ Covered /\ WorkIsCounted /\ PlacesFollow
    /\ SerialInOrder /\ NoBatchWhileAsked /\ BatchAccounted

LoopInv == TypeOK /\ LimitInv /\ BatchInv

-----------------------------------------------------------------------------
\* What the steps that leave the batch alone have in common: the head of the
\* loop and every reply without tool calls.
Aside ==
    /\ pc \in {"top", "ask"} \/ ResultsAreIn
    /\ pc' \in {"top", "returned", "raised"}
    /\ pc' = "top" => pc = "ask"
    /\ UNCHANGED <<batch, known>>

\* Every reply without tool calls, and every end of the turn, is such a step.
LEMMA RepliesStepAside ==
    ASSUME NEW thinking \in BOOLEAN, NEW flag \in BOOLEAN,
           \/ StepsExhausted \/ GuardBlocks \/ ModelFails \/ ModelRecovers
           \/ CallbackRaises \/ ReplyProgress \/ ReplyThinking
           \/ ReplyEmpty(thinking) \/ Widen(thinking) \/ ReplyStalled(thinking)
           \/ ReplyWithheld \/ ReplyFinal(flag) \/ ReplyNoCalls(flag)
    PROVE  Aside
BY DEF StepsExhausted, GuardBlocks, ModelFails, ModelRecovers, CallbackRaises,
       ReplyProgress, ReplyThinking, ReplyEmpty, Widen, ReplyStalled,
       ReplyWithheld, ReplyFinal, ReplyNoCalls, Empty, Stalled, Return, Again,
       BatchIsDone, Aside

\* Next, with the steps that leave the batch alone taken together.
LEMMA StepsOfTheLoop ==
    ASSUME Next
    PROVE  \/ Aside \/ BeginStep \/ Report
           \/ \E b \in Batches : ReplyCalls(b)
           \/ \E i \in 1..MaxCalls : \/ StartSerial(i) \/ SkipSerial(i)
                                     \/ StartPooled(i) \/ Finish(i)
BY RepliesStepAside DEF Next, LoopStep

\* A batch is a sequence of tools that is not empty.
LEMMA BatchesAreCalls ==
    ASSUME NEW b \in Batches
    PROVE  /\ b \in Seq(Tools) /\ b # <<>>
           /\ DOMAIN b = 1..Len(b) /\ Len(b) \in Nat
           /\ b \in [DOMAIN b -> Tools]
<1>1. PICK n \in 1..MaxCalls : b \in [1..n -> Tools]
  BY DEF Batches
<1>2. n \in Nat /\ n >= 1
  BY <1>1, AgentAssumption
<1>3. b \in Seq(Tools)
  BY <1>1, <1>2, SeqDef
<1>4. DOMAIN b = 1..Len(b) /\ Len(b) \in Nat
  BY <1>3, LenProperties
<1>5. 1 \in DOMAIN b
  BY <1>1, <1>2
<1>6. b # <<>>
  BY <1>5, <1>4, EmptySeq
<1> QED BY <1>1, <1>3, <1>4, <1>6

\* The pool is safe, and with the serial list it divides the batch.
LEMMA ScheduleDivides ==
    ASSUME NEW b \in Batches, Schedule(b)
    PROVE  /\ concurrent' \subseteq DOMAIN b
           /\ serial' = DOMAIN b \ concurrent'
           /\ place' \in [DOMAIN b -> DOMAIN b]
           /\ \A i \in concurrent' : b[i] \in SafeTools
           /\ ~Scored => \A i, j \in DOMAIN b : place'[i] < place'[j] <=> i < j
<1>1. PICK pool \in SUBSET DOMAIN b :
         /\ IF Len(b) = 1 THEN pool = {} ELSE Chosen(b, place', pool)
         /\ concurrent' = pool
         /\ serial' = DOMAIN b \ pool
  BY DEF Schedule
<1>2. \A i \in pool : b[i] \in SafeTools
  BY <1>1 DEF Chosen
<1>3. PICK score \in Scores, at \in [DOMAIN b -> DOMAIN b] :
         Sorted(b, score, at) /\ place' = at
  BY DEF Schedule
<1>4. ASSUME ~Scored, NEW i \in DOMAIN b, NEW j \in DOMAIN b
      PROVE  at[i] < at[j] <=> i < j
  <2>1. score \in [Tools -> {1}]
    BY <1>3, <1>4 DEF Scores
  <2>2. b[i] \in Tools /\ b[j] \in Tools
    BY BatchesAreCalls
  <2>3. score[b[i]] = 1 /\ score[b[j]] = 1
    BY <2>1, <2>2
  <2>4. at[i] < at[j] <=> 1 > 1 \/ (1 = 1 /\ i < j)
    BY <1>3, <2>3 DEF Sorted
  <2> QED BY <2>4
<1> QED BY <1>1, <1>2, <1>3, <1>4

-----------------------------------------------------------------------------
\* The turn begins without a batch, and with a limit in force.
LEMMA InitLoopInv == Init => LoopInv
<1> SUFFICES ASSUME Init PROVE LoopInv
  OBVIOUS
<1> USE AgentAssumption DEF Init
<1>1. maxSteps \in Nat /\ maxSteps <= MaxSteps
  BY DEF Lesser
<1>2. calls = <<>> /\ DOMAIN calls = {} /\ calls \in Seq(Tools)
  OBVIOUS
<1>3. /\ place \in [DOMAIN calls -> DOMAIN calls]
      /\ outcome \in [DOMAIN calls -> {"none", "ok", "failed", "await"}]
      /\ effects \in [DOMAIN calls -> Nat]
  BY <1>2
<1>4. TypeOK
  <2>1. known \subseteq SafePairs
    OBVIOUS
  <2> QED BY <1>1, <1>2, <1>3, <2>1 DEF TypeOK, Ended
<1>5. LimitInv
  BY <1>1 DEF LimitInv
<1>6. BatchInv
  BY <1>2 DEF BatchInv, PoolIsSafe, LeftIsUndone, Apart, ToolsEndInTurn, OnePhase, Covered,
              WorkIsCounted, PlacesFollow, SerialInOrder, NoBatchWhileAsked,
              BatchAccounted
<1> QED BY <1>4, <1>5, <1>6 DEF LoopInv

-----------------------------------------------------------------------------
\* Types, step by step.
LEMMA NextAgentTypeOK == LoopInv /\ [Next]_vars => TypeOK'
<1> SUFFICES ASSUME LoopInv, [Next]_vars PROVE TypeOK'
  OBVIOUS
<1> USE AgentAssumption DEF LoopInv, TypeOK
<1>0. CASE UNCHANGED vars
  BY <1>0 DEF vars, turn, batch
<1>1. ASSUME NEW thinking \in BOOLEAN, NEW flag \in BOOLEAN,
             \/ StepsExhausted \/ GuardBlocks \/ ModelFails \/ ModelRecovers
             \/ CallbackRaises \/ ReplyProgress \/ ReplyThinking
             \/ ReplyEmpty(thinking) \/ Widen(thinking)
             \/ ReplyStalled(thinking) \/ ReplyWithheld
             \/ ReplyFinal(flag) \/ ReplyNoCalls(flag)
      PROVE  TypeOK'
  <2>1. UNCHANGED <<batch, known>>
    BY <1>1, RepliesStepAside DEF Aside
  <2>2. /\ pc' \in {"top"} \cup Ended
        /\ step' = step /\ sawTool' = sawTool /\ toolFailed' = toolFailed
    BY <1>1 DEF StepsExhausted, GuardBlocks, ModelFails, ModelRecovers,
         CallbackRaises, ReplyProgress, ReplyThinking, ReplyEmpty, Widen,
         ReplyStalled, ReplyWithheld, ReplyFinal, ReplyNoCalls, Return, Again,
         turn, Ended
  <2>4. stopReason' \in {"none", "done", "await_user", "max_steps", "blocked",
                          "verification_failed"}
    BY <1>1 DEF StepsExhausted, GuardBlocks, ModelFails, ModelRecovers,
         CallbackRaises, ReplyProgress, ReplyThinking, ReplyEmpty, Widen,
         ReplyStalled, ReplyWithheld, ReplyFinal, ReplyNoCalls, Return, Again
  <2>3. /\ maxSteps' \in Nat /\ emptyRetries' \in Nat /\ thinkRetries' \in Nat
        /\ widened' \in BOOLEAN
    <3>1. CASE ReplyThinking
      BY <3>1 DEF ReplyThinking
    <3>2. CASE ReplyEmpty(thinking)
      BY <3>2 DEF ReplyEmpty
    <3>3. CASE Widen(thinking)
      BY <3>3 DEF Widen
    <3>4. ASSUME ~ReplyThinking, ~ReplyEmpty(thinking), ~Widen(thinking)
          PROVE  UNCHANGED turn
      BY <1>1, <3>4 DEF StepsExhausted, GuardBlocks, ModelFails, ModelRecovers,
           CallbackRaises, ReplyProgress, ReplyStalled, ReplyWithheld,
           ReplyFinal, ReplyNoCalls
    <3> QED BY <3>1, <3>2, <3>3, <3>4 DEF turn
  <2> QED BY <2>1, <2>2, <2>3, <2>4 DEF batch
<1>2. CASE BeginStep
  <2>1. calls' = <<>> /\ DOMAIN calls' = {} /\ calls' \in Seq(Tools)
    BY <1>2 DEF BeginStep, NoBatch
  <2>2. /\ place' \in [DOMAIN calls' -> DOMAIN calls']
        /\ outcome' \in [DOMAIN calls' -> {"none", "ok", "failed", "await"}]
        /\ effects' \in [DOMAIN calls' -> Nat]
    BY <1>2, <2>1 DEF BeginStep, NoBatch
  <2> QED BY <1>2, <2>1, <2>2 DEF BeginStep, NoBatch, turn
<1>3. ASSUME NEW b \in Batches, ReplyCalls(b)
      PROVE  TypeOK'
  <2>1. calls' = b /\ b \in Seq(Tools)
    BY <1>3, BatchesAreCalls DEF ReplyCalls
  <2>2. /\ concurrent' \subseteq DOMAIN b
        /\ serial' \subseteq DOMAIN b \ concurrent'
        /\ place' \in [DOMAIN b -> DOMAIN b]
    BY <1>3, ScheduleDivides DEF ReplyCalls
  <2> QED BY <1>3, <2>1, <2>2 DEF ReplyCalls, turn
<1>4. ASSUME NEW i \in 1..MaxCalls,
             StartSerial(i) \/ SkipSerial(i) \/ StartPooled(i)
      PROVE  TypeOK'
  <2>1. CASE StartSerial(i)
    BY <2>1 DEF StartSerial, NextSerial, turn
  <2>2. CASE SkipSerial(i)
    BY <2>2 DEF SkipSerial, NextSerial, turn
  <2>3. CASE StartPooled(i)
    BY <2>3 DEF StartPooled, turn
  <2> QED BY <1>4, <2>1, <2>2, <2>3
<1>5. ASSUME NEW i \in 1..MaxCalls, Finish(i)
      PROVE  TypeOK'
  <2>1. outcome' \in [DOMAIN calls -> {"none", "ok", "failed", "await"}]
    BY <1>5 DEF Finish
  <2>2. effects' \in [DOMAIN calls -> Nat]
    BY <1>5 DEF Finish, Work
  <2>3. serial' \subseteq serial
    BY <1>5 DEF Finish
  <2> QED BY <1>5, <2>1, <2>2, <2>3 DEF Finish, turn
<1>6. CASE Report
  <2>1. ASSUME NEW c \in NewConflicts
        PROVE  c \in SafePairs
    <3> DEFINE failed == {i \in DOMAIN calls :
                             outcome[i] = "failed" /\ calls[i] \in SafeTools}
    <3>1. PICK pair \in failed \X failed :
             c = {calls[pair[1]], calls[pair[2]]}
      BY DEF NewConflicts
    <3>2. calls[pair[1]] \in SafeTools /\ calls[pair[2]] \in SafeTools
      OBVIOUS
    <3> QED BY <3>1, <3>2 DEF SafePairs
  <2>2. known' \subseteq SafePairs
    <3>1. known' = known \/ known' = known \cup NewConflicts
      BY <1>6 DEF Report
    <3> QED BY <2>1, <3>1
  <2>5. maxSteps' \in Nat
    <3>1. \/ maxSteps' = maxSteps
          \/ maxSteps' \in {maxSteps} \cup {l \in Limits : l < maxSteps}
      BY <1>6 DEF Report
    <3> QED BY <3>1
  <2>3. /\ pc' \in {"top", "returned"}
        /\ stopReason' \in {"none", "done", "await_user", "max_steps", "blocked",
                            "verification_failed"}
    BY <1>6 DEF Report, Return, Again
  <2>4. /\ reported' \subseteq DOMAIN calls
        /\ sawTool' \in BOOLEAN /\ toolFailed' \in BOOLEAN
    BY <1>6 DEF Report, Spoken
  <2> QED BY <1>6, <2>2, <2>3, <2>4, <2>5 DEF Report, Ended
<1> QED BY <1>0, <1>1, <1>2, <1>3, <1>4, <1>5, <1>6 DEF Next, LoopStep

-----------------------------------------------------------------------------
\* Only BeginStep takes a step and only Widen raises the limit.
LEMMA NextLimits == LoopInv /\ [Next]_vars => LimitInv'
<1> SUFFICES ASSUME LoopInv, [Next]_vars PROVE LimitInv'
  OBVIOUS
<1> USE AgentAssumption DEF LoopInv, LimitInv
<1>0. CASE UNCHANGED vars
  BY <1>0 DEF vars, turn
<1>1. ASSUME StepsExhausted \/ GuardBlocks \/ ModelFails \/ ModelRecovers
             \/ CallbackRaises \/ ReplyProgress \/ ReplyWithheld
      PROVE  LimitInv'
  BY <1>1 DEF StepsExhausted, GuardBlocks, ModelFails, ModelRecovers,
       CallbackRaises, ReplyProgress, ReplyWithheld, turn
<1>2. ASSUME NEW thinking \in BOOLEAN, NEW flag \in BOOLEAN,
             \/ ReplyThinking \/ ReplyEmpty(thinking) \/ ReplyStalled(thinking)
             \/ ReplyFinal(flag) \/ ReplyNoCalls(flag)
      PROVE  LimitInv'
  <2>1. UNCHANGED <<step, maxSteps, widened>>
    BY <1>2 DEF ReplyThinking, ReplyEmpty, ReplyStalled, ReplyFinal,
                ReplyNoCalls, turn
  <2> QED BY <2>1
<1>3. ASSUME NEW thinking \in BOOLEAN, Widen(thinking)
      PROVE  LimitInv'
  <2>1. ~widened /\ widened' /\ maxSteps' = maxSteps + Bonus /\ step' = step
    BY <1>3 DEF Widen, AllowWidening
  <2> QED BY <2>1 DEF TypeOK
<1>4. CASE BeginStep
  <2>1. step < maxSteps /\ step' = step + 1 /\ UNCHANGED <<maxSteps, widened>>
    BY <1>4 DEF BeginStep, turn
  <2> QED BY <2>1 DEF TypeOK
<1>5. ASSUME NEW b \in Batches, ReplyCalls(b)
      PROVE  LimitInv'
  BY <1>5 DEF ReplyCalls, turn
<1>6. ASSUME NEW i \in 1..MaxCalls,
             StartSerial(i) \/ SkipSerial(i) \/ StartPooled(i) \/ Finish(i)
      PROVE  LimitInv'
  <2>1. UNCHANGED <<step, maxSteps, widened>>
    BY <1>6 DEF StartSerial, SkipSerial, StartPooled, Finish, turn
  <2> QED BY <2>1
<1>7. CASE Report
  <2>1. maxSteps' \in Nat /\ maxSteps' <= maxSteps
    <3>1. \/ maxSteps' = maxSteps
          \/ maxSteps' \in {maxSteps} \cup {l \in Limits : l < maxSteps}
      BY <1>7 DEF Report
    <3>2. maxSteps \in Nat /\ Limits \subseteq Nat
      BY DEF TypeOK
    <3>3. CASE maxSteps' = maxSteps
      BY <3>2, <3>3
    <3>4. CASE maxSteps' \in Limits /\ maxSteps' < maxSteps
      BY <3>2, <3>4
    <3> QED BY <3>1, <3>3, <3>4
  <2>2. UNCHANGED <<step, widened>>
    BY <1>7 DEF Report
  <2> QED BY <2>1, <2>2 DEF TypeOK
<1> QED BY <1>0, <1>1, <1>2, <1>3, <1>4, <1>5, <1>6, <1>7 DEF Next, LoopStep

-----------------------------------------------------------------------------
\* A batch that begins: nothing ran, nothing is finished.
LEMMA ReplyCallsBatch ==
    ASSUME LoopInv, NEW b \in Batches, ReplyCalls(b)
    PROVE  BatchInv'
<1>1. /\ calls' = b /\ running' = {} /\ pc' = "tools"
      /\ outcome' = [i \in DOMAIN b |-> "none"]
      /\ effects' = [i \in DOMAIN b |-> 0]
  BY DEF ReplyCalls
<1>2. /\ concurrent' \subseteq DOMAIN b
      /\ serial' = DOMAIN b \ concurrent'
      /\ \A i \in concurrent' : b[i] \in SafeTools
      /\ ~Scored => \A i, j \in DOMAIN b : place'[i] < place'[j] <=> i < j
  BY ScheduleDivides DEF ReplyCalls
<1>3. \A i \in DOMAIN b : ~Finished(i)'
  BY <1>1 DEF Finished
<1>4. PoolIsSafe' /\ PlacesFollow'
  BY <1>1, <1>2 DEF PoolIsSafe, PlacesFollow
<1>5. LeftIsUndone' /\ Apart' /\ ToolsEndInTurn' /\ OnePhase' /\ Covered'
  BY <1>1, <1>2, <1>3 DEF ToolsEndInTurn, LeftIsUndone, Apart, OnePhase, Covered
<1>6. WorkIsCounted' /\ SerialInOrder'
  BY <1>1, <1>3 DEF WorkIsCounted, SerialInOrder
<1>7. NoBatchWhileAsked' /\ BatchAccounted'
  BY <1>1 DEF NoBatchWhileAsked, BatchAccounted
<1> QED BY <1>4, <1>5, <1>6, <1>7 DEF BatchInv

\* A call of the pool begins while a call of the pool is unfinished, that is
\* before any serial call runs.
LEMMA StartPooledBatch ==
    ASSUME LoopInv, NEW i \in 1..MaxCalls, StartPooled(i)
    PROVE  BatchInv'
<1> USE DEF LoopInv, TypeOK, BatchInv
<1>1. /\ i \in concurrent /\ ~Finished(i) /\ running' = running \cup {i}
      /\ pc = "tools"
      /\ UNCHANGED <<pc, calls, concurrent, serial, place, outcome, effects>>
  BY DEF StartPooled
<1>2. \A j : Finished(j)' = Finished(j)
  BY <1>1 DEF Finished
<1>3. PoolIsSafe' /\ PlacesFollow' /\ WorkIsCounted'
  BY <1>1, <1>2 DEF PoolIsSafe, PlacesFollow, WorkIsCounted
<1>4. LeftIsUndone' /\ Apart' /\ ToolsEndInTurn'
  BY <1>1, <1>2 DEF ToolsEndInTurn, LeftIsUndone, Apart
<1>5. running \subseteq concurrent
  BY <1>1 DEF OnePhase
<1>6. OnePhase'
  BY <1>1, <1>5 DEF OnePhase
<1>7. Covered'
  BY <1>1, <1>2 DEF Covered, Awaiting
<1>8. SerialInOrder'
  BY <1>1, <1>2 DEF SerialInOrder
<1>9. NoBatchWhileAsked' /\ BatchAccounted'
  BY <1>1 DEF NoBatchWhileAsked, BatchAccounted
<1> QED BY <1>3, <1>4, <1>6, <1>7, <1>8, <1>9

\* The pool has ended: a call before the next one in place and outside the pool
\* is neither running nor left, so it is finished.
LEMMA NextSerialIsInOrder ==
    ASSUME LoopInv, NEW i \in 1..MaxCalls, NextSerial(i), ~Scored,
           NEW j \in DOMAIN calls \ concurrent, j < i
    PROVE  Finished(j)
<1> USE DEF LoopInv, TypeOK, BatchInv
<1>1. i \in serial /\ running = {} /\ \A k \in serial : place[i] <= place[k]
  BY DEF NextSerial, ResultsAreIn, LeftIsUndone
<1>2. place[j] < place[i]
  BY <1>1 DEF PlacesFollow
<1>3. j \notin serial
  <2>1. place[i] \in Nat /\ place[j] \in Nat
    BY <1>1, LenProperties
  <2> QED BY <1>1, <1>2, <2>1
<1> QED BY <1>1, <1>3 DEF Covered

\* A serial call begins when the pool has ended: it runs alone, and what stands
\* before it is finished.
LEMMA StartSerialBatch ==
    ASSUME LoopInv, NEW i \in 1..MaxCalls, StartSerial(i)
    PROVE  BatchInv'
<1> USE DEF LoopInv, TypeOK, BatchInv
<1>1. /\ NextSerial(i) /\ pc = "tools" /\ i \in serial /\ running = {}
      /\ \A k \in concurrent : Finished(k)
      /\ running' = {i} /\ serial' = serial \ {i}
      /\ UNCHANGED <<pc, calls, concurrent, place, outcome, effects>>
  BY DEF StartSerial, NextSerial, ResultsAreIn, LeftIsUndone
<1>2. \A j : Finished(j)' = Finished(j)
  BY <1>1 DEF Finished
<1>3. PoolIsSafe' /\ PlacesFollow' /\ WorkIsCounted'
  BY <1>1, <1>2 DEF PoolIsSafe, PlacesFollow, WorkIsCounted
<1>4. LeftIsUndone' /\ Apart' /\ ToolsEndInTurn'
  BY <1>1, <1>2 DEF ToolsEndInTurn, LeftIsUndone, Apart
<1>5. OnePhase'
  BY <1>1, <1>2 DEF OnePhase
<1>6. Covered'
  BY <1>1, <1>2 DEF Covered, Awaiting
<1>7. SerialInOrder'
  BY <1>1, <1>2, NextSerialIsInOrder DEF SerialInOrder
<1>8. NoBatchWhileAsked' /\ BatchAccounted'
  BY <1>1 DEF NoBatchWhileAsked, BatchAccounted
<1> QED BY <1>3, <1>4, <1>5, <1>6, <1>7, <1>8

\* A serial call that is skipped counts as finished without having worked.
LEMMA SkipSerialBatch ==
    ASSUME LoopInv, NEW i \in 1..MaxCalls, SkipSerial(i)
    PROVE  BatchInv'
<1> USE DEF LoopInv, TypeOK, BatchInv
<1>1. /\ NextSerial(i) /\ pc = "tools" /\ i \in serial /\ running = {}
      /\ serial' = serial \ {i}
      /\ outcome' = [outcome EXCEPT ![i] = "failed"]
      /\ UNCHANGED <<pc, calls, concurrent, place, running, effects>>
  BY DEF SkipSerial, NextSerial, ResultsAreIn, LeftIsUndone
<1>2. ~Finished(i)
  BY <1>1 DEF LeftIsUndone
<1>3. \A j \in DOMAIN calls : Finished(j)' <=> Finished(j) \/ j = i
  BY <1>1 DEF Finished
<1>4. PoolIsSafe' /\ PlacesFollow'
  BY <1>1 DEF PoolIsSafe, PlacesFollow
<1>5. WorkIsCounted'
  BY <1>1, <1>2, <1>3 DEF WorkIsCounted
<1>6. LeftIsUndone' /\ Apart' /\ ToolsEndInTurn' /\ OnePhase'
  BY <1>1, <1>3 DEF ToolsEndInTurn, LeftIsUndone, Apart, OnePhase
<1>7. Awaiting' = Awaiting
  BY <1>1, <1>2 DEF Awaiting, Finished
<1>8. Covered'
  BY <1>1, <1>3, <1>7 DEF Covered
<1>9. SerialInOrder'
  BY <1>1, <1>3, NextSerialIsInOrder DEF SerialInOrder
<1>10. NoBatchWhileAsked' /\ BatchAccounted'
  BY <1>1 DEF NoBatchWhileAsked, BatchAccounted
<1> QED BY <1>4, <1>5, <1>6, <1>8, <1>9, <1>10

\* A call that ends leaves running with its outcome; if it awaits the user, the
\* calls behind it stay undone and the batch never goes back to the model.
LEMMA FinishBatch ==
    ASSUME LoopInv, NEW i \in 1..MaxCalls, Finish(i)
    PROVE  BatchInv'
<1> USE DEF LoopInv, TypeOK, BatchInv
<1>a. PICK says \in {"failed", IF calls[i] \in AskTools THEN "await" ELSE "ok"} :
         /\ outcome' = [outcome EXCEPT ![i] = says]
         /\ \E n \in Work(says) : effects' = [effects EXCEPT ![i] = @ + n]
         /\ serial' = IF says = "await" /\ i \notin concurrent
                      THEN {} ELSE serial
  BY Zenon DEF Finish
<1>b. PICK n \in Work(says) : effects' = [effects EXCEPT ![i] = @ + n]
  BY <1>a
<1>1. /\ i \in running /\ running' = running \ {i}
      /\ outcome' = [outcome EXCEPT ![i] = says]
      /\ effects' = [effects EXCEPT ![i] = @ + n]
      /\ serial' = IF says = "await" /\ i \notin concurrent THEN {} ELSE serial
      /\ UNCHANGED <<pc, calls, concurrent, place>>
  BY <1>a, <1>b DEF Finish
<1>2. says \in {"failed", "ok", "await"} /\ n \in {0, 1} /\ (says = "ok" => n = 1)
  BY <1>a, <1>b DEF Work
<1>3. i \in DOMAIN calls /\ ~Finished(i) /\ i \notin serial
  BY <1>1 DEF LeftIsUndone, Apart
<1>4. \A j \in DOMAIN calls : Finished(j)' <=> Finished(j) \/ j = i
  BY <1>1, <1>2 DEF Finished
<1>5. PoolIsSafe' /\ PlacesFollow'
  BY <1>1 DEF PoolIsSafe, PlacesFollow
<1>6. WorkIsCounted'
  BY <1>1, <1>2, <1>3, <1>4 DEF WorkIsCounted
<1>7. LeftIsUndone' /\ Apart' /\ ToolsEndInTurn' /\ OnePhase'
  BY <1>1, <1>3, <1>4 DEF ToolsEndInTurn, LeftIsUndone, Apart, OnePhase
<1>8. Awaiting' = Awaiting \cup (IF says = "await" THEN {i} ELSE {})
  BY <1>1, <1>2, <1>3 DEF Awaiting, Finished
<1>9. Covered'
  BY <1>1, <1>3, <1>4, <1>8 DEF Covered
<1>10. SerialInOrder'
  BY <1>1, <1>4 DEF SerialInOrder
<1>11. pc = "tools"
  BY <1>1 DEF ToolsEndInTurn
<1>12. NoBatchWhileAsked' /\ BatchAccounted'
  BY <1>1, <1>11 DEF NoBatchWhileAsked, BatchAccounted
<1> QED BY <1>5, <1>6, <1>7, <1>9, <1>10, <1>12

\* The batch is done: nothing is left, so without a question every call is
\* finished and reported.
LEMMA ReportBatch ==
    ASSUME LoopInv, Report
    PROVE  BatchInv'
<1> USE DEF LoopInv, TypeOK, BatchInv
<1>1. /\ running = {} /\ serial = {} /\ \A i \in concurrent : Finished(i)
      /\ reported' = Spoken
      /\ pc' \in {"top", "returned"} /\ (pc' = "top" => Awaiting = {})
      /\ UNCHANGED <<calls, concurrent, serial, place, running, outcome, effects>>
  BY DEF Report, BatchIsDone, ResultsAreIn, LeftIsUndone, Return, Again
<1>2. \A j : Finished(j)' = Finished(j)
  BY <1>1 DEF Finished
<1>3. PoolIsSafe' /\ PlacesFollow' /\ WorkIsCounted' /\ SerialInOrder'
  BY <1>1, <1>2 DEF PoolIsSafe, PlacesFollow, WorkIsCounted, SerialInOrder
<1>4. LeftIsUndone' /\ Apart' /\ ToolsEndInTurn' /\ OnePhase' /\ Covered'
  BY <1>1, <1>2 DEF ToolsEndInTurn, LeftIsUndone, Apart, OnePhase, Covered, Awaiting
<1>5. ASSUME pc' = "top"
      PROVE  \A i \in DOMAIN calls : Finished(i)
  BY <1>1, <1>5 DEF Covered
<1>6. BatchAccounted'
  <2>1. ASSUME pc' = "top" PROVE reported' = DOMAIN calls
    BY <1>1, <1>5, <2>1 DEF Spoken
  <2>2. ASSUME pc' = "top", NEW i \in DOMAIN calls
        PROVE  effects[i] <= 1 /\ (outcome[i] = "ok" => effects[i] = 1)
    BY <1>5, <2>2 DEF WorkIsCounted
  <2> QED BY <1>1, <2>1, <2>2 DEF BatchAccounted
<1> QED BY <1>1, <1>3, <1>4, <1>6 DEF NoBatchWhileAsked

-----------------------------------------------------------------------------
\* The batch in hand, over every step of the loop.
LEMMA NextBatchInv == LoopInv /\ [Next]_vars => BatchInv'
<1> SUFFICES ASSUME LoopInv, [Next]_vars PROVE BatchInv'
  OBVIOUS
<1>1. CASE UNCHANGED vars
  BY <1>1 DEF vars, batch, LoopInv, BatchInv, PoolIsSafe, LeftIsUndone, Apart,
              ToolsEndInTurn, OnePhase, Covered, Awaiting, WorkIsCounted, Finished,
              PlacesFollow, SerialInOrder, NoBatchWhileAsked, BatchAccounted
<1>2. CASE Aside
  <2>1. /\ UNCHANGED batch /\ pc' # "ask"
        /\ running = {} /\ (pc' = "top" => calls = <<>>)
    BY <1>2 DEF Aside, LoopInv, BatchInv, ToolsEndInTurn, LeftIsUndone,
                ResultsAreIn, NoBatchWhileAsked
  <2> QED BY <2>1 DEF batch, LoopInv, BatchInv, PoolIsSafe, LeftIsUndone, Apart,
              ToolsEndInTurn, OnePhase, Covered, Awaiting, WorkIsCounted, Finished,
              PlacesFollow, SerialInOrder, NoBatchWhileAsked, BatchAccounted
<1>3. CASE BeginStep
  <2>1. /\ calls' = <<>> /\ concurrent' = {} /\ serial' = {} /\ running' = {}
        /\ pc' = "ask" /\ DOMAIN calls' = {}
    BY <1>3 DEF BeginStep, NoBatch
  <2> QED BY <2>1 DEF BatchInv, PoolIsSafe, LeftIsUndone, Apart, ToolsEndInTurn,
              OnePhase, Covered, WorkIsCounted, PlacesFollow, SerialInOrder,
              NoBatchWhileAsked, BatchAccounted
<1> QED BY <1>1, <1>2, <1>3, StepsOfTheLoop, ReplyCallsBatch, StartPooledBatch,
           StartSerialBatch, SkipSerialBatch, FinishBatch, ReportBatch

-----------------------------------------------------------------------------
\* What the loop keeps of its limits and its batch is inductive.
THEOREM LoopInvariant == Spec => []LoopInv
<1>1. LoopInv /\ [Next]_vars => LoopInv'
  BY NextAgentTypeOK, NextLimits, NextBatchInv DEF LoopInv
<1> QED BY InitLoopInv, <1>1, PTL DEF Spec

\* Every variable of the loop keeps its type; with it, no call is both in the
\* pool and in the serial list.
THEOREM AgentTypeCorrect == Spec => []TypeOK
<1>1. LoopInv => TypeOK
  BY DEF LoopInv
<1> QED BY LoopInvariant, <1>1, PTL

\* A tool that is not safe for concurrency runs alone, whatever the batch.
THEOREM AgentSerialAlone == Spec => []SerialAlone
<1>1. LoopInv => SerialAlone
  <2> SUFFICES ASSUME LoopInv, NEW i \in running, calls[i] \notin SafeTools
               PROVE  running = {i}
    BY DEF SerialAlone
  <2>1. i \notin concurrent
    BY DEF LoopInv, BatchInv, PoolIsSafe
  <2>2. \A j \in running : i = j
    BY <2>1 DEF LoopInv, BatchInv, OnePhase
  <2> QED BY <2>2
<1> QED BY LoopInvariant, <1>1, PTL

\* Without scores the calls outside the pool run in the order of the reply.
THEOREM AgentSerialInOrder == Spec => []SerialInOrder
<1>1. LoopInv => SerialInOrder
  BY DEF LoopInv, BatchInv
<1> QED BY LoopInvariant, <1>1, PTL

\* A batch of any length goes back to the model complete, each tool having done
\* its work at most once.
THEOREM AgentBatchAccounted == Spec => []BatchAccounted
<1>1. LoopInv => BatchAccounted
  BY DEF LoopInv, BatchInv
<1> QED BY LoopInvariant, <1>1, PTL

\* When the model is asked again or the turn has ended, no tool is at work.
THEOREM AgentToolsEndInTurn == Spec => []ToolsEndInTurn
<1>1. LoopInv => ToolsEndInTurn
  BY DEF LoopInv, BatchInv
<1> QED BY LoopInvariant, <1>1, PTL

\* No retry, nudge or widening takes the turn past its limit and one bonus.
THEOREM AgentStepsBounded == Spec => []StepsBounded
<1>1. LoopInv => StepsBounded
  BY DEF LoopInv, LimitInv, StepsBounded
<1> QED BY LoopInvariant, <1>1, PTL
=============================================================================
