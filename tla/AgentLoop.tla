------------------------------ MODULE AgentLoop ------------------------------
(***************************************************************************)
(* One turn of the MiniCode agent: run_agent_turn of minicode/agent_loop.py *)
(* with the decisions of turn_kernel.py and the ToolScheduler of            *)
(* agent_intelligence.py.  The model answers with text, with nothing or     *)
(* with a batch of tool calls; the loop retries, widens, runs the batch,    *)
(* reports it to the model and stops.                                       *)
(*                                                                         *)
(* A call is its tool: what the loop tests of a text (empty, kind, cites    *)
(* evidence) is part of the model's reply.  Of the transcript only the      *)
(* results of a batch are kept; the nudges and the task state that the loop *)
(* adds, and the compaction, change nothing else that it reads.  The        *)
(* controllers that only log or tune token budgets are left out; what they  *)
(* may do to the loop, lower max_steps, is a choice of Report.              *)
(***************************************************************************)
EXTENDS Integers, Sequences, FiniteSets

CONSTANTS
    Tools,         \* tool names
    SafeTools,     \* is_concurrency_safe: may run in the pool
    AskTools,      \* tools whose success is awaitUser
    MaxCalls,      \* bound: calls in one reply
    MaxSteps,      \* RuntimeProfile.max_steps
    Limits,        \* step limits that feedforward and feedback may impose
    EmptyLimit,    \* empty_response_retry_limit
    ThinkLimit,    \* recoverable_thinking_retry_limit
    WidenAfter,    \* widen_after_step
    Bonus,         \* widening_step_bonus
    Deep,          \* profile single-deep: strict verification, widening
    ContextGuard,  \* whether a context_manager is given
    Scored         \* whether a metrics_collector gives the tools scores

ASSUME AgentAssumption ==
    /\ SafeTools \subseteq Tools /\ AskTools \subseteq Tools
    /\ MaxCalls \in Nat /\ MaxSteps \in Nat /\ Bonus \in Nat
    /\ Limits \subseteq Nat
    /\ EmptyLimit \in Nat /\ ThinkLimit \in Nat /\ WidenAfter \in Nat
    /\ Deep \in BOOLEAN /\ ContextGuard \in BOOLEAN /\ Scored \in BOOLEAN

VARIABLES
    pc,            \* where the loop stands
    step,          \* turn_state.step
    maxSteps,      \* turn_state.max_steps
    emptyRetries,  \* empty_response_retry_count
    thinkRetries,  \* recoverable_thinking_retry_count
    sawTool,       \* saw_tool_result
    toolFailed,    \* tool_error_count > 0
    widened,       \* widening_active
    stopReason,    \* turn_state.stop_reason
    calls,         \* the tools of the batch in hand
    concurrent,    \* its calls that go to the thread pool
    serial,        \* the others that are left to run
    place,         \* per call: its place in the scheduler's order
    running,       \* calls whose tool is running now
    outcome,       \* per call: what its ToolResult says
    effects,       \* per call: how often its tool did its work
    reported,      \* calls whose result is in the transcript
    known          \* safe tool pairs with a conflict count of two or more

turn  == <<maxSteps, emptyRetries, thinkRetries, sawTool, toolFailed, widened>>
batch == <<calls, concurrent, serial, place, running, outcome, effects,
           reported>>
vars  == <<pc, step, turn, stopReason, batch, known>>

Ended == {"returned", "raised"}
SafePairs == {{t, u} : t, u \in SafeTools}

TypeOK ==
    /\ pc \in {"top", "ask", "tools"} \cup Ended
    /\ step \in Nat /\ maxSteps \in Nat
    /\ emptyRetries \in Nat /\ thinkRetries \in Nat
    /\ sawTool \in BOOLEAN /\ toolFailed \in BOOLEAN /\ widened \in BOOLEAN
    /\ stopReason \in {"none", "done", "await_user", "max_steps", "blocked",
                       "verification_failed"}
    /\ calls \in Seq(Tools)
    /\ concurrent \subseteq DOMAIN calls
    /\ serial \subseteq DOMAIN calls \ concurrent
    /\ place \in [DOMAIN calls -> DOMAIN calls]
    /\ running \subseteq DOMAIN calls
    /\ outcome \in [DOMAIN calls -> {"none", "ok", "failed", "await"}]
    /\ effects \in [DOMAIN calls -> Nat]
    /\ reported \subseteq DOMAIN calls
    /\ known \subseteq SafePairs

Lesser(a, b) == IF a < b THEN a ELSE b
Greater(a, b) == IF a < b THEN b ELSE a

Init ==
    /\ pc = "top" /\ step = 0
    \* the profile's limit, or the lower one of the feedforward controller
    /\ maxSteps \in {MaxSteps} \cup {Lesser(MaxSteps, l) : l \in Limits}
    /\ emptyRetries = 0 /\ thinkRetries = 0
    /\ sawTool = FALSE /\ toolFailed = FALSE /\ widened = FALSE
    /\ stopReason = "none"
    /\ calls = <<>> /\ concurrent = {} /\ serial = {} /\ place = <<>>
    /\ running = {} /\ outcome = <<>> /\ effects = <<>> /\ reported = {}
    /\ known = {}

(***************************************************************************)
(* The policy of a step.  It is derived when the step begins and nothing it *)
(* depends on changes before the reply is handled.                          *)
(***************************************************************************)
Remaining == Greater(maxSteps - step, 0)

\* max(3, ceil(0.7 * max_steps)), at most 4 under strict verification.
VerifyAfter ==
    LET late == Greater(3, (7 * maxSteps + 9) \div 10)
    IN IF Deep THEN Lesser(late, 4) ELSE late

ExploreUntil == IF Deep THEN 2 ELSE 1

Phase ==
    IF widened /\ Remaining > 1 THEN "execute"
    ELSE IF step <= ExploreUntil THEN "explore"
    ELSE IF \/ step >= VerifyAfter
            \/ Remaining <= 2
            \/ Deep /\ sawTool
         THEN "verify" ELSE "execute"

\* Mutant of AllowWidening: a turn may widen again.
MutAllowWideningAgain ==
    /\ Deep /\ step >= WidenAfter
    /\ \/ toolFailed
       \/ /\ sawTool
          /\ emptyRetries > 0 \/ thinkRetries > 0
       \/ /\ ~sawTool
          /\ emptyRetries >= EmptyLimit \/ thinkRetries >= ThinkLimit

AllowWidening ==
    /\ ~widened
    /\ Deep /\ step >= WidenAfter
    /\ \/ toolFailed
       \/ /\ sawTool
          /\ emptyRetries > 0 \/ thinkRetries > 0
       \/ /\ ~sawTool
          /\ emptyRetries >= EmptyLimit \/ thinkRetries >= ThinkLimit

(***************************************************************************)
(* The head of the loop                                                    *)
(***************************************************************************)

\* Ends the turn with an assistant message, or goes round the loop again.
Return(reason) == pc' = "returned" /\ stopReason' = reason
Again == pc' = "top" /\ UNCHANGED stopReason

NoBatch ==
    /\ calls' = <<>> /\ concurrent' = {} /\ serial' = {} /\ place' = <<>>
    /\ running' = {} /\ outcome' = <<>> /\ effects' = <<>> /\ reported' = {}

\* Mutant of BeginStep: after an empty reply the turns of the loop do not count.
MutBeginStepNudged ==
    /\ pc = "top"
    /\ step < maxSteps
    /\ pc' = "ask"
    /\ step' = IF emptyRetries > 0 THEN step ELSE step + 1
    /\ NoBatch
    /\ UNCHANGED <<turn, stopReason, known>>

BeginStep ==
    /\ pc = "top"
    /\ step < maxSteps
    /\ pc' = "ask"
    /\ step' = step + 1
    /\ NoBatch
    /\ UNCHANGED <<turn, stopReason, known>>

StepsExhausted ==
    /\ pc = "top"
    /\ step >= maxSteps
    /\ Return("max_steps")
    /\ UNCHANGED <<step, turn, batch, known>>

\* The context is nearly full: the model is not asked.  The stop is announced
\* as blocked, turn_state.stop_reason stays unset.
GuardBlocks ==
    /\ pc = "ask"
    /\ ContextGuard
    /\ Return("none")
    /\ UNCHANGED <<step, turn, batch, known>>

\* A connection error, a time-out, or an error nothing recovers from.
ModelFails ==
    /\ pc = "ask"
    /\ Return("blocked")
    /\ UNCHANGED <<step, turn, batch, known>>

\* Reactive compaction freed room, or another model took over: ask again.
ModelRecovers ==
    /\ pc = "ask"
    /\ Again
    /\ UNCHANGED <<step, turn, batch, known>>

Finished(i) == outcome[i] # "none"

\* The loop has the results of the pool, and of the call that runs after it.
ResultsAreIn == pc = "tools" /\ \A i \in concurrent \cup running : Finished(i)
BatchIsDone  == ResultsAreIn /\ serial = {}

\* A callback of the application raises outside _execute_single_tool: the
\* exception leaves run_agent_turn through its finally clause.
CallbackRaises ==
    /\ pc \in {"top", "ask"} \/ BatchIsDone
    /\ pc' = "raised"
    /\ UNCHANGED <<step, turn, stopReason, batch, known>>

(***************************************************************************)
(* An assistant reply: decide_assistant_turn                               *)
(***************************************************************************)

\* kind "progress": the text is kept and the model nudged to go on.
ReplyProgress ==
    /\ pc = "ask"
    /\ Again
    /\ UNCHANGED <<step, turn, batch, known>>

\* Empty because the model stopped while thinking.
ReplyThinking ==
    /\ pc = "ask"
    /\ thinkRetries < ThinkLimit
    /\ thinkRetries' = thinkRetries + 1
    /\ Again
    /\ UNCHANGED <<step, maxSteps, emptyRetries, sawTool, toolFailed, widened,
                   batch, known>>

\* Empty, and not excused by thinking or no longer.
Empty(thinking) ==
    /\ pc = "ask"
    /\ thinking => thinkRetries >= ThinkLimit

ReplyEmpty(thinking) ==
    /\ Empty(thinking)
    /\ emptyRetries < EmptyLimit
    /\ emptyRetries' = emptyRetries + 1
    /\ Again
    /\ UNCHANGED <<step, maxSteps, thinkRetries, sawTool, toolFailed, widened,
                   batch, known>>

Stalled(thinking) == Empty(thinking) /\ emptyRetries >= EmptyLimit

VerifyingLate == Phase = "verify" /\ sawTool

\* activate_widening: once per turn the counters start anew and the turn gets
\* more steps.
Widen(thinking) ==
    /\ Stalled(thinking)
    /\ ~VerifyingLate
    /\ AllowWidening
    /\ widened' = TRUE
    /\ emptyRetries' = 0 /\ thinkRetries' = 0
    /\ maxSteps' = maxSteps + Bonus
    /\ Again
    /\ UNCHANGED <<step, sawTool, toolFailed, batch, known>>

ReplyStalled(thinking) ==
    /\ Stalled(thinking)
    /\ \/ VerifyingLate /\ Return("verification_failed")
       \/ ~VerifyingLate /\ ~AllowWidening /\ Return("blocked")
    /\ UNCHANGED <<step, turn, batch, known>>

EvidenceOwed == Phase = "verify" /\ Deep /\ sawTool

\* The final answer is withheld until it cites evidence.
ReplyWithheld ==
    /\ pc = "ask"
    /\ EvidenceOwed
    /\ Again
    /\ UNCHANGED <<step, turn, batch, known>>

ReplyFinal(cites) ==
    /\ pc = "ask"
    /\ EvidenceOwed => cites
    /\ Return("done")
    /\ UNCHANGED <<step, turn, batch, known>>

(***************************************************************************)
(* A reply with tool calls: ToolScheduler.schedule_calls                   *)
(***************************************************************************)
Batches == UNION {[1..n -> Tools] : n \in 1..MaxCalls}

Scores == IF Scored THEN [Tools -> 1..Cardinality(Tools)] ELSE [Tools -> {1}]

\* A stable sort by falling score: equal scores keep the call order.
Sorted(b, score, at) ==
    \A i, j \in DOMAIN b :
        at[i] < at[j] <=> \/ score[b[i]] > score[b[j]]
                          \/ score[b[i]] = score[b[j]] /\ i < j

\* The safe calls that conflict with none chosen before them.
Chosen(b, at, pool) ==
    \A i \in DOMAIN b :
        i \in pool <=>
            /\ b[i] \in SafeTools
            /\ \A j \in pool : at[j] < at[i] => {b[i], b[j]} \notin known

\* Mutant of Schedule: a batch is taken for safe when one of its calls is.
MutScheduleMixed(b) ==
    /\ place' = [i \in DOMAIN b |-> i]
    /\ concurrent' = IF \E i \in DOMAIN b : b[i] \in SafeTools
                     THEN DOMAIN b ELSE {}
    /\ serial' = DOMAIN b \ concurrent'

\* Mutant of Schedule: what conflicts stays in the pool as well.
MutScheduleTwice(b) ==
    /\ place' = [i \in DOMAIN b |-> i]
    /\ concurrent' = {i \in DOMAIN b : Len(b) > 1 /\ b[i] \in SafeTools}
    /\ \E pool \in SUBSET DOMAIN b :
          Chosen(b, place', pool) /\ serial' = DOMAIN b \ pool

\* Mutant of Schedule: the most recent call first.
MutScheduleBackwards(b) ==
    /\ place' = [i \in DOMAIN b |-> Len(b) + 1 - i]
    /\ concurrent' \in SUBSET (IF Len(b) = 1 THEN {} ELSE DOMAIN b)
    /\ Len(b) > 1 => Chosen(b, place', concurrent')
    /\ serial' = DOMAIN b \ concurrent'

\* A single call needs no pool.
Schedule(b) ==
    /\ \E score \in Scores : \E at \in [DOMAIN b -> DOMAIN b] :
          Sorted(b, score, at) /\ place' = at
    /\ \E pool \in SUBSET DOMAIN b :
          /\ IF Len(b) = 1 THEN pool = {} ELSE Chosen(b, place', pool)
          /\ concurrent' = pool
          /\ serial' = DOMAIN b \ pool

\* Text or progress that comes with the calls is appended before them and
\* never remains the last message.
ReplyCalls(b) ==
    /\ pc = "ask"
    /\ pc' = "tools"
    /\ calls' = b
    /\ Schedule(b)
    /\ running' = {}
    /\ outcome' = [i \in DOMAIN b |-> "none"]
    /\ effects' = [i \in DOMAIN b |-> 0]
    /\ reported' = {}
    /\ UNCHANGED <<step, turn, stopReason, known>>

\* No call at all: a text ends the turn, otherwise calls[0] raises.
ReplyNoCalls(text) ==
    /\ pc = "ask"
    /\ \/ text /\ Return("done")
       \/ ~text /\ pc' = "raised" /\ UNCHANGED stopReason
    /\ UNCHANGED <<step, turn, batch, known>>

(***************************************************************************)
(* Running the batch                                                       *)
(***************************************************************************)
StartPooled(i) ==
    /\ pc = "tools"
    /\ i \in concurrent \ running
    /\ ~Finished(i)
    /\ running' = running \cup {i}
    /\ UNCHANGED <<pc, step, turn, stopReason, calls, concurrent,
                   serial, place, outcome, effects, reported, known>>

\* The turn of call i in for call in serial_calls.
NextSerial(i) ==
    /\ ResultsAreIn
    /\ i \in serial
    /\ \A j \in serial : place[i] <= place[j]
    /\ serial' = serial \ {i}

StartSerial(i) ==
    /\ NextSerial(i)
    /\ running' = {i}
    /\ UNCHANGED <<pc, step, turn, stopReason, calls, concurrent,
                   place, outcome, effects, reported, known>>

\* on_tool_start raises inside _execute_single_tool: an error result, and the
\* tool never ran.
SkipSerial(i) ==
    /\ NextSerial(i)
    /\ outcome' = [outcome EXCEPT ![i] = "failed"]
    /\ UNCHANGED <<pc, step, turn, stopReason, calls, concurrent,
                   place, running, effects, reported, known>>

\* A result that says failed may stand for a tool that did its work: it took
\* longer than TOOL_TIMEOUT, or on_tool_result raised after it.
Work(says) == IF says = "failed" THEN {0, 1} ELSE {1}

\* Mutant of Finish: the time-out is reported at once, the tool goes on.
MutFinishDetached(i) ==
    /\ i \in running
    /\ outcome' = [outcome EXCEPT ![i] = "failed"]
    /\ UNCHANGED <<pc, step, turn, stopReason, calls, concurrent, serial, place,
                   running, effects, reported, known>>

\* What a ToolResult can say.  A serial call that awaits the user ends the
\* serial phase.  A result that is late is reported when the tool has ended,
\* because the with statement of its executor waits for it; so is the result
\* of the direct call that an exception other than the time-out leads to, and
\* which finds the tool not yet run: ToolRegistry.execute lets none out.
Finish(i) ==
    /\ i \in running
    /\ \E says \in {"failed", IF calls[i] \in AskTools THEN "await" ELSE "ok"} :
          /\ outcome' = [outcome EXCEPT ![i] = says]
          /\ \E n \in Work(says) : effects' = [effects EXCEPT ![i] = @ + n]
          /\ serial' = IF says = "await" /\ i \notin concurrent
                       THEN {} ELSE serial
    /\ running' = running \ {i}
    /\ UNCHANGED <<pc, step, turn, stopReason, calls, concurrent,
                   place, reported, known>>

\* Two calls of a batch that both fail are a conflict, counted once from each
\* side: their tools are known at once.  Only pairs of safe tools are ever
\* looked up.
NewConflicts ==
    LET failed == {i \in DOMAIN calls :
                      outcome[i] = "failed" /\ calls[i] \in SafeTools}
    IN {{calls[pair[1]], calls[pair[2]]} :
           pair \in {p \in failed \X failed : p[1] # p[2]}}

\* The results go into the transcript in call order, up to the first one that
\* awaits the user.
Awaiting == {i \in DOMAIN calls : outcome[i] = "await"}
Spoken   == {i \in DOMAIN calls : Finished(i) /\ \A w \in Awaiting : i <= w}

\* The turn returns at a question to the user, or goes back to the model.
Report ==
    /\ BatchIsDone
    /\ reported' = Spoken
    /\ sawTool' = TRUE
    /\ toolFailed' = (toolFailed \/ \E i \in Spoken : outcome[i] = "failed")
    /\ \/ /\ Awaiting # {}
          /\ Return("await_user")
          /\ UNCHANGED <<maxSteps, known>>
       \/ /\ Awaiting = {}
          /\ Again
          /\ known' = known \cup NewConflicts
          /\ maxSteps' \in {maxSteps} \cup {l \in Limits : l < maxSteps}
    /\ UNCHANGED <<step, emptyRetries, thinkRetries, widened, calls, concurrent,
                   serial, place, running, outcome, effects>>

-----------------------------------------------------------------------------
\* The loop itself, one thread.
LoopStep ==
    \/ BeginStep \/ StepsExhausted
    \/ GuardBlocks \/ ModelFails \/ ModelRecovers \/ CallbackRaises
    \/ ReplyProgress \/ ReplyThinking
    \/ \E thinking \in BOOLEAN :
          ReplyEmpty(thinking) \/ Widen(thinking) \/ ReplyStalled(thinking)
    \/ ReplyWithheld
    \/ \E flag \in BOOLEAN : ReplyFinal(flag) \/ ReplyNoCalls(flag)
    \/ \E b \in Batches : ReplyCalls(b)
    \/ \E i \in 1..MaxCalls : StartSerial(i) \/ SkipSerial(i)
    \/ Report

Next ==
    \/ LoopStep
    \/ \E i \in 1..MaxCalls : StartPooled(i) \/ Finish(i)

Spec == Init /\ [][Next]_vars

\* The loop's thread runs, the model's adapter answers or raises, and a tool
\* that was started comes to an end: the time-out of _execute_single_tool does
\* not cut a tool off, so this is owed by the tools.
Fairness ==
    /\ WF_vars(LoopStep)
    /\ \A i \in 1..MaxCalls : WF_vars(StartPooled(i)) /\ WF_vars(Finish(i))

FairSpec == Spec /\ Fairness

-----------------------------------------------------------------------------
\* A tool that is not safe for concurrency never shares the workspace with
\* another tool of its turn: not with the pool before it, not with the calls
\* the scheduler took out of the pool for their conflicts.
SerialAlone ==
    \A i \in running : calls[i] \notin SafeTools => running = {i}

\* "Run serial tools sequentially (in original order)": without a
\* metrics_collector, which alone gives the tools scores and so another order,
\* the calls outside the pool take place in the order in which the model asked
\* for them, whatever conflicts moved some of them out of the pool.
SerialInOrder ==
    ~Scored => \A i, j \in DOMAIN calls \ concurrent :
                  i < j /\ (Finished(j) \/ j \in running) => Finished(i)

\* When the loop goes back to the model, every call of the batch has a result
\* in the transcript, and no tool did its work twice or is said to have
\* succeeded without it: the pool, the serial list and the conflicts together
\* lose and repeat nothing.
BatchAccounted ==
    pc = "top" /\ calls # <<>> =>
        /\ reported = DOMAIN calls
        /\ \A i \in DOMAIN calls :
              effects[i] <= 1 /\ (outcome[i] = "ok" => effects[i] = 1)

\* A tool works on the workspace only while its turn waits for it: whatever
\* exceeded its time, failed, asked or raised, when the model is asked again,
\* or the turn has ended and its session may have the next one, no tool of it
\* is still at work.
ToolsEndInTurn == pc # "tools" => running = {}

\* Retries start anew when the turn widens, yet the number of steps stays
\* within the profile's limit and one bonus.
StepsBounded == step <= MaxSteps + Bonus

\* Every turn ends, however often the model stalls, fails or asks for tools.
TurnEnds == <>(pc \in Ended)
=============================================================================
