----------------------------- MODULE SessionLog -----------------------------
(***************************************************************************)
(* What RuntimeManager promises about conversations, without locks, tasks, *)
(* rows or restarts: a session is free or busy with one turn; a turn puts  *)
(* its question at the end of the conversation when it takes a free        *)
(* session, and may put one answer after it before it gives it up.         *)
(***************************************************************************)
EXTENDS Sequences

CONSTANTS Sessions, Turns, SessionOf, NoTurn

VARIABLES
    busy,   \* the turn each session is busy with, or NoTurn
    log,    \* the messages of each session
    asked   \* turns that have had their one question

logVars == <<busy, log, asked>>

LogInit ==
    /\ busy = [s \in Sessions |-> NoTurn]
    /\ log = [s \in Sessions |-> <<>>]
    /\ asked = {}

Ask(t) ==
    LET s == SessionOf[t]
    IN /\ busy[s] = NoTurn
       /\ t \notin asked
       /\ asked' = asked \cup {t}
       /\ busy' = [busy EXCEPT ![s] = t]
       /\ log' = [log EXCEPT ![s] =
                     Append(@, [turn |-> t, role |-> "user", text |-> t])]

Answer(t) ==
    LET s == SessionOf[t]
    IN /\ busy[s] = t
       /\ log[s][Len(log[s])].turn = t
       /\ log[s][Len(log[s])].role = "user"
       /\ \E x \in Turns :
             log' = [log EXCEPT ![s] =
                        Append(@, [turn |-> t, role |-> "assistant", text |-> x])]
       /\ UNCHANGED <<busy, asked>>

\* One turn gives its session up.
Leave(t) ==
    /\ busy[SessionOf[t]] = t
    /\ busy' = [busy EXCEPT ![SessionOf[t]] = NoTurn]
    /\ UNCHANGED <<log, asked>>

\* A restart frees every session at once.
LeaveAll ==
    /\ busy' = [s \in Sessions |-> NoTurn]
    /\ UNCHANGED <<log, asked>>

LogNext == (\E t \in Turns : Ask(t) \/ Answer(t) \/ Leave(t)) \/ LeaveAll

LogSpec == LogInit /\ [][LogNext]_logVars
=============================================================================
