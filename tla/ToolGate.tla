------------------------------- MODULE ToolGate -------------------------------
(***************************************************************************)
(* PermissionManager of minicode/permissions.py: what a tool may touch      *)
(* outside the workspace, which dangerous commands it may run and which     *)
(* files it may change, with the decisions people gave and the file         *)
(* permissions.json in which the lasting ones are kept.                     *)
(*                                                                         *)
(* A manager lives as long as a turn of EduHarness, or as a session of the  *)
(* terminal with many turns.  Managers of several turns run side by side    *)
(* and share the file; the tool calls of one turn share its manager, those  *)
(* that are safe for concurrency at the same time.  A call passes one check *)
(* per resource: a path it reads; the directory of a command and then the   *)
(* command; a path and then the change to it.  No caller sets an auto mode: *)
(* assess_risk always answers "prompt".  Where that or a check lets a call  *)
(* pass without looking further (inside the workspace, harmless commands)   *)
(* there is no resource.                                                    *)
(***************************************************************************)
EXTENDS Integers, Sequences, FiniteSets

CONSTANTS
    Managers,   \* PermissionManagers
    Calls,      \* tool calls
    Plan,       \* the resources each call passes, in order
    KindOf,     \* "path", "command" or "edit"
    ScopeOf,    \* the directory of a path; another resource itself
    Together,   \* calls of tools that are safe for concurrency
    MaxTurns,   \* bound: turns of one manager
    MaxAsks,    \* bound: prompts
    MaxFaults,  \* bound: prompts and writes that raise
    Nobody      \* no manager

Resources == DOMAIN KindOf
Scopes    == {ScopeOf[r] : r \in Resources}

ASSUME ToolGateAssumption ==
    /\ KindOf \in [Resources -> {"path", "command", "edit"}]
    /\ DOMAIN ScopeOf = Resources
    /\ Plan \in [Calls -> Seq(Resources) \ {<<>>}]
    /\ Together \subseteq Calls
    /\ MaxTurns \in Nat \ {0} /\ MaxAsks \in Nat /\ MaxFaults \in Nat
    /\ Nobody \notin Managers

VARIABLES
    live,      \* managers that exist
    session,   \* session_allowed_*, session_denied_* of each manager
    always,    \* allowed_*_patterns and prefixes, denied_* likewise
    turnEdits, \* turn_allowed_edits
    turnAll,   \* turn_allow_all_edits
    store,     \* permissions.json
    call,      \* where each call stands
    turnNo,    \* which turn a manager is in
    asks,
    faults,
    approvals, \* history: what people allowed, for whom, until when
    refusals,  \* history: pairs of a manager and a resource people denied it
    lasting,   \* history: the decisions for always that were written
    disturbed  \* history: two managers, or two writes of one, have overlapped, or
               \* a manager began without the decisions that are in the file

manager == <<live, session, always, turnEdits, turnAll, turnNo>>
history == <<approvals, refusals, lasting>>
vars    == <<manager, store, call, asks, faults, history, disturbed>>

Sides(S) == [allowed : SUBSET S, denied : SUBSET S]
Nothing  == [allowed |-> {}, denied |-> {}]
Forever  == 0   \* the turn of an approval that outlives its turn

Idle == [state |-> "idle", by |-> Nobody, left |-> <<>>, snapshot |-> Nothing,
         allows |-> FALSE, turn |-> 0, barred |-> {}]

TypeOK ==
    /\ live \subseteq Managers
    /\ session \in [Managers -> Sides(Resources)]
    /\ always \in [Managers -> Sides(Scopes)]
    /\ turnEdits \in [Managers -> SUBSET Resources]
    /\ turnAll \in [Managers -> BOOLEAN]
    /\ turnNo \in [Managers -> 0..MaxTurns]
    /\ store \in Sides(Scopes)
    /\ call \in [Calls ->
          [state : {"idle", "checking", "asking", "persisting", "replacing",
                    "granted", "refused"},
           by : Managers \cup {Nobody}, left : Seq(Resources),
           snapshot : Sides(Scopes), allows : BOOLEAN, turn : 0..MaxTurns,
           barred : SUBSET Resources]]
    /\ asks \in 0..MaxAsks /\ faults \in 0..MaxFaults
    /\ approvals \subseteq [by : Managers, scope : Resources \cup Scopes \cup {"edits"},
                            turn : 0..MaxTurns, always : BOOLEAN]
    /\ refusals \subseteq Managers \X Resources
    /\ lasting \in Sides(Scopes)
    /\ disturbed \in BOOLEAN

Init ==
    /\ live = {}
    /\ session = [m \in Managers |-> Nothing]
    /\ always = [m \in Managers |-> Nothing]
    /\ turnEdits = [m \in Managers |-> {}]
    /\ turnAll = [m \in Managers |-> FALSE]
    /\ turnNo = [m \in Managers |-> 0]
    /\ store = Nothing
    /\ call = [c \in Calls |-> Idle]
    /\ asks = 0 /\ faults = 0
    /\ approvals = {} /\ refusals = {} /\ lasting = Nothing
    /\ disturbed = FALSE

Busy(c) == call[c].state \in {"checking", "asking", "persisting", "replacing"}
BusyOf(m) == {c \in Calls : Busy(c) /\ call[c].by = m}

(***************************************************************************)
(* The life of a manager                                                   *)
(***************************************************************************)

\* __init__ and _initialize: a manager begins with the decisions it was given.
OpenWith(m, loaded) ==
    /\ m \notin live
    /\ turnNo[m] = 0
    /\ live' = live \cup {m}
    /\ always' = [always EXCEPT ![m] = loaded]
    /\ turnNo' = [turnNo EXCEPT ![m] = 1]
    /\ disturbed' = (disturbed \/ live # {} \/ loaded # store)
    /\ refusals' = refusals \cup
          {<<m, r>> : r \in {q \in Resources : ~disturbed' /\ ScopeOf[q] \in lasting.denied}}
    /\ UNCHANGED <<session, turnEdits, turnAll, store, call, asks, approvals, lasting>>

\* The file is read.
Open(m) == OpenWith(m, store) /\ UNCHANGED faults

\* The file cannot be read, or is no JSON: it is taken for empty, stays as it
\* is, and the manager's first save replaces it.
OpenUnreadable(m) ==
    /\ faults < MaxFaults
    /\ faults' = faults + 1
    /\ OpenWith(m, Nothing)

\* Mutant of NextTurn: the general permission survives.
MutNextTurnHalf(m) ==
    /\ m \in live
    /\ BusyOf(m) = {}
    /\ turnNo[m] < MaxTurns
    /\ turnNo' = [turnNo EXCEPT ![m] = @ + 1]
    /\ turnEdits' = [turnEdits EXCEPT ![m] = {}]
    /\ UNCHANGED <<live, session, always, turnAll, store, call, asks, faults, history, disturbed>>

\* end_turn, and begin_turn of the next.
NextTurn(m) ==
    /\ m \in live
    /\ BusyOf(m) = {}
    /\ turnNo[m] < MaxTurns
    /\ turnNo' = [turnNo EXCEPT ![m] = @ + 1]
    /\ turnEdits' = [turnEdits EXCEPT ![m] = {}]
    /\ turnAll' = [turnAll EXCEPT ![m] = FALSE]
    /\ UNCHANGED <<live, session, always, store, call, asks, faults, history, disturbed>>

\* The manager is forgotten, the file stays.
Leave(m) ==
    /\ m \in live
    /\ BusyOf(m) = {}
    /\ live' = live \ {m}
    /\ session' = [session EXCEPT ![m] = Nothing]
    /\ always' = [always EXCEPT ![m] = Nothing]
    /\ turnEdits' = [turnEdits EXCEPT ![m] = {}]
    /\ turnAll' = [turnAll EXCEPT ![m] = FALSE]
    /\ UNCHANGED <<turnNo, store, call, asks, faults, history, disturbed>>

(***************************************************************************)
(* ensure_path_access, ensure_command, ensure_edit                         *)
(***************************************************************************)

\* A tool starts in a turn; one that is not safe runs alone.
Begin(c, m) ==
    /\ call[c].state = "idle"
    /\ m \in live
    /\ BusyOf(m) = {} \/ BusyOf(m) \cup {c} \subseteq Together
    /\ call' = [call EXCEPT ![c] =
          [Idle EXCEPT !.state = "checking", !.by = m, !.left = Plan[c],
                       !.turn = turnNo[m],
                       !.barred = {r \in Resources : <<m, r>> \in refusals}]]
    /\ UNCHANGED <<manager, store, asks, faults, history, disturbed>>

Wanted(c) == Head(call[c].left)

IsDenied(m, r) ==
    r \in session[m].denied \/ ScopeOf[r] \in always[m].denied

IsAllowed(m, r) ==
    \/ r \in session[m].allowed \/ ScopeOf[r] \in always[m].allowed
    \/ KindOf[r] = "edit" /\ (turnAll[m] \/ r \in turnEdits[m])

Refused(c) == [call EXCEPT ![c] = [Idle EXCEPT !.state = "refused"]]

\* A call that passed its last check is granted.
Passed(now) ==
    [now EXCEPT !.left = Tail(@),
                !.state = IF Len(now.left) = 1 THEN "granted" ELSE "checking"]

Proceeds(c) == call' = [call EXCEPT ![c] = Passed(@)] /\ UNCHANGED asks
Stops(c)    == call' = Refused(c) /\ UNCHANGED asks
Asks(c)     == /\ asks < MaxAsks
               /\ asks' = asks + 1
               /\ call' = [call EXCEPT ![c].state = "asking"]

\* Mutant of Check: what is allowed passes, denied or not.
MutCheckAllowedFirst(c) ==
    LET m == call[c].by
    IN /\ call[c].state = "checking"
       /\ \/ IsAllowed(m, Wanted(c)) /\ Proceeds(c)
          \/ ~IsAllowed(m, Wanted(c)) /\ IsDenied(m, Wanted(c)) /\ Stops(c)
          \/ /\ ~IsDenied(m, Wanted(c)) /\ ~IsAllowed(m, Wanted(c))
             /\ Asks(c)
       /\ UNCHANGED <<manager, store, faults, history, disturbed>>

\* Denials first, then permissions; otherwise somebody is asked.
Check(c) ==
    LET m == call[c].by
    IN /\ call[c].state = "checking"
       /\ \/ IsDenied(m, Wanted(c)) /\ Stops(c)
          \/ ~IsDenied(m, Wanted(c)) /\ IsAllowed(m, Wanted(c)) /\ Proceeds(c)
          \/ /\ ~IsDenied(m, Wanted(c)) /\ ~IsAllowed(m, Wanted(c))
             /\ Asks(c)
       /\ UNCHANGED <<manager, store, faults, history, disturbed>>

(***************************************************************************)
(* The answers of a person                                                 *)
(***************************************************************************)
\* What is remembered of an approval: see GrantIsDecided.
Remember(c, scope, until, forAll) ==
    approvals' = approvals \cup
        {[by |-> call[c].by, scope |-> scope, turn |-> until, always |-> forAll]}

\* The answer is for as long as the manager lives, whatever its label says.
AllowOnce(c) ==
    LET m == call[c].by
    IN /\ call[c].state = "asking"
       /\ session' = [session EXCEPT ![m].allowed = @ \cup {Wanted(c)}]
       /\ call' = [call EXCEPT ![c] = Passed(@)]
       /\ Remember(c, Wanted(c), Forever, FALSE)
       /\ UNCHANGED <<live, always, turnEdits, turnAll, turnNo, store, asks, faults,
                      refusals, lasting, disturbed>>

\* This file, or every file, in this turn.
AllowTurn(c, all) ==
    LET m == call[c].by
    IN /\ call[c].state = "asking"
       /\ KindOf[Wanted(c)] = "edit"
       /\ turnEdits' = [turnEdits EXCEPT ![m] = IF all THEN @ ELSE @ \cup {Wanted(c)}]
       /\ turnAll' = [turnAll EXCEPT ![m] = @ \/ all]
       /\ call' = [call EXCEPT ![c] = Passed(@)]
       /\ Remember(c, IF all THEN "edits" ELSE Wanted(c), turnNo[m], FALSE)
       /\ UNCHANGED <<live, session, always, turnNo, store, asks, faults, refusals,
                      lasting, disturbed>>

\* deny_once, and a rejection with guidance that is empty.
DenyOnce(c) ==
    LET m == call[c].by
    IN /\ call[c].state = "asking"
       /\ session' = [session EXCEPT ![m].denied = @ \cup {Wanted(c)}]
       /\ call' = Refused(c)
       /\ refusals' = refusals \cup {<<m, Wanted(c)>>}
       /\ UNCHANGED <<live, always, turnEdits, turnAll, turnNo, store, asks, faults,
                      approvals, lasting, disturbed>>

\* A rejection with guidance for the model is not kept.
DenyWithFeedback(c) ==
    /\ call[c].state = "asking"
    /\ KindOf[Wanted(c)] = "edit"
    /\ call' = Refused(c)
    /\ UNCHANGED <<manager, store, asks, faults, history, disturbed>>

\* allow_always and deny_always: the scope is in the manager's set, and the
\* file will follow.
DecideAlways(c, allows) ==
    LET m == call[c].by
        scope == ScopeOf[Wanted(c)]
        writing(d) == call[d].by = m /\ call[d].state \in {"persisting", "replacing"}
    IN /\ call[c].state = "asking"
       /\ IF allows
          THEN /\ always' = [always EXCEPT ![m].allowed = @ \cup {scope}]
               /\ Remember(c, scope, Forever, TRUE)
               /\ UNCHANGED refusals
          ELSE /\ always' = [always EXCEPT ![m].denied = @ \cup {scope}]
               /\ refusals' = refusals \cup
                     {<<m, r>> : r \in {q \in Resources : ScopeOf[q] = scope}}
               /\ UNCHANGED approvals
       /\ call' = [call EXCEPT ![c].state = "persisting", ![c].allows = allows]
       /\ disturbed' = (disturbed \/ \E d \in Calls : writing(d))
       /\ UNCHANGED <<live, session, turnEdits, turnAll, turnNo, store, asks, faults,
                      lasting>>

\* prompt raises: the approval could not be asked for.
PromptFails(c) ==
    /\ call[c].state = "asking"
    /\ faults < MaxFaults
    /\ faults' = faults + 1
    /\ call' = Refused(c)
    /\ UNCHANGED <<manager, store, asks, history, disturbed>>

(***************************************************************************)
(* _persist and _write_permission_store                                    *)
(***************************************************************************)

\* The sets as they are now go into a temporary file ...
Snapshot(c) ==
    /\ call[c].state = "persisting"
    /\ call' = [call EXCEPT ![c].state = "replacing",
                            ![c].snapshot = always[call[c].by]]
    /\ UNCHANGED <<manager, store, asks, faults, history, disturbed>>

\* ... which then replaces the file at once, whatever is in it.
Replace(c) ==
    LET scope == ScopeOf[Wanted(c)]
    IN /\ call[c].state = "replacing"
       /\ store' = call[c].snapshot
       /\ IF call[c].allows
          THEN /\ call' = [call EXCEPT ![c] = Passed([@ EXCEPT !.snapshot = Nothing])]
               /\ lasting' = [lasting EXCEPT !.allowed = @ \cup {scope}]
          ELSE /\ call' = Refused(c)
               /\ lasting' = [lasting EXCEPT !.denied = @ \cup {scope}]
       /\ UNCHANGED <<manager, asks, faults, approvals, refusals, disturbed>>

\* The disk is full: the tool gets the exception, the old file stays.
WriteFails(c) ==
    /\ call[c].state \in {"persisting", "replacing"}
    /\ faults < MaxFaults
    /\ faults' = faults + 1
    /\ call' = Refused(c)
    /\ UNCHANGED <<manager, store, asks, history, disturbed>>

-----------------------------------------------------------------------------
Next ==
    \/ \E m \in Managers : Open(m) \/ OpenUnreadable(m) \/ NextTurn(m) \/ Leave(m)
    \/ \E c \in Calls :
          \/ \E m \in Managers : Begin(c, m)
          \/ Check(c)
          \/ AllowOnce(c) \/ DenyOnce(c) \/ DenyWithFeedback(c) \/ PromptFails(c)
          \/ \E flag \in BOOLEAN : AllowTurn(c, flag) \/ DecideAlways(c, flag)
          \/ Snapshot(c) \/ Replace(c) \/ WriteFails(c)

Spec == Init /\ [][Next]_vars

-----------------------------------------------------------------------------
Granted(c, r) ==
    /\ call[c].state = "granted"
    /\ \E i \in DOMAIN Plan[c] : Plan[c][i] = r

\* A call is granted only what somebody allowed: the thing itself or a scope
\* it is in, to this manager or to every later one, and not in an earlier turn
\* if it was for that turn.  No mix-up of calls that ask at the same time, of
\* turns, or of the checks of one call makes a permission out of another.
GrantIsDecided ==
    \A c \in Calls, r \in Resources : Granted(c, r) =>
        \E a \in approvals :
            /\ a.by = call[c].by \/ a.always
            /\ a.turn \in {Forever, call[c].turn}
            /\ \/ a.scope \in {r, ScopeOf[r]}
               \/ a.scope = "edits" /\ KindOf[r] = "edit"

\* What a person denied before a call began is not granted to it, whichever
\* wider permission was given in between, by a call that asked at the same
\* time or for the whole turn; a lasting denial binds later turns as well, as
\* long as the writers of the file have not raced and every manager could read
\* it.
DenialHolds ==
    \A c \in Calls : \A r \in call[c].barred : ~Granted(c, r)
=============================================================================
