-------------------------- MODULE PermissionBridge --------------------------
(***************************************************************************)
(* PermissionBridge (eduharness/application/permission_bridge.py): a tool  *)
(* call of the agent waits in its worker thread until a person has decided *)
(* on it over HTTP or WebSocket, or until the wait times out.              *)
(*                                                                         *)
(* prompt runs in worker threads and resolve on the event loop; between    *)
(* the two lie a threading.Lock, a threading.Event and the row of          *)
(* approval_requests, which resolve reads and writes in separate awaits.   *)
(***************************************************************************)
EXTENDS Naturals

CONSTANTS
    Prompts,     \* approvals asked for, one call of prompt each
    Resolvers,   \* calls of resolve
    Decisions,   \* what a caller of resolve may send
    Choices,     \* the decisions that the requests offer
    Allow,       \* the one that lets the tool run
    Deny,        \* deny_once: what a timeout, or no response, comes to
    MaxFaults,   \* bound: database calls and emits that fail or take over 30 s
    MaxCrashes,  \* bound: restarts of the process
    None         \* no decision, no prompt

ASSUME PermissionBridgeAssumption ==
    /\ Choices \subseteq Decisions
    /\ {Allow, Deny} \subseteq Choices
    /\ Allow # Deny
    /\ MaxFaults \in Nat
    /\ MaxCrashes \in Nat
    /\ Decisions \cap {None, "absent", "open"} = {}
    /\ None \notin Prompts

VARIABLES
    phase,      \* where each call of prompt stands
    pending,    \* keys of _pending
    response,   \* PendingApproval.response
    ready,      \* prompts whose threading.Event is set
    outcome,    \* the decision prompt returned to PermissionManager
    row,        \* the row of approval_requests: its decision, or no row
    announced,  \* prompts whose approval.required reached the clients
    resolver,   \* where each call of resolve stands, on what, with what
    faults, crashes

vars == <<phase, pending, response, ready, outcome, row, announced, resolver,
          faults, crashes>>

Phases == {"idle", "creating", "emitting", "waiting", "expired", "returned",
           "failed", "lost"}

TypeOK ==
    /\ phase \in [Prompts -> Phases]
    /\ pending \subseteq Prompts
    /\ response \in [Prompts -> Choices \cup {None}]
    /\ ready \subseteq Prompts
    /\ outcome \in [Prompts -> Choices \cup {None}]
    /\ row \in [Prompts -> {"absent", "open"} \cup Choices]
    /\ announced \subseteq Prompts
    /\ resolver \in [Resolvers ->
          [state : {"idle", "reading", "writing", "committed", "accepted",
                    "refused", "lost"},
           target : Prompts \cup {None},
           decision : Decisions \cup {None}]]
    /\ faults \in Nat
    /\ crashes \in Nat

Init ==
    /\ phase = [p \in Prompts |-> "idle"]
    /\ pending = {}
    /\ response = [p \in Prompts |-> None]
    /\ ready = {}
    /\ outcome = [p \in Prompts |-> None]
    /\ row = [p \in Prompts |-> "absent"]
    /\ announced = {}
    /\ resolver = [r \in Resolvers |->
                      [state |-> "idle", target |-> None, decision |-> None]]
    /\ faults = 0
    /\ crashes = 0

Move(p, from, to) == phase[p] = from /\ phase' = [phase EXCEPT ![p] = to]

(***************************************************************************)
(* prompt, in the worker thread                                            *)
(***************************************************************************)

Register(p) ==
    /\ Move(p, "idle", "creating")
    /\ pending' = pending \cup {p}
    /\ UNCHANGED <<response, ready, outcome, row, announced, resolver, faults,
                   crashes>>

\* create_approval commits on the event loop, whether or not the worker is
\* still waiting for it.
CommitCreate(p) ==
    /\ phase[p] \in {"creating", "failed"}
    /\ row[p] = "absent"
    /\ row' = [row EXCEPT ![p] = "open"]
    /\ UNCHANGED <<phase, pending, response, ready, outcome, announced,
                   resolver, faults, crashes>>

CreateReturns(p) ==
    /\ row[p] # "absent"
    /\ Move(p, "creating", "emitting")
    /\ UNCHANGED <<pending, response, ready, outcome, row, announced, resolver,
                   faults, crashes>>

\* approval.required is stored and sent before emit_from_worker returns.
Announce(p) ==
    /\ phase[p] = "emitting"
    /\ p \notin announced
    /\ announced' = announced \cup {p}
    /\ UNCHANGED <<phase, pending, response, ready, outcome, row, resolver,
                   faults, crashes>>

\* Mutant of EmitReturns: the entry is withdrawn once it is announced.
MutEmitReturnsWithdrawn(p) ==
    /\ p \in announced
    /\ Move(p, "emitting", "waiting")
    /\ pending' = pending \ {p}
    /\ UNCHANGED <<response, ready, outcome, row, announced, resolver, faults,
                   crashes>>

EmitReturns(p) ==
    /\ p \in announced
    /\ Move(p, "emitting", "waiting")
    /\ UNCHANGED <<pending, response, ready, outcome, row, announced, resolver,
                   faults, crashes>>

\* create_approval or emit raises, or takes more than 30 seconds: prompt ends
\* in an exception and its entry stays in _pending.
PromptFails(p) ==
    /\ faults < MaxFaults
    /\ faults' = faults + 1
    /\ Move(p, "creating", "failed") \/ Move(p, "emitting", "failed")
    /\ UNCHANGED <<pending, response, ready, outcome, row, announced, resolver,
                   crashes>>

\* ready.wait came back true.
Wake(p) ==
    /\ p \in ready
    /\ Move(p, "waiting", "returned")
    /\ pending' = pending \ {p}
    /\ outcome' = [outcome EXCEPT ![p] =
                      IF response[p] = None THEN Deny ELSE response[p]]
    /\ UNCHANGED <<response, ready, row, announced, resolver, faults, crashes>>

\* Mutant of Expire: the wait has no timeout.
MutExpireNever(p) == FALSE /\ UNCHANGED vars

\* ready.wait came back false; the entry goes one lock acquisition later.
Expire(p) ==
    /\ p \notin ready
    /\ Move(p, "waiting", "expired")
    /\ UNCHANGED <<pending, response, ready, outcome, row, announced, resolver,
                   faults, crashes>>

\* Mutant of DenyExpired: a timeout lets the tool run.
MutDenyExpiredAllows(p) ==
    /\ Move(p, "expired", "returned")
    /\ pending' = pending \ {p}
    /\ outcome' = [outcome EXCEPT ![p] = Allow]
    /\ UNCHANGED <<response, ready, row, announced, resolver, faults, crashes>>

DenyExpired(p) ==
    /\ Move(p, "expired", "returned")
    /\ pending' = pending \ {p}
    /\ outcome' = [outcome EXCEPT ![p] = Deny]
    /\ UNCHANGED <<response, ready, row, announced, resolver, faults, crashes>>

(***************************************************************************)
(* resolve, on the event loop                                              *)
(***************************************************************************)

Step(r, from, to) ==
    /\ resolver[r].state = from
    /\ resolver' = [resolver EXCEPT ![r].state = to]

\* Mutant of Lookup: a decision that is not on offer is taken.
MutLookupAnyDecision(r, p, d) ==
    /\ resolver[r].state = "idle"
    /\ p \in announced
    /\ resolver' = [resolver EXCEPT ![r] =
          [state |-> IF p \in pending THEN "reading" ELSE "refused",
           target |-> p, decision |-> d]]
    /\ UNCHANGED <<phase, pending, response, ready, outcome, row, announced,
                   faults, crashes>>

\* Mutant of Lookup: the table alone is asked.
MutLookupAnyPrompt(r, p, d) ==
    /\ resolver[r].state = "idle"
    /\ p \in announced
    /\ resolver' = [resolver EXCEPT ![r] =
          [state |-> IF d \in Choices THEN "reading" ELSE "refused",
           target |-> p, decision |-> d]]
    /\ UNCHANGED <<phase, pending, response, ready, outcome, row, announced,
                   faults, crashes>>

\* The entry is looked up, the decision is compared with the choices.
Lookup(r, p, d) ==
    /\ resolver[r].state = "idle"
    /\ p \in announced
    /\ resolver' = [resolver EXCEPT ![r] =
          [state |-> IF p \in pending /\ d \in Choices THEN "reading" ELSE "refused",
           target |-> p, decision |-> d]]
    /\ UNCHANGED <<phase, pending, response, ready, outcome, row, announced,
                   faults, crashes>>

\* repository.resolve_approval reads the row and looks at resolved_at ...
ReadRow(r) ==
    /\ \/ Step(r, "reading", "writing") /\ row[resolver[r].target] = "open"
       \/ Step(r, "reading", "refused") /\ row[resolver[r].target] # "open"
    /\ UNCHANGED <<phase, pending, response, ready, outcome, row, announced,
                   faults, crashes>>

\* ... and commits the decision, without looking again.
CommitDecision(r) ==
    /\ Step(r, "writing", "committed")
    /\ row' = [row EXCEPT ![resolver[r].target] = resolver[r].decision]
    /\ UNCHANGED <<phase, pending, response, ready, outcome, announced, faults,
                   crashes>>

\* Mutant of Deliver: the response is left but nobody is woken.
MutDeliverQuietly(r) ==
    /\ Step(r, "committed", "accepted")
    /\ response' = [response EXCEPT ![resolver[r].target] = resolver[r].decision]
    /\ UNCHANGED <<phase, pending, ready, outcome, row, announced, faults, crashes>>

Deliver(r) ==
    /\ Step(r, "committed", "accepted")
    /\ response' = [response EXCEPT ![resolver[r].target] = resolver[r].decision]
    /\ ready' = ready \cup {resolver[r].target}
    /\ UNCHANGED <<phase, pending, outcome, row, announced, faults, crashes>>

\* The read or the commit raises: the request gets an error.
ResolveFails(r) ==
    /\ faults < MaxFaults
    /\ faults' = faults + 1
    /\ Step(r, "reading", "refused") \/ Step(r, "writing", "refused")
    /\ UNCHANGED <<phase, pending, response, ready, outcome, row, announced,
                   crashes>>

(***************************************************************************)
(* The process dies and starts again: only the table is left.              *)
(***************************************************************************)
Crash ==
    /\ crashes < MaxCrashes
    /\ crashes' = crashes + 1
    /\ phase' = [p \in Prompts |->
                    IF phase[p] \in {"idle", "returned"} THEN phase[p] ELSE "lost"]
    /\ pending' = {}
    /\ response' = [p \in Prompts |-> None]
    /\ ready' = {}
    /\ resolver' = [r \in Resolvers |->
          IF resolver[r].state \in {"reading", "writing", "committed"}
          THEN [resolver[r] EXCEPT !.state = "lost"] ELSE resolver[r]]
    /\ UNCHANGED <<outcome, row, announced, faults>>

PromptStep(p) ==
    \/ CommitCreate(p) \/ CreateReturns(p) \/ Announce(p) \/ EmitReturns(p)
    \/ PromptFails(p) \/ Wake(p) \/ Expire(p) \/ DenyExpired(p)

ResolveStep(r) ==
    \/ ReadRow(r) \/ CommitDecision(r) \/ Deliver(r) \/ ResolveFails(r)

Next ==
    \/ \E p \in Prompts : Register(p) \/ PromptStep(p)
    \/ \E r \in Resolvers :
          \/ \E p \in Prompts, d \in Decisions : Lookup(r, p, d)
          \/ ResolveStep(r)
    \/ Crash

Spec == Init /\ [][Next]_vars

\* Threads and coroutines that can run do run, and a timed wait comes to its
\* end.  Nobody owes a decision.
FairSpec ==
    /\ Spec
    /\ \A p \in Prompts : WF_vars(PromptStep(p))
    /\ \A r \in Resolvers : WF_vars(ResolveStep(r))

-----------------------------------------------------------------------------
\* The resolvers that have put a decision on p into the table.
Committed(p, d) ==
    \E r \in Resolvers :
        /\ resolver[r].target = p
        /\ resolver[r].decision = d
        /\ resolver[r].state \in {"committed", "accepted"}

\* A tool call goes ahead only after a person's decision to allow it has been
\* committed, and the table then shows the request as decided: no timeout,
\* fault or restart turns into a permission.
AllowIsCommitted ==
    \A p \in Prompts : outcome[p] = Allow =>
        Committed(p, Allow) /\ row[p] \in Choices

\* No wake-up is lost: a worker still waiting on a decided request is about to
\* be woken by the resolver that decided it.
DecidedWakesWorker ==
    \A p \in Prompts :
        (phase[p] = "waiting" /\ p \notin ready /\ row[p] \in Choices) =>
            \E r \in Resolvers :
                resolver[r].target = p /\ resolver[r].state = "committed"

\* A person can answer what a worker waits for: its entry is in _pending and
\* its row exists, so resolve finds both.
WaitingIsAnswerable ==
    \A p \in Prompts : phase[p] = "waiting" =>
        p \in pending /\ p \in announced /\ row[p] # "absent"

\* Nobody can decide on a request whose process is gone: its row stays as the
\* crash left it.
LostIsFrozen ==
    [][\A p \in Prompts : phase[p] = "lost" => row'[p] = row[p]]_vars

\* A worker thread never hangs on an approval, answered or not.
PromptReturns ==
    \A p \in Prompts :
        phase[p] = "waiting" ~> phase[p] \in {"returned", "lost"}
=============================================================================
