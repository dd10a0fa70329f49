---------------------- MODULE PermissionBridge_proofs ----------------------
(***************************************************************************)
(* Proofs about module PermissionBridge, for any number of tool calls,     *)
(* people, faults and restarts.                                            *)
(***************************************************************************)
EXTENDS PermissionBridge, TLAPS

\* While prompt is under way its entry is in _pending, and each further phase
\* adds what it waited for: the row, then the announcement.
PromptIsPrepared ==
    \A p \in Prompts :
        /\ phase[p] \in {"creating", "emitting", "waiting"} => p \in pending
        /\ phase[p] \in {"emitting", "waiting"} => row[p] # "absent"
        /\ phase[p] = "waiting" => p \in announced

\* A resolver that was not refused has a request and one of its choices.
ResolverHasDecision ==
    \A r \in Resolvers :
        resolver[r].state \in {"reading", "writing", "committed", "accepted"} =>
            resolver[r].target \in Prompts /\ resolver[r].decision \in Choices

\* A call of resolve has returned after deciding d on p.
Accepted(p, d) ==
    \E r \in Resolvers : /\ resolver[r].target = p
                         /\ resolver[r].decision = d
                         /\ resolver[r].state = "accepted"

\* A decision that was committed is in the table, perhaps under a later one.
CommitsAreStored ==
    \A r \in Resolvers :
        resolver[r].state \in {"committed", "accepted"} =>
            row[resolver[r].target] \in Choices

\* The response a worker may find, and a permission it returned, come from a
\* call of resolve.
ResponsesAreAccepted ==
    \A p \in Prompts :
        /\ response[p] # None => Accepted(p, response[p])
        /\ outcome[p] = Allow => Accepted(p, Allow)

BridgeInv ==
    TypeOK /\ ResolverHasDecision /\ CommitsAreStored /\ ResponsesAreAccepted

-----------------------------------------------------------------------------
\* Every step keeps every variable in its type; that resolvers carry decisions
\* of the choices is what keeps response and row in theirs.
LEMMA NextBridgeTypeOK ==
    TypeOK /\ ResolverHasDecision /\ [Next]_vars => TypeOK' /\ ResolverHasDecision'
<1> SUFFICES ASSUME TypeOK, ResolverHasDecision, [Next]_vars
             PROVE  TypeOK' /\ ResolverHasDecision'
  OBVIOUS
<1> USE PermissionBridgeAssumption DEF TypeOK, Phases, Move
<1>1. ASSUME NEW p \in Prompts, Register(p) \/ PromptStep(p)
      PROVE  TypeOK' /\ ResolverHasDecision'
  <2>1. resolver' = resolver
    BY <1>1 DEF Register, PromptStep, CommitCreate, CreateReturns, Announce,
                EmitReturns, PromptFails, Wake, Expire, DenyExpired
  <2>2. TypeOK'
    BY <1>1 DEF Register, PromptStep, CommitCreate, CreateReturns, Announce,
                EmitReturns, PromptFails, Wake, Expire, DenyExpired
  <2> QED BY <2>1, <2>2 DEF ResolverHasDecision
<1>2. ASSUME NEW r \in Resolvers, NEW p \in Prompts, NEW d \in Decisions,
             Lookup(r, p, d)
      PROVE  TypeOK' /\ ResolverHasDecision'
  <2>1. TypeOK'
    BY <1>2 DEF Lookup
  <2>2. ResolverHasDecision'
    BY <1>2 DEF Lookup, ResolverHasDecision
  <2> QED BY <2>1, <2>2
<1>3. ASSUME NEW r \in Resolvers, ResolveStep(r)
      PROVE  TypeOK' /\ ResolverHasDecision'
  <2>1. PICK to \in {"writing", "refused", "committed", "accepted"} :
           /\ resolver' = [resolver EXCEPT ![r].state = to]
           /\ resolver[r].state \in {"reading", "writing", "committed"}
    BY <1>3 DEF ResolveStep, ReadRow, CommitDecision, Deliver, ResolveFails, Step
  <2>2. resolver[r].target \in Prompts /\ resolver[r].decision \in Choices
    BY <2>1 DEF ResolverHasDecision
  <2>3. ResolverHasDecision'
    BY <2>1, <2>2 DEF ResolverHasDecision
  <2>4. resolver' \in [Resolvers ->
          [state : {"idle", "reading", "writing", "committed", "accepted",
                    "refused", "lost"},
           target : Prompts \cup {None},
           decision : Decisions \cup {None}]]
    BY <2>1
  <2>5. /\ response' \in [Prompts -> Choices \cup {None}]
        /\ row' \in [Prompts -> {"absent", "open"} \cup Choices]
        /\ ready' \subseteq Prompts /\ faults' \in Nat
        /\ UNCHANGED <<phase, pending, outcome, announced, crashes>>
    BY <1>3, <2>2 DEF ResolveStep, ReadRow, CommitDecision, Deliver, ResolveFails
  <2> QED BY <2>3, <2>4, <2>5
<1>4. CASE Crash
  <2>1. TypeOK'
    BY <1>4 DEF Crash
  <2>2. ResolverHasDecision'
    BY <1>4 DEF Crash, ResolverHasDecision
  <2> QED BY <2>1, <2>2
<1>5. CASE UNCHANGED vars
  BY <1>5 DEF vars, ResolverHasDecision
<1> QED BY <1>1, <1>2, <1>3, <1>4, <1>5 DEF Next

-----------------------------------------------------------------------------
\* A step of prompt decides nothing: responses and resolvers stay, a permission
\* comes from the response.
LEMMA PromptDecidesNothing ==
    ASSUME BridgeInv, NEW p \in Prompts, Register(p) \/ PromptStep(p)
    PROVE  CommitsAreStored' /\ ResponsesAreAccepted'
<1> USE PermissionBridgeAssumption DEF BridgeInv, TypeOK, Move
<1> DEFINE Kept == /\ UNCHANGED <<resolver, response>>
                   /\ \A q \in Prompts : row[q] \in Choices => row'[q] = row[q]
<1>1. Kept
  BY DEF Register, PromptStep, CommitCreate, CreateReturns, Announce,
         EmitReturns, PromptFails, Wake, Expire, DenyExpired
<1>2. CommitsAreStored'
  BY <1>1 DEF CommitsAreStored, ResolverHasDecision
<1>3. \A q \in Prompts, d \in Decisions : Accepted(q, d)' = Accepted(q, d)
  BY <1>1 DEF Accepted
<1>4. \A q \in Prompts : outcome'[q] = Allow =>
          outcome[q] = Allow \/ response[q] = Allow
  BY DEF Register, PromptStep, CommitCreate, CreateReturns, Announce,
         EmitReturns, PromptFails, Wake, Expire, DenyExpired
<1>5. Allow \in Decisions /\ Allow # None /\ \A q \in Prompts : response[q] \in Choices \cup {None}
  OBVIOUS
<1>6. ASSUME NEW q \in Prompts, outcome'[q] = Allow
      PROVE  Accepted(q, Allow)'
  BY <1>3, <1>4, <1>5, <1>6 DEF ResponsesAreAccepted
<1>7. ASSUME NEW q \in Prompts, response'[q] # None
      PROVE  Accepted(q, response[q])'
  BY <1>1, <1>3, <1>5, <1>7 DEF ResponsesAreAccepted
<1> QED BY <1>1, <1>2, <1>6, <1>7 DEF ResponsesAreAccepted

\* A step of resolve keeps what was accepted, and adds a response only together
\* with its acceptance.
LEMMA ResolveAccepts ==
    ASSUME BridgeInv, NEW r \in Resolvers, ResolveStep(r)
    PROVE  CommitsAreStored' /\ ResponsesAreAccepted'
<1> USE PermissionBridgeAssumption DEF BridgeInv, TypeOK
<1>0. PICK t \in Prompts, d \in Choices :
         t = resolver[r].target /\ d = resolver[r].decision
  BY DEF ResolverHasDecision, ResolveStep, ReadRow, CommitDecision, Deliver,
         ResolveFails, Step
<1>1. PICK to \in {"writing", "refused", "committed", "accepted"} :
         /\ resolver' = [resolver EXCEPT ![r].state = to]
         /\ resolver[r].state \in {"reading", "writing", "committed"}
         /\ outcome' = outcome
         /\ to = "committed" => row' = [row EXCEPT ![t] = d]
         /\ to # "committed" => row' = row
         /\ to = "accepted" => /\ resolver[r].state = "committed"
                               /\ response' = [response EXCEPT ![t] = d]
         /\ to # "accepted" => response' = response
  BY <1>0 DEF ResolveStep, ReadRow, CommitDecision, Deliver, ResolveFails, Step
<1>2. /\ Choices \subseteq Decisions /\ Allow \in Decisions
      /\ response \in [Prompts -> Choices \cup {None}] /\ None \notin Choices
  OBVIOUS
<1>3. \A q \in Resolvers : /\ resolver'[q].target = resolver[q].target
                           /\ resolver'[q].decision = resolver[q].decision
                           /\ q # r => resolver'[q].state = resolver[q].state
                           /\ q = r => resolver'[q].state = to
  BY <1>1
<1>4. \A q \in Prompts, e \in Decisions : Accepted(q, e) => Accepted(q, e)'
  BY <1>1, <1>3 DEF Accepted
<1>5. CommitsAreStored'
  BY <1>0, <1>1, <1>3 DEF CommitsAreStored, ResolverHasDecision
<1>6. ASSUME NEW q \in Prompts, response'[q] # None
      PROVE  Accepted(q, response[q])'
  <2>1. CASE to = "accepted" /\ q = t
    <3>1. response'[q] = d
      BY <1>1, <1>2, <2>1
    <3>2. Accepted(t, d)'
      BY <1>0, <1>3, <2>1 DEF Accepted
    <3> QED BY <2>1, <3>1, <3>2
  <2>2. CASE ~ (to = "accepted" /\ q = t)
    <3>1. response'[q] = response[q] /\ response[q] \in Decisions
      BY <1>1, <1>2, <1>6, <2>2
    <3> QED BY <1>4, <1>6, <3>1 DEF ResponsesAreAccepted
  <2> QED BY <2>1, <2>2
<1>7. ASSUME NEW q \in Prompts, outcome'[q] = Allow
      PROVE  Accepted(q, Allow)'
  BY <1>1, <1>2, <1>4, <1>7 DEF ResponsesAreAccepted
<1> QED BY <1>5, <1>6, <1>7 DEF ResponsesAreAccepted

\* Every step keeps the invariant.
LEMMA NextBridgeInv == BridgeInv /\ [Next]_vars => BridgeInv'
<1> SUFFICES ASSUME BridgeInv, [Next]_vars
             PROVE  CommitsAreStored' /\ ResponsesAreAccepted'
  BY NextBridgeTypeOK DEF BridgeInv
<1> USE PermissionBridgeAssumption
<1>1. CASE \E p \in Prompts : Register(p) \/ PromptStep(p)
  BY <1>1, PromptDecidesNothing
<1>2. CASE \E r \in Resolvers : ResolveStep(r)
  BY <1>2, ResolveAccepts
<1>3. ASSUME NEW r \in Resolvers, NEW p \in Prompts, NEW d \in Decisions,
             Lookup(r, p, d)
      PROVE  CommitsAreStored' /\ ResponsesAreAccepted'
  <2>1. /\ UNCHANGED <<row, response, outcome>>
        /\ resolver[r].state = "idle"
        /\ \A q \in Resolvers : q # r => resolver'[q] = resolver[q]
        /\ resolver'[r].state \in {"reading", "refused"}
    BY <1>3 DEF Lookup, BridgeInv, TypeOK
  <2>2. \A q \in Prompts, e \in Decisions : Accepted(q, e) => Accepted(q, e)'
    BY <2>1 DEF Accepted
  <2>3. CommitsAreStored'
    BY <2>1 DEF BridgeInv, CommitsAreStored
  <2> QED BY <2>1, <2>2, <2>3 DEF BridgeInv, TypeOK, ResponsesAreAccepted
<1>4. CASE Crash
  <2>1. /\ row' = row /\ outcome' = outcome
        /\ \A p \in Prompts : response'[p] = None
        /\ \A q \in Resolvers :
             /\ resolver'[q].target = resolver[q].target
             /\ resolver'[q].decision = resolver[q].decision
             /\ resolver[q].state = "accepted" => resolver'[q].state = "accepted"
             /\ resolver'[q].state \in {"committed", "accepted"} =>
                    resolver[q].state = "accepted"
    BY <1>4 DEF Crash, BridgeInv, TypeOK
  <2>2. \A q \in Prompts, e \in Decisions : Accepted(q, e) => Accepted(q, e)'
    BY <2>1 DEF Accepted
  <2>3. CommitsAreStored'
    BY <2>1 DEF BridgeInv, CommitsAreStored
  <2> QED BY <2>1, <2>2, <2>3 DEF BridgeInv, TypeOK, ResponsesAreAccepted
<1>5. CASE UNCHANGED vars
  BY <1>5 DEF vars, BridgeInv, CommitsAreStored, ResponsesAreAccepted, Accepted
<1> QED BY <1>1, <1>2, <1>3, <1>4, <1>5 DEF Next

\* BridgeInv is an inductive invariant of the specification.
THEOREM BridgeInvariant == Spec => []BridgeInv
<1>1. Init => BridgeInv
  BY PermissionBridgeAssumption DEF Init, BridgeInv, TypeOK, Phases,
     ResolverHasDecision, CommitsAreStored, ResponsesAreAccepted
<1> QED BY <1>1, NextBridgeInv, PTL DEF Spec

\* Every variable of the bridge keeps its type: in particular no decision that
\* the request did not offer reaches the table or the worker.
THEOREM BridgeTypeCorrect == Spec => []TypeOK
<1>1. BridgeInv => TypeOK
  BY DEF BridgeInv
<1> QED BY <1>1, BridgeInvariant, PTL

\* No timeout, fault or restart turns into a permission: a tool call goes ahead
\* only after a person's decision to allow it was committed and stored.
THEOREM NoPermissionByDefault == Spec => []AllowIsCommitted
<1>1. BridgeInv => AllowIsCommitted
  <2> SUFFICES ASSUME BridgeInv, NEW p \in Prompts, outcome[p] = Allow
               PROVE  Committed(p, Allow) /\ row[p] \in Choices
    BY DEF AllowIsCommitted
  <2>1. Accepted(p, Allow)
    BY DEF BridgeInv, ResponsesAreAccepted
  <2>2. Committed(p, Allow)
    BY <2>1 DEF Accepted, Committed
  <2>3. row[p] \in Choices
    BY <2>1 DEF Accepted, BridgeInv, CommitsAreStored
  <2> QED BY <2>2, <2>3
<1> QED BY <1>1, BridgeInvariant, PTL

-----------------------------------------------------------------------------
\* Every step keeps a prompt prepared for the phase it is in.
LEMMA NextPromptIsPrepared ==
    TypeOK /\ PromptIsPrepared /\ ResolverHasDecision /\ [Next]_vars => PromptIsPrepared'
<1> SUFFICES ASSUME TypeOK, PromptIsPrepared, ResolverHasDecision, [Next]_vars
             PROVE  PromptIsPrepared'
  OBVIOUS
<1> USE PermissionBridgeAssumption DEF TypeOK, PromptIsPrepared, Move
<1>1. ASSUME NEW p \in Prompts, Register(p) \/ PromptStep(p)
      PROVE  PromptIsPrepared'
  <2>1. CASE Register(p)
    BY <2>1 DEF Register
  <2>2. CASE CommitCreate(p)
    BY <2>2 DEF CommitCreate
  <2>3. CASE CreateReturns(p)
    BY <2>3 DEF CreateReturns
  <2>4. CASE Announce(p)
    BY <2>4 DEF Announce
  <2>5. CASE EmitReturns(p)
    BY <2>5 DEF EmitReturns
  <2>6. CASE PromptFails(p)
    BY <2>6 DEF PromptFails
  <2>7. CASE Wake(p) \/ Expire(p) \/ DenyExpired(p)
    BY <2>7 DEF Wake, Expire, DenyExpired
  <2> QED BY <1>1, <2>1, <2>2, <2>3, <2>4, <2>5, <2>6, <2>7 DEF PromptStep
<1>2. ASSUME NEW r \in Resolvers, NEW p \in Prompts, NEW d \in Decisions,
             Lookup(r, p, d)
      PROVE  PromptIsPrepared'
  BY <1>2 DEF Lookup
<1>3. ASSUME NEW r \in Resolvers, ResolveStep(r)
      PROVE  PromptIsPrepared'
  <2>1. UNCHANGED <<phase, pending, announced>>
    BY <1>3 DEF ResolveStep, ReadRow, CommitDecision, Deliver, ResolveFails
  <2>2. row' = row \/ CommitDecision(r)
    BY <1>3 DEF ResolveStep, ReadRow, Deliver, ResolveFails
  <2>3. CASE CommitDecision(r)
    <3>1. resolver[r].decision \in Choices
      BY <2>3 DEF CommitDecision, Step, ResolverHasDecision
    <3>2. \A q \in Prompts : row'[q] = row[q] \/ row'[q] = resolver[r].decision
      BY <2>3 DEF CommitDecision
    <3> QED BY <2>1, <3>1, <3>2
  <2> QED BY <2>1, <2>2, <2>3
<1>4. CASE Crash
  BY <1>4 DEF Crash
<1>5. CASE UNCHANGED vars
  BY <1>5 DEF vars
<1> QED BY <1>1, <1>2, <1>3, <1>4, <1>5 DEF Next

\* Whoever answers a request that a worker waits for finds its entry and its
\* row, from the first moment of the wait.
THEOREM AnswerableWhileWaiting == Spec => []WaitingIsAnswerable
<1>1. Init => PromptIsPrepared
  BY DEF Init, PromptIsPrepared
<1>2. PromptIsPrepared => WaitingIsAnswerable
  BY DEF PromptIsPrepared, WaitingIsAnswerable
<1>3. BridgeInv => TypeOK /\ ResolverHasDecision
  BY DEF BridgeInv
<1> QED BY <1>1, <1>2, <1>3, BridgeInvariant, NextPromptIsPrepared, PTL DEF Spec
-----------------------------------------------------------------------------
\* A decision is on its way only for a request that was announced and whose
\* process lives; the worker of a decided one has been woken, or is owed it.
DecisionsAreOwed ==
    /\ \A r \in Resolvers : resolver[r].state \in {"reading", "writing", "committed"} =>
          resolver[r].target \in announced /\ phase[resolver[r].target] # "lost"
    /\ \A p \in Prompts :
          /\ p \in announced => phase[p] \notin {"idle", "creating"}
          /\ phase[p] \in {"idle", "creating"} => row[p] \notin Choices
          /\ phase[p] = "lost" => p \notin pending
          /\ phase[p] \in {"emitting", "waiting"} /\ p \notin ready /\ row[p] \in Choices
                => \E r \in Resolvers :
                      resolver[r].target = p /\ resolver[r].state = "committed"

\* Every step keeps what is owed: the wake-up is given by the very step that
\* ends the resolver's being committed.
LEMMA NextDecisionsAreOwed ==
    TypeOK /\ ResolverHasDecision /\ DecisionsAreOwed /\ [Next]_vars
        => DecisionsAreOwed'
<1> SUFFICES ASSUME TypeOK, ResolverHasDecision, DecisionsAreOwed, [Next]_vars
             PROVE  DecisionsAreOwed'
  OBVIOUS
<1> USE PermissionBridgeAssumption DEF TypeOK, Phases, Move, DecisionsAreOwed
<1>1. ASSUME NEW p \in Prompts, Register(p) \/ PromptStep(p)
      PROVE  DecisionsAreOwed'
  <2>1. CASE Register(p)
    BY <2>1 DEF Register
  <2>2. CASE CommitCreate(p)
    BY <2>2 DEF CommitCreate
  <2>3. CASE CreateReturns(p)
    BY <2>3 DEF CreateReturns
  <2>4. CASE Announce(p)
    BY <2>4 DEF Announce
  <2>5. CASE EmitReturns(p)
    BY <2>5 DEF EmitReturns
  <2>6. CASE PromptFails(p)
    BY <2>6 DEF PromptFails
  <2>7. CASE Wake(p) \/ Expire(p) \/ DenyExpired(p)
    BY <2>7 DEF Wake, Expire, DenyExpired
  <2> QED BY <1>1, <2>1, <2>2, <2>3, <2>4, <2>5, <2>6, <2>7 DEF PromptStep
<1>2. ASSUME NEW r \in Resolvers, NEW p \in Prompts, NEW d \in Decisions,
             Lookup(r, p, d)
      PROVE  DecisionsAreOwed'
  BY <1>2 DEF Lookup
<1>3. ASSUME NEW r \in Resolvers, ReadRow(r) \/ ResolveFails(r)
      PROVE  DecisionsAreOwed'
  BY SMTT(30), <1>3 DEF ReadRow, ResolveFails, Step
<1>4. ASSUME NEW r \in Resolvers, CommitDecision(r) PROVE DecisionsAreOwed'
  <2> DEFINE p == resolver[r].target
  <2>1. p \in Prompts /\ p \in announced /\ phase[p] # "lost"
    BY <1>4 DEF CommitDecision, Step, ResolverHasDecision
  <2>2. /\ resolver'[r].target = p /\ resolver'[r].state = "committed"
        /\ \A q \in Resolvers \ {r} : resolver'[q] = resolver[q]
    BY <1>4 DEF CommitDecision, Step
  <2>3. /\ \A q \in Prompts \ {p} : row'[q] = row[q]
        /\ UNCHANGED <<phase, pending, announced, ready>>
    BY <1>4 DEF CommitDecision
  <2>4. \A s \in Resolvers : resolver'[s].state \in {"reading", "writing", "committed"} =>
          resolver'[s].target \in announced' /\ phase'[resolver'[s].target] # "lost"
    BY <2>1, <2>2, <2>3
  <2> HIDE DEF p
  <2>5. ASSUME NEW q \in Prompts, phase'[q] \in {"emitting", "waiting"}, q \notin ready',
               row'[q] \in Choices
        PROVE  \E s \in Resolvers : resolver'[s].target = q /\ resolver'[s].state = "committed"
    <3>1. CASE q = p
      BY <2>2, <3>1
    <3>2. CASE q # p
      <4>1. PICK s \in Resolvers : resolver[s].target = q /\ resolver[s].state = "committed"
        BY <2>3, <2>5, <3>2
      <4>2. s # r
        BY <1>4, <4>1 DEF CommitDecision, Step
      <4> QED BY <2>2, <4>1, <4>2
    <3> QED BY <3>1, <3>2
  <2>6. \A q \in Prompts :
          /\ q \in announced' => phase'[q] \notin {"idle", "creating"}
          /\ phase'[q] \in {"idle", "creating"} => row'[q] \notin Choices
          /\ phase'[q] = "lost" => q \notin pending'
    BY <2>1, <2>3
  <2> QED BY <2>4, <2>5, <2>6
<1>5. ASSUME NEW r \in Resolvers, Deliver(r) PROVE DecisionsAreOwed'
  BY <1>5 DEF Deliver, Step
<1>6. CASE Crash
  BY <1>6 DEF Crash
<1>7. CASE UNCHANGED vars
  BY <1>7 DEF vars
<1> QED BY <1>1, <1>2, <1>3, <1>4, <1>5, <1>6, <1>7 DEF Next, ResolveStep

\* DecisionsAreOwed is an invariant.
LEMMA OwedInvariant == Spec => []DecisionsAreOwed
<1>1. Init => DecisionsAreOwed
  BY PermissionBridgeAssumption DEF Init, DecisionsAreOwed
<1>2. BridgeInv => TypeOK /\ ResolverHasDecision
  BY DEF BridgeInv
<1> QED BY <1>1, <1>2, BridgeInvariant, NextDecisionsAreOwed, PTL DEF Spec

\* No wake-up is lost between the table, the response and the threading.Event,
\* however many people answer at once.
THEOREM NoWakeUpIsLost == Spec => []DecidedWakesWorker
<1>1. DecisionsAreOwed => DecidedWakesWorker
  BY DEF DecisionsAreOwed, DecidedWakesWorker
<1> QED BY <1>1, OwedInvariant, PTL

\* After a restart nobody decides on a request of the dead process: _pending is
\* empty, and no resolver that had found an entry survives.
THEOREM LostRequestsStay == Spec => LostIsFrozen
<1>1. TypeOK /\ ResolverHasDecision /\ DecisionsAreOwed /\ [Next]_vars
        => \A p \in Prompts : phase[p] = "lost" => row'[p] = row[p]
  <2> SUFFICES ASSUME TypeOK, ResolverHasDecision, DecisionsAreOwed, [Next]_vars,
                      NEW p \in Prompts, phase[p] = "lost"
               PROVE  row'[p] = row[p]
    OBVIOUS
  <2> USE DEF TypeOK, Move
  <2>1. CASE \E q \in Prompts : Register(q) \/ PromptStep(q)
    BY <2>1 DEF Register, PromptStep, CommitCreate, CreateReturns, Announce,
                EmitReturns, PromptFails, Wake, Expire, DenyExpired
  <2>2. ASSUME NEW r \in Resolvers, ResolveStep(r) PROVE row'[p] = row[p]
    <3>1. CASE CommitDecision(r)
      <4>1. resolver[r].target # p
        BY <3>1 DEF CommitDecision, Step, DecisionsAreOwed
      <4> QED BY <3>1, <4>1 DEF CommitDecision
    <3>2. CASE ~CommitDecision(r)
      BY <2>2, <3>2 DEF ResolveStep, ReadRow, Deliver, ResolveFails
    <3> QED BY <3>1, <3>2
  <2>3. CASE Crash \/ UNCHANGED vars
            \/ \E r \in Resolvers, q \in Prompts, d \in Decisions : Lookup(r, q, d)
    BY <2>3 DEF Crash, vars, Lookup
  <2> QED BY <2>1, <2>2, <2>3 DEF Next
<1>2. BridgeInv => TypeOK /\ ResolverHasDecision
  BY DEF BridgeInv
<1>3. TypeOK /\ ResolverHasDecision /\ DecisionsAreOwed /\ [Next]_vars
        => [\A p \in Prompts : phase[p] = "lost" => row'[p] = row[p]]_vars
  BY <1>1
<1> QED BY <1>2, <1>3, BridgeInvariant, OwedInvariant, PTL DEF Spec, LostIsFrozen
=============================================================================
