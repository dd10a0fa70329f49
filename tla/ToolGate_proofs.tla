--------------------------- MODULE ToolGate_proofs ---------------------------
(***************************************************************************)
(* Proofs about module ToolGate, for any managers, tool calls, resources   *)
(* and plans, and any number of turns, prompts and failures.               *)
(***************************************************************************)
EXTENDS ToolGate, SequenceTheorems, TLAPS

Writing(c) == call[c].state \in {"persisting", "replacing"}

\* Somebody allowed scope for ever, to every manager.
AllowedAlways(scope) ==
    \E a \in approvals : a.scope = scope /\ a.always /\ a.turn = Forever

\* Somebody allowed r, or a scope it is in, to manager m in this turn.
Covered(m, turn, r) ==
    \E a \in approvals :
        /\ a.by = m \/ a.always
        /\ a.turn \in {Forever, turn}
        /\ \/ a.scope \in {r, ScopeOf[r]}
           \/ a.scope = "edits" /\ KindOf[r] = "edit"

\* A call works for a manager that exists, in its current turn, and still has
\* a check before it; one that is granted has none.
CallsAreCurrent ==
    \A c \in Calls :
        /\ Busy(c) => /\ call[c].by \in live
                      /\ call[c].turn = turnNo[call[c].by]
                      /\ call[c].left # <<>>
        /\ call[c].state = "granted" => call[c].left = <<>> /\ call[c].by \in Managers

\* A manager that has not been opened, or is gone, remembers nothing.
GoneIsForgotten ==
    \A m \in Managers :
        /\ m \notin live => turnEdits[m] = {} /\ ~turnAll[m] /\ session[m] = Nothing
        /\ m \in live => turnNo[m] # 0

\* The checks of a call that are not left have been passed.
Done(c) == {i \in DOMAIN Plan[c] : i <= Len(Plan[c]) - Len(call[c].left)}

LeftIsTail ==
    \A c \in Calls : Busy(c) \/ call[c].state = "granted" =>
        /\ Len(call[c].left) <= Len(Plan[c])
        /\ \A i \in 1..Len(call[c].left) :
              call[c].left[i] = Plan[c][Len(Plan[c]) - Len(call[c].left) + i]

\* Whatever permission a manager, the file or a save under way holds, a person
\* gave it.
PermissionsAreGiven ==
    /\ \A m \in Managers :
          /\ \A r \in session[m].allowed : Covered(m, Forever, r)
          /\ \A s \in always[m].allowed : AllowedAlways(s)
          /\ \A r \in turnEdits[m] : Covered(m, turnNo[m], r)
          /\ turnAll[m] => \A r \in Resources :
                              KindOf[r] = "edit" => Covered(m, turnNo[m], r)
    /\ \A s \in store.allowed : AllowedAlways(s)
    /\ \A c \in Calls :
          /\ \A s \in call[c].snapshot.allowed : AllowedAlways(s)
          /\ Writing(c) /\ call[c].allows => AllowedAlways(ScopeOf[Wanted(c)])
          /\ Busy(c) \/ call[c].state = "granted" =>
                \A i \in Done(c) : Covered(call[c].by, call[c].turn, Plan[c][i])

GateInv == TypeOK /\ CallsAreCurrent /\ GoneIsForgotten /\ LeftIsTail /\ PermissionsAreGiven

\* As long as nothing has disturbed the file there is one manager and one save at
\* a time; the manager knows what the file holds, and the file what was decided.
OneWriter ==
    ~disturbed =>
        /\ \A m, n \in live : m = n
        /\ \A c, d \in Calls : Writing(c) /\ Writing(d) => c = d
        /\ \A m \in live : /\ store.allowed \subseteq always[m].allowed
                           /\ store.denied \subseteq always[m].denied
        /\ \A c \in Calls :
              /\ call[c].state = "replacing" => call[c].snapshot = always[call[c].by]
              /\ Writing(c) => ScopeOf[Wanted(c)] \in
                    (IF call[c].allows THEN always[call[c].by].allowed
                     ELSE always[call[c].by].denied)

\* And then what was written for always is still there.
WrittenStays ==
    ~disturbed => /\ lasting.allowed \subseteq store.allowed
                  /\ lasting.denied \subseteq store.denied

\* What was denied to a manager is denied, and what was denied before a call
\* began has not passed its check.
DenialsAreKept ==
    /\ \A m \in Managers, r \in Resources : <<m, r>> \in refusals => turnNo[m] # 0
    /\ \A m \in live, r \in Resources : <<m, r>> \in refusals => IsDenied(m, r)
    /\ \A c \in Calls :
          /\ Busy(c) => \A r \in call[c].barred : <<call[c].by, r>> \in refusals
          /\ call[c].state \in {"asking", "persisting", "replacing"} =>
                Wanted(c) \notin call[c].barred
          /\ Busy(c) \/ call[c].state = "granted" =>
                \A i \in Done(c) : Plan[c][i] \notin call[c].barred
-----------------------------------------------------------------------------
Opens(m) == Open(m) \/ OpenUnreadable(m)

CallRecord ==
    [state : {"idle", "checking", "asking", "persisting", "replacing", "granted",
              "refused"},
     by : Managers \cup {Nobody}, left : Seq(Resources), snapshot : Sides(Scopes),
     allows : BOOLEAN, turn : 0..MaxTurns, barred : SUBSET Resources]

\* The ways in which a step changes a call that is under way: a check is
\* passed, the call is refused, or it goes on within a check.
PassesCheck(c) ==
    \E s \in {call[c].snapshot, Nothing} :
        call' = [call EXCEPT ![c] = Passed([call[c] EXCEPT !.snapshot = s])]

GoesOn(c) ==
    \E now \in CallRecord :
        /\ call' = [call EXCEPT ![c] = now]
        /\ now.state \in {"asking", "persisting", "replacing"}
        /\ now.by = call[c].by /\ now.left = call[c].left
        /\ now.turn = call[c].turn /\ now.barred = call[c].barred

\* A call that does not work for anybody has the right type.
LEMMA IdleType ==
    /\ Idle \in CallRecord /\ [Idle EXCEPT !.state = "refused"] \in CallRecord
    /\ Nothing \in Sides(Scopes) /\ Nothing \in Sides(Resources)
<1>1. 0 \in 0..MaxTurns
  BY ToolGateAssumption
<1>2. <<>> \in Seq(Resources)
  BY EmptySeq
<1>3. Nothing \in Sides(Scopes) /\ Nothing \in Sides(Resources)
  BY DEF Nothing, Sides
<1> QED BY <1>1, <1>2, <1>3 DEF Idle, CallRecord

\* The next resource of a call that has checks left.
LEMMA WantedType ==
    ASSUME NEW c \in Calls, call[c] \in CallRecord, call[c].left # <<>>
    PROVE  /\ Wanted(c) \in Resources /\ ScopeOf[Wanted(c)] \in Scopes
           /\ Wanted(c) = call[c].left[1] /\ Len(call[c].left) \in Nat \ {0}
<1>1. call[c].left \in Seq(Resources)
  BY DEF CallRecord
<1>2. /\ Head(call[c].left) \in Resources /\ Head(call[c].left) = call[c].left[1]
      /\ Len(call[c].left) \in Nat \ {0}
  BY <1>1, HeadTailProperties, LenProperties, EmptySeq
<1> QED BY <1>2 DEF Wanted, Scopes

\* What passing a check does to a call.
LEMMA PassedProperties ==
    ASSUME NEW now \in CallRecord, now.left # <<>>
    PROVE  /\ Passed(now) \in CallRecord
           /\ Passed(now).by = now.by /\ Passed(now).turn = now.turn
           /\ Passed(now).barred = now.barred
           /\ Passed(now).snapshot = now.snapshot
           /\ Len(Passed(now).left) = Len(now.left) - 1
           /\ Len(now.left) \in Nat \ {0}
           /\ \A i \in 1..(Len(now.left) - 1) : Passed(now).left[i] = now.left[i + 1]
           /\ \/ Passed(now).state = "granted" /\ Passed(now).left = <<>>
              \/ Passed(now).state = "checking" /\ Passed(now).left # <<>>
<1> DEFINE tail == Tail(now.left)
<1>1. now.left \in Seq(Resources)
  BY DEF CallRecord
<1>2. /\ tail \in Seq(Resources) /\ Len(now.left) \in Nat \ {0}
      /\ Len(tail) = Len(now.left) - 1
      /\ \A i \in 1..(Len(now.left) - 1) : tail[i] = now.left[i + 1]
      /\ tail = <<>> <=> Len(now.left) = 1
  <2>1. /\ tail \in Seq(Resources) /\ Len(tail) = Len(now.left) - 1
        /\ \A i \in 1..Len(tail) : tail[i] = now.left[i + 1]
    BY <1>1, HeadTailProperties
  <2>2. Len(now.left) \in Nat \ {0}
    BY <1>1, LenProperties, EmptySeq
  <2>3. tail = <<>> <=> Len(tail) = 0
    BY <2>1, EmptySeq
  <2> QED BY <2>1, <2>2, <2>3
<1> HIDE DEF tail
<1>3. Passed(now) = [now EXCEPT !.left = tail,
                        !.state = IF Len(now.left) = 1 THEN "granted" ELSE "checking"]
  BY DEF Passed, tail
<1> QED BY <1>2, <1>3 DEF CallRecord

\* A check passed adds what was wanted to what has been passed.
LEMMA PassesCheckProperties ==
    ASSUME call \in [Calls -> CallRecord], NEW c \in Calls, call[c].left # <<>>,
           Len(call[c].left) <= Len(Plan[c]),
           \A i \in 1..Len(call[c].left) :
              call[c].left[i] = Plan[c][Len(Plan[c]) - Len(call[c].left) + i],
           PassesCheck(c)
    PROVE  /\ call' \in [Calls -> CallRecord]
           /\ \A d \in Calls \ {c} : call'[d] = call[d]
           /\ call'[c].by = call[c].by /\ call'[c].turn = call[c].turn
           /\ call'[c].barred = call[c].barred
           /\ call'[c].snapshot \in {call[c].snapshot, Nothing}
           /\ Len(call'[c].left) <= Len(Plan[c])
           /\ \A i \in 1..Len(call'[c].left) :
                 call'[c].left[i] = Plan[c][Len(Plan[c]) - Len(call'[c].left) + i]
           /\ \/ call'[c].state = "granted" /\ call'[c].left = <<>>
              \/ call'[c].state = "checking" /\ call'[c].left # <<>>
           /\ \A i \in Done(c)' : i \in Done(c) \/ Plan[c][i] = Wanted(c)
<1>1. PICK s \in {call[c].snapshot, Nothing} :
         call' = [call EXCEPT ![c] = Passed([call[c] EXCEPT !.snapshot = s])]
  BY DEF PassesCheck
<1> DEFINE now == [call[c] EXCEPT !.snapshot = s]
<1>2. now \in CallRecord /\ now.left = call[c].left /\ now.by = call[c].by
      /\ now.turn = call[c].turn /\ now.barred = call[c].barred /\ now.snapshot = s
  BY IdleType DEF CallRecord
<1> HIDE DEF now
<1>3. call'[c] = Passed(now) /\ \A d \in Calls \ {c} : call'[d] = call[d]
  BY <1>1 DEF now
<1>4. Passed(now) \in CallRecord
  BY <1>2, PassedProperties
<1>5. call' \in [Calls -> CallRecord]
  BY <1>1, <1>4 DEF now
<1> DEFINE p == Len(Plan[c])  n == Len(call[c].left)
<1>6. p \in Nat /\ DOMAIN Plan[c] = 1..p
  BY ToolGateAssumption, LenProperties
<1>7. n \in Nat \ {0} /\ Len(call'[c].left) = n - 1
      /\ \A i \in 1..(n - 1) : call'[c].left[i] = call[c].left[i + 1]
  BY <1>2, <1>3, PassedProperties
<1>8. Wanted(c) = call[c].left[1]
  BY WantedType
<1> HIDE DEF p, n
<1>9. n <= p /\ \A i \in 1..n : call[c].left[i] = Plan[c][p - n + i]
  BY DEF p, n
<1>10. \A i \in 1..(n - 1) : call'[c].left[i] = Plan[c][p - (n - 1) + i]
  <2> SUFFICES ASSUME NEW i \in 1..(n - 1)
               PROVE  call'[c].left[i] = Plan[c][p - (n - 1) + i]
    OBVIOUS
  <2>1. i + 1 \in 1..n /\ p - n + (i + 1) = p - (n - 1) + i
    BY <1>6, <1>7
  <2> QED BY <1>7, <1>9, <2>1
<1>11. Wanted(c) = Plan[c][p - n + 1]
  BY <1>7, <1>8, <1>9
<1>12. \A i \in Done(c)' : i \in Done(c) \/ Plan[c][i] = Wanted(c)
  <2> SUFFICES ASSUME NEW i \in 1..p, i <= p - (n - 1), ~(i <= p - n)
               PROVE  Plan[c][i] = Wanted(c)
    BY <1>6, <1>7 DEF Done, p, n
  <2>1. i = p - n + 1
    BY <1>6, <1>7
  <2> QED BY <1>11, <2>1
<1>13. /\ Len(call'[c].left) <= p
       /\ \A i \in 1..Len(call'[c].left) :
             call'[c].left[i] = Plan[c][p - Len(call'[c].left) + i]
  BY <1>6, <1>7, <1>9, <1>10
<1>14. \/ call'[c].state = "granted" /\ call'[c].left = <<>>
       \/ call'[c].state = "checking" /\ call'[c].left # <<>>
  BY <1>2, <1>3, PassedProperties
<1>15. /\ call'[c].by = call[c].by /\ call'[c].turn = call[c].turn
       /\ call'[c].barred = call[c].barred
       /\ call'[c].snapshot \in {call[c].snapshot, Nothing}
  BY <1>2, <1>3, PassedProperties
<1> QED BY <1>3, <1>5, <1>12, <1>13, <1>14, <1>15 DEF p

\* What the checks of a call can count on.
LEMMA AtWork ==
    ASSUME TypeOK, CallsAreCurrent, NEW c \in Calls, Busy(c)
    PROVE  /\ call \in [Calls -> CallRecord] /\ call[c] \in CallRecord
           /\ call[c].by \in live /\ call[c].by \in Managers
           /\ call[c].turn = turnNo[call[c].by] /\ call[c].left # <<>>
           /\ Wanted(c) \in Resources /\ ScopeOf[Wanted(c)] \in Scopes
<1>1. call \in [Calls -> CallRecord] /\ call[c] \in CallRecord /\ live \subseteq Managers
  BY DEF TypeOK, CallRecord
<1>2. /\ call[c].by \in live /\ call[c].turn = turnNo[call[c].by]
      /\ call[c].left # <<>>
  BY DEF CallsAreCurrent
<1> QED BY <1>1, <1>2, WantedType

\* The change of one call, however its action names it.
LEMMA CallShapes ==
    ASSUME call \in [Calls -> CallRecord], NEW c \in Calls
    PROVE  /\ call' = [call EXCEPT ![c] = Passed(@)] => PassesCheck(c)
           /\ call' = [call EXCEPT ![c] = Passed([@ EXCEPT !.snapshot = Nothing])]
                 => PassesCheck(c)
           /\ call' = [call EXCEPT ![c].state = "asking"] => GoesOn(c)
           /\ \A b \in BOOLEAN :
                 call' = [call EXCEPT ![c].state = "persisting", ![c].allows = b]
                 => GoesOn(c)
           /\ \A s \in Sides(Scopes) :
                 call' = [call EXCEPT ![c].state = "replacing", ![c].snapshot = s]
                 => GoesOn(c)
<1>1. call[c] \in CallRecord
  OBVIOUS
<1>2. [call[c] EXCEPT !.snapshot = call[c].snapshot] = call[c]
  BY <1>1 DEF CallRecord
<1>3. call' = [call EXCEPT ![c] = Passed(@)] => PassesCheck(c)
  BY <1>2 DEF PassesCheck
<1>4. call' = [call EXCEPT ![c] = Passed([@ EXCEPT !.snapshot = Nothing])]
         => PassesCheck(c)
  BY DEF PassesCheck
<1>5. ASSUME call' = [call EXCEPT ![c].state = "asking"] PROVE GoesOn(c)
  <2> DEFINE now == [call[c] EXCEPT !.state = "asking"]
  <2>1. now \in CallRecord /\ call' = [call EXCEPT ![c] = now]
    BY <1>1, <1>5 DEF CallRecord
  <2> QED BY <1>1, <2>1 DEF GoesOn, CallRecord
<1>6. ASSUME NEW b \in BOOLEAN,
             call' = [call EXCEPT ![c].state = "persisting", ![c].allows = b]
      PROVE  GoesOn(c)
  <2> DEFINE now == [call[c] EXCEPT !.state = "persisting", !.allows = b]
  <2>1. now \in CallRecord /\ call' = [call EXCEPT ![c] = now]
    BY <1>1, <1>6 DEF CallRecord
  <2> QED BY <1>1, <2>1 DEF GoesOn, CallRecord
<1>7. ASSUME NEW s \in Sides(Scopes),
             call' = [call EXCEPT ![c].state = "replacing", ![c].snapshot = s]
      PROVE  GoesOn(c)
  <2> DEFINE now == [call[c] EXCEPT !.state = "replacing", !.snapshot = s]
  <2>1. now \in CallRecord /\ call' = [call EXCEPT ![c] = now]
    BY <1>1, <1>7 DEF CallRecord
  <2> QED BY <1>1, <2>1 DEF GoesOn, CallRecord
<1> QED BY <1>3, <1>4, <1>5, <1>6, <1>7

\* A step of a call passes its check, takes it up, refuses it or goes on with
\* it.
CallStep(c) ==
    \/ Check(c)
    \/ AllowOnce(c) \/ DenyOnce(c) \/ DenyWithFeedback(c) \/ PromptFails(c)
    \/ \E flag \in BOOLEAN : AllowTurn(c, flag) \/ DecideAlways(c, flag)
    \/ Snapshot(c) \/ Replace(c) \/ WriteFails(c)

\* What a step of a call does to the call itself: it passes a check, is refused,
\* or goes on waiting for the same one.
LEMMA CallStepShape ==
    ASSUME TypeOK, CallsAreCurrent, NEW c \in Calls, CallStep(c)
    PROVE  /\ Busy(c)
           /\ PassesCheck(c) \/ call' = Refused(c) \/ GoesOn(c)
           /\ live' = live /\ turnNo' = turnNo
<1>1. Busy(c)
  BY DEF CallStep, Check, AllowOnce, DenyOnce, DenyWithFeedback, PromptFails,
         AllowTurn, DecideAlways, Snapshot, Replace, WriteFails, Busy
<1>2. live' = live /\ turnNo' = turnNo
  BY DEF CallStep, Check, AllowOnce, DenyOnce, DenyWithFeedback, PromptFails,
         AllowTurn, DecideAlways, Snapshot, Replace, WriteFails, manager
<1>3. call \in [Calls -> CallRecord] /\ always[call[c].by] \in Sides(Scopes)
  BY <1>1, AtWork DEF TypeOK
<1> SUFFICES PassesCheck(c) \/ call' = Refused(c) \/ GoesOn(c)
  BY <1>1, <1>2
<1>4. CASE Snapshot(c)
  <2>1. call' = [call EXCEPT ![c].state = "replacing", ![c].snapshot = always[call[c].by]]
    BY <1>4 DEF Snapshot
  <2> QED BY <1>3, <2>1, CallShapes
<1>5. CASE Check(c)
  <2>1. CASE call' = [call EXCEPT ![c] = Passed(@)]
    BY <1>3, <2>1, CallShapes
  <2>2. CASE call' = [call EXCEPT ![c].state = "asking"]
    BY <1>3, <2>2, CallShapes
  <2>3. CASE call' = Refused(c)
    BY <2>3
  <2> QED BY <1>5, <2>1, <2>2, <2>3 DEF Check, Proceeds, Stops, Asks
<1>6. CASE AllowOnce(c) \/ \E flag \in BOOLEAN : AllowTurn(c, flag)
  <2>1. call' = [call EXCEPT ![c] = Passed(@)]
    BY <1>6 DEF AllowOnce, AllowTurn
  <2> QED BY <1>3, <2>1, CallShapes
<1>7. CASE DenyOnce(c) \/ DenyWithFeedback(c) \/ PromptFails(c) \/ WriteFails(c)
  BY <1>7 DEF DenyOnce, DenyWithFeedback, PromptFails, WriteFails
<1>8. ASSUME NEW flag \in BOOLEAN, DecideAlways(c, flag) PROVE GoesOn(c)
  <2>1. call' = [call EXCEPT ![c].state = "persisting", ![c].allows = flag]
    BY <1>8 DEF DecideAlways
  <2> QED BY <1>3, <2>1, CallShapes
<1>9. CASE Replace(c)
  <2>1. CASE call' = [call EXCEPT ![c] = Passed([@ EXCEPT !.snapshot = Nothing])]
    BY <1>3, <2>1, CallShapes
  <2>2. CASE call' = Refused(c)
    BY <2>2
  <2> QED BY <1>9, <2>1, <2>2 DEF Replace
<1> QED BY <1>4, <1>5, <1>6, <1>7, <1>8, <1>9 DEF CallStep

\* A manager begins with the file, or with nothing.
LEMMA OpensWithSomething ==
    ASSUME TypeOK, NEW m \in Managers, Opens(m)
    PROVE  \E loaded \in Sides(Scopes) : loaded \in {store, Nothing} /\ OpenWith(m, loaded)
BY DEF Opens, Open, OpenUnreadable, Sides, Nothing, TypeOK

\* Every step keeps every variable in its type.
LEMMA NextGateTypeOK ==
    TypeOK /\ CallsAreCurrent /\ LeftIsTail /\ [Next]_vars => TypeOK'
<1> SUFFICES ASSUME TypeOK, CallsAreCurrent, LeftIsTail, [Next]_vars PROVE TypeOK'
  OBVIOUS
<1> USE ToolGateAssumption
<1>c. call \in [Calls -> CallRecord]
  BY DEF TypeOK, CallRecord
<1>1. ASSUME NEW c \in Calls, CallStep(c) PROVE call' \in [Calls -> CallRecord]
  <2>0. Busy(c) /\ call[c].left # <<>>
    BY <1>1, CallStepShape, AtWork
  <2>1. CASE PassesCheck(c)
    <3>1. /\ Len(call[c].left) <= Len(Plan[c])
          /\ \A i \in 1..Len(call[c].left) :
                call[c].left[i] = Plan[c][Len(Plan[c]) - Len(call[c].left) + i]
      BY <2>0 DEF LeftIsTail
    <3> QED BY <1>c, <2>0, <2>1, <3>1, PassesCheckProperties
  <2>2. CASE call' = Refused(c)
    BY <1>c, <2>2, IdleType DEF Refused
  <2>3. CASE GoesOn(c)
    BY <1>c, <2>3 DEF GoesOn
  <2> QED BY <1>1, <2>1, <2>2, <2>3, CallStepShape
<1>2. ASSUME NEW m \in Managers, Opens(m) \/ NextTurn(m) \/ Leave(m) PROVE TypeOK'
  <2>1. CASE Opens(m)
    <3>1. PICK loaded \in Sides(Scopes) : OpenWith(m, loaded)
      BY <2>1, OpensWithSomething
    <3>2. refusals' \subseteq Managers \X Resources
      BY <3>1 DEF OpenWith, TypeOK
    <3>3. 1 \in 0..MaxTurns /\ faults' \in 0..MaxFaults
      BY <2>1 DEF Opens, Open, OpenUnreadable, TypeOK
    <3> QED BY <3>1, <3>2, <3>3 DEF OpenWith, TypeOK
  <2>2. CASE NextTurn(m)
    BY <2>2 DEF NextTurn, TypeOK, history
  <2>3. CASE Leave(m)
    BY <2>3, IdleType DEF Leave, TypeOK, history
  <2> QED BY <1>2, <2>1, <2>2, <2>3
<1>3. ASSUME NEW c \in Calls, NEW m \in Managers, Begin(c, m) PROVE TypeOK'
  <2> DEFINE now == [Idle EXCEPT !.state = "checking", !.by = m, !.left = Plan[c],
                       !.turn = turnNo[m],
                       !.barred = {r \in Resources : <<m, r>> \in refusals}]
  <2>1. Plan[c] \in Seq(Resources) /\ turnNo[m] \in 0..MaxTurns
    BY DEF TypeOK
  <2>2. now \in CallRecord
    BY <2>1, IdleType DEF CallRecord
  <2>3. call' = [call EXCEPT ![c] = now]
    BY <1>3 DEF Begin
  <2> HIDE DEF now
  <2>4. call' \in [Calls -> CallRecord]
    BY <1>c, <2>2, <2>3
  <2> QED BY <1>3, <2>4 DEF Begin, TypeOK, CallRecord, manager, history
<1>4. ASSUME NEW c \in Calls, CallStep(c) PROVE TypeOK'
  <2>1. call' \in [Calls -> CallRecord]
    BY <1>1, <1>4
  <2> DEFINE m == call[c].by  r == Wanted(c)
  <2>2. /\ m \in Managers /\ r \in Resources /\ ScopeOf[r] \in Scopes
        /\ call[c].turn = turnNo[m] /\ call[c].snapshot \in Sides(Scopes)
    BY <1>4, CallStepShape, AtWork DEF CallRecord
  <2>3. turnNo[m] \in 0..MaxTurns /\ Forever \in 0..MaxTurns
    BY <2>2 DEF TypeOK, Forever
  <2>4. session \in [Managers -> Sides(Resources)] /\ always \in [Managers -> Sides(Scopes)]
    BY DEF TypeOK
  <2>5. \A q \in Scopes : \A s \in Sides(Scopes) :
           /\ [s EXCEPT !.allowed = @ \cup {q}] \in Sides(Scopes)
           /\ [s EXCEPT !.denied = @ \cup {q}] \in Sides(Scopes)
    BY DEF Sides
  <2>p. approvals \subseteq [by : Managers, scope : Resources \cup Scopes \cup {"edits"},
                             turn : 0..MaxTurns, always : BOOLEAN]
    BY DEF TypeOK
  <2> HIDE DEF m, r
  <2>6. CASE Check(c)
    BY <2>1, <2>6 DEF Check, Proceeds, Stops, Asks, TypeOK, CallRecord, manager, history
  <2>7. CASE AllowOnce(c)
    <3>1. session' = [session EXCEPT ![m].allowed = @ \cup {r}]
      BY <2>7 DEF AllowOnce, m, r
    <3>2. session' \in [Managers -> Sides(Resources)]
      <4>1. [session[m] EXCEPT !.allowed = @ \cup {r}] \in Sides(Resources)
        BY <2>2, <2>4 DEF Sides
      <4> QED BY <2>2, <2>4, <3>1, <4>1
    <3>3. approvals' = approvals \cup
              {[by |-> m, scope |-> r, turn |-> Forever, always |-> FALSE]}
      BY <2>7 DEF AllowOnce, Remember, m, r
    <3>4. approvals' \subseteq [by : Managers, scope : Resources \cup Scopes \cup {"edits"},
                                turn : 0..MaxTurns, always : BOOLEAN]
      <4>1. [by |-> m, scope |-> r, turn |-> Forever, always |-> FALSE]
               \in [by : Managers, scope : Resources \cup Scopes \cup {"edits"},
                   turn : 0..MaxTurns, always : BOOLEAN]
        BY <2>2, <2>3
      <4> QED BY <2>p, <3>3, <4>1
    <3> QED BY <2>1, <2>7, <3>2, <3>4 DEF AllowOnce, TypeOK, CallRecord
  <2>8. ASSUME NEW flag \in BOOLEAN, AllowTurn(c, flag) PROVE TypeOK'
    <3>1. /\ turnEdits' \in [Managers -> SUBSET Resources]
          /\ turnAll' \in [Managers -> BOOLEAN]
      BY <2>2, <2>8 DEF AllowTurn, TypeOK, m, r
    <3>2. approvals' = approvals \cup
              {[by |-> m, scope |-> IF flag THEN "edits" ELSE r, turn |-> turnNo[m],
                always |-> FALSE]}
      BY <2>8 DEF AllowTurn, Remember, m, r
    <3>3. approvals' \subseteq [by : Managers, scope : Resources \cup Scopes \cup {"edits"},
                                turn : 0..MaxTurns, always : BOOLEAN]
      <4>1. [by |-> m, scope |-> IF flag THEN "edits" ELSE r, turn |-> turnNo[m],
             always |-> FALSE]
               \in [by : Managers, scope : Resources \cup Scopes \cup {"edits"},
                   turn : 0..MaxTurns, always : BOOLEAN]
        BY <2>2, <2>3
      <4> QED BY <2>p, <3>2, <4>1
    <3> QED BY <2>1, <2>8, <3>1, <3>3 DEF AllowTurn, TypeOK, CallRecord
  <2>9. CASE DenyOnce(c)
    <3>1. session' = [session EXCEPT ![m].denied = @ \cup {r}]
      BY <2>9 DEF DenyOnce, m, r
    <3>2. session' \in [Managers -> Sides(Resources)]
      <4>1. [session[m] EXCEPT !.denied = @ \cup {r}] \in Sides(Resources)
        BY <2>2, <2>4 DEF Sides
      <4> QED BY <2>2, <2>4, <3>1, <4>1
    <3>3. refusals' = refusals \cup {<<m, r>>}
      BY <2>9 DEF DenyOnce, m, r
    <3> QED BY <2>1, <2>2, <2>9, <3>2, <3>3 DEF DenyOnce, TypeOK, CallRecord
  <2>10. CASE DenyWithFeedback(c) \/ PromptFails(c) \/ Snapshot(c) \/ WriteFails(c)
    BY <2>1, <2>10 DEF DenyWithFeedback, PromptFails, Snapshot, WriteFails, TypeOK,
       CallRecord, manager, history
  <2>11. ASSUME NEW flag \in BOOLEAN, DecideAlways(c, flag) PROVE TypeOK'
    <3>1. CASE flag
      <4>1. /\ always' = [always EXCEPT ![m].allowed = @ \cup {ScopeOf[r]}]
            /\ approvals' = approvals \cup
                 {[by |-> m, scope |-> ScopeOf[r], turn |-> Forever, always |-> TRUE]}
            /\ refusals' = refusals
        BY <2>11, <3>1 DEF DecideAlways, Remember, m, r
      <4>2. always' \in [Managers -> Sides(Scopes)]
        <5>1. [always[m] EXCEPT !.allowed = @ \cup {ScopeOf[r]}] \in Sides(Scopes)
          BY <2>2, <2>4 DEF Sides
        <5> QED BY <2>2, <2>4, <4>1, <5>1
      <4>3. approvals' \subseteq [by : Managers, scope : Resources \cup Scopes \cup {"edits"},
                                  turn : 0..MaxTurns, always : BOOLEAN]
        <5>1. [by |-> m, scope |-> ScopeOf[r], turn |-> Forever, always |-> TRUE]
                 \in [by : Managers, scope : Resources \cup Scopes \cup {"edits"},
                     turn : 0..MaxTurns, always : BOOLEAN]
          BY <2>2, <2>3
        <5> QED BY <2>p, <4>1, <5>1
      <4> QED BY <2>1, <2>11, <4>1, <4>2, <4>3 DEF DecideAlways, TypeOK, CallRecord
    <3>2. CASE ~flag
      <4>1. /\ always' = [always EXCEPT ![m].denied = @ \cup {ScopeOf[r]}]
            /\ refusals' = refusals \cup
                 {<<m, q>> : q \in {q \in Resources : ScopeOf[q] = ScopeOf[r]}}
            /\ approvals' = approvals
        BY <2>11, <3>2 DEF DecideAlways, m, r
      <4>2. always' \in [Managers -> Sides(Scopes)]
        <5>1. [always[m] EXCEPT !.denied = @ \cup {ScopeOf[r]}] \in Sides(Scopes)
          BY <2>2, <2>4 DEF Sides
        <5> QED BY <2>2, <2>4, <4>1, <5>1
      <4>3. refusals' \subseteq Managers \X Resources
        BY <2>2, <4>1 DEF TypeOK
      <4> QED BY <2>1, <2>11, <4>1, <4>2, <4>3 DEF DecideAlways, TypeOK, CallRecord
    <3> QED BY <3>1, <3>2
  <2>12. CASE Replace(c)
    <3>1. \/ lasting' = [lasting EXCEPT !.allowed = @ \cup {ScopeOf[r]}]
          \/ lasting' = [lasting EXCEPT !.denied = @ \cup {ScopeOf[r]}]
      BY <2>12 DEF Replace, r
    <3>2. lasting' \in Sides(Scopes)
      <4>1. lasting \in Sides(Scopes)
        BY DEF TypeOK
      <4>2. /\ [lasting EXCEPT !.allowed = @ \cup {ScopeOf[r]}] \in Sides(Scopes)
            /\ [lasting EXCEPT !.denied = @ \cup {ScopeOf[r]}] \in Sides(Scopes)
        BY <2>2, <4>1 DEF Sides
      <4> QED BY <3>1, <4>2
    <3> QED BY <2>1, <2>2, <2>12, <3>2 DEF Replace, TypeOK, CallRecord, manager
  <2> QED BY <1>4, <2>6, <2>7, <2>8, <2>9, <2>10, <2>11, <2>12 DEF CallStep
<1>5. CASE UNCHANGED vars
  BY <1>5 DEF vars, TypeOK, manager, history
<1> QED BY <1>2, <1>3, <1>4, <1>5 DEF Next, Opens, CallStep

\* What a step of a call does to the calls.
LEMMA CallEffect ==
    ASSUME TypeOK, CallsAreCurrent, LeftIsTail, NEW c \in Calls, CallStep(c)
    PROVE  /\ call' \in [Calls -> CallRecord]
           /\ \A d \in Calls \ {c} : call'[d] = call[d]
           /\ \/ call'[c].state = "refused" /\ call'[c].snapshot = Nothing
              \/ /\ call'[c].by = call[c].by /\ call'[c].turn = call[c].turn
                 /\ call'[c].barred = call[c].barred
                 /\ call'[c].snapshot \in {call[c].snapshot, Nothing}
                 /\ \/ call'[c].state = "granted" /\ call'[c].left = <<>>
                    \/ call'[c].state = "checking" /\ call'[c].left # <<>>
                 /\ Len(call'[c].left) <= Len(Plan[c])
                 /\ \A i \in 1..Len(call'[c].left) :
                       call'[c].left[i] = Plan[c][Len(Plan[c]) - Len(call'[c].left) + i]
                 /\ \A i \in Done(c)' : i \in Done(c) \/ Plan[c][i] = Wanted(c)
              \/ /\ call'[c].by = call[c].by /\ call'[c].turn = call[c].turn
                 /\ call'[c].barred = call[c].barred /\ call'[c].left = call[c].left
                 /\ call'[c].state \in {"asking", "persisting", "replacing"}
<1>1. call \in [Calls -> CallRecord] /\ Busy(c) /\ call[c].left # <<>>
  BY CallStepShape, AtWork
<1>2. /\ Len(call[c].left) <= Len(Plan[c])
      /\ \A i \in 1..Len(call[c].left) :
            call[c].left[i] = Plan[c][Len(Plan[c]) - Len(call[c].left) + i]
  BY <1>1 DEF LeftIsTail
<1>3. CASE PassesCheck(c)
  BY <1>1, <1>2, <1>3, PassesCheckProperties
<1>4. CASE call' = Refused(c)
  BY <1>1, <1>4, IdleType DEF Refused, Idle
<1>5. CASE GoesOn(c)
  <2>1. PICK now \in CallRecord :
            /\ call' = [call EXCEPT ![c] = now]
            /\ now.state \in {"asking", "persisting", "replacing"}
            /\ now.by = call[c].by /\ now.left = call[c].left
            /\ now.turn = call[c].turn /\ now.barred = call[c].barred
    BY <1>5 DEF GoesOn
  <2>2. call'[c] = now /\ \A d \in Calls \ {c} : call'[d] = call[d]
    BY <1>1, <2>1
  <2> QED BY <1>1, <2>1, <2>2
<1> QED BY <1>3, <1>4, <1>5, CallStepShape

\* A step of a call changes the sets of its own manager at most.
LEMMA CallStepIsLocal ==
    ASSUME TypeOK, CallsAreCurrent, NEW c \in Calls, CallStep(c),
           NEW n \in Managers, n # call[c].by
    PROVE  /\ session'[n] = session[n] /\ always'[n] = always[n]
           /\ turnEdits'[n] = turnEdits[n] /\ turnAll'[n] = turnAll[n]
BY DEF CallStep, Check, AllowOnce, DenyOnce, DenyWithFeedback, PromptFails, AllowTurn,
       DecideAlways, Snapshot, Replace, WriteFails, manager, TypeOK

\* Calls work for managers that live in a current turn, managers that are gone
\* hold nothing, and what a call has left is the end of its plan.
LEMMA NextCallsAreCurrent ==
    ASSUME TypeOK, CallsAreCurrent, GoneIsForgotten, LeftIsTail, [Next]_vars
    PROVE  CallsAreCurrent' /\ GoneIsForgotten' /\ LeftIsTail'
<1> USE ToolGateAssumption
<1>c. call \in [Calls -> CallRecord] /\ live \subseteq Managers
  BY DEF TypeOK, CallRecord
<1>1. ASSUME NEW c \in Calls, CallStep(c)
      PROVE  CallsAreCurrent' /\ GoneIsForgotten' /\ LeftIsTail'
  <2>0. /\ live' = live /\ turnNo' = turnNo /\ call[c].by \in live
        /\ call[c].by \in Managers /\ call[c].turn = turnNo[call[c].by]
        /\ call[c].left # <<>> /\ Busy(c)
    BY <1>1, CallStepShape, AtWork
  <2>1. CallsAreCurrent'
    <3> SUFFICES ASSUME NEW d \in Calls
                 PROVE  /\ Busy(d)' => /\ call'[d].by \in live
                                       /\ call'[d].turn = turnNo[call'[d].by]
                                       /\ call'[d].left # <<>>
                        /\ call'[d].state = "granted" =>
                              call'[d].left = <<>> /\ call'[d].by \in Managers
      BY <2>0 DEF CallsAreCurrent
    <3>1. CASE d = c
      BY <1>1, <2>0, <3>1, CallEffect DEF Busy
    <3>2. CASE d # c
      <4>1. call'[d] = call[d]
        BY <1>1, <3>2, CallEffect
      <4> QED BY <4>1 DEF CallsAreCurrent, Busy
    <3> QED BY <3>1, <3>2
  <2>2. LeftIsTail'
    <3> SUFFICES ASSUME NEW d \in Calls, Busy(d)' \/ call'[d].state = "granted"
                 PROVE  /\ Len(call'[d].left) <= Len(Plan[d])
                        /\ \A i \in 1..Len(call'[d].left) :
                              call'[d].left[i]
                                = Plan[d][Len(Plan[d]) - Len(call'[d].left) + i]
      BY DEF LeftIsTail
    <3>1. CASE d = c
      <4>1. /\ Len(call[c].left) <= Len(Plan[c])
            /\ \A i \in 1..Len(call[c].left) :
                  call[c].left[i] = Plan[c][Len(Plan[c]) - Len(call[c].left) + i]
        BY <2>0 DEF LeftIsTail
      <4> QED BY ZenonT(60), <1>1, <3>1, <4>1, CallEffect DEF Busy
    <3>2. CASE d # c
      <4>1. call'[d] = call[d]
        BY <1>1, <3>2, CallEffect
      <4> QED BY <4>1 DEF LeftIsTail, Busy
    <3> QED BY <3>1, <3>2
  <2>3. GoneIsForgotten'
    BY <1>1, <2>0, CallStepIsLocal DEF GoneIsForgotten
  <2> QED BY <2>1, <2>2, <2>3
<1>2. ASSUME NEW m \in Managers, Opens(m) \/ NextTurn(m) \/ Leave(m)
      PROVE  CallsAreCurrent' /\ GoneIsForgotten' /\ LeftIsTail'
  <2>1. call' = call
    BY <1>2 DEF Opens, Open, OpenUnreadable, OpenWith, NextTurn, Leave
  <2>2. \A d \in Calls : Busy(d) => call[d].by # m
    BY <1>2 DEF Opens, Open, OpenUnreadable, OpenWith, NextTurn, Leave, BusyOf, CallsAreCurrent
  <2>3. \A n \in Managers \ {m} :
           /\ n \in live' <=> n \in live
           /\ turnNo'[n] = turnNo[n] /\ session'[n] = session[n]
           /\ turnEdits'[n] = turnEdits[n] /\ turnAll'[n] = turnAll[n]
    BY <1>2 DEF Opens, Open, OpenUnreadable, OpenWith, NextTurn, Leave, TypeOK
  <2>4. /\ m \notin live' => turnEdits'[m] = {} /\ ~turnAll'[m] /\ session'[m] = Nothing
        /\ m \in live' => turnNo'[m] # 0
    BY <1>2 DEF Opens, Open, OpenUnreadable, OpenWith, NextTurn, Leave, TypeOK, GoneIsForgotten
  <2>5. GoneIsForgotten'
    BY <2>3, <2>4 DEF GoneIsForgotten
  <2>6. LeftIsTail'
    BY <2>1 DEF LeftIsTail, Busy
  <2>7. CallsAreCurrent'
    BY <1>c, <2>1, <2>2, <2>3 DEF CallsAreCurrent, Busy
  <2> QED BY <2>5, <2>6, <2>7
<1>3. ASSUME NEW c \in Calls, NEW m \in Managers, Begin(c, m)
      PROVE  CallsAreCurrent' /\ GoneIsForgotten' /\ LeftIsTail'
  <2>1. /\ live' = live /\ turnNo' = turnNo /\ session' = session
        /\ turnEdits' = turnEdits /\ turnAll' = turnAll /\ m \in live
    BY <1>3 DEF Begin, manager
  <2>2. /\ call'[c].state = "checking" /\ call'[c].by = m /\ call'[c].left = Plan[c]
        /\ call'[c].turn = turnNo[m]
        /\ \A d \in Calls \ {c} : call'[d] = call[d]
    BY <1>c, <1>3 DEF Begin, Idle
  <2>3. Plan[c] # <<>> /\ Len(Plan[c]) \in Nat
    BY LenProperties
  <2>4. GoneIsForgotten'
    BY <2>1 DEF GoneIsForgotten
  <2>5. LeftIsTail'
    <3>1. \A i \in 1..Len(Plan[c]) : Len(Plan[c]) - Len(Plan[c]) + i = i
      BY <2>3
    <3>2. /\ Len(call'[c].left) <= Len(Plan[c])
          /\ \A i \in 1..Len(call'[c].left) :
                call'[c].left[i] = Plan[c][Len(Plan[c]) - Len(call'[c].left) + i]
      BY <2>2, <2>3, <3>1
    <3> SUFFICES ASSUME NEW d \in Calls, d # c, Busy(d)' \/ call'[d].state = "granted"
                 PROVE  /\ Len(call'[d].left) <= Len(Plan[d])
                        /\ \A i \in 1..Len(call'[d].left) :
                              call'[d].left[i]
                                = Plan[d][Len(Plan[d]) - Len(call'[d].left) + i]
      BY <3>2 DEF LeftIsTail
    <3>3. call'[d] = call[d]
      BY <2>2
    <3> QED BY <3>3 DEF LeftIsTail, Busy
  <2>6. CallsAreCurrent'
    BY <2>1, <2>2, <2>3 DEF CallsAreCurrent, Busy
  <2> QED BY <2>4, <2>5, <2>6
<1>4. CASE UNCHANGED vars
  BY ZenonT(60), <1>4 DEF vars, manager, CallsAreCurrent, GoneIsForgotten, LeftIsTail,
                          Busy
<1> QED BY <1>1, <1>2, <1>3, <1>4 DEF Next, Opens, CallStep

-----------------------------------------------------------------------------
\* What people allowed stays allowed: the approvals only grow.
LEMMA ApprovalsGrow ==
    ASSUME [Next]_vars
    PROVE  /\ approvals \subseteq approvals'
           /\ \A s : AllowedAlways(s) => AllowedAlways(s)'
           /\ \A m, t, r : Covered(m, t, r) => Covered(m, t, r)'
<1>1. approvals \subseteq approvals'
  BY ZenonT(60) DEF Next, Open, OpenUnreadable, OpenWith, NextTurn, Leave, Begin,
     Check, AllowOnce, DenyOnce,
     DenyWithFeedback, PromptFails, AllowTurn, DecideAlways, Snapshot, Replace,
     WriteFails, Remember, history, vars
<1>2. \A s : AllowedAlways(s) => AllowedAlways(s)'
  BY <1>1 DEF AllowedAlways
<1>3. \A m, t, r : Covered(m, t, r) => Covered(m, t, r)'
  BY <1>1 DEF Covered
<1> QED BY <1>1, <1>2, <1>3

\* An approval for ever covers every turn, one for all managers each of them.
LEMMA WiderPermissions ==
    ASSUME NEW m, NEW t, NEW r
    PROVE  /\ Covered(m, Forever, r) => Covered(m, t, r)
           /\ AllowedAlways(ScopeOf[r]) => Covered(m, t, r)
BY DEF Covered, AllowedAlways

\* What a manager allows, a person allowed it.
LEMMA AllowedIsCovered ==
    ASSUME PermissionsAreGiven, NEW m \in Managers, NEW r \in Resources, IsAllowed(m, r)
    PROVE  Covered(m, turnNo[m], r)
<1>1. CASE r \in session[m].allowed
  BY <1>1, WiderPermissions DEF PermissionsAreGiven
<1>2. CASE ScopeOf[r] \in always[m].allowed
  BY <1>2, WiderPermissions DEF PermissionsAreGiven
<1>3. CASE KindOf[r] = "edit" /\ (turnAll[m] \/ r \in turnEdits[m])
  BY <1>3 DEF PermissionsAreGiven
<1> QED BY <1>1, <1>2, <1>3 DEF IsAllowed

\* A step of a call adds to the permissions of its manager only what a person
\* allows in the same step.
LEMMA PermissionsGained ==
    ASSUME TypeOK, CallsAreCurrent, NEW c \in Calls, CallStep(c),
           NEW m \in Managers, m = call[c].by, NEW r \in Resources, r = Wanted(c)
    PROVE  /\ \A q \in session'[m].allowed :
                 q \in session[m].allowed \/ Covered(m, Forever, q)'
           /\ \A s \in always'[m].allowed :
                 s \in always[m].allowed \/ AllowedAlways(s)'
           /\ \A q \in turnEdits'[m] :
                 q \in turnEdits[m] \/ Covered(m, turnNo[m], q)'
           /\ turnAll'[m] => turnAll[m] \/ \A q \in Resources :
                 KindOf[q] = "edit" => Covered(m, turnNo[m], q)'
<1>2. /\ session \in [Managers -> Sides(Resources)]
      /\ always \in [Managers -> Sides(Scopes)]
      /\ turnEdits \in [Managers -> SUBSET Resources]
      /\ turnAll \in [Managers -> BOOLEAN]
  BY DEF TypeOK
<1>3. CASE AllowOnce(c)
  <2>1. /\ session' = [session EXCEPT ![m].allowed = @ \cup {r}]
        /\ approvals' = approvals \cup
              {[by |-> m, scope |-> r, turn |-> Forever, always |-> FALSE]}
        /\ always' = always /\ turnEdits' = turnEdits /\ turnAll' = turnAll
    BY <1>3 DEF AllowOnce, Remember
  <2>2. session'[m].allowed = session[m].allowed \cup {r}
    BY <1>2, <2>1 DEF Sides
  <2>3. Covered(m, Forever, r)'
    <3> DEFINE a == [by |-> m, scope |-> r, turn |-> Forever, always |-> FALSE]
    <3>1. a \in approvals' /\ a.by = m /\ a.turn = Forever /\ a.scope = r
      BY <2>1
    <3> HIDE DEF a
    <3> QED BY <3>1 DEF Covered
  <2> QED BY <2>1, <2>2, <2>3
<1>4. ASSUME NEW flag \in BOOLEAN, AllowTurn(c, flag)
      PROVE  /\ session' = session /\ always' = always
             /\ \A q \in turnEdits'[m] :
                   q \in turnEdits[m] \/ Covered(m, turnNo[m], q)'
             /\ turnAll'[m] => turnAll[m] \/ \A q \in Resources :
                   KindOf[q] = "edit" => Covered(m, turnNo[m], q)'
  <2>1. /\ session' = session /\ always' = always /\ turnNo' = turnNo
        /\ turnEdits' = [turnEdits EXCEPT ![m] = IF flag THEN @ ELSE @ \cup {r}]
        /\ turnAll' = [turnAll EXCEPT ![m] = @ \/ flag]
        /\ approvals' = approvals \cup
              {[by |-> m, scope |-> IF flag THEN "edits" ELSE r, turn |-> turnNo[m],
                always |-> FALSE]}
    BY <1>4 DEF AllowTurn, Remember
  <2>2. CASE flag
    <3>1. \A q \in Resources : KindOf[q] = "edit" => Covered(m, turnNo[m], q)'
      BY <2>1, <2>2 DEF Covered
    <3>2. turnEdits'[m] = turnEdits[m]
      BY <1>2, <2>1, <2>2
    <3> QED BY <2>1, <3>1, <3>2
  <2>3. CASE ~flag
    <3>1. Covered(m, turnNo[m], r)'
      <4> DEFINE a == [by |-> m, scope |-> r, turn |-> turnNo[m], always |-> FALSE]
      <4>1. a \in approvals' /\ a.by = m /\ a.turn = turnNo'[m] /\ a.scope = r
        BY <2>1, <2>3
      <4> HIDE DEF a
      <4> QED BY <4>1 DEF Covered
    <3>2. turnEdits'[m] = turnEdits[m] \cup {r} /\ turnAll'[m] = turnAll[m]
      BY <1>2, <2>1, <2>3
    <3> QED BY <2>1, <3>1, <3>2
  <2> QED BY <2>2, <2>3
<1>5. CASE DenyOnce(c)
  <2>1. /\ session' = [session EXCEPT ![m].denied = @ \cup {r}]
        /\ always' = always /\ turnEdits' = turnEdits /\ turnAll' = turnAll
    BY <1>5 DEF DenyOnce
  <2>2. session'[m].allowed = session[m].allowed
    BY <1>2, <2>1 DEF Sides
  <2> QED BY <2>1, <2>2
<1>6. ASSUME NEW flag \in BOOLEAN, DecideAlways(c, flag)
      PROVE  /\ session' = session /\ turnEdits' = turnEdits /\ turnAll' = turnAll
             /\ \A s \in always'[m].allowed :
                   s \in always[m].allowed \/ AllowedAlways(s)'
  <2>1. session' = session /\ turnEdits' = turnEdits /\ turnAll' = turnAll
    BY <1>6 DEF DecideAlways
  <2>2. CASE flag
    <3>1. /\ always' = [always EXCEPT ![m].allowed = @ \cup {ScopeOf[r]}]
          /\ approvals' = approvals \cup
                {[by |-> m, scope |-> ScopeOf[r], turn |-> Forever, always |-> TRUE]}
      BY <1>6, <2>2 DEF DecideAlways, Remember
    <3>2. always'[m].allowed = always[m].allowed \cup {ScopeOf[r]}
      BY <1>2, <3>1 DEF Sides
    <3>3. AllowedAlways(ScopeOf[r])'
      <4> DEFINE a == [by |-> m, scope |-> ScopeOf[r], turn |-> Forever, always |-> TRUE]
      <4>1. a \in approvals' /\ a.scope = ScopeOf[r] /\ a.always /\ a.turn = Forever
        BY <3>1
      <4> HIDE DEF a
      <4> QED BY <4>1 DEF AllowedAlways
    <3> QED BY <2>1, <3>2, <3>3
  <2>3. CASE ~flag
    <3>1. always' = [always EXCEPT ![m].denied = @ \cup {ScopeOf[r]}]
      BY <1>6, <2>3 DEF DecideAlways
    <3>2. always'[m].allowed = always[m].allowed
      BY <1>2, <3>1 DEF Sides
    <3> QED BY <2>1, <3>2
  <2> QED BY <2>2, <2>3
<1>7. CASE \/ Check(c) \/ DenyWithFeedback(c) \/ PromptFails(c) \/ Snapshot(c)
           \/ Replace(c) \/ WriteFails(c)
  <2>1. /\ session' = session /\ always' = always /\ turnEdits' = turnEdits
        /\ turnAll' = turnAll
    BY <1>7 DEF Check, DenyWithFeedback, PromptFails, Snapshot, Replace, WriteFails,
                manager
  <2> QED BY <2>1
<1> QED BY <1>3, <1>4, <1>5, <1>6, <1>7 DEF CallStep

\* A check is passed with what the manager allows, or with the answer to it.
LEMMA PassedIsCovered ==
    ASSUME TypeOK, CallsAreCurrent, PermissionsAreGiven, NEW c \in Calls, CallStep(c),
           call'[c].state \in {"checking", "granted"},
           NEW m \in Managers, m = call[c].by, NEW r \in Resources, r = Wanted(c)
    PROVE  Covered(m, turnNo[m], r)'
<1>1. /\ call \in [Calls -> CallRecord] /\ call[c] \in CallRecord
      /\ approvals \subseteq approvals' /\ turnNo' = turnNo
      /\ \A t : Covered(m, t, r) => Covered(m, t, r)'
  BY CallStepShape, AtWork, ApprovalsGrow DEF Next, CallStep
<1>2. Covered(m, turnNo[m], r) => Covered(m, turnNo[m], r)'
  BY <1>1 DEF Covered
<1>3. CASE Check(c)
  <2>1. CASE IsAllowed(m, r)
    BY <1>2, <2>1, AllowedIsCovered
  <2>2. CASE ~IsAllowed(m, r)
    <3>1. call'[c].state \in {"refused", "asking"}
      BY <1>1, <1>3, <2>2 DEF Check, Stops, Asks, Refused, Idle, CallRecord
    <3> QED BY <3>1
  <2> QED BY <2>1, <2>2
<1>4. CASE AllowOnce(c)
  <2> DEFINE a == [by |-> m, scope |-> r, turn |-> Forever, always |-> FALSE]
  <2>1. a \in approvals' /\ a.by = m /\ a.turn = Forever /\ a.scope = r
    BY <1>4 DEF AllowOnce, Remember
  <2> HIDE DEF a
  <2> QED BY <2>1 DEF Covered
<1>5. ASSUME NEW flag \in BOOLEAN, AllowTurn(c, flag) PROVE Covered(m, turnNo[m], r)'
  <2> DEFINE a == [by |-> m, scope |-> IF flag THEN "edits" ELSE r, turn |-> turnNo[m],
                   always |-> FALSE]
  <2>1. /\ a \in approvals' /\ a.by = m /\ a.turn = turnNo'[m]
        /\ a.scope = IF flag THEN "edits" ELSE r
    BY <1>1, <1>5 DEF AllowTurn, Remember
  <2>2. KindOf[r] = "edit"
    BY <1>5 DEF AllowTurn
  <2> HIDE DEF a
  <2> QED BY <2>1, <2>2 DEF Covered
<1>6. CASE Replace(c)
  <2>1. CASE call[c].allows
    <3>1. AllowedAlways(ScopeOf[r])
      BY <1>6, <2>1 DEF PermissionsAreGiven, Writing, Replace
    <3> QED BY <1>2, <3>1, WiderPermissions
  <2>2. CASE ~call[c].allows
    <3>1. call'[c].state = "refused"
      BY <1>1, <1>6, <2>2 DEF Replace, Refused, Idle
    <3> QED BY <3>1
  <2> QED BY <2>1, <2>2
<1>7. CASE DenyOnce(c) \/ DenyWithFeedback(c) \/ PromptFails(c) \/ WriteFails(c)
  <2>1. call'[c].state = "refused"
    BY <1>1, <1>7 DEF DenyOnce, DenyWithFeedback, PromptFails, WriteFails, Refused, Idle
  <2> QED BY <2>1
<1>8. CASE Snapshot(c)
  <2>1. call'[c].state = "replacing"
    BY <1>1, <1>8 DEF Snapshot, CallRecord
  <2> QED BY <2>1
<1>9. ASSUME NEW flag \in BOOLEAN, DecideAlways(c, flag) PROVE FALSE
  <2>1. call'[c].state = "persisting"
    BY <1>1, <1>9 DEF DecideAlways, CallRecord
  <2> QED BY <2>1
<1> QED BY <1>3, <1>4, <1>5, <1>6, <1>7, <1>8, <1>9 DEF CallStep

\* What a save under way is about, and what it takes with it.
LEMMA SavesAreGiven ==
    ASSUME TypeOK, CallsAreCurrent, PermissionsAreGiven, NEW c \in Calls, CallStep(c),
           NEW m \in Managers, m = call[c].by, NEW r \in Resources, r = Wanted(c)
    PROVE  /\ \A s \in call'[c].snapshot.allowed : AllowedAlways(s)
           /\ Writing(c)' /\ call'[c].allows => AllowedAlways(ScopeOf[r])'
           /\ \A s \in store'.allowed : AllowedAlways(s)
<1>1. call \in [Calls -> CallRecord] /\ call[c] \in CallRecord
  BY CallStepShape, AtWork
<1>2. \A s : AllowedAlways(s) => AllowedAlways(s)'
  BY ApprovalsGrow DEF Next, CallStep
<1>3. /\ \A s \in call[c].snapshot.allowed : AllowedAlways(s)
      /\ Writing(c) /\ call[c].allows => AllowedAlways(ScopeOf[r])
      /\ \A s \in store.allowed : AllowedAlways(s)
      /\ \A s \in always[m].allowed : AllowedAlways(s)
  BY DEF PermissionsAreGiven
<1>4. CASE Snapshot(c)
  <2>1. /\ call'[c].snapshot = always[m] /\ call'[c].allows = call[c].allows
        /\ Writing(c) /\ store' = store
    BY <1>1, <1>4 DEF Snapshot, CallRecord, Writing
  <2> QED BY <1>2, <1>3, <2>1
<1>5. ASSUME NEW flag \in BOOLEAN, DecideAlways(c, flag)
      PROVE  /\ call'[c].snapshot = call[c].snapshot /\ store' = store
             /\ call'[c].allows => AllowedAlways(ScopeOf[r])'
  <2>1. /\ call'[c].snapshot = call[c].snapshot /\ call'[c].allows = flag
        /\ store' = store
    BY <1>1, <1>5 DEF DecideAlways, CallRecord
  <2>2. CASE flag
    <3> DEFINE a == [by |-> m, scope |-> ScopeOf[r], turn |-> Forever, always |-> TRUE]
    <3>1. a \in approvals' /\ a.scope = ScopeOf[r] /\ a.always /\ a.turn = Forever
      BY <1>5, <2>2 DEF DecideAlways, Remember
    <3> HIDE DEF a
    <3>2. AllowedAlways(ScopeOf[r])'
      BY <3>1 DEF AllowedAlways
    <3> QED BY <2>1, <3>2
  <2> QED BY <2>1, <2>2
<1>6. CASE PassesCheck(c) \/ call' = Refused(c)
  <2>1. call'[c].snapshot \in {call[c].snapshot, Nothing} /\ ~Writing(c)'
    <3>1. CASE PassesCheck(c)
      <4>1. PICK s \in {call[c].snapshot, Nothing} :
               call' = [call EXCEPT ![c] = Passed([call[c] EXCEPT !.snapshot = s])]
        BY <3>1 DEF PassesCheck
      <4> DEFINE now == [call[c] EXCEPT !.snapshot = s]
      <4>2. now \in CallRecord /\ now.left # <<>> /\ now.snapshot = s
        BY <1>1, CallStepShape, AtWork, IdleType DEF CallRecord
      <4>3. call'[c] = Passed(now)
        BY <1>1, <4>1 DEF now
      <4> HIDE DEF now
      <4> QED BY <4>1, <4>2, <4>3, PassedProperties DEF Writing
    <3>2. CASE call' = Refused(c)
      BY <1>1, <3>2 DEF Refused, Idle, Writing
    <3> QED BY <1>6, <3>1, <3>2
  <2>2. store' = store \/ store' = call[c].snapshot
    BY DEF CallStep, Check, AllowOnce, DenyOnce, DenyWithFeedback, PromptFails,
       AllowTurn, DecideAlways, Snapshot, Replace, WriteFails
  <2>3. \A s \in Nothing.allowed : FALSE
    BY DEF Nothing
  <2> QED BY <1>3, <2>1, <2>2, <2>3
<1>7. CASE Check(c) /\ call' = [call EXCEPT ![c].state = "asking"]
  <2>1. /\ call'[c].snapshot = call[c].snapshot /\ ~Writing(c)' /\ store' = store
    BY <1>1, <1>7 DEF Check, CallRecord, Writing
  <2> QED BY <1>3, <2>1
<1>8. \/ PassesCheck(c) \/ call' = Refused(c)
      \/ Snapshot(c) \/ \E flag \in BOOLEAN : DecideAlways(c, flag)
      \/ Check(c) /\ call' = [call EXCEPT ![c].state = "asking"]
  <2>1. /\ call' = [call EXCEPT ![c] = Passed(@)] => PassesCheck(c)
        /\ call' = [call EXCEPT ![c] = Passed([@ EXCEPT !.snapshot = Nothing])]
              => PassesCheck(c)
    BY <1>1, CallShapes
  <2> QED BY <2>1 DEF CallStep, Check, Proceeds, Stops, Asks, AllowOnce, DenyOnce,
             DenyWithFeedback, PromptFails, AllowTurn, Replace, WriteFails
<1> QED BY <1>2, <1>3, <1>4, <1>5, <1>6, <1>7, <1>8

\* Permissions of managers, of the file, of saves under way and of the checks
\* passed stay what people gave.
LEMMA NextPermissionsAreGiven ==
    GateInv /\ [Next]_vars => PermissionsAreGiven'
<1> SUFFICES ASSUME TypeOK, CallsAreCurrent, GoneIsForgotten, LeftIsTail,
                    PermissionsAreGiven, [Next]_vars
             PROVE  PermissionsAreGiven'
  BY DEF GateInv
<1> USE ToolGateAssumption
<1>c. call \in [Calls -> CallRecord] /\ live \subseteq Managers
  BY DEF TypeOK, CallRecord
<1>g. /\ \A s : AllowedAlways(s) => AllowedAlways(s)'
      /\ \A m, t, r : Covered(m, t, r) => Covered(m, t, r)'
  BY ApprovalsGrow
<1>a. approvals \subseteq approvals'
  BY ApprovalsGrow
<1> DEFINE
      Held(m) ==
          /\ \A r \in session[m].allowed : Covered(m, Forever, r)
          /\ \A s \in always[m].allowed : AllowedAlways(s)
          /\ \A r \in turnEdits[m] : Covered(m, turnNo[m], r)
          /\ turnAll[m] => \A r \in Resources :
                              KindOf[r] = "edit" => Covered(m, turnNo[m], r)
      Given(d) ==
          /\ \A s \in call[d].snapshot.allowed : AllowedAlways(s)
          /\ Writing(d) /\ call[d].allows => AllowedAlways(ScopeOf[Wanted(d)])
          /\ Busy(d) \/ call[d].state = "granted" =>
                \A i \in Done(d) : Covered(call[d].by, call[d].turn, Plan[d][i])
<1>0. /\ \A m \in Managers : Held(m)
      /\ \A s \in store.allowed : AllowedAlways(s)
      /\ \A d \in Calls : Given(d)
  BY DEF PermissionsAreGiven
<1>p. SUFFICES /\ \A m \in Managers : Held(m)'
               /\ \A s \in store'.allowed : AllowedAlways(s)'
               /\ \A d \in Calls : Given(d)'
  BY DEF PermissionsAreGiven
<1>h. \A m \in Managers :
         /\ session'[m].allowed \subseteq session[m].allowed
         /\ always'[m].allowed \subseteq always[m].allowed
         /\ turnEdits'[m] \subseteq turnEdits[m] /\ (turnAll'[m] => turnAll[m])
         /\ turnNo'[m] = turnNo[m]
         => Held(m)'
  <2> SUFFICES ASSUME NEW m \in Managers,
                      session'[m].allowed \subseteq session[m].allowed,
                      always'[m].allowed \subseteq always[m].allowed,
                      turnEdits'[m] \subseteq turnEdits[m], turnAll'[m] => turnAll[m],
                      turnNo'[m] = turnNo[m]
               PROVE  Held(m)'
    OBVIOUS
  <2>1. Held(m)
    BY <1>0
  <2>2. \A r : Covered(m, turnNo[m], r) => Covered(m, turnNo[m], r)'
    BY <1>a DEF Covered
  <2>3. \A r : Covered(m, Forever, r) => Covered(m, Forever, r)'
    BY <1>a DEF Forever, Covered
  <2> QED BY <1>g, <2>1, <2>2, <2>3
<1>k. \A d \in Calls : call'[d] = call[d] => Given(d)'
  <2> SUFFICES ASSUME NEW d \in Calls, call'[d] = call[d] PROVE Given(d)'
    OBVIOUS
  <2>1. Given(d)
    BY <1>0
  <2>2. /\ Writing(d)' <=> Writing(d)
        /\ Busy(d)' <=> Busy(d)
        /\ Wanted(d)' = Wanted(d) /\ Done(d)' = Done(d)
    BY DEF Writing, Busy, Wanted, Done
  <2>3. \A i : Covered(call[d].by, call[d].turn, Plan[d][i])
           => Covered(call[d].by, call[d].turn, Plan[d][i])'
    BY <1>a DEF Covered
  <2>4. AllowedAlways(ScopeOf[Wanted(d)]) => AllowedAlways(ScopeOf[Wanted(d)])'
    BY <1>g, <2>2 DEF AllowedAlways
  <2> QED BY <1>g, <2>1, <2>2, <2>3, <2>4
<1> HIDE DEF Held, Given
<1>1. ASSUME NEW c \in Calls, CallStep(c)
      PROVE  /\ \A m \in Managers : Held(m)'
             /\ \A s \in store'.allowed : AllowedAlways(s)'
             /\ \A d \in Calls : Given(d)'
  <2>0. PICK m \in Managers, r \in Resources : m = call[c].by /\ r = Wanted(c)
    BY <1>1, CallStepShape, AtWork
  <2>a. /\ turnNo' = turnNo /\ call[c].turn = turnNo[m] /\ Busy(c)
        /\ call[c].left # <<>>
    BY <1>1, <2>0, CallStepShape, AtWork
  <2>1. \A n \in Managers \ {m} : Held(n)'
    BY ZenonT(60), <1>1, <1>h, <2>0, <2>a, CallStepIsLocal
  <2>2. Held(m)'
    <3>1. Held(m)
      BY <1>0
    <3>2. \A q : Covered(m, turnNo[m], q) => Covered(m, turnNo[m], q)'
      BY <1>a, <2>a DEF Covered
    <3>3. \A q : Covered(m, Forever, q) => Covered(m, Forever, q)'
      BY <1>a DEF Forever, Covered
    <3>4. /\ \A q \in session'[m].allowed :
                q \in session[m].allowed \/ Covered(m, Forever, q)'
          /\ \A s \in always'[m].allowed :
                s \in always[m].allowed \/ AllowedAlways(s)'
          /\ \A q \in turnEdits'[m] :
                q \in turnEdits[m] \/ Covered(m, turnNo[m], q)'
          /\ turnAll'[m] => turnAll[m] \/ \A q \in Resources :
                KindOf[q] = "edit" => Covered(m, turnNo[m], q)'
      BY <1>1, <2>0, PermissionsGained
    <3> QED BY <1>g, <3>1, <3>2, <3>3, <3>4 DEF Held
  <2>3. \A s \in store'.allowed : AllowedAlways(s)'
    BY <1>1, <1>g, <2>0, SavesAreGiven
  <2>4. Given(c)'
    <3>1. \A s \in call'[c].snapshot.allowed : AllowedAlways(s)'
      BY <1>1, <1>g, <2>0, SavesAreGiven
    <3>2. Writing(c)' /\ call'[c].allows => AllowedAlways(ScopeOf[Wanted(c)])'
      <4>1. ASSUME Writing(c)' PROVE call'[c].left = call[c].left
        BY <1>1, <4>1, CallEffect DEF Writing
      <4>2. ASSUME Writing(c)' PROVE Wanted(c)' = r
        BY <2>0, <4>1, <4>2 DEF Wanted
      <4>3. Writing(c)' /\ call'[c].allows => AllowedAlways(ScopeOf[r])'
        BY <1>1, <2>0, SavesAreGiven
      <4> QED BY <4>2, <4>3 DEF AllowedAlways
    <3>3. ASSUME Busy(c)' \/ call'[c].state = "granted", NEW i \in Done(c)'
          PROVE  Covered(call[c].by, call[c].turn, Plan[c][i])'
      <4>1. /\ call'[c].by = m /\ call'[c].turn = turnNo[m]
            /\ \/ i \in Done(c)
               \/ call'[c].state \in {"granted", "checking"} /\ Plan[c][i] = r
        <5>1. call'[c].left = call[c].left => Done(c)' = Done(c)
          BY DEF Done
        <5> QED BY <1>1, <2>0, <2>a, <3>3, <5>1, CallEffect DEF Busy
      <4>2. CASE i \in Done(c)
        <5>1. Covered(m, turnNo[m], Plan[c][i])
          BY <1>0, <2>0, <2>a, <4>2 DEF Given
        <5> QED BY <1>a, <2>a, <4>1, <5>1 DEF Covered
      <4>3. CASE call'[c].state \in {"granted", "checking"} /\ Plan[c][i] = r
        <5>1. Covered(m, turnNo[m], r)'
          BY <1>1, <2>0, <4>3, PassedIsCovered
        <5> QED BY <2>a, <4>1, <4>3, <5>1 DEF Covered
      <4> QED BY <4>1, <4>2, <4>3
    <3> QED BY <3>1, <3>2, <3>3 DEF Given
  <2>5. \A d \in Calls : Given(d)'
    BY <1>1, <1>k, <2>4, CallEffect
  <2> QED BY <2>1, <2>2, <2>3, <2>5
<1>2. ASSUME NEW m \in Managers, Opens(m) \/ NextTurn(m) \/ Leave(m)
      PROVE  /\ \A n \in Managers : Held(n)'
             /\ \A s \in store'.allowed : AllowedAlways(s)'
             /\ \A d \in Calls : Given(d)'
  <2>1. call' = call /\ store' = store
    BY <1>2 DEF Opens, Open, OpenUnreadable, OpenWith, NextTurn, Leave
  <2>2. \A n \in Managers \ {m} : Held(n)'
    BY ZenonT(60), <1>2, <1>h DEF Opens, Open, OpenUnreadable, OpenWith, NextTurn, Leave, TypeOK
  <2>3. Held(m)
    BY <1>0
  <2>4. CASE Opens(m)
    <3>0. PICK loaded \in Sides(Scopes) : loaded \in {store, Nothing} /\ OpenWith(m, loaded)
      BY <2>4, OpensWithSomething
    <3>1. /\ always'[m] \in {store, Nothing} /\ session'[m] = session[m]
          /\ turnEdits'[m] = {} /\ ~turnAll'[m] /\ Nothing.allowed = {}
      BY <3>0 DEF OpenWith, TypeOK, GoneIsForgotten, Nothing
    <3>2. \A q : Covered(m, Forever, q) => Covered(m, Forever, q)'
      BY <1>a DEF Forever, Covered
    <3> QED BY <1>0, <1>g, <2>1, <2>2, <2>3, <3>1, <3>2, <1>k DEF Held
  <2>5. CASE NextTurn(m)
    <3>1. /\ always'[m] = always[m] /\ session'[m] = session[m]
          /\ turnEdits'[m] = {} /\ ~turnAll'[m]
      BY <2>5 DEF NextTurn, TypeOK
    <3>2. \A q : Covered(m, Forever, q) => Covered(m, Forever, q)'
      BY <1>a DEF Forever, Covered
    <3> QED BY <1>0, <1>g, <2>1, <2>2, <2>3, <3>1, <3>2, <1>k DEF Held
  <2>6. CASE Leave(m)
    <3>1. /\ always'[m] = Nothing /\ session'[m] = Nothing
          /\ turnEdits'[m] = {} /\ ~turnAll'[m]
      BY <2>6 DEF Leave, TypeOK
    <3> QED BY <1>0, <1>g, <2>1, <2>2, <3>1, <1>k DEF Held, Nothing
  <2> QED BY <1>2, <2>4, <2>5, <2>6
<1>3. ASSUME NEW c \in Calls, NEW m \in Managers, Begin(c, m)
      PROVE  /\ \A n \in Managers : Held(n)'
             /\ \A s \in store'.allowed : AllowedAlways(s)'
             /\ \A d \in Calls : Given(d)'
  <2>1. \A n \in Managers : Held(n)'
    BY <1>3, <1>h DEF Begin, manager
  <2>2. store' = store
    BY <1>3 DEF Begin
  <2>3. Given(c)'
    <3>1. /\ call'[c].state = "checking" /\ call'[c].left = Plan[c]
          /\ call'[c].snapshot = Nothing
      BY <1>c, <1>3 DEF Begin, Idle
    <3>2. Done(c)' = {}
      <4>1. Len(Plan[c]) \in Nat /\ DOMAIN Plan[c] = 1..Len(Plan[c])
        BY LenProperties
      <4> QED BY <3>1, <4>1 DEF Done
    <3> QED BY <3>1, <3>2 DEF Given, Nothing, Writing
  <2>4. \A d \in Calls \ {c} : call'[d] = call[d]
    BY <1>c, <1>3 DEF Begin
  <2> QED BY <1>0, <1>g, <1>k, <2>1, <2>2, <2>3, <2>4
<1>4. CASE UNCHANGED vars
  <2>1. /\ call' = call /\ store' = store /\ session' = session /\ always' = always
        /\ turnEdits' = turnEdits /\ turnAll' = turnAll /\ turnNo' = turnNo
    BY <1>4 DEF vars, manager
  <2> QED BY <1>0, <1>g, <1>h, <1>k, <2>1
<1> QED BY <1>1, <1>2, <1>3, <1>4 DEF Next, Opens, CallStep

\* At the start nothing is allowed, and nobody asks.
LEMMA InitGate ==
    Init => GateInv /\ OneWriter /\ WrittenStays /\ DenialsAreKept
<1> SUFFICES ASSUME Init
             PROVE  GateInv /\ OneWriter /\ WrittenStays /\ DenialsAreKept
  OBVIOUS
<1> USE ToolGateAssumption
<1>1. \A c \in Calls : call[c] = Idle /\ ~Busy(c) /\ ~Writing(c)
                       /\ call[c].state = "idle" /\ call[c].snapshot = Nothing
  BY DEF Init, Idle, Busy, Writing
<1>2. TypeOK
  <2>1. call \in [Calls -> CallRecord]
    BY IdleType DEF Init
  <2>2. 0 \in 0..MaxTurns /\ 0 \in 0..MaxAsks /\ 0 \in 0..MaxFaults
    OBVIOUS
  <2> QED BY <2>1, <2>2, IdleType DEF Init, TypeOK, CallRecord
<1>3. CallsAreCurrent /\ LeftIsTail
  BY <1>1 DEF CallsAreCurrent, LeftIsTail
<1>4. GoneIsForgotten
  BY DEF Init, GoneIsForgotten
<1>5. PermissionsAreGiven
  <2>1. \A s \in Nothing.allowed : FALSE
    BY DEF Nothing
  <2> QED BY <1>1, <2>1 DEF Init, PermissionsAreGiven
<1>6. OneWriter /\ WrittenStays /\ DenialsAreKept
  BY <1>1 DEF Init, OneWriter, WrittenStays, DenialsAreKept
<1> QED BY <1>2, <1>3, <1>4, <1>5, <1>6 DEF GateInv

\* Whatever permission is remembered, held in the file or being written to it, a
\* person gave it, and every check that a call has passed is covered by one.
THEOREM GateInvariant == Spec => []GateInv
<1>1. Init => GateInv
  BY InitGate
<1>2. GateInv /\ [Next]_vars => GateInv'
  BY NextGateTypeOK, NextCallsAreCurrent, NextPermissionsAreGiven DEF GateInv
<1> QED BY <1>1, <1>2, PTL DEF Spec

\* Every variable of the gate keeps its type.
THEOREM GateTypeCorrect == Spec => []TypeOK
<1>1. GateInv => TypeOK
  BY DEF GateInv
<1> QED BY <1>1, GateInvariant, PTL

\* The checks of a granted call are all done.
LEMMA GrantedIsDone ==
    ASSUME CallsAreCurrent, NEW c \in Calls, call[c].state = "granted"
    PROVE  \A i \in DOMAIN Plan[c] : i \in Done(c)
<1>1. /\ DOMAIN Plan[c] = 1..Len(Plan[c]) /\ Len(Plan[c]) \in Nat
      /\ call[c].left = <<>>
  BY ToolGateAssumption, LenProperties DEF CallsAreCurrent
<1>2. Len(call[c].left) = 0
  BY <1>1
<1> QED BY <1>1, <1>2 DEF Done

\* No mix-up of calls, turns or checks makes a permission out of another: what
\* ensure_path_access, ensure_command and ensure_edit let pass was allowed.
THEOREM GrantsAreDecided == Spec => []GrantIsDecided
<1>1. GateInv => GrantIsDecided
  <2> SUFFICES ASSUME GateInv, NEW c \in Calls, NEW r \in Resources, Granted(c, r)
               PROVE  \E a \in approvals :
                         /\ a.by = call[c].by \/ a.always
                         /\ a.turn \in {Forever, call[c].turn}
                         /\ \/ a.scope \in {r, ScopeOf[r]}
                            \/ a.scope = "edits" /\ KindOf[r] = "edit"
    BY DEF GrantIsDecided
  <2>1. PICK i \in DOMAIN Plan[c] : Plan[c][i] = r
    BY DEF Granted
  <2>2. call[c].state = "granted" /\ i \in Done(c)
    BY GrantedIsDone DEF Granted, GateInv
  <2>3. Covered(call[c].by, call[c].turn, r)
    BY <2>1, <2>2 DEF GateInv, PermissionsAreGiven
  <2> QED BY <2>3 DEF Covered
<1> QED BY <1>1, GateInvariant, PTL

-----------------------------------------------------------------------------
\* The steps of a save, and the others, which leave every save and what is
\* decided for always alone.
LEMMA SaveSteps ==
    ASSUME TypeOK, CallsAreCurrent, LeftIsTail, NEW c \in Calls, CallStep(c)
    PROVE  \/ \E flag \in BOOLEAN : DecideAlways(c, flag)
           \/ Snapshot(c)
           \/ Replace(c)
           \/ /\ ~Writing(c)' /\ always' = always /\ store' = store
              /\ lasting' = lasting /\ disturbed' = disturbed
<1>1. call \in [Calls -> CallRecord] /\ call[c] \in CallRecord /\ call[c].left # <<>>
  BY CallStepShape, AtWork
<1>2. ASSUME call' = [call EXCEPT ![c] = Passed(@)] PROVE ~Writing(c)'
  <2>1. call'[c] = Passed(call[c])
    BY <1>1, <1>2
  <2> QED BY <1>1, <2>1, PassedProperties DEF Writing
<1>3. ASSUME call' = Refused(c) PROVE ~Writing(c)'
  BY <1>1, <1>3 DEF Refused, Idle, Writing
<1>4. ASSUME call' = [call EXCEPT ![c].state = "asking"] PROVE ~Writing(c)'
  BY <1>1, <1>4 DEF CallRecord, Writing
<1> QED BY <1>2, <1>3, <1>4 DEF CallStep, Check, Proceeds, Stops, Asks, AllowOnce,
           DenyOnce, DenyWithFeedback, PromptFails, AllowTurn, WriteFails, manager,
           history

\* Without a race a save holds what the manager knows, and the manager what
\* the file holds; so no decision that was written is written over.
LEMMA NextOneWriter ==
    ASSUME TypeOK, CallsAreCurrent, LeftIsTail, OneWriter, WrittenStays, [Next]_vars
    PROVE  OneWriter' /\ WrittenStays'
<1>r. ~disturbed' => ~disturbed
  BY ZenonT(60) DEF Next, Open, OpenUnreadable, OpenWith, NextTurn, Leave, Begin,
     Check, AllowOnce, DenyOnce,
     DenyWithFeedback, PromptFails, AllowTurn, DecideAlways, Snapshot, Replace,
     WriteFails, vars, TypeOK
<1> SUFFICES ASSUME ~disturbed', ~disturbed PROVE OneWriter' /\ WrittenStays'
  BY <1>r DEF OneWriter, WrittenStays
<1>a. /\ \A m, n \in live : m = n
      /\ \A c, d \in Calls : Writing(c) /\ Writing(d) => c = d
      /\ \A m \in live : /\ store.allowed \subseteq always[m].allowed
                         /\ store.denied \subseteq always[m].denied
      /\ \A c \in Calls :
            /\ call[c].state = "replacing" => call[c].snapshot = always[call[c].by]
            /\ Writing(c) => ScopeOf[Wanted(c)] \in
                  (IF call[c].allows THEN always[call[c].by].allowed
                   ELSE always[call[c].by].denied)
  BY DEF OneWriter
<1>b. lasting.allowed \subseteq store.allowed /\ lasting.denied \subseteq store.denied
  BY DEF WrittenStays
<1>c. call \in [Calls -> CallRecord] /\ live \subseteq Managers
  BY DEF TypeOK, CallRecord
<1>w. \A d \in Calls : Writing(d) => call[d].by \in live
  BY DEF Writing, Busy, CallsAreCurrent
<1>1. ASSUME NEW c \in Calls, CallStep(c) PROVE OneWriter' /\ WrittenStays'
  <2>1. PICK m \in Managers, r \in Resources : m = call[c].by /\ r = Wanted(c)
    BY <1>1, CallStepShape, AtWork
  <2>2. m \in live /\ live' = live /\ \A d \in Calls \ {c} : call'[d] = call[d]
    BY <1>1, <2>1, CallStepShape, AtWork, CallEffect
  <2>3. \A d \in Calls \ {c} : /\ Writing(d)' <=> Writing(d)
                               /\ Wanted(d)' = Wanted(d)
    BY <2>2 DEF Writing, Wanted
  <2>4. ASSUME NEW flag \in BOOLEAN, DecideAlways(c, flag)
        PROVE  OneWriter' /\ WrittenStays'
    <3>1. \A d \in Calls : ~Writing(d)
      BY <1>a, <1>w, <2>1, <2>2, <2>4 DEF DecideAlways, Writing
    <3>2. /\ store' = store /\ lasting' = lasting
          /\ call'[c].state = "persisting" /\ call'[c].allows = flag
          /\ call'[c].by = m /\ call'[c].left = call[c].left
      BY <1>c, <2>1, <2>4 DEF DecideAlways, CallRecord
    <3>3. /\ always[m].allowed \subseteq always'[m].allowed
          /\ always[m].denied \subseteq always'[m].denied
          /\ ScopeOf[r] \in (IF flag THEN always'[m].allowed ELSE always'[m].denied)
      <4>1. always \in [Managers -> Sides(Scopes)]
        BY DEF TypeOK
      <4>2. CASE flag
        <5>1. always' = [always EXCEPT ![m].allowed = @ \cup {ScopeOf[r]}]
          BY <2>1, <2>4, <4>2 DEF DecideAlways
        <5> QED BY <4>1, <4>2, <5>1 DEF Sides
      <4>3. CASE ~flag
        <5>1. always' = [always EXCEPT ![m].denied = @ \cup {ScopeOf[r]}]
          BY <2>1, <2>4, <4>3 DEF DecideAlways
        <5> QED BY <4>1, <4>3, <5>1 DEF Sides
      <4> QED BY <4>2, <4>3
    <3>4. Wanted(c)' = r /\ \A n \in live : n = m
      BY <1>a, <2>1, <2>2, <3>2 DEF Wanted
    <3>5. WrittenStays'
      BY <1>b, <3>2 DEF WrittenStays
    <3>6. \A d \in Calls : Writing(d)' => d = c
      BY <2>3, <3>1
    <3>7. \A n \in live' : /\ store'.allowed \subseteq always'[n].allowed
                           /\ store'.denied \subseteq always'[n].denied
      BY <1>a, <2>2, <3>2, <3>3, <3>4
    <3>8. \A d \in Calls :
            /\ call'[d].state = "replacing" => call'[d].snapshot = always'[call'[d].by]
            /\ Writing(d)' => ScopeOf[Wanted(d)'] \in
                  (IF call'[d].allows THEN always'[call'[d].by].allowed
                   ELSE always'[call'[d].by].denied)
      BY <3>2, <3>3, <3>4, <3>6 DEF Writing
    <3> QED BY <1>a, <2>2, <3>5, <3>6, <3>7, <3>8 DEF OneWriter
  <2>5. CASE Snapshot(c)
    <3>1. /\ store' = store /\ lasting' = lasting /\ always' = always /\ Writing(c)
          /\ call'[c].snapshot = always[m] /\ call'[c].by = m
          /\ call'[c].allows = call[c].allows /\ call'[c].left = call[c].left
      BY <1>c, <2>1, <2>5 DEF Snapshot, CallRecord, manager, history, Writing
    <3>2. Wanted(c)' = Wanted(c)
      BY <3>1 DEF Wanted
    <3>3. \A d \in Calls : Writing(d)' => d = c
      BY <1>a, <2>3, <3>1
    <3>4. WrittenStays'
      BY <1>b, <3>1 DEF WrittenStays
    <3>5. \A d \in Calls :
            /\ call'[d].state = "replacing" => call'[d].snapshot = always'[call'[d].by]
            /\ Writing(d)' => ScopeOf[Wanted(d)'] \in
                  (IF call'[d].allows THEN always'[call'[d].by].allowed
                   ELSE always'[call'[d].by].denied)
      BY <1>a, <2>1, <3>1, <3>2, <3>3 DEF Writing
    <3> QED BY <1>a, <2>2, <3>1, <3>3, <3>4, <3>5 DEF OneWriter
  <2>6. CASE Replace(c)
    <3>1. /\ Writing(c) /\ store' = always[m] /\ always' = always
          /\ call[c].state = "replacing"
      BY <1>a, <2>1, <2>6 DEF Replace, Writing, manager
    <3>2. ~Writing(c)'
      <4>1. call[c].left # <<>> /\ call[c] \in CallRecord
        BY <1>1, CallStepShape, AtWork
      <4>2. CASE call[c].allows
        <5> DEFINE now == [call[c] EXCEPT !.snapshot = Nothing]
        <5>1. now \in CallRecord /\ now.left # <<>>
          BY <4>1, IdleType DEF CallRecord
        <5>2. call'[c] = Passed(now)
          BY <1>c, <2>6, <4>2 DEF Replace
        <5> HIDE DEF now
        <5> QED BY <5>1, <5>2, PassedProperties DEF Writing
      <4>3. CASE ~call[c].allows
        BY <1>c, <2>6, <4>3 DEF Replace, Refused, Idle, Writing
      <4> QED BY <4>2, <4>3
    <3>3. \A d \in Calls : ~Writing(d)'
      BY <1>a, <2>3, <3>1, <3>2
    <3>4. \A n \in live : n = m
      BY <1>a, <2>2
    <3>5. WrittenStays'
      <4>1. /\ store.allowed \subseteq always[m].allowed
            /\ store.denied \subseteq always[m].denied
        BY <1>a, <2>2
      <4>2. ScopeOf[r] \in (IF call[c].allows THEN always[m].allowed
                            ELSE always[m].denied)
        BY <1>a, <2>1, <3>1
      <4>3. lasting \in [allowed : SUBSET Scopes, denied : SUBSET Scopes]
        BY DEF TypeOK, Sides
      <4>4. CASE call[c].allows
        <5>1. lasting' = [lasting EXCEPT !.allowed = @ \cup {ScopeOf[r]}]
          BY <2>1, <2>6, <4>4 DEF Replace
        <5> QED BY <1>b, <3>1, <4>1, <4>2, <4>3, <4>4, <5>1 DEF WrittenStays
      <4>5. CASE ~call[c].allows
        <5>1. lasting' = [lasting EXCEPT !.denied = @ \cup {ScopeOf[r]}]
          BY <2>1, <2>6, <4>5 DEF Replace
        <5> QED BY <1>b, <3>1, <4>1, <4>2, <4>3, <4>5, <5>1 DEF WrittenStays
      <4> QED BY <4>4, <4>5
    <3>6. \A d \in Calls : call'[d].state # "replacing"
      BY <3>3 DEF Writing
    <3> QED BY <1>a, <2>2, <3>1, <3>3, <3>4, <3>5, <3>6 DEF OneWriter
  <2>7. CASE /\ ~Writing(c)' /\ always' = always /\ store' = store
             /\ lasting' = lasting /\ disturbed' = disturbed
    <3>1. WrittenStays'
      BY <1>b, <2>7 DEF WrittenStays
    <3>2. \A d \in Calls :
            /\ call'[d].state = "replacing" => call'[d].snapshot = always'[call'[d].by]
            /\ Writing(d)' => ScopeOf[Wanted(d)'] \in
                  (IF call'[d].allows THEN always'[call'[d].by].allowed
                   ELSE always'[call'[d].by].denied)
      <4> SUFFICES ASSUME NEW d \in Calls, d # c
                   PROVE  /\ call'[d].state = "replacing"
                                => call'[d].snapshot = always'[call'[d].by]
                          /\ Writing(d)' => ScopeOf[Wanted(d)'] \in
                                (IF call'[d].allows THEN always'[call'[d].by].allowed
                                 ELSE always'[call'[d].by].denied)
        BY <2>7 DEF Writing
      <4> QED BY <1>a, <2>2, <2>3, <2>7
    <3> QED BY <1>a, <2>2, <2>3, <2>7, <3>1, <3>2 DEF OneWriter
  <2> QED BY <1>1, <2>4, <2>5, <2>6, <2>7, SaveSteps
<1>2. ASSUME NEW m \in Managers, Opens(m) PROVE OneWriter' /\ WrittenStays'
  <2>0. PICK loaded \in Sides(Scopes) : OpenWith(m, loaded)
    BY <1>2, OpensWithSomething
  <2>1. /\ live = {} /\ live' = {m} /\ call' = call /\ store' = store
        /\ lasting' = lasting /\ always'[m] = store
    BY <2>0 DEF OpenWith, TypeOK
  <2>2. \A d \in Calls : ~Writing(d)' /\ call'[d].state # "replacing"
    BY <1>w, <2>1 DEF Writing
  <2> QED BY <1>b, <2>1, <2>2 DEF OneWriter, WrittenStays
<1>3. ASSUME NEW m \in Managers, NextTurn(m) \/ Leave(m)
      PROVE  OneWriter' /\ WrittenStays'
  <2>1. /\ live' \subseteq live /\ call' = call /\ store' = store
        /\ lasting' = lasting /\ \A n \in Managers \ {m} : always'[n] = always[n]
        /\ m \in live' => always' = always
    BY <1>3 DEF NextTurn, Leave, history, TypeOK
  <2>2. \A d \in Calls : Writing(d) => call[d].by \in Managers \ {m}
    BY <1>3, <1>w, <1>c DEF NextTurn, Leave, BusyOf, Busy, Writing
  <2>3. \A d \in Calls : /\ Writing(d)' <=> Writing(d)
                         /\ Wanted(d)' = Wanted(d)
    BY <2>1 DEF Writing, Wanted
  <2>4. \A d \in Calls : call[d].state = "replacing" => Writing(d)
    BY DEF Writing
  <2>5. \A n \in live' : /\ store'.allowed \subseteq always'[n].allowed
                         /\ store'.denied \subseteq always'[n].denied
    BY <1>a, <1>c, <2>1
  <2>6. \A d \in Calls :
          /\ call'[d].state = "replacing" => call'[d].snapshot = always'[call'[d].by]
          /\ Writing(d)' => ScopeOf[Wanted(d)'] \in
                (IF call'[d].allows THEN always'[call'[d].by].allowed
                 ELSE always'[call'[d].by].denied)
    BY <1>a, <2>1, <2>2, <2>3, <2>4
  <2> QED BY <1>a, <1>b, <2>1, <2>3, <2>5, <2>6 DEF OneWriter, WrittenStays
<1>4. ASSUME NEW c \in Calls, NEW m \in Managers, Begin(c, m)
      PROVE  OneWriter' /\ WrittenStays'
  <2>1. /\ live' = live /\ always' = always /\ store' = store /\ lasting' = lasting
        /\ call'[c].state = "checking"
        /\ \A d \in Calls \ {c} : call'[d] = call[d]
    BY <1>4, <1>c DEF Begin, manager, history, Idle
  <2>2. ~Writing(c)' /\ \A d \in Calls \ {c} : /\ Writing(d)' <=> Writing(d)
                                               /\ Wanted(d)' = Wanted(d)
    BY <2>1 DEF Writing, Wanted
  <2>3. \A d \in Calls :
          /\ call'[d].state = "replacing" => call'[d].snapshot = always'[call'[d].by]
          /\ Writing(d)' => ScopeOf[Wanted(d)'] \in
                (IF call'[d].allows THEN always'[call'[d].by].allowed
                 ELSE always'[call'[d].by].denied)
    <3> SUFFICES ASSUME NEW d \in Calls, d # c
                 PROVE  /\ call'[d].state = "replacing"
                              => call'[d].snapshot = always'[call'[d].by]
                        /\ Writing(d)' => ScopeOf[Wanted(d)'] \in
                              (IF call'[d].allows THEN always'[call'[d].by].allowed
                               ELSE always'[call'[d].by].denied)
      BY <2>1, <2>2
    <3> QED BY <1>a, <2>1, <2>2
  <2> QED BY <1>a, <1>b, <2>1, <2>2, <2>3 DEF OneWriter, WrittenStays
<1>5. CASE UNCHANGED vars
  <2>1. /\ live' = live /\ always' = always /\ store' = store /\ lasting' = lasting
        /\ call' = call
    BY <1>5 DEF vars, manager, history
  <2> QED BY <1>a, <1>b, <2>1 DEF OneWriter, WrittenStays, Writing, Wanted
<1> QED BY <1>1, <1>2, <1>3, <1>4, <1>5 DEF Next, Opens, CallStep

FileInv == GateInv /\ OneWriter /\ WrittenStays

\* With one writer at a time the manager, the file and what people decided for
\* always agree.
THEOREM FileInvariant == Spec => []FileInv
<1>1. Init => FileInv
  BY InitGate DEF FileInv
<1>2. FileInv /\ [Next]_vars => FileInv'
  BY NextGateTypeOK, NextCallsAreCurrent, NextPermissionsAreGiven, NextOneWriter
     DEF GateInv, FileInv
<1> QED BY <1>1, <1>2, PTL DEF Spec

-----------------------------------------------------------------------------
\* What a step of a call adds to the refusals is denied from then on, and no
\* denial of a manager is taken back.
LEMMA RefusalsAreKept ==
    ASSUME TypeOK, CallsAreCurrent, NEW c \in Calls, CallStep(c),
           NEW m \in Managers, m = call[c].by
    PROVE  /\ refusals \subseteq refusals'
           /\ \A n \in Managers, q \in Resources :
                 /\ IsDenied(n, q) => IsDenied(n, q)'
                 /\ <<n, q>> \in refusals' => <<n, q>> \in refusals
                                              \/ (n = m /\ IsDenied(m, q)')
<1>0. PICK r \in Resources : r = Wanted(c)
  BY CallStepShape, AtWork
<1>1. /\ session \in [Managers -> Sides(Resources)]
      /\ always \in [Managers -> Sides(Scopes)]
  BY DEF TypeOK
<1>d. \A n \in Managers, q \in Resources :
         /\ IsDenied(n, q) <=> q \in session[n].denied \/ ScopeOf[q] \in always[n].denied
         /\ IsDenied(n, q)' <=> q \in session'[n].denied \/ ScopeOf[q] \in always'[n].denied
  BY DEF IsDenied
<1>2. CASE DenyOnce(c)
  <2>1. /\ session' = [session EXCEPT ![m].denied = @ \cup {r}]
        /\ always' = always /\ refusals' = refusals \cup {<<m, r>>}
    BY <1>0, <1>2 DEF DenyOnce
  <2>2. /\ session'[m].denied = session[m].denied \cup {r}
        /\ \A n \in Managers \ {m} : session'[n] = session[n]
    BY <1>1, <2>1 DEF Sides
  <2> QED BY <1>d, <2>1, <2>2
<1>3. CASE AllowOnce(c)
  <2>1. /\ session' = [session EXCEPT ![m].allowed = @ \cup {r}]
        /\ always' = always /\ refusals' = refusals
    BY <1>0, <1>3 DEF AllowOnce
  <2>2. \A n \in Managers : session'[n].denied = session[n].denied
    BY <1>1, <2>1 DEF Sides
  <2> QED BY <1>d, <2>1, <2>2
<1>4. ASSUME NEW flag \in BOOLEAN, DecideAlways(c, flag)
      PROVE  /\ refusals \subseteq refusals'
             /\ \A n \in Managers, q \in Resources :
                   /\ IsDenied(n, q) => IsDenied(n, q)'
                   /\ <<n, q>> \in refusals' => <<n, q>> \in refusals
                                                \/ (n = m /\ IsDenied(m, q)')
  <2>0. session' = session
    BY <1>4 DEF DecideAlways
  <2>1. CASE flag
    <3>1. /\ always' = [always EXCEPT ![m].allowed = @ \cup {ScopeOf[r]}]
          /\ refusals' = refusals
      BY <1>0, <1>4, <2>1 DEF DecideAlways
    <3>2. \A n \in Managers : always'[n].denied = always[n].denied
      BY <1>1, <3>1 DEF Sides
    <3> QED BY <1>0, <1>d, <2>0, <3>1, <3>2
  <2>2. CASE ~flag
    <3>1. /\ always' = [always EXCEPT ![m].denied = @ \cup {ScopeOf[r]}]
          /\ refusals' = refusals \cup
                {<<m, q>> : q \in {q \in Resources : ScopeOf[q] = ScopeOf[r]}}
      BY <1>0, <1>4, <2>2 DEF DecideAlways
    <3>2. /\ always'[m].denied = always[m].denied \cup {ScopeOf[r]}
          /\ \A n \in Managers \ {m} : always'[n] = always[n]
      BY <1>1, <3>1 DEF Sides
    <3> QED BY <1>0, <1>d, <2>0, <3>1, <3>2
  <2> QED BY <2>1, <2>2
<1>5. CASE \/ Check(c) \/ DenyWithFeedback(c) \/ PromptFails(c) \/ Snapshot(c)
           \/ Replace(c) \/ WriteFails(c) \/ \E flag \in BOOLEAN : AllowTurn(c, flag)
  <2>1. session' = session /\ always' = always /\ refusals' = refusals
    BY <1>5 DEF Check, DenyWithFeedback, PromptFails, Snapshot, Replace, WriteFails,
                AllowTurn, manager, history
  <2> QED BY <1>d, <2>1
<1> QED BY <1>2, <1>3, <1>4, <1>5 DEF CallStep

\* A call that takes up a check, or passes one, was not denied it.
LEMMA TakenUpIsNotDenied ==
    ASSUME TypeOK, CallsAreCurrent, DenialsAreKept, NEW c \in Calls, CallStep(c),
           call'[c].state # "refused"
    PROVE  Wanted(c) \notin call[c].barred
<1>1. PICK m \in Managers, r \in Resources : m = call[c].by /\ r = Wanted(c)
  BY CallStepShape, AtWork
<1>2. m \in live /\ Busy(c)
  BY <1>1, CallStepShape, AtWork
<1>3. CASE call[c].state \in {"asking", "persisting", "replacing"}
  BY <1>3 DEF DenialsAreKept
<1>4. CASE Check(c)
  <2>1. call \in [Calls -> CallRecord]
    BY DEF TypeOK, CallRecord
  <2>2. ~IsDenied(m, r)
    <3>1. IsDenied(m, r) => call' = Refused(c)
      BY <1>1, <1>4 DEF Check, Stops
    <3>2. call' = Refused(c) => call'[c].state = "refused"
      BY <2>1 DEF Refused, Idle
    <3> QED BY <3>1, <3>2
  <2> QED BY <1>1, <1>2, <2>2 DEF DenialsAreKept
<1> QED BY <1>3, <1>4 DEF CallStep, AllowOnce, DenyOnce, DenyWithFeedback, PromptFails,
           AllowTurn, DecideAlways, Snapshot, Replace, WriteFails

\* Denials outlive every later permission, and a check that was denied before
\* the call began is never passed.
LEMMA NextDenialsAreKept ==
    FileInv /\ DenialsAreKept /\ [Next]_vars => DenialsAreKept'
<1> SUFFICES ASSUME FileInv, DenialsAreKept, [Next]_vars PROVE DenialsAreKept'
  OBVIOUS
<1>i. TypeOK /\ CallsAreCurrent /\ LeftIsTail /\ WrittenStays /\ OneWriter
  BY DEF FileInv, GateInv
<1>c. call \in [Calls -> CallRecord] /\ live \subseteq Managers
  BY <1>i DEF TypeOK, CallRecord
<1> DEFINE
      Known == /\ \A m \in Managers, r \in Resources :
                     <<m, r>> \in refusals => turnNo[m] # 0
               /\ \A m \in live, r \in Resources :
                     <<m, r>> \in refusals => IsDenied(m, r)
      Clear(d) ==
          /\ Busy(d) => \A r \in call[d].barred : <<call[d].by, r>> \in refusals
          /\ call[d].state \in {"asking", "persisting", "replacing"} =>
                Wanted(d) \notin call[d].barred
          /\ Busy(d) \/ call[d].state = "granted" =>
                \A i \in Done(d) : Plan[d][i] \notin call[d].barred
<1>0. Known /\ \A d \in Calls : Clear(d)
  BY DEF DenialsAreKept
<1> SUFFICES Known' /\ \A d \in Calls : Clear(d)'
  BY DEF DenialsAreKept
<1>k. \A d \in Calls : call'[d] = call[d] /\ refusals \subseteq refusals' => Clear(d)'
  <2> SUFFICES ASSUME NEW d \in Calls, call'[d] = call[d], refusals \subseteq refusals'
               PROVE  Clear(d)'
    OBVIOUS
  <2>1. Clear(d)
    BY <1>0
  <2>2. (Busy(d)' <=> Busy(d)) /\ Wanted(d)' = Wanted(d) /\ Done(d)' = Done(d)
    BY DEF Busy, Wanted, Done
  <2> QED BY <2>1, <2>2
<1> HIDE DEF Clear
<1>1. ASSUME NEW c \in Calls, CallStep(c) PROVE Known' /\ \A d \in Calls : Clear(d)'
  <2>0. PICK m \in Managers, r \in Resources : m = call[c].by /\ r = Wanted(c)
    BY <1>1, <1>i, CallStepShape, AtWork
  <2>a. /\ turnNo' = turnNo /\ live' = live /\ m \in live /\ Busy(c)
    BY <1>1, <1>i, <2>0, CallStepShape, AtWork
  <2>1. /\ refusals \subseteq refusals'
        /\ \A n \in Managers, q \in Resources :
              /\ IsDenied(n, q) => IsDenied(n, q)'
              /\ <<n, q>> \in refusals' => <<n, q>> \in refusals
                                           \/ (n = m /\ IsDenied(m, q)')
    BY <1>1, <1>i, <2>0, RefusalsAreKept
  <2>2. turnNo[m] # 0
    BY <1>i, <2>0, <2>a DEF FileInv, GateInv, GoneIsForgotten
  <2>3. Known'
    <3>1. \A n \in Managers, q \in Resources : <<n, q>> \in refusals' => turnNo'[n] # 0
      BY <1>0, <2>a, <2>1, <2>2
    <3>2. \A n \in live', q \in Resources : <<n, q>> \in refusals' => IsDenied(n, q)'
      BY <1>0, <1>c, <2>a, <2>1
    <3> QED BY <3>1, <3>2
  <2>4. Clear(c)'
    <3>1. CASE call'[c].state = "refused"
      BY <3>1 DEF Clear, Busy
    <3>2. CASE call'[c].state # "refused"
      <4>1. r \notin call[c].barred
        BY <1>1, <1>i, <2>0, <3>2, TakenUpIsNotDenied
      <4>2. /\ call'[c].by = m /\ call'[c].barred = call[c].barred
            /\ \/ call'[c].left = call[c].left
               \/ /\ call'[c].state \in {"granted", "checking"}
                  /\ \A i \in Done(c)' : i \in Done(c) \/ Plan[c][i] = r
        BY <1>1, <1>i, <2>0, <3>2, CallEffect
      <4>3. call'[c].left = call[c].left => Done(c)' = Done(c) /\ Wanted(c)' = r
        BY <2>0 DEF Done, Wanted
      <4>4. /\ \A q \in call[c].barred : <<m, q>> \in refusals
            /\ \A i \in Done(c) : Plan[c][i] \notin call[c].barred
        BY <1>0, <2>0, <2>a DEF Clear
      <4> QED BY <2>1, <4>1, <4>2, <4>3, <4>4 DEF Clear
    <3> QED BY <3>1, <3>2
  <2> QED BY <1>1, <1>i, <1>k, <2>1, <2>3, <2>4, CallEffect
<1>2. ASSUME NEW m \in Managers, Opens(m) PROVE Known' /\ \A d \in Calls : Clear(d)'
  <2>0. PICK loaded \in Sides(Scopes) : OpenWith(m, loaded)
    BY <1>2, <1>i, OpensWithSomething
  <2>1. /\ call' = call /\ live' = live \cup {m} /\ session' = session
        /\ turnNo[m] = 0 /\ turnNo'[m] = 1 /\ always'[m] = loaded
        /\ \A n \in Managers \ {m} : always'[n] = always[n] /\ turnNo'[n] = turnNo[n]
        /\ refusals' = refusals \cup
              {<<m, r>> : r \in {q \in Resources : ~disturbed' /\ ScopeOf[q] \in lasting.denied}}
        /\ disturbed' = (disturbed \/ live # {} \/ loaded # store)
    BY <2>0, <1>i DEF OpenWith, TypeOK
  <2>2. /\ refusals \subseteq refusals'
        /\ \A n \in Managers, q \in Resources : <<n, q>> \in refusals' =>
              \/ <<n, q>> \in refusals
              \/ n = m /\ ~disturbed' /\ ScopeOf[q] \in lasting.denied
    BY <2>1
  <2>3. ~disturbed' => lasting.denied \subseteq always'[m].denied
    BY <1>i, <2>1 DEF WrittenStays
  <2>4. Known'
    <3>1. \A n \in Managers, q \in Resources : <<n, q>> \in refusals' => turnNo'[n] # 0
      BY <1>0, <2>1, <2>2
    <3>2. ASSUME NEW n \in live', NEW q \in Resources, <<n, q>> \in refusals'
          PROVE  IsDenied(n, q)'
      <4>1. CASE n = m
        BY <1>0, <2>1, <2>2, <2>3, <3>2, <4>1 DEF IsDenied
      <4>2. CASE n # m
        BY <1>0, <1>c, <2>1, <2>2, <3>2, <4>2 DEF IsDenied
      <4> QED BY <4>1, <4>2
    <3> QED BY <3>1, <3>2
  <2> QED BY <1>k, <2>1, <2>2, <2>4
<1>3. ASSUME NEW m \in Managers, NextTurn(m) \/ Leave(m)
      PROVE  Known' /\ \A d \in Calls : Clear(d)'
  <2>1. /\ call' = call /\ refusals' = refusals /\ live' \subseteq live
        /\ \A n \in live' : session'[n] = session[n] /\ always'[n] = always[n]
        /\ \A n \in Managers : turnNo[n] # 0 => turnNo'[n] # 0
    BY <1>3, <1>i, ToolGateAssumption DEF NextTurn, Leave, history, TypeOK
  <2> QED BY <1>0, <1>k, <1>c, <2>1 DEF IsDenied
<1>4. ASSUME NEW c \in Calls, NEW m \in Managers, Begin(c, m)
      PROVE  Known' /\ \A d \in Calls : Clear(d)'
  <2>1. /\ refusals' = refusals /\ live' = live /\ session' = session
        /\ always' = always /\ turnNo' = turnNo
        /\ call'[c].state = "checking" /\ call'[c].by = m /\ call'[c].left = Plan[c]
        /\ call'[c].barred = {r \in Resources : <<m, r>> \in refusals}
        /\ \A d \in Calls \ {c} : call'[d] = call[d]
    BY <1>4, <1>c DEF Begin, manager, history, Idle
  <2>2. Done(c)' = {}
    <3>1. Len(Plan[c]) \in Nat /\ DOMAIN Plan[c] = 1..Len(Plan[c])
      BY ToolGateAssumption, LenProperties
    <3> QED BY <2>1, <3>1 DEF Done
  <2>3. Clear(c)'
    BY <2>1, <2>2 DEF Clear
  <2>4. Known'
    BY <1>0, <2>1 DEF IsDenied
  <2> QED BY <1>k, <2>1, <2>3, <2>4
<1>5. CASE UNCHANGED vars
  <2>1. /\ refusals' = refusals /\ live' = live /\ session' = session
        /\ always' = always /\ turnNo' = turnNo /\ call' = call
    BY <1>5 DEF vars, manager, history
  <2> QED BY <1>0, <1>k, <2>1 DEF IsDenied
<1> QED BY <1>1, <1>2, <1>3, <1>4, <1>5 DEF Next, Opens, CallStep

\* What a person denied before a call began is not granted to it, whatever was
\* allowed in between.
THEOREM DenialsHold == Spec => []DenialHolds
<1>1. Init => FileInv /\ DenialsAreKept
  BY InitGate DEF FileInv
<1>2. FileInv /\ DenialsAreKept /\ [Next]_vars => DenialsAreKept'
  BY NextDenialsAreKept
<1>3. FileInv /\ DenialsAreKept => DenialHolds
  <2> SUFFICES ASSUME FileInv, DenialsAreKept, NEW c \in Calls,
                      NEW r \in call[c].barred, Granted(c, r)
               PROVE  FALSE
    BY DEF DenialHolds
  <2>1. PICK i \in DOMAIN Plan[c] : Plan[c][i] = r
    BY DEF Granted
  <2>2. call[c].state = "granted" /\ i \in Done(c)
    BY GrantedIsDone DEF Granted, FileInv, GateInv
  <2> QED BY <2>1, <2>2 DEF DenialsAreKept
<1> QED BY <1>1, <1>2, <1>3, FileInvariant, PTL DEF Spec
=============================================================================
