------------------------ MODULE MasteryLedger_proofs ------------------------
(***************************************************************************)
(* Proofs about module MasteryLedger, for any attempts, points, teachers   *)
(* and faults: no attempt counts twice, the write lock keeps every attempt *)
(* that no review recomputed, an appeal is decided once, and, as long as   *)
(* the calls do not overlap, the stored mastery is the replay of all the   *)
(* evidence.                                                               *)
(***************************************************************************)
EXTENDS MasteryLedger, SequenceTheorems, FiniteSetTheorems, TLAPS

\* How many of C have an earlier stamp than a, and who is the i-th of C.
OlderThan(C, st, a) == Cardinality({b \in C : st[b] < st[a]})
Nth(C, st, i) == CHOOSE a \in C : OlderThan(C, st, a) = i - 1

Distinct(C, st) == \A a, b \in C : a # b => st[a] # st[b]

Cited(k) == {a \in table : k \in Cites[a]}

\* Committed attempts are those that are done; stamps are distinct and past.
TableIsDone ==
    /\ table = {a \in Attempts : phase[a] = "done"}
    /\ IsFiniteSet(table)
    /\ \A a \in Attempts : phase[a] # "idle" => stamp[a] < clock
    /\ \A a, b \in Attempts :
          a # b /\ phase[a] # "idle" /\ phase[b] # "idle" => stamp[a] # stamp[b]
    /\ \A a \in Attempts : appeal[a] # "none" => a \in table

\* A review is of an appealed attempt and regrades points this one cites.
ReviewsCite ==
    \A t \in Teachers :
        /\ teacher[t].state = "idle" => teacher[t].attempt = None
        /\ teacher[t].state # "idle" =>
              teacher[t].attempt \in Attempts /\ appeal[teacher[t].attempt] # "none"
        /\ teacher[t].state = "resolving" => teacher[t].outcome # "pending"
        /\ teacher[t].state \in {"regrading", "writing"} =>
              teacher[t].left \subseteq Cites[teacher[t].attempt]
        /\ teacher[t].state = "writing" => teacher[t].point \in teacher[t].left

MasteryInv == TypeOK /\ TableIsDone /\ ReviewsCite

\* A list of scores that counts attempts of T, each once.
Once(T, k, scores) ==
    \A i, j \in 1..Len(scores) :
        /\ scores[i].attempt \in T
        /\ k \in Cites[scores[i].attempt]
        /\ scores[i].attempt = scores[j].attempt => i = j

\* What is stored, what an attempt has read and what a review will write.
OnceInv ==
    /\ \A k \in Points : Once(table, k, ledger[k])
    /\ \A a \in Attempts : \A k \in Points : Once(table, k, seen[a][k])
    /\ \A t \in Teachers : teacher[t].state = "writing" =>
          Once(table, teacher[t].point, teacher[t].evidence)

\* Whoever has the write lock has read what is stored.
LockInv ==
    WriteLock =>
        /\ \A a \in Attempts : phase[a] \in {"inserted", "read"} <=> writer = a
        /\ \A a \in Attempts : phase[a] = "read" => seen[a] = ledger
        /\ AttemptsKept

\* Without an overlap one call at most is under way, and what it has read is
\* still so.
AloneInv ==
    ~overlap =>
        /\ \A a, b \in Attempts : AttemptBusy(a) /\ AttemptBusy(b) => a = b
        /\ \A t, u \in Teachers : TeacherBusy(t) /\ TeacherBusy(u) => t = u
        /\ \A a \in Attempts, t \in Teachers : ~(AttemptBusy(a) /\ TeacherBusy(t))
        /\ \A a \in Attempts : AttemptBusy(a) => \A b \in table : stamp[b] < stamp[a]
        /\ \A a \in Attempts : phase[a] = "read" => seen[a] = ledger
        /\ \A t \in Teachers : teacher[t].state = "resolving" =>
              appeal[teacher[t].attempt] = "pending"

Regrading(t, k) ==
    teacher[t].state \in {"regrading", "writing"} /\ k \in teacher[t].left

\* Every point is the replay of its evidence but those a review is about to
\* recompute.
ReplayInv ==
    ~overlap /\ (\A t \in Teachers : teacher[t].state # "failed") =>
        /\ \A k \in Points : ledger[k] = Replay(k) \/ \E t \in Teachers : Regrading(t, k)
        /\ \A t \in Teachers, k \in Points :
              teacher[t].state = "writing" /\ teacher[t].point = k =>
                  teacher[t].evidence = Replay(k)

\* The replay of k, its order spelled out.
LEMMA ReplayInOrder ==
    \A k : Replay(k) = [i \in 1..Cardinality(Cited(k)) |->
              [attempt |-> Nth(Cited(k), stamp, i),
               regraded |-> appeal[Nth(Cited(k), stamp, i)] = "sustained"]]
BY DEF Replay, Nth, OlderThan, Cited

-----------------------------------------------------------------------------
\* Who is older has fewer before it.
LEMMA OlderCounts ==
    ASSUME NEW C \in SUBSET Attempts, IsFiniteSet(C), NEW st \in [Attempts -> Nat],
           Distinct(C, st), NEW a \in C
    PROVE  /\ OlderThan(C, st, a) \in 0..(Cardinality(C) - 1)
           /\ \A b \in C : st[b] < st[a] => OlderThan(C, st, b) < OlderThan(C, st, a)
<1> DEFINE older(x) == {b \in C : st[b] < st[x]}
<1>1. \A x \in C : /\ older(x) \subseteq C \ {x}
                   /\ IsFiniteSet(older(x)) /\ Cardinality(older(x)) \in Nat
                   /\ Cardinality(older(x)) <= Cardinality(C) - 1
  <2> SUFFICES ASSUME NEW x \in C
               PROVE  /\ older(x) \subseteq C \ {x}
                      /\ IsFiniteSet(older(x)) /\ Cardinality(older(x)) \in Nat
                      /\ Cardinality(older(x)) <= Cardinality(C) - 1
    OBVIOUS
  <2>1. older(x) \subseteq C \ {x}
    OBVIOUS
  <2>2. IsFiniteSet(C \ {x}) /\ Cardinality(C \ {x}) = Cardinality(C) - 1
    BY FS_RemoveElement
  <2> HIDE DEF older
  <2>3. /\ IsFiniteSet(older(x)) /\ Cardinality(older(x)) <= Cardinality(C \ {x})
    BY <2>1, <2>2, FS_Subset
  <2>4. Cardinality(older(x)) \in Nat
    BY <2>3, FS_CardinalityType
  <2> QED BY <2>1, <2>2, <2>3, <2>4
<1>2. Cardinality(C) \in Nat
  BY FS_CardinalityType
<1>3. ASSUME NEW b \in C, st[b] < st[a]
      PROVE  Cardinality(older(b)) < Cardinality(older(a))
  <2>1. st[a] \in Nat /\ st[b] \in Nat /\ \A c \in C : st[c] \in Nat
    OBVIOUS
  <2>2. older(b) \subseteq older(a) /\ b \in older(a) /\ b \notin older(b)
    BY <1>3, <2>1
  <2> HIDE DEF older
  <2>3. /\ Cardinality(older(b)) <= Cardinality(older(a))
        /\ Cardinality(older(a)) = Cardinality(older(b)) => older(a) = older(b)
    BY <1>1, <2>2, FS_Subset
  <2>4. Cardinality(older(a)) # Cardinality(older(b))
    BY <2>2, <2>3
  <2> QED BY <1>1, <2>3, <2>4
<1>4. /\ Cardinality(older(a)) \in 0..(Cardinality(C) - 1)
      /\ \A b \in C : st[b] < st[a] => Cardinality(older(b)) < Cardinality(older(a))
  <2> HIDE DEF older
  <2> QED BY <1>1, <1>2, <1>3
<1> QED BY <1>4 DEF OlderThan

\* Every place in the order is taken by one of them, and by one only.
LEMMA NthIs ==
    ASSUME NEW C \in SUBSET Attempts, IsFiniteSet(C), NEW st \in [Attempts -> Nat],
           Distinct(C, st)
    PROVE  /\ Cardinality(C) \in Nat
           /\ \A i \in 1..Cardinality(C) :
                 Nth(C, st, i) \in C /\ OlderThan(C, st, Nth(C, st, i)) = i - 1
           /\ \A a, b \in C : OlderThan(C, st, a) = OlderThan(C, st, b) => a = b
<1> DEFINE n == Cardinality(C)
<1>1. n \in Nat
  BY FS_CardinalityType
<1>2. \A a \in C : OlderThan(C, st, a) \in 0..(n - 1)
  BY OlderCounts
<1>3. ASSUME NEW a \in C, NEW b \in C, OlderThan(C, st, a) = OlderThan(C, st, b)
      PROVE  a = b
  <2>1. /\ st[a] < st[b] => OlderThan(C, st, a) < OlderThan(C, st, b)
        /\ st[b] < st[a] => OlderThan(C, st, b) < OlderThan(C, st, a)
    BY OlderCounts
  <2>2. OlderThan(C, st, a) \in Nat
    BY <1>1, <1>2
  <2>3. ~(st[a] < st[b]) /\ ~(st[b] < st[a]) /\ st[a] \in Nat /\ st[b] \in Nat
    BY <1>3, <2>1, <2>2
  <2>4. st[a] = st[b]
    BY <2>3
  <2> QED BY <2>4 DEF Distinct
<1> DEFINE f == [a \in C |-> OlderThan(C, st, a)]
<1>4. f \in Injection(C, 0..(n - 1))
  BY <1>2, <1>3 DEF Injection, IsInjective
<1>5. IsFiniteSet(0..(n - 1)) /\ Cardinality(0..(n - 1)) = n
  <2>1. n - 1 \in Int /\ 0 \in Int
    BY <1>1
  <2>2. /\ IsFiniteSet(0..(n - 1))
        /\ Cardinality(0..(n - 1)) = IF 0 > n - 1 THEN 0 ELSE (n - 1) - 0 + 1
    BY <2>1, FS_Interval
  <2> HIDE DEF n
  <2> QED BY <1>1, <2>2
<1>6. f \in Surjection(C, 0..(n - 1))
  <2> HIDE DEF f
  <2> QED BY <1>4, <1>5, FS_Injection
<1>7. ASSUME NEW i \in 1..n
      PROVE  Nth(C, st, i) \in C /\ OlderThan(C, st, Nth(C, st, i)) = i - 1
  <2>1. i - 1 \in 0..(n - 1)
    <3> HIDE DEF n
    <3> QED BY <1>1
  <2>2. \E a \in C : OlderThan(C, st, a) = i - 1
    BY <1>6, <2>1 DEF Surjection
  <2> QED BY <2>2 DEF Nth
<1> QED BY <1>1, <1>3, <1>7

\* The order depends on the stamps of those in it only.
LEMMA SameOrder ==
    ASSUME NEW C \in SUBSET Attempts, IsFiniteSet(C), NEW st \in [Attempts -> Nat],
           NEW st2 \in [Attempts -> Nat], Distinct(C, st), \A a \in C : st2[a] = st[a],
           NEW i \in 1..Cardinality(C)
    PROVE  Nth(C, st2, i) = Nth(C, st, i)
<1>1. Distinct(C, st2)
  BY DEF Distinct
<1>2. \A a \in C : OlderThan(C, st2, a) = OlderThan(C, st, a)
  <2> SUFFICES ASSUME NEW a \in C PROVE OlderThan(C, st2, a) = OlderThan(C, st, a)
    OBVIOUS
  <2>1. {b \in C : st2[b] < st2[a]} = {b \in C : st[b] < st[a]}
    OBVIOUS
  <2> QED BY <2>1 DEF OlderThan
<1>3. /\ Nth(C, st, i) \in C /\ OlderThan(C, st, Nth(C, st, i)) = i - 1
      /\ Nth(C, st2, i) \in C /\ OlderThan(C, st2, Nth(C, st2, i)) = i - 1
      /\ \A a, b \in C : OlderThan(C, st, a) = OlderThan(C, st, b) => a = b
  BY <1>1, NthIs
<1> QED BY <1>2, <1>3

\* The youngest comes last and moves nobody.
LEMMA OneMore ==
    ASSUME NEW C \in SUBSET Attempts, IsFiniteSet(C), NEW st \in [Attempts -> Nat],
           Distinct(C, st), NEW a \in Attempts, \A b \in C : st[b] < st[a]
    PROVE  /\ Cardinality(C \cup {a}) = Cardinality(C) + 1
           /\ \A i \in 1..Cardinality(C) : Nth(C \cup {a}, st, i) = Nth(C, st, i)
           /\ Nth(C \cup {a}, st, Cardinality(C) + 1) = a
<1> DEFINE D == C \cup {a}
           n == Cardinality(C)
<1>0. /\ a \notin C /\ st[a] \in Nat /\ \A b \in C : st[b] \in Nat
  OBVIOUS
<1>1. /\ IsFiniteSet(D) /\ Cardinality(D) = n + 1 /\ D \in SUBSET Attempts
  BY <1>0, FS_AddElement
<1>2. Distinct(D, st)
  BY <1>0 DEF Distinct
<1>3. \A b \in C : OlderThan(D, st, b) = OlderThan(C, st, b)
  <2> SUFFICES ASSUME NEW b \in C PROVE OlderThan(D, st, b) = OlderThan(C, st, b)
    OBVIOUS
  <2>1. {c \in D : st[c] < st[b]} = {c \in C : st[c] < st[b]}
    BY <1>0
  <2> QED BY <2>1 DEF OlderThan
<1>4. OlderThan(D, st, a) = n
  <2>1. {c \in D : st[c] < st[a]} = C
    BY <1>0
  <2> QED BY <2>1 DEF OlderThan
<1> HIDE DEF D
<1>5. /\ n \in Nat
      /\ \A i \in 1..n : Nth(C, st, i) \in C /\ OlderThan(C, st, Nth(C, st, i)) = i - 1
  BY NthIs
<1>6. /\ \A i \in 1..(n + 1) : Nth(D, st, i) \in D /\ OlderThan(D, st, Nth(D, st, i)) = i - 1
      /\ \A b, c \in D : OlderThan(D, st, b) = OlderThan(D, st, c) => b = c
  BY <1>1, <1>2, NthIs
<1> HIDE DEF n
<1>7. \A i \in 1..n : Nth(D, st, i) = Nth(C, st, i)
  <2> SUFFICES ASSUME NEW i \in 1..n PROVE Nth(D, st, i) = Nth(C, st, i)
    OBVIOUS
  <2>1. i \in 1..(n + 1) /\ Nth(C, st, i) \in D
    BY <1>5 DEF D
  <2>2. OlderThan(D, st, Nth(D, st, i)) = i - 1 /\ OlderThan(D, st, Nth(C, st, i)) = i - 1
    BY <1>3, <1>5, <1>6, <2>1
  <2> QED BY <1>6, <2>1, <2>2
<1>8. Nth(D, st, n + 1) = a
  <2>1. n + 1 \in 1..(n + 1) /\ (n + 1) - 1 = n /\ a \in D
    BY <1>5 DEF D
  <2> QED BY <1>4, <1>6, <2>1
<1> QED BY <1>1, <1>7, <1>8 DEF D, n

-----------------------------------------------------------------------------
\* A call of the resolve route.
Call == [state : {"idle", "resolving", "regrading", "writing", "done",
                  "refused", "failed"},
         attempt : Attempts \cup {None},
         outcome : {"pending", "sustained", "rejected"},
         left : SUBSET Points,
         point : Points \cup {None},
         evidence : Seq(Entry)]

\* What the steps of a review do to it, and that they do it to no other.
LEMMA ReadAppealDoes ==
    ASSUME TypeOK, NEW t \in Teachers, NEW a \in Attempts,
           NEW outcome \in {"sustained", "rejected"}, ReadAppeal(t, a, outcome)
    PROVE  /\ teacher' \in [Teachers -> Call]
           /\ \A u \in Teachers \ {t} : teacher'[u] = teacher[u]
           /\ teacher[t].state = "idle" /\ appeal[a] # "none"
           /\ teacher'[t].attempt = a /\ teacher'[t].outcome = outcome
           /\ teacher'[t].state = IF appeal[a] = "pending" THEN "resolving" ELSE "refused"
<1> DEFINE call == [Idle EXCEPT !.state = IF appeal[a] = "pending" THEN "resolving"
                                          ELSE "refused",
                                !.attempt = a, !.outcome = outcome]
<1>1. <<>> \in Seq(Entry)
  BY EmptySeq
<1>2. /\ call \in Call /\ call.attempt = a /\ call.outcome = outcome
      /\ call.state = IF appeal[a] = "pending" THEN "resolving" ELSE "refused"
  BY <1>1 DEF Call, Idle
<1>3. teacher \in [Teachers -> Call]
  BY DEF TypeOK, Call
<1>4. /\ teacher[t].state = "idle" /\ appeal[a] # "none"
      /\ teacher' = [teacher EXCEPT ![t] = call]
  BY DEF ReadAppeal
<1> HIDE DEF call
<1> QED BY <1>2, <1>3, <1>4

\* Committing the outcome sends a review on to its points, if it has any.
LEMMA CommitOutcomeDoes ==
    ASSUME TypeOK, ReviewsCite, NEW t \in Teachers, CommitOutcome(t)
    PROVE  /\ teacher' \in [Teachers -> Call]
           /\ \A u \in Teachers \ {t} : teacher'[u] = teacher[u]
           /\ teacher[t].state = "resolving" /\ teacher'[t].attempt = teacher[t].attempt
           /\ teacher'[t].left = IF teacher[t].outcome = "sustained"
                                 THEN Cites[teacher[t].attempt] ELSE {}
           /\ teacher'[t].state = IF teacher'[t].left = {} THEN "done" ELSE "regrading"
           /\ teacher[t].attempt \in Attempts
           /\ teacher[t].outcome \in {"sustained", "rejected"}
           /\ appeal' = [appeal EXCEPT ![teacher[t].attempt] = teacher[t].outcome]
<1>1. /\ teacher \in [Teachers -> Call] /\ teacher[t] \in Call
  BY DEF TypeOK, Call
<1>2. /\ teacher[t].state = "resolving" /\ teacher[t].attempt \in Attempts
      /\ teacher[t].outcome \in {"sustained", "rejected"}
  BY <1>1 DEF CommitOutcome, ReviewsCite, Call
<1> DEFINE points == IF teacher[t].outcome = "sustained" THEN Cites[teacher[t].attempt]
                     ELSE {}
           call == [teacher[t] EXCEPT !.state = IF points = {} THEN "done" ELSE "regrading",
                                      !.left = points]
<1>3. points \in SUBSET Points
  BY <1>2, MasteryLedgerAssumption
<1>4. /\ appeal' = [appeal EXCEPT ![teacher[t].attempt] = teacher[t].outcome]
      /\ teacher' = [teacher EXCEPT ![t].state = IF points = {} THEN "done" ELSE "regrading",
                                    ![t].left = points]
  BY DEF CommitOutcome
<1> HIDE DEF points
<1>5. /\ call \in Call /\ call.attempt = teacher[t].attempt /\ call.left = points
      /\ call.state = IF points = {} THEN "done" ELSE "regrading"
  BY <1>1, <1>3 DEF Call
<1>6. teacher' = [teacher EXCEPT ![t] = call]
  BY <1>1, <1>4
<1> HIDE DEF call
<1> QED BY ZenonT(60), <1>1, <1>2, <1>4, <1>5, <1>6 DEF points

\* Reading the evidence of a point prepares its replay and writes nothing.
LEMMA ReadEvidenceDoes ==
    ASSUME TypeOK, NEW t \in Teachers, NEW k \in Points, ReadEvidence(t, k),
           Replay(k) \in Seq(Entry)
    PROVE  /\ teacher' \in [Teachers -> Call]
           /\ \A u \in Teachers \ {t} : teacher'[u] = teacher[u]
           /\ teacher[t].state = "regrading" /\ teacher'[t].state = "writing"
           /\ teacher'[t].attempt = teacher[t].attempt /\ k \in teacher[t].left
           /\ teacher'[t].left = teacher[t].left /\ teacher'[t].point = k
           /\ teacher'[t].evidence = Replay(k)
<1>1. /\ teacher \in [Teachers -> Call] /\ teacher[t] \in Call
  BY DEF TypeOK, Call
<1> DEFINE call == [teacher[t] EXCEPT !.state = "writing", !.point = k,
                                      !.evidence = Replay(k)]
<1>2. /\ call \in Call /\ call.attempt = teacher[t].attempt /\ call.left = teacher[t].left
      /\ call.state = "writing" /\ call.point = k /\ call.evidence = Replay(k)
  BY <1>1 DEF Call
<1>3. /\ teacher[t].state = "regrading" /\ k \in teacher[t].left
      /\ teacher' = [teacher EXCEPT ![t].state = "writing", ![t].point = k,
                                    ![t].evidence = Replay(k)]
  BY DEF ReadEvidence
<1>4. teacher' = [teacher EXCEPT ![t] = call]
  BY <1>1, <1>3
<1> HIDE DEF call
<1> QED BY ZenonT(60), <1>1, <1>2, <1>3, <1>4

\* Writing a point takes it off the list of those still to recompute.
LEMMA WriteMasteryDoes ==
    ASSUME TypeOK, ReviewsCite, NEW t \in Teachers, WriteMastery(t)
    PROVE  /\ teacher' \in [Teachers -> Call]
           /\ \A u \in Teachers \ {t} : teacher'[u] = teacher[u]
           /\ teacher[t].state = "writing" /\ teacher'[t].attempt = teacher[t].attempt
           /\ teacher'[t].left = teacher[t].left \ {teacher[t].point}
           /\ teacher'[t].state = IF teacher'[t].left = {} THEN "done" ELSE "regrading"
           /\ teacher[t].point \in Points /\ teacher[t].evidence \in Seq(Entry)
           /\ ledger' = [ledger EXCEPT ![teacher[t].point] = teacher[t].evidence]
<1>1. /\ teacher \in [Teachers -> Call] /\ teacher[t] \in Call
  BY DEF TypeOK, Call
<1>2. teacher[t].state = "writing" /\ teacher[t].point \in Points
  BY <1>1, MasteryLedgerAssumption DEF WriteMastery, ReviewsCite, Call
<1> DEFINE left == teacher[t].left \ {teacher[t].point}
           call == [teacher[t] EXCEPT !.state = IF left = {} THEN "done" ELSE "regrading",
                                      !.left = left, !.point = None, !.evidence = <<>>]
<1>3. <<>> \in Seq(Entry) /\ left \in SUBSET Points
  BY <1>1, EmptySeq DEF Call
<1>4. /\ ledger' = [ledger EXCEPT ![teacher[t].point] = teacher[t].evidence]
      /\ teacher' = [teacher EXCEPT ![t] = call]
  BY DEF WriteMastery
<1> HIDE DEF left
<1>5. /\ call \in Call /\ call.attempt = teacher[t].attempt /\ call.left = left
      /\ call.state = IF left = {} THEN "done" ELSE "regrading"
  BY <1>1, <1>3 DEF Call
<1>6. teacher[t].evidence \in Seq(Entry)
  BY <1>1 DEF Call
<1> HIDE DEF call
<1> QED BY <1>1, <1>2, <1>4, <1>5, <1>6 DEF left

\* A review may be cut short wherever it stands, and stores nothing more.
LEMMA ResolveFailsDoes ==
    ASSUME TypeOK, NEW t \in Teachers, ResolveFails(t)
    PROVE  /\ teacher' \in [Teachers -> Call]
           /\ \A u \in Teachers \ {t} : teacher'[u] = teacher[u]
           /\ TeacherBusy(t) /\ teacher'[t].attempt = teacher[t].attempt
           /\ teacher'[t].state = "failed"
<1>1. /\ teacher \in [Teachers -> Call] /\ teacher[t] \in Call
  BY DEF TypeOK, Call
<1> DEFINE call == [Idle EXCEPT !.state = "failed", !.attempt = teacher[t].attempt]
<1>2. <<>> \in Seq(Entry)
  BY EmptySeq
<1>3. call \in Call /\ call.attempt = teacher[t].attempt /\ call.state = "failed"
  BY <1>1, <1>2 DEF Call, Idle
<1>4. /\ TeacherBusy(t) /\ teacher' = [teacher EXCEPT ![t] = call]
  BY DEF ResolveFails, TeacherBusy
<1> HIDE DEF call
<1> QED BY <1>1, <1>3, <1>4

-----------------------------------------------------------------------------
\* The attempts that cite a point are finitely many and told apart by stamps.
LEMMA CitedIs ==
    ASSUME TypeOK, TableIsDone, NEW k \in Points
    PROVE  /\ Cited(k) \in SUBSET Attempts /\ Cited(k) \subseteq table
           /\ IsFiniteSet(Cited(k)) /\ Distinct(Cited(k), stamp)
           /\ stamp \in [Attempts -> Nat]
<1>1. Cited(k) \subseteq table /\ IsFiniteSet(table) /\ table \subseteq Attempts
  BY DEF Cited, TableIsDone, TypeOK
<1>2. IsFiniteSet(Cited(k))
  BY <1>1, FS_Subset
<1>3. Distinct(Cited(k), stamp)
  BY <1>1 DEF Distinct, TableIsDone
<1> QED BY <1>1, <1>2, <1>3 DEF TypeOK

\* The replay lists every committed attempt for k, each once.
LEMMA ReplayIs ==
    ASSUME TypeOK, TableIsDone, NEW k \in Points
    PROVE  /\ Cardinality(Cited(k)) \in Nat
           /\ Replay(k) \in Seq(Entry) /\ Len(Replay(k)) = Cardinality(Cited(k))
           /\ \A i \in 1..Cardinality(Cited(k)) :
                 /\ Nth(Cited(k), stamp, i) \in Cited(k)
                 /\ Replay(k)[i] = [attempt |-> Nth(Cited(k), stamp, i),
                        regraded |-> appeal[Nth(Cited(k), stamp, i)] = "sustained"]
           /\ Once(table, k, Replay(k))
<1> DEFINE C == Cited(k)
           n == Cardinality(C)
           Score(i) == [attempt |-> Nth(C, stamp, i),
                        regraded |-> appeal[Nth(C, stamp, i)] = "sustained"]
<1>1. /\ C \in SUBSET Attempts /\ C \subseteq table /\ IsFiniteSet(C)
      /\ Distinct(C, stamp) /\ stamp \in [Attempts -> Nat]
  BY CitedIs
<1>2. /\ n \in Nat
      /\ \A i \in 1..n : Nth(C, stamp, i) \in C /\ OlderThan(C, stamp, Nth(C, stamp, i)) = i - 1
  BY <1>1, NthIs
<1>3. Replay(k) = [i \in 1..n |-> Score(i)]
  BY ReplayInOrder
<1>4. \A i \in 1..n : Score(i) \in Entry /\ Score(i).attempt = Nth(C, stamp, i)
  BY <1>1, <1>2 DEF Entry
<1> HIDE DEF n, Score
<1>5. Replay(k) \in [1..n -> Entry]
  BY <1>3, <1>4
<1>6. Replay(k) \in Seq(Entry) /\ Len(Replay(k)) = n
  BY <1>2, <1>5, LenProperties
<1>7. \A i \in 1..n : Replay(k)[i] = Score(i)
  BY <1>3
<1>8. Once(table, k, Replay(k))
  <2> SUFFICES ASSUME NEW i \in 1..n, NEW j \in 1..n
               PROVE  /\ Replay(k)[i].attempt \in table
                      /\ k \in Cites[Replay(k)[i].attempt]
                      /\ Replay(k)[i].attempt = Replay(k)[j].attempt => i = j
    BY <1>6 DEF Once
  <2>1. /\ Replay(k)[i].attempt = Nth(C, stamp, i) /\ Nth(C, stamp, i) \in C
        /\ Replay(k)[j].attempt = Nth(C, stamp, j) /\ Nth(C, stamp, j) \in C
    BY <1>2, <1>4, <1>7
  <2>2. ASSUME Nth(C, stamp, i) = Nth(C, stamp, j) PROVE i = j
    <3>1. i - 1 = j - 1
      BY <1>2, <2>2
    <3> QED BY <1>2, <3>1
  <2> QED BY <1>1, <2>1, <2>2 DEF Cited
<1> QED BY <1>2, <1>6, <1>7, <1>8 DEF n, Score

-----------------------------------------------------------------------------
AttemptStep(a) ==
    Stamp(a) \/ Insert(a) \/ ReadMastery(a) \/ Commit(a) \/ AttemptFails(a)

ReviewStep(t) ==
    \/ \E a \in Attempts, outcome \in {"sustained", "rejected"} : ReadAppeal(t, a, outcome)
    \/ CommitOutcome(t) \/ WriteMastery(t) \/ ResolveFails(t)
    \/ \E k \in Points : ReadEvidence(t, k)

\* A step is of one attempt or of one review.
LEMMA NextIsAStep ==
    ASSUME [Next]_vars
    PROVE  \/ \E a \in Attempts : AttemptStep(a) \/ CreateAppeal(a)
           \/ \E t \in Teachers : ReviewStep(t)
           \/ UNCHANGED vars
BY DEF Next, Arrive, Proceed, AttemptStep, ReviewStep

\* An attempt moves alone: the phases and stamps of the others stay.
LEMMA AttemptMoves ==
    ASSUME TypeOK, TableIsDone, NEW a \in Attempts, AttemptStep(a)
    PROVE  /\ phase' \in [Attempts -> {"idle", "stamped", "inserted", "read", "done",
                                       "failed"}]
           /\ \A b \in Attempts \ {a} : phase'[b] = phase[b] /\ stamp'[b] = stamp[b]
           /\ stamp' \in [Attempts -> Nat] /\ clock' \in Nat
           /\ phase'[a] # "idle" /\ phase[a] # "done"
           /\ table' = table \/ (table' = table \cup {a} /\ phase[a] = "read")
           /\ a \in table' <=> phase'[a] = "done"
           /\ \/ Stamp(a) /\ phase[a] = "idle" /\ stamp'[a] = clock /\ clock' = clock + 1
                 /\ table' = table
              \/ phase[a] # "idle" /\ stamp' = stamp /\ clock' = clock
           /\ a \notin table /\ teacher' = teacher /\ appeal' = appeal
<1>1. CASE Stamp(a)
  BY <1>1 DEF Stamp, Move, TypeOK, TableIsDone
<1>2. CASE Insert(a)
  BY <1>2 DEF Insert, Move, TypeOK, TableIsDone
<1>3. CASE ReadMastery(a)
  BY <1>3 DEF ReadMastery, Move, TypeOK, TableIsDone
<1>4. CASE Commit(a)
  BY <1>4 DEF Commit, Move, TypeOK, TableIsDone
<1>5. CASE AttemptFails(a)
  BY <1>5 DEF AttemptFails, TypeOK, TableIsDone
<1> QED BY <1>1, <1>2, <1>3, <1>4, <1>5 DEF AttemptStep

\* Every step keeps the types, the table and the reviews in order.
LEMMA NextMasteryInv == MasteryInv /\ [Next]_vars => MasteryInv'
<1> SUFFICES ASSUME MasteryInv, [Next]_vars PROVE MasteryInv'
  OBVIOUS
<1>0. TypeOK /\ TableIsDone /\ ReviewsCite
  BY DEF MasteryInv
<1>u. overlap' \in BOOLEAN
  BY <1>0 DEF Next, vars, TypeOK
<1>1. ASSUME NEW a \in Attempts, AttemptStep(a) PROVE MasteryInv'
  <2>1. /\ phase' \in [Attempts -> {"idle", "stamped", "inserted", "read", "done",
                                    "failed"}]
        /\ \A b \in Attempts \ {a} : phase'[b] = phase[b] /\ stamp'[b] = stamp[b]
        /\ stamp' \in [Attempts -> Nat] /\ clock' \in Nat
        /\ phase'[a] # "idle" /\ phase[a] # "done"
        /\ table' = table \/ table' = table \cup {a}
        /\ a \in table' <=> phase'[a] = "done"
        /\ \/ phase[a] = "idle" /\ stamp'[a] = clock /\ clock' = clock + 1
           \/ phase[a] # "idle" /\ stamp' = stamp /\ clock' = clock
        /\ a \notin table /\ teacher' = teacher /\ appeal' = appeal
    BY <1>0, <1>1, AttemptMoves
  <2>2. seen' \in [Attempts -> Ledger] /\ writer' \in Attempts \cup {None}
    <3>1. Empty \in Ledger
      BY EmptySeq DEF Empty, Ledger
    <3> QED BY <1>0, <1>1, <3>1 DEF AttemptStep, Stamp, Insert, ReadMastery, Commit,
            AttemptFails, TypeOK
  <2>3. ledger' \in Ledger
    <3>1. CASE Commit(a)
      <4>1. seen[a] \in [Points -> Seq(Entry)] /\ ledger \in [Points -> Seq(Entry)]
        BY <1>0 DEF TypeOK, Ledger
      <4>2. [attempt |-> a, regraded |-> FALSE] \in Entry
        BY DEF Entry
      <4>3. \A k \in Points :
               Append(seen[a][k], [attempt |-> a, regraded |-> FALSE]) \in Seq(Entry)
        BY <4>1, <4>2, AppendProperties
      <4> QED BY <3>1, <4>1, <4>3 DEF Commit, Ledger
    <3>2. CASE ~Commit(a)
      BY <1>0, <1>1, <3>2 DEF AttemptStep, Stamp, Insert, ReadMastery, AttemptFails, TypeOK
    <3> QED BY <3>1, <3>2
  <2>4. faults' \in Nat
    BY <1>0, <1>1 DEF AttemptStep, Stamp, Insert, ReadMastery, Commit, AttemptFails, TypeOK
  <2>5. TypeOK'
    BY <1>0, <1>u, <2>1, <2>2, <2>3, <2>4 DEF TypeOK
  <2>6. TableIsDone'
    <3>1. table' = {b \in Attempts : phase'[b] = "done"}
      BY <1>0, <2>1 DEF TableIsDone
    <3>2. IsFiniteSet(table')
      <4>1. IsFiniteSet(table) /\ IsFiniteSet(table \cup {a})
        BY <1>0, FS_AddElement DEF TableIsDone
      <4> QED BY <2>1, <4>1
    <3>3. /\ \A b \in Attempts : phase'[b] # "idle" => stamp'[b] < clock'
          /\ \A b, c \in Attempts : b # c /\ phase'[b] # "idle" /\ phase'[c] # "idle"
                => stamp'[b] # stamp'[c]
      <4>1. clock \in Nat /\ \A b \in Attempts : stamp[b] \in Nat
        BY <1>0 DEF TypeOK
      <4>2. /\ \A b \in Attempts : phase[b] # "idle" => stamp[b] < clock
            /\ \A b, c \in Attempts : b # c /\ phase[b] # "idle" /\ phase[c] # "idle"
                => stamp[b] # stamp[c]
        BY <1>0 DEF TableIsDone
      <4> QED BY <2>1, <4>1, <4>2
    <3>4. \A b \in Attempts : appeal'[b] # "none" => b \in table'
      BY <1>0, <2>1 DEF TableIsDone
    <3> QED BY <3>1, <3>2, <3>3, <3>4 DEF TableIsDone
  <2>7. ReviewsCite'
    BY <1>0, <2>1 DEF ReviewsCite
  <2> QED BY <2>5, <2>6, <2>7 DEF MasteryInv
<1>2. ASSUME NEW a \in Attempts, CreateAppeal(a) PROVE MasteryInv'
  <2>1. /\ phase' = phase /\ stamp' = stamp /\ clock' = clock /\ table' = table
        /\ seen' = seen /\ writer' = writer /\ ledger' = ledger /\ teacher' = teacher
        /\ faults' = faults /\ a \in table /\ appeal' = [appeal EXCEPT ![a] = "pending"]
    BY <1>2 DEF CreateAppeal, student
  <2>2. TypeOK'
    BY <1>0, <1>u, <2>1 DEF TypeOK
  <2>3. \A b \in Attempts : appeal'[b] # "none" <=> appeal[b] # "none" \/ b = a
    BY <1>0, <2>1 DEF TypeOK
  <2> QED BY <1>0, <2>1, <2>2, <2>3 DEF MasteryInv, TableIsDone, ReviewsCite
<1>3. ASSUME NEW t \in Teachers, ReviewStep(t) PROVE MasteryInv'
  <2>1. /\ phase' = phase /\ stamp' = stamp /\ clock' = clock /\ table' = table
        /\ seen' = seen /\ writer' = writer
        /\ faults' \in Nat
    <3>1. faults \in Nat /\ faults' \in {faults, faults + 1}
      BY <1>0, <1>3 DEF ReviewStep, ReadAppeal, CommitOutcome, WriteMastery, ResolveFails,
         ReadEvidence, TypeOK
    <3>2. student' = student /\ writer' = writer
      BY <1>3 DEF ReviewStep, ReadAppeal, CommitOutcome, WriteMastery, ResolveFails,
         ReadEvidence, student
    <3> QED BY <3>1, <3>2 DEF student
  <2>2. CASE CommitOutcome(t)
    <3>1. /\ teacher' \in [Teachers -> Call]
          /\ \A u \in Teachers \ {t} : teacher'[u] = teacher[u]
          /\ teacher'[t].attempt = teacher[t].attempt /\ teacher[t].state = "resolving"
          /\ teacher'[t].left \subseteq Cites[teacher[t].attempt]
          /\ teacher'[t].state \in {"done", "regrading"}
          /\ teacher[t].attempt \in Attempts
          /\ teacher[t].outcome \in {"sustained", "rejected"}
          /\ appeal' = [appeal EXCEPT ![teacher[t].attempt] = teacher[t].outcome]
      BY <1>0, <2>2, CommitOutcomeDoes
    <3>2. /\ ledger' = ledger /\ appeal \in [Attempts -> {"none", "pending", "sustained",
                                                         "rejected"}]
          /\ appeal[teacher[t].attempt] # "none"
      BY <1>0, <2>2, <3>1 DEF CommitOutcome, TypeOK, ReviewsCite
    <3>3. TypeOK'
      BY <1>0, <1>u, <2>1, <3>1, <3>2 DEF TypeOK, Call
    <3>4. \A b \in Attempts : appeal'[b] # "none" <=> appeal[b] # "none"
      BY <3>1, <3>2
    <3>5. TableIsDone'
      BY <1>0, <2>1, <3>4 DEF TableIsDone
    <3>6. ReviewsCite'
      BY <1>0, <3>1, <3>2, <3>4 DEF ReviewsCite
    <3> QED BY <3>3, <3>5, <3>6 DEF MasteryInv
  <2>3. ASSUME ~CommitOutcome(t) PROVE MasteryInv'
    <3>1. appeal' = appeal
      BY <1>3, <2>3 DEF ReviewStep, ReadAppeal, WriteMastery, ResolveFails, ReadEvidence
    <3>2. TableIsDone'
      BY <1>0, <2>1, <3>1 DEF TableIsDone
    <3>3. /\ teacher' \in [Teachers -> Call] /\ ledger' \in Ledger
          /\ \A u \in Teachers \ {t} : teacher'[u] = teacher[u]
          /\ teacher'[t].state # "idle"
          /\ teacher'[t].attempt \in Attempts /\ appeal[teacher'[t].attempt] # "none"
          /\ teacher'[t].state = "resolving" => teacher'[t].outcome # "pending"
          /\ teacher'[t].state \in {"regrading", "writing"} =>
                teacher'[t].left \subseteq Cites[teacher'[t].attempt]
          /\ teacher'[t].state = "writing" => teacher'[t].point \in teacher'[t].left
      <4>1. CASE \E a \in Attempts, outcome \in {"sustained", "rejected"} :
                    ReadAppeal(t, a, outcome)
        <5>1. PICK a \in Attempts, outcome \in {"sustained", "rejected"} :
                 ReadAppeal(t, a, outcome)
          BY <4>1
        <5>2. ledger' = ledger /\ ledger \in Ledger
          BY <1>0, <5>1 DEF ReadAppeal, TypeOK
        <5> QED BY <1>0, <5>1, <5>2, ReadAppealDoes
      <4>2. CASE \E k \in Points : ReadEvidence(t, k)
        <5>1. PICK k \in Points : ReadEvidence(t, k)
          BY <4>2
        <5>2. ledger' = ledger /\ ledger \in Ledger
          BY <1>0, <5>1 DEF ReadEvidence, TypeOK
        <5>3. Replay(k) \in Seq(Entry)
          BY <1>0, ReplayIs
        <5> QED BY <1>0, <5>1, <5>2, <5>3, ReadEvidenceDoes DEF ReviewsCite
      <4>3. CASE WriteMastery(t)
        <5>1. ledger \in Ledger
          BY <1>0 DEF TypeOK
        <5> QED BY <1>0, <4>3, <5>1, WriteMasteryDoes DEF ReviewsCite, Ledger
      <4>4. CASE ResolveFails(t)
        <5>1. ledger' = ledger /\ ledger \in Ledger
          BY <1>0, <4>4 DEF ResolveFails, TypeOK
        <5> QED BY <1>0, <4>4, <5>1, ResolveFailsDoes DEF ReviewsCite, TeacherBusy
      <4> QED BY <1>3, <2>3, <4>1, <4>2, <4>3, <4>4 DEF ReviewStep
    <3>4. TypeOK'
      BY <1>0, <1>u, <2>1, <3>1, <3>3 DEF TypeOK, Call
    <3>5. ReviewsCite'
      BY <1>0, <3>1, <3>3 DEF ReviewsCite
    <3> QED BY <3>2, <3>4, <3>5 DEF MasteryInv
  <2> QED BY <2>2, <2>3
<1>4. CASE UNCHANGED vars
  BY <1>0, <1>4 DEF MasteryInv, TypeOK, TableIsDone, ReviewsCite, vars, student
<1> QED BY <1>1, <1>2, <1>3, <1>4, NextIsAStep

-----------------------------------------------------------------------------
\* What counts once still does when more attempts have been committed.
LEMMA OnceStays ==
    ASSUME NEW T, NEW U, T \subseteq U, NEW k, NEW scores, Once(T, k, scores)
    PROVE  Once(U, k, scores)
BY DEF Once

\* An attempt that is not among them yet counts once.
LEMMA OnceAppends ==
    ASSUME NEW T, NEW k \in Points, NEW scores \in Seq(Entry), Once(T, k, scores),
           NEW entry \in Entry, entry.attempt \notin T, k \in Cites[entry.attempt]
    PROVE  Once(T \cup {entry.attempt}, k, Append(scores, entry))
<1> DEFINE n == Len(scores)
           more == Append(scores, entry)
<1>1. /\ n \in Nat /\ Len(more) = n + 1 /\ more[n + 1] = entry
      /\ \A i \in 1..n : more[i] = scores[i]
  BY LenProperties, AppendProperties
<1>2. \A i, j \in 1..n : /\ scores[i].attempt \in T /\ k \in Cites[scores[i].attempt]
                         /\ scores[i].attempt = scores[j].attempt => i = j
  BY DEF Once
<1> HIDE DEF n, more
<1>3. \A i \in 1..(n + 1) : i \in 1..n \/ i = n + 1
  BY <1>1
<1>4. \A i \in 1..(n + 1) : /\ more[i].attempt \in T \cup {entry.attempt}
                            /\ k \in Cites[more[i].attempt]
                            /\ more[i].attempt = entry.attempt <=> i = n + 1
  BY <1>1, <1>2, <1>3
<1>5. \A i, j \in 1..(n + 1) : more[i].attempt = more[j].attempt => i = j
  BY <1>1, <1>2, <1>3, <1>4
<1> QED BY <1>1, <1>4, <1>5 DEF Once, more

\* No step makes an attempt count twice, in what is stored or in what a call
\* will store.
LEMMA NextOnceInv == MasteryInv /\ MasteryInv' /\ OnceInv /\ [Next]_vars => OnceInv'
<1> SUFFICES ASSUME MasteryInv, MasteryInv', OnceInv, [Next]_vars PROVE OnceInv'
  OBVIOUS
<1>0. TypeOK /\ TableIsDone /\ ReviewsCite
  BY DEF MasteryInv
<1>1. ASSUME NEW a \in Attempts, AttemptStep(a) PROVE OnceInv'
  <2>1. /\ table \subseteq table' /\ teacher' = teacher /\ a \notin table
    BY <1>0, <1>1, AttemptMoves
  <2>2. CASE Commit(a)
    <3> DEFINE entry == [attempt |-> a, regraded |-> FALSE]
    <3>1. entry \in Entry /\ entry.attempt = a /\ table' = table \cup {a}
      BY <2>2 DEF Entry, Commit
    <3>2. /\ \A k \in Points : ledger'[k] = IF k \in Cites[a] THEN Append(seen[a][k], entry)
                                            ELSE ledger[k]
          /\ \A b \in Attempts : seen'[b] = IF b = a THEN Empty ELSE seen[b]
      BY <1>0, <2>2 DEF Commit, TypeOK
    <3> HIDE DEF entry
    <3>3. ASSUME NEW k \in Points PROVE Once(table', k, ledger'[k])
      <4>1. CASE k \in Cites[a]
        <5>1. seen[a][k] \in Seq(Entry) /\ Once(table, k, seen[a][k])
          BY <1>0 DEF OnceInv, TypeOK, Ledger
        <5> QED BY <2>1, <3>1, <3>2, <4>1, <5>1, OnceAppends
      <4>2. CASE k \notin Cites[a]
        BY <2>1, <3>2, <4>2, OnceStays DEF OnceInv
      <4> QED BY <4>1, <4>2
    <3>4. ASSUME NEW b \in Attempts, NEW k \in Points PROVE Once(table', k, seen'[b][k])
      <4>1. CASE b = a
        <5>1. seen'[b][k] = <<>> /\ Len(<<>>) = 0
          BY <3>2, <4>1, EmptySeq DEF Empty
        <5> QED BY <5>1 DEF Once
      <4>2. CASE b # a
        BY <2>1, <3>2, <4>2, OnceStays DEF OnceInv
      <4> QED BY <4>1, <4>2
    <3> QED BY <2>1, <3>3, <3>4, OnceStays DEF OnceInv
  <2>3. CASE ~Commit(a)
    <3>1. /\ ledger' = ledger /\ table' = table
          /\ \A b \in Attempts : seen'[b] \in {seen[b], ledger, Empty}
      BY <1>0, <1>1, <2>3 DEF AttemptStep, Stamp, Insert, ReadMastery, AttemptFails, TypeOK
    <3>2. \A k \in Points : Once(table, k, Empty[k])
      <4>1. Len(<<>>) = 0
        BY EmptySeq
      <4> QED BY <4>1 DEF Once, Empty
    <3> QED BY <2>1, <3>1, <3>2 DEF OnceInv
  <2> QED BY <2>2, <2>3
<1>2. ASSUME NEW a \in Attempts, CreateAppeal(a) PROVE OnceInv'
  BY <1>2 DEF CreateAppeal, student, OnceInv
<1>3. ASSUME NEW t \in Teachers, ReviewStep(t) PROVE OnceInv'
  <2>1. table' = table /\ seen' = seen
    BY <1>3 DEF ReviewStep, ReadAppeal, CommitOutcome, WriteMastery, ResolveFails,
       ReadEvidence, student
  <2>2. \A k \in Points : Once(table, k, ledger'[k])
    <3>1. CASE WriteMastery(t)
      <4>1. /\ teacher[t].state = "writing" /\ teacher[t].point \in Points
            /\ ledger' = [ledger EXCEPT ![teacher[t].point] = teacher[t].evidence]
        BY <1>0, <3>1, WriteMasteryDoes
      <4>2. ledger \in [Points -> Seq(Entry)]
        BY <1>0 DEF TypeOK, Ledger
      <4> QED BY <4>1, <4>2 DEF OnceInv
    <3>2. CASE ~WriteMastery(t)
      <4>1. ledger' = ledger
        BY <1>3, <3>2 DEF ReviewStep, ReadAppeal, CommitOutcome, ResolveFails, ReadEvidence
      <4> QED BY <4>1 DEF OnceInv
    <3> QED BY <3>1, <3>2
  <2>3. /\ \A u \in Teachers \ {t} : teacher'[u] = teacher[u]
        /\ teacher'[t].state = "writing" => Once(table, teacher'[t].point, teacher'[t].evidence)
    <3>1. CASE \E a \in Attempts, outcome \in {"sustained", "rejected"} :
                  ReadAppeal(t, a, outcome)
      BY <1>0, <3>1, ReadAppealDoes
    <3>2. CASE CommitOutcome(t)
      BY <1>0, <3>2, CommitOutcomeDoes
    <3>3. CASE WriteMastery(t)
      BY <1>0, <3>3, WriteMasteryDoes
    <3>4. CASE ResolveFails(t)
      BY <1>0, <3>4, ResolveFailsDoes
    <3>5. CASE \E k \in Points : ReadEvidence(t, k)
      BY <1>0, <3>5, ReplayIs, ReadEvidenceDoes
    <3> QED BY <1>3, <3>1, <3>2, <3>3, <3>4, <3>5 DEF ReviewStep
  <2> QED BY <2>1, <2>2, <2>3 DEF OnceInv
<1>4. CASE UNCHANGED vars
  BY <1>4 DEF OnceInv, vars, student
<1> QED BY <1>1, <1>2, <1>3, <1>4, NextIsAStep

\* A review that has seen an appeal keeps its attempt.
LEMMA ReviewedStays ==
    ASSUME MasteryInv, [Next]_vars, NEW t \in Teachers, teacher[t].attempt \in Attempts
    PROVE  teacher'[t].attempt = teacher[t].attempt
<1>0. TypeOK /\ TableIsDone /\ ReviewsCite
  BY DEF MasteryInv
<1>1. ASSUME NEW u \in Teachers, ReviewStep(u)
      PROVE  teacher'[t].attempt = teacher[t].attempt
  <2>1. CASE \E a \in Attempts, outcome \in {"sustained", "rejected"} :
                ReadAppeal(u, a, outcome)
    <3>1. teacher[u].state = "idle" /\ \A v \in Teachers \ {u} : teacher'[v] = teacher[v]
      BY <1>0, <2>1, ReadAppealDoes
    <3>2. u # t
      BY <1>0, <3>1, MasteryLedgerAssumption DEF ReviewsCite
    <3> QED BY <3>1, <3>2
  <2>2. CASE CommitOutcome(u)
    BY <1>0, <2>2, CommitOutcomeDoes
  <2>3. CASE WriteMastery(u)
    BY <1>0, <2>3, WriteMasteryDoes
  <2>4. CASE ResolveFails(u)
    BY <1>0, <2>4, ResolveFailsDoes
  <2>5. CASE \E k \in Points : ReadEvidence(u, k)
    BY <1>0, <2>5, ReplayIs, ReadEvidenceDoes
  <2> QED BY <1>1, <2>1, <2>2, <2>3, <2>4, <2>5 DEF ReviewStep
<1>2. (\E a \in Attempts : AttemptStep(a) \/ CreateAppeal(a)) \/ UNCHANGED vars
        => teacher' = teacher
  BY <1>0, AttemptMoves DEF CreateAppeal, vars
<1> QED BY <1>1, <1>2, NextIsAStep

\* With the write lock nothing is stored between an attempt's read and its
\* commit, and what it commits contains all that was there.
LEMMA NextLockInv == MasteryInv /\ MasteryInv' /\ LockInv /\ [Next]_vars => LockInv'
<1> SUFFICES ASSUME MasteryInv, MasteryInv', LockInv, [Next]_vars, WriteLock
             PROVE  /\ \A a \in Attempts : phase'[a] \in {"inserted", "read"} <=> writer' = a
                    /\ \A a \in Attempts : phase'[a] = "read" => seen'[a] = ledger'
                    /\ AttemptsKept'
  BY DEF LockInv
<1>0. /\ TypeOK /\ TableIsDone /\ ReviewsCite
      /\ \A a \in Attempts : phase[a] \in {"inserted", "read"} <=> writer = a
      /\ \A a \in Attempts : phase[a] = "read" => seen[a] = ledger
      /\ AttemptsKept
      /\ None \notin Attempts
  BY MasteryLedgerAssumption DEF MasteryInv, LockInv
<1> DEFINE Reviewed(k) == \E t \in Teachers : /\ teacher[t].attempt \in Attempts
                                              /\ k \in Cites[teacher[t].attempt]
<1>r. \A k : Reviewed(k) => \E t \in Teachers : /\ teacher'[t].attempt \in Attempts
                                                /\ k \in Cites[teacher'[t].attempt]
  BY ReviewedStays
<1>1. ASSUME NEW a \in Attempts, Commit(a)
      PROVE  /\ \A b \in Attempts : phase'[b] \in {"inserted", "read"} <=> writer' = b
             /\ \A b \in Attempts : phase'[b] = "read" => seen'[b] = ledger'
             /\ AttemptsKept'
  <2>1. /\ phase[a] = "read" /\ phase' = [phase EXCEPT ![a] = "done"] /\ writer' = None
        /\ table' = table \cup {a}
    BY <1>1 DEF Commit, Move
  <2>2. writer = a /\ \A b \in Attempts \ {a} : phase[b] \notin {"inserted", "read"}
    BY <1>0, <2>1
  <2>3. \A b \in Attempts : phase'[b] \notin {"inserted", "read"}
    BY <1>0, <2>1, <2>2 DEF TypeOK
  <2>4. AttemptsKept'
    <3> DEFINE entry == [attempt |-> a, regraded |-> FALSE]
    <3>1. \A k \in Points : ledger'[k] = IF k \in Cites[a] THEN Append(ledger[k], entry)
                                         ELSE ledger[k]
      BY <1>0, <1>1, <2>1 DEF Commit
    <3>2. entry \in Entry /\ entry.attempt = a
      BY DEF Entry
    <3> HIDE DEF entry
    <3>3. \A k \in Points :
             /\ ledger[k] \in Seq(Entry) /\ DOMAIN ledger[k] = 1..Len(ledger[k])
             /\ Len(ledger[k]) \in Nat
             /\ DOMAIN Append(ledger[k], entry) = 1..(Len(ledger[k]) + 1)
             /\ Append(ledger[k], entry)[Len(ledger[k]) + 1] = entry
             /\ \A i \in 1..Len(ledger[k]) : Append(ledger[k], entry)[i] = ledger[k][i]
      <4>1. \A k \in Points : ledger[k] \in Seq(Entry)
        BY <1>0 DEF TypeOK, Ledger
      <4> QED BY <3>2, <4>1, LenProperties, AppendProperties
    <3>4. \A k \in Points : DOMAIN ledger[k] \subseteq DOMAIN ledger'[k]
             /\ \A i \in DOMAIN ledger[k] : ledger'[k][i] = ledger[k][i]
      <4> SUFFICES ASSUME NEW k \in Points
                   PROVE  /\ DOMAIN ledger[k] \subseteq DOMAIN ledger'[k]
                          /\ \A i \in DOMAIN ledger[k] : ledger'[k][i] = ledger[k][i]
        OBVIOUS
      <4>1. CASE k \notin Cites[a]
        BY <3>1, <4>1
      <4>2. CASE k \in Cites[a]
        <5>1. ledger'[k] = Append(ledger[k], entry)
          BY <3>1, <4>2
        <5> QED BY <3>3, <5>1
      <4> QED BY <4>1, <4>2
    <3> SUFFICES ASSUME NEW b \in table', NEW k \in Cites[b]
                 PROVE  \/ \E i \in DOMAIN ledger'[k] : ledger'[k][i].attempt = b
                        \/ \E t \in Teachers : /\ teacher'[t].attempt \in Attempts
                                               /\ k \in Cites[teacher'[t].attempt]
      BY DEF AttemptsKept
    <3>5. k \in Points
      BY <1>0, <2>1, MasteryLedgerAssumption DEF TypeOK
    <3>6. CASE b = a
      <4>1. ledger'[k] = Append(ledger[k], entry)
        BY <3>1, <3>5, <3>6
      <4>2. Len(ledger[k]) + 1 \in DOMAIN ledger'[k]
        BY <3>3, <3>5, <4>1
      <4>3. ledger'[k][Len(ledger[k]) + 1].attempt = b
        BY <3>2, <3>3, <3>5, <3>6, <4>1
      <4> QED BY <4>2, <4>3
    <3>7. CASE b # a
      <4>1. b \in table
        BY <2>1, <3>7
      <4>2. Reviewed(k) \/ \E i \in DOMAIN ledger[k] : ledger[k][i].attempt = b
        BY <1>0, <4>1 DEF AttemptsKept
      <4> QED BY <1>r, <3>4, <3>5, <4>2
    <3> QED BY <3>6, <3>7
  <2> QED BY <1>0, <2>1, <2>3, <2>4
<1>2. ASSUME NEW t \in Teachers, WriteMastery(t)
      PROVE  /\ \A b \in Attempts : phase'[b] \in {"inserted", "read"} <=> writer' = b
             /\ \A b \in Attempts : phase'[b] = "read" => seen'[b] = ledger'
             /\ AttemptsKept'
  <2>1. /\ phase' = phase /\ writer' = writer /\ writer = None /\ table' = table
    BY <1>2 DEF WriteMastery, student
  <2>2. /\ teacher[t].state = "writing" /\ teacher[t].point \in Points
        /\ ledger' = [ledger EXCEPT ![teacher[t].point] = teacher[t].evidence]
    BY <1>0, <1>2, WriteMasteryDoes
  <2>3. Reviewed(teacher[t].point)
    BY <1>0, <2>2 DEF ReviewsCite
  <2>4. \A k \in Points : k # teacher[t].point => ledger'[k] = ledger[k]
    BY <1>0, <2>2 DEF TypeOK, Ledger
  <2>5. \A b \in table, k \in Points :
           k \in Cites[b] => Reviewed(k) \/ \E i \in DOMAIN ledger'[k] : ledger'[k][i].attempt = b
    <3>1. \A b \in table, k \in Points :
             k \in Cites[b] => Reviewed(k) \/ \E i \in DOMAIN ledger[k] : ledger[k][i].attempt = b
      BY <1>0 DEF AttemptsKept
    <3> HIDE DEF Reviewed
    <3> QED BY <2>3, <2>4, <3>1
  <2>6. \A b \in table : Cites[b] \subseteq Points
    BY <1>0, MasteryLedgerAssumption DEF TypeOK
  <2>7. AttemptsKept'
    <3> SUFFICES ASSUME NEW b \in table', NEW k \in Cites[b]
                 PROVE  \/ \E i \in DOMAIN ledger'[k] : ledger'[k][i].attempt = b
                        \/ \E u \in Teachers : /\ teacher'[u].attempt \in Attempts
                                               /\ k \in Cites[teacher'[u].attempt]
      BY DEF AttemptsKept
    <3>1. Reviewed(k) \/ \E i \in DOMAIN ledger'[k] : ledger'[k][i].attempt = b
      BY <2>1, <2>5, <2>6
    <3> HIDE DEF Reviewed
    <3> QED BY <1>r, <3>1
  <2> QED BY <1>0, <2>1, <2>7
<1>3. ASSUME ~(\E a \in Attempts : Commit(a)), ~(\E t \in Teachers : WriteMastery(t))
      PROVE  /\ \A b \in Attempts : phase'[b] \in {"inserted", "read"} <=> writer' = b
             /\ \A b \in Attempts : phase'[b] = "read" => seen'[b] = ledger'
             /\ AttemptsKept'
  <2>1. ledger' = ledger /\ table' = table
    <3>1. \A a \in Attempts : AttemptStep(a) => ledger' = ledger /\ table' = table
      BY <1>3 DEF AttemptStep, Stamp, Insert, ReadMastery, AttemptFails
    <3>2. \A t \in Teachers : ReviewStep(t) => ledger' = ledger /\ table' = table
      BY <1>3 DEF ReviewStep, ReadAppeal, CommitOutcome, ResolveFails, ReadEvidence, student
    <3>3. \A a \in Attempts : CreateAppeal(a) => ledger' = ledger /\ table' = table
      BY DEF CreateAppeal, student
    <3> QED BY <3>1, <3>2, <3>3, NextIsAStep DEF vars, student
  <2>2. AttemptsKept'
    <3>1. \A b \in table : \A k \in Cites[b] :
             Reviewed(k) \/ \E i \in DOMAIN ledger[k] : ledger[k][i].attempt = b
      BY <1>0 DEF AttemptsKept
    <3>2. \A b \in table : \A k \in Cites[b] :
             \/ \E i \in DOMAIN ledger[k] : ledger[k][i].attempt = b
             \/ \E t \in Teachers : /\ teacher'[t].attempt \in Attempts
                                    /\ k \in Cites[teacher'[t].attempt]
      <4> HIDE DEF Reviewed
      <4> QED BY <1>r, <3>1
    <3> QED BY <2>1, <3>2 DEF AttemptsKept
  <2>3. ASSUME NEW a \in Attempts, AttemptStep(a)
        PROVE  /\ \A b \in Attempts : phase'[b] \in {"inserted", "read"} <=> writer' = b
               /\ \A b \in Attempts : phase'[b] = "read" => seen'[b] = ledger
    <3>1. CASE Stamp(a)
      BY <1>0, <3>1 DEF Stamp, Move, TypeOK
    <3>2. CASE Insert(a)
      BY <1>0, <3>2 DEF Insert, Move, TypeOK
    <3>3. CASE ReadMastery(a)
      BY <1>0, <3>3 DEF ReadMastery, Move, TypeOK
    <3>4. CASE AttemptFails(a)
      <4>1. /\ phase' = [phase EXCEPT ![a] = "failed"] /\ seen' = [seen EXCEPT ![a] = Empty]
            /\ writer' = IF writer = a THEN None ELSE writer
        BY <3>4 DEF AttemptFails
      <4>2. \A b \in Attempts \ {a} : phase'[b] = phase[b] /\ seen'[b] = seen[b]
        BY <1>0, <4>1 DEF TypeOK
      <4>3. phase'[a] = "failed"
        BY <1>0, <4>1 DEF TypeOK
      <4> QED BY <1>0, <4>1, <4>2, <4>3
    <3> QED BY <1>3, <2>3, <3>1, <3>2, <3>3, <3>4 DEF AttemptStep
  <2>4. ASSUME ~(\E a \in Attempts : AttemptStep(a))
        PROVE  phase' = phase /\ writer' = writer /\ seen' = seen
    <3>1. \A t \in Teachers : ReviewStep(t) => student' = student /\ writer' = writer
      BY <1>3 DEF ReviewStep, ReadAppeal, CommitOutcome, ResolveFails, ReadEvidence, student
    <3>2. \A a \in Attempts : CreateAppeal(a) => student' = student /\ writer' = writer
      BY DEF CreateAppeal, student
    <3>3. student' = student /\ writer' = writer
      BY <2>4, <3>1, <3>2, NextIsAStep DEF vars, student
    <3> QED BY <3>3 DEF student
  <2> QED BY <1>0, <2>1, <2>2, <2>3, <2>4
<1> QED BY <1>1, <1>2, <1>3

-----------------------------------------------------------------------------
\* Without an overlap a call arrives only when nothing is under way.
LEMMA NextAlone ==
    ASSUME TypeOK, [Next]_vars, ~overlap'
    PROVE  /\ ~overlap
           /\ \/ Quiet /\ \E a \in Attempts : Stamp(a) \/ CreateAppeal(a)
              \/ Quiet /\ \E t \in Teachers, a \in Attempts,
                             outcome \in {"sustained", "rejected"} :
                             ReadAppeal(t, a, outcome)
              \/ \E a \in Attempts : Insert(a) \/ ReadMastery(a) \/ Commit(a) \/ AttemptFails(a)
              \/ \E t \in Teachers : \/ CommitOutcome(t) \/ WriteMastery(t) \/ ResolveFails(t)
                                     \/ \E k \in Points : ReadEvidence(t, k)
              \/ UNCHANGED vars
<1>1. CASE Arrive /\ overlap' = (overlap \/ ~Quiet)
  BY <1>1 DEF Arrive
<1>2. CASE Proceed /\ UNCHANGED overlap
  BY <1>2 DEF Proceed
<1>3. CASE UNCHANGED vars
  BY <1>3 DEF vars
<1> QED BY <1>1, <1>2, <1>3 DEF Next

\* The calls that go on leave every other call where it was.
LEMMA GoesOnAlone ==
    ASSUME MasteryInv, NEW t \in Teachers,
           \/ CommitOutcome(t) \/ WriteMastery(t) \/ ResolveFails(t)
           \/ \E k \in Points : ReadEvidence(t, k)
    PROVE  /\ TeacherBusy(t) /\ teacher'[t].state # "resolving"
           /\ \A u \in Teachers \ {t} : teacher'[u] = teacher[u]
           /\ phase' = phase /\ table' = table /\ stamp' = stamp /\ seen' = seen
<1>0. TypeOK /\ TableIsDone /\ ReviewsCite
  BY DEF MasteryInv
<1>1. phase' = phase /\ table' = table /\ stamp' = stamp /\ seen' = seen
  BY DEF CommitOutcome, WriteMastery, ResolveFails, ReadEvidence, student
<1>2. CASE CommitOutcome(t)
  BY <1>0, <1>1, <1>2, CommitOutcomeDoes DEF TeacherBusy
<1>3. CASE WriteMastery(t)
  BY <1>0, <1>1, <1>3, WriteMasteryDoes DEF TeacherBusy
<1>4. CASE ResolveFails(t)
  BY <1>0, <1>1, <1>4, ResolveFailsDoes
<1>5. CASE \E k \in Points : ReadEvidence(t, k)
  BY <1>0, <1>1, <1>5, ReplayIs, ReadEvidenceDoes DEF TeacherBusy
<1> QED BY <1>2, <1>3, <1>4, <1>5

\* As long as the calls come one after the other, each finds what it has read.
LEMMA NextAloneInv == MasteryInv /\ MasteryInv' /\ AloneInv /\ [Next]_vars => AloneInv'
<1> SUFFICES ASSUME MasteryInv, MasteryInv', AloneInv, [Next]_vars, ~overlap'
             PROVE  AloneInv'
  BY DEF AloneInv
<1>0. TypeOK /\ TableIsDone /\ ReviewsCite
  BY DEF MasteryInv
<1>1. /\ ~overlap
      /\ \A a, b \in Attempts : AttemptBusy(a) /\ AttemptBusy(b) => a = b
      /\ \A t, u \in Teachers : TeacherBusy(t) /\ TeacherBusy(u) => t = u
      /\ \A a \in Attempts, t \in Teachers : ~(AttemptBusy(a) /\ TeacherBusy(t))
      /\ \A a \in Attempts : AttemptBusy(a) => \A b \in table : stamp[b] < stamp[a]
      /\ \A a \in Attempts : phase[a] = "read" => seen[a] = ledger
      /\ \A t \in Teachers : teacher[t].state = "resolving" =>
            appeal[teacher[t].attempt] = "pending"
  BY <1>0, NextAlone DEF AloneInv
<1>2. ASSUME Quiet, NEW a \in Attempts, Stamp(a) PROVE AloneInv'
  <2>1. /\ phase' = [phase EXCEPT ![a] = "stamped"] /\ stamp' = [stamp EXCEPT ![a] = clock]
        /\ table' = table /\ teacher' = teacher
    BY <1>2 DEF Stamp, Move
  <2>2. /\ \A b \in Attempts : phase'[b] = IF b = a THEN "stamped" ELSE phase[b]
        /\ \A b \in Attempts : stamp'[b] = IF b = a THEN clock ELSE stamp[b]
    BY <1>0, <2>1 DEF TypeOK
  <2>3. \A b \in table : b \in Attempts /\ b # a /\ stamp[b] < clock
    <3>1. phase[a] = "idle"
      BY <1>2 DEF Stamp, Move
    <3> QED BY <1>0, <3>1 DEF TableIsDone
  <2>4. \A b \in Attempts : ~AttemptBusy(b) /\ (AttemptBusy(b)' <=> b = a)
    BY <1>2, <2>2 DEF Quiet, AttemptBusy
  <2>5. \A t \in Teachers : ~TeacherBusy(t)' /\ teacher'[t].state # "resolving"
    BY <1>2, <2>1 DEF Quiet, TeacherBusy
  <2>6. \A b \in Attempts : phase'[b] # "read"
    BY <2>2, <2>4 DEF AttemptBusy
  <2> QED BY <2>1, <2>2, <2>3, <2>4, <2>5, <2>6 DEF AloneInv
<1>3. ASSUME Quiet, NEW a \in Attempts, CreateAppeal(a) PROVE AloneInv'
  <2>1. phase' = phase /\ teacher' = teacher
    BY <1>3 DEF CreateAppeal, student
  <2>2. /\ \A b \in Attempts : ~AttemptBusy(b)' /\ phase'[b] # "read"
        /\ \A t \in Teachers : ~TeacherBusy(t)' /\ teacher'[t].state # "resolving"
    BY <1>3, <2>1 DEF Quiet, AttemptBusy, TeacherBusy
  <2> QED BY <2>2 DEF AloneInv
<1>4. ASSUME Quiet, NEW t \in Teachers, NEW a \in Attempts,
             NEW outcome \in {"sustained", "rejected"}, ReadAppeal(t, a, outcome)
      PROVE  AloneInv'
  <2>1. phase' = phase /\ appeal' = appeal
    BY <1>4 DEF ReadAppeal, student
  <2>2. /\ \A u \in Teachers \ {t} : teacher'[u] = teacher[u]
        /\ teacher'[t].state = "resolving" => appeal[teacher'[t].attempt] = "pending"
    BY <1>0, <1>4, ReadAppealDoes
  <2>3. /\ \A b \in Attempts : ~AttemptBusy(b)' /\ phase'[b] # "read"
        /\ \A u \in Teachers \ {t} : ~TeacherBusy(u)' /\ teacher'[u].state # "resolving"
    BY <1>4, <2>1, <2>2 DEF Quiet, AttemptBusy, TeacherBusy
  <2> QED BY <2>1, <2>2, <2>3 DEF AloneInv
<1>5. ASSUME NEW a \in Attempts, Insert(a) \/ ReadMastery(a) \/ Commit(a) \/ AttemptFails(a)
      PROVE  AloneInv'
  <2>1. /\ \A b \in Attempts \ {a} : phase'[b] = phase[b]
        /\ teacher' = teacher /\ appeal' = appeal /\ stamp' = stamp
        /\ AttemptBusy(a) /\ (AttemptBusy(a)' => table' = table)
    BY <1>0, <1>5 DEF Insert, ReadMastery, Commit, AttemptFails, Move, AttemptBusy, TypeOK
  <2>2. /\ \A b \in Attempts \ {a} : ~AttemptBusy(b)' /\ phase'[b] # "read"
        /\ \A t \in Teachers : ~TeacherBusy(t)' /\ teacher'[t].state # "resolving"
    BY <1>1, <2>1 DEF AttemptBusy, TeacherBusy
  <2>3. phase'[a] = "read" => seen'[a] = ledger'
    BY <1>0, <1>5 DEF Insert, ReadMastery, Commit, AttemptFails, Move, TypeOK
  <2>4. AttemptBusy(a)' => \A b \in table' : stamp'[b] < stamp'[a]
    BY <1>1, <2>1
  <2> QED BY <2>2, <2>3, <2>4 DEF AloneInv
<1>6. ASSUME NEW t \in Teachers,
             \/ CommitOutcome(t) \/ WriteMastery(t) \/ ResolveFails(t)
             \/ \E k \in Points : ReadEvidence(t, k)
      PROVE  AloneInv'
  <2>1. /\ TeacherBusy(t) /\ teacher'[t].state # "resolving"
        /\ \A u \in Teachers \ {t} : teacher'[u] = teacher[u]
        /\ phase' = phase
    BY <1>6, GoesOnAlone
  <2>2. /\ \A b \in Attempts : ~AttemptBusy(b)' /\ phase'[b] # "read"
        /\ \A u \in Teachers \ {t} : ~TeacherBusy(u)' /\ teacher'[u].state # "resolving"
    BY <1>1, <2>1 DEF AttemptBusy, TeacherBusy
  <2> QED BY <2>1, <2>2 DEF AloneInv
<1>7. CASE UNCHANGED vars
  BY <1>7 DEF AloneInv, AttemptBusy, TeacherBusy, vars, student
<1> QED BY <1>0, <1>2, <1>3, <1>4, <1>5, <1>6, <1>7, NextAlone

-----------------------------------------------------------------------------
\* The replay of k depends on who is cited, in which order, and on whose appeal
\* was sustained.
LEMMA SameReplay ==
    ASSUME TypeOK, TableIsDone, NEW k \in Points, Cited(k)' = Cited(k),
           stamp' \in [Attempts -> Nat], \A b \in Cited(k) : stamp'[b] = stamp[b],
           \A b \in Cited(k) : appeal'[b] = "sustained" <=> appeal[b] = "sustained"
    PROVE  Replay(k)' = Replay(k)
<1> DEFINE C == Cited(k)
           n == Cardinality(C)
<1>1. /\ C \in SUBSET Attempts /\ IsFiniteSet(C) /\ Distinct(C, stamp)
      /\ stamp \in [Attempts -> Nat]
  BY CitedIs
<1>2. \A i \in 1..n : Nth(C, stamp, i) \in C
  BY <1>1, NthIs
<1>3. \A i \in 1..n : Nth(C, stamp', i) = Nth(C, stamp, i)
  BY <1>1, SameOrder
<1>4. Replay(k)' = [i \in 1..Cardinality(Cited(k)') |->
             [attempt |-> Nth(Cited(k)', stamp', i),
              regraded |-> appeal'[Nth(Cited(k)', stamp', i)] = "sustained"]]
  BY DEF Replay, Nth, OlderThan, Cited
<1>5. Replay(k)' = [i \in 1..n |->
             [attempt |-> Nth(C, stamp', i),
              regraded |-> appeal'[Nth(C, stamp', i)] = "sustained"]]
  BY <1>4
<1>6. Replay(k) = [i \in 1..n |->
             [attempt |-> Nth(C, stamp, i),
              regraded |-> appeal[Nth(C, stamp, i)] = "sustained"]]
  BY ReplayInOrder
<1> HIDE DEF C, n
<1>7. \A i \in 1..n : /\ Nth(C, stamp', i) = Nth(C, stamp, i)
                      /\ appeal'[Nth(C, stamp, i)] = "sustained"
                            <=> appeal[Nth(C, stamp, i)] = "sustained"
  BY <1>2, <1>3 DEF C
<1> QED BY <1>5, <1>6, <1>7

\* A committed attempt is the last one of every replay it is part of.
LEMMA CommitAppends ==
    ASSUME MasteryInv, NEW a \in Attempts, Commit(a), \A b \in table : stamp[b] < stamp[a],
           NEW k \in Cites[a], k \in Points
    PROVE  Replay(k)' = Append(Replay(k), [attempt |-> a, regraded |-> FALSE])
<1>0. TypeOK /\ TableIsDone
  BY DEF MasteryInv
<1> DEFINE C == Cited(k)
           n == Cardinality(C)
           entry == [attempt |-> a, regraded |-> FALSE]
<1>1. /\ C \in SUBSET Attempts /\ C \subseteq table /\ IsFiniteSet(C) /\ Distinct(C, stamp)
      /\ stamp \in [Attempts -> Nat]
  BY <1>0, CitedIs
<1>2. /\ table' = table \cup {a} /\ stamp' = stamp /\ appeal' = appeal /\ a \notin table
  BY <1>0 DEF Commit, Move, TableIsDone
<1>3. Cited(k)' = C \cup {a}
  BY <1>2 DEF Cited
<1>4. \A b \in C : stamp[b] < stamp[a]
  BY <1>1
<1> HIDE DEF C
<1>5. /\ Cardinality(C \cup {a}) = n + 1
      /\ \A i \in 1..n : Nth(C \cup {a}, stamp, i) = Nth(C, stamp, i)
      /\ Nth(C \cup {a}, stamp, n + 1) = a
  BY <1>1, <1>4, OneMore
<1>6. appeal[a] = "none"
  BY <1>0, <1>2 DEF TableIsDone
<1>7. Replay(k)' = [i \in 1..Cardinality(Cited(k)') |->
             [attempt |-> Nth(Cited(k)', stamp', i),
              regraded |-> appeal'[Nth(Cited(k)', stamp', i)] = "sustained"]]
  BY DEF Replay, Nth, OlderThan, Cited
<1> DEFINE Score(i) == [attempt |-> Nth(C \cup {a}, stamp, i),
                        regraded |-> appeal[Nth(C \cup {a}, stamp, i)] = "sustained"]
<1>8. Replay(k)' = [i \in 1..(n + 1) |-> Score(i)]
  BY <1>2, <1>3, <1>5, <1>7
<1>9. /\ n \in Nat /\ Replay(k) \in Seq(Entry) /\ Len(Replay(k)) = n
      /\ \A i \in 1..n : Replay(k)[i] = [attempt |-> Nth(C, stamp, i),
            regraded |-> appeal[Nth(C, stamp, i)] = "sustained"]
  BY <1>0, ReplayIs DEF C
<1>10. /\ \A i \in 1..n : Score(i) = Replay(k)[i]
       /\ Score(n + 1) = entry
  BY <1>5, <1>6, <1>9
<1> HIDE DEF n, Score
<1>11. entry \in Entry
  BY DEF Entry
<1> HIDE DEF entry
<1> DEFINE more == Append(Replay(k), entry)
<1>12. /\ more \in Seq(Entry) /\ Len(more) = n + 1 /\ more[n + 1] = entry
       /\ \A i \in 1..n : more[i] = Replay(k)[i]
  BY <1>9, <1>11, AppendProperties
<1>13. more \in [1..(n + 1) -> Entry]
  BY <1>12, LenProperties
<1> HIDE DEF more
<1>14. \A i \in 1..(n + 1) : Score(i) = more[i]
  <2>1. \A i \in 1..(n + 1) : i \in 1..n \/ i = n + 1
    BY <1>9
  <2> QED BY <1>10, <1>12, <2>1
<1>15. Replay(k)' = more
  BY <1>8, <1>13, <1>14
<1> QED BY <1>15 DEF more, entry

\* Without an overlap and without a review cut short, every step keeps what is
\* stored equal to the replay, but for the points under review.
LEMMA NextReplayInv ==
    MasteryInv /\ MasteryInv' /\ AloneInv /\ ReplayInv /\ [Next]_vars => ReplayInv'
<1> SUFFICES ASSUME MasteryInv, MasteryInv', AloneInv, ReplayInv, [Next]_vars,
                    ~overlap', \A t \in Teachers : teacher'[t].state # "failed"
             PROVE  ReplayInv'
  BY DEF ReplayInv
<1>0. TypeOK /\ TableIsDone /\ ReviewsCite
  BY DEF MasteryInv
<1>1. /\ ~overlap
      /\ \A t, u \in Teachers : TeacherBusy(t) /\ TeacherBusy(u) => t = u
      /\ \A a \in Attempts, t \in Teachers : ~(AttemptBusy(a) /\ TeacherBusy(t))
      /\ \A a \in Attempts : AttemptBusy(a) => \A b \in table : stamp[b] < stamp[a]
      /\ \A a \in Attempts : phase[a] = "read" => seen[a] = ledger
      /\ \A t \in Teachers : teacher[t].state = "resolving" =>
            appeal[teacher[t].attempt] = "pending"
  BY <1>0, NextAlone DEF AloneInv
<1>2. \A t \in Teachers : teacher[t].state # "failed"
  <2>1. ASSUME NEW t \in Teachers, ReviewStep(t)
        PROVE  /\ teacher[t].state # "failed"
               /\ \A u \in Teachers \ {t} : teacher'[u] = teacher[u]
    <3>1. CASE \E a \in Attempts, outcome \in {"sustained", "rejected"} :
                  ReadAppeal(t, a, outcome)
      BY <1>0, <3>1, ReadAppealDoes
    <3>2. CASE ~(\E a \in Attempts, outcome \in {"sustained", "rejected"} :
                    ReadAppeal(t, a, outcome))
      <4>1. TeacherBusy(t) /\ \A u \in Teachers \ {t} : teacher'[u] = teacher[u]
        BY <2>1, <3>2, GoesOnAlone DEF ReviewStep
      <4> QED BY <4>1 DEF TeacherBusy
    <3> QED BY <3>1, <3>2
  <2>2. (\E a \in Attempts : AttemptStep(a) \/ CreateAppeal(a)) \/ UNCHANGED vars
          => teacher' = teacher
    BY <1>0, AttemptMoves DEF CreateAppeal, vars
  <2> QED BY <2>1, <2>2, NextIsAStep
<1>3. /\ \A k \in Points : ledger[k] = Replay(k) \/ \E t \in Teachers : Regrading(t, k)
      /\ \A t \in Teachers, k \in Points :
            teacher[t].state = "writing" /\ teacher[t].point = k =>
                teacher[t].evidence = Replay(k)
  BY <1>1, <1>2 DEF ReplayInv
\* A step that leaves the table, the ledger and the reviews alone.
<1>5. ASSUME ledger' = ledger, teacher' = teacher, \A k \in Points : Replay(k)' = Replay(k)
      PROVE  ReplayInv'
  <2>1. \A t \in Teachers, k \in Points : Regrading(t, k) => Regrading(t, k)'
    BY <1>5 DEF Regrading
  <2>2. \A k \in Points : ledger'[k] = Replay(k)' \/ \E t \in Teachers : Regrading(t, k)'
    BY <1>3, <1>5, <2>1
  <2>3. ASSUME NEW t \in Teachers, NEW k \in Points,
               teacher'[t].state = "writing", teacher'[t].point = k
        PROVE  teacher'[t].evidence = Replay(k)'
    BY <1>3, <1>5, <2>3
  <2> QED BY <1>5, <2>2, <2>3 DEF ReplayInv
<1>6. ASSUME NEW a \in Attempts,
             Stamp(a) \/ Insert(a) \/ ReadMastery(a) \/ AttemptFails(a) \/ CreateAppeal(a)
      PROVE  ReplayInv'
  <2>1. /\ ledger' = ledger /\ teacher' = teacher /\ table' = table
    BY <1>6 DEF Stamp, Insert, ReadMastery, AttemptFails, CreateAppeal, student
  <2>2. /\ stamp' \in [Attempts -> Nat] /\ \A b \in table : stamp'[b] = stamp[b]
    <3>1. CASE CreateAppeal(a)
      BY <1>0, <3>1 DEF CreateAppeal, student, TypeOK
    <3>2. CASE ~CreateAppeal(a)
      <4>1. AttemptStep(a)
        BY <1>6, <3>2 DEF AttemptStep
      <4> QED BY <1>0, <4>1, AttemptMoves DEF TypeOK
    <3> QED BY <3>1, <3>2
  <2>3. \A b \in Attempts : appeal'[b] = "sustained" <=> appeal[b] = "sustained"
    BY <1>0, <1>6 DEF Stamp, Insert, ReadMastery, AttemptFails, CreateAppeal, TypeOK
  <2>4. ASSUME NEW k \in Points PROVE Replay(k)' = Replay(k)
    <3>1. Cited(k)' = Cited(k) /\ Cited(k) \subseteq table /\ Cited(k) \subseteq Attempts
      BY <1>0, <2>1 DEF Cited, TypeOK
    <3> QED BY <1>0, <2>2, <2>3, <3>1, SameReplay
  <2> QED BY <1>5, <2>1, <2>4
<1>7. ASSUME NEW a \in Attempts, Commit(a) PROVE ReplayInv'
  <2>1. /\ phase[a] = "read" /\ AttemptBusy(a) /\ teacher' = teacher /\ appeal' = appeal
        /\ table' = table \cup {a} /\ stamp' = stamp
    BY <1>7 DEF Commit, Move, AttemptBusy
  <2>2. \A t \in Teachers : ~TeacherBusy(t) /\ ~TeacherBusy(t)'
    BY <1>1, <2>1 DEF TeacherBusy
  <2>3. \A k \in Points : ledger[k] = Replay(k)
    BY <1>3, <2>2 DEF Regrading, TeacherBusy
  <2>4. seen[a] = ledger /\ \A b \in table : stamp[b] < stamp[a]
    BY <1>1, <2>1
  <2>5. ASSUME NEW k \in Points PROVE ledger'[k] = Replay(k)'
    <3>1. CASE k \in Cites[a]
      <4>1. ledger'[k] = Append(ledger[k], [attempt |-> a, regraded |-> FALSE])
        BY <1>7, <2>4, <3>1 DEF Commit
      <4>2. Replay(k)' = Append(Replay(k), [attempt |-> a, regraded |-> FALSE])
        BY <1>7, <2>4, <3>1, CommitAppends
      <4> QED BY <2>3, <4>1, <4>2
    <3>2. CASE k \notin Cites[a]
      <4>1. ledger'[k] = ledger[k]
        BY <1>7, <3>2 DEF Commit
      <4>2. Cited(k)' = Cited(k)
        BY <2>1, <3>2 DEF Cited
      <4>3. stamp' \in [Attempts -> Nat]
        BY <1>0, <2>1 DEF TypeOK
      <4>4. Replay(k)' = Replay(k)
        BY <1>0, <2>1, <4>2, <4>3, SameReplay
      <4> QED BY <2>3, <4>1, <4>4
    <3> QED BY <3>1, <3>2
  <2>6. \A t \in Teachers : teacher'[t].state # "writing"
    BY <2>2 DEF TeacherBusy
  <2> QED BY <2>5, <2>6 DEF ReplayInv
\* The steps of a review leave the table alone.
<1>8. ASSUME NEW t \in Teachers, ReviewStep(t), ~CommitOutcome(t)
      PROVE  /\ \A k \in Points : Replay(k)' = Replay(k)
             /\ \A u \in Teachers \ {t}, k \in Points : Regrading(u, k)' <=> Regrading(u, k)
             /\ \A u \in Teachers \ {t} : teacher'[u] = teacher[u]
  <2>1. table' = table /\ stamp' = stamp /\ appeal' = appeal
    BY <1>8 DEF ReviewStep, ReadAppeal, WriteMastery, ResolveFails, ReadEvidence, student
  <2>2. \A k \in Points : Cited(k)' = Cited(k)
    BY <2>1 DEF Cited
  <2>3. stamp' \in [Attempts -> Nat]
    BY <1>0, <2>1 DEF TypeOK
  <2>4. \A u \in Teachers \ {t} : teacher'[u] = teacher[u]
    <3>1. CASE \E a \in Attempts, outcome \in {"sustained", "rejected"} :
                  ReadAppeal(t, a, outcome)
      BY <1>0, <3>1, ReadAppealDoes
    <3>2. CASE ~(\E a \in Attempts, outcome \in {"sustained", "rejected"} :
                    ReadAppeal(t, a, outcome))
      BY <1>8, <3>2, GoesOnAlone DEF ReviewStep
    <3> QED BY <3>1, <3>2
  <2> QED BY <1>0, <2>1, <2>2, <2>3, <2>4, SameReplay DEF Regrading
<1>9. ASSUME NEW t \in Teachers, NEW a \in Attempts,
             NEW outcome \in {"sustained", "rejected"}, ReadAppeal(t, a, outcome)
      PROVE  ReplayInv'
  <2>1. /\ teacher[t].state = "idle" /\ teacher'[t].state \in {"resolving", "refused"}
        /\ ledger' = ledger /\ ReviewStep(t) /\ ~CommitOutcome(t)
    <3>1. teacher[t].state = "idle" /\ teacher'[t].state \in {"resolving", "refused"}
      BY <1>0, <1>9, ReadAppealDoes
    <3>2. ledger' = ledger /\ ReviewStep(t)
      BY <1>9 DEF ReadAppeal, ReviewStep
    <3> QED BY <3>1, <3>2 DEF CommitOutcome
  <2>2. \A k \in Points : ~Regrading(t, k)
    BY <2>1 DEF Regrading
  <2>3. \A k \in Points : ledger'[k] = Replay(k)' \/ \E u \in Teachers : Regrading(u, k)'
    BY <1>3, <1>8, <2>1, <2>2
  <2>4. ASSUME NEW u \in Teachers, NEW k \in Points,
               teacher'[u].state = "writing", teacher'[u].point = k
        PROVE  teacher'[u].evidence = Replay(k)'
    <3>1. u # t /\ teacher'[u] = teacher[u]
      BY <1>8, <2>1, <2>4
    <3> QED BY <1>3, <1>8, <2>1, <2>4, <3>1
  <2> QED BY <2>3, <2>4 DEF ReplayInv
<1>10. ASSUME NEW t \in Teachers, CommitOutcome(t) PROVE ReplayInv'
  <2> DEFINE a == teacher[t].attempt
  <2>1. /\ teacher[t].state = "resolving" /\ a \in Attempts
        /\ \A u \in Teachers \ {t} : teacher'[u] = teacher[u]
        /\ teacher'[t].left = IF teacher[t].outcome = "sustained" THEN Cites[a] ELSE {}
        /\ teacher'[t].state = IF teacher'[t].left = {} THEN "done" ELSE "regrading"
        /\ teacher[t].outcome \in {"sustained", "rejected"}
        /\ appeal' = [appeal EXCEPT ![a] = teacher[t].outcome]
    BY <1>0, <1>10, CommitOutcomeDoes
  <2>2. appeal[a] = "pending" /\ TeacherBusy(t)
    BY <1>1, <2>1 DEF TeacherBusy
  <2>3. \A u \in Teachers \ {t} : ~TeacherBusy(u)
    BY <1>1, <2>2
  <2>4. \A k \in Points : ledger[k] = Replay(k)
    BY <1>3, <2>1, <2>3 DEF Regrading, TeacherBusy
  <2>5. ledger' = ledger /\ table' = table /\ stamp' = stamp
    BY <1>10 DEF CommitOutcome, student
  <2> HIDE DEF a
  <2>6. ASSUME NEW k \in Points, k \notin teacher'[t].left PROVE ledger'[k] = Replay(k)'
    <3>1. Cited(k)' = Cited(k) /\ stamp' \in [Attempts -> Nat]
      BY <1>0, <2>5 DEF Cited, TypeOK
    <3>2. \A b \in Cited(k) : b \in Attempts /\ (b = a => k \in Cites[a])
      BY <1>0 DEF Cited, TypeOK
    <3>3. \A b \in Cited(k) : appeal'[b] = "sustained" <=> appeal[b] = "sustained"
      <4>1. appeal \in [Attempts -> {"none", "pending", "sustained", "rejected"}]
        BY <1>0 DEF TypeOK
      <4> QED BY <2>1, <2>2, <2>6, <3>2, <4>1
    <3>4. Replay(k)' = Replay(k)
      BY <1>0, <2>5, <3>1, <3>3, SameReplay
    <3> QED BY <2>4, <2>5, <3>4
  <2>7. \A k \in Points : k \in teacher'[t].left => Regrading(t, k)'
    BY <2>1 DEF Regrading
  <2>8. \A u \in Teachers : teacher'[u].state # "writing"
    BY <2>1, <2>3 DEF TeacherBusy
  <2> QED BY <2>6, <2>7, <2>8 DEF ReplayInv
<1>11. ASSUME NEW t \in Teachers, NEW k \in Points, ReadEvidence(t, k) PROVE ReplayInv'
  <2>1. Replay(k) \in Seq(Entry)
    BY <1>0, ReplayIs
  <2>2. /\ teacher[t].state = "regrading" /\ teacher'[t].state = "writing"
        /\ teacher'[t].left = teacher[t].left /\ teacher'[t].point = k
        /\ teacher'[t].evidence = Replay(k)
        /\ ledger' = ledger /\ ReviewStep(t) /\ ~CommitOutcome(t)
    BY <1>0, <1>11, <2>1, ReadEvidenceDoes DEF ReadEvidence, ReviewStep, CommitOutcome
  <2>3. \A j \in Points : Regrading(t, j)' <=> Regrading(t, j)
    BY <2>2 DEF Regrading
  <2>4. \A j \in Points : ledger'[j] = Replay(j)' \/ \E u \in Teachers : Regrading(u, j)'
    BY <1>3, <1>8, <2>2, <2>3
  <2>5. ASSUME NEW u \in Teachers, NEW j \in Points,
               teacher'[u].state = "writing", teacher'[u].point = j
        PROVE  teacher'[u].evidence = Replay(j)'
    <3>1. CASE u = t
      BY <1>8, <2>2, <2>5, <3>1
    <3>2. CASE u # t
      <4>1. teacher'[u] = teacher[u]
        BY <1>8, <2>2, <3>2
      <4> QED BY <1>3, <1>8, <2>2, <2>5, <4>1
    <3> QED BY <3>1, <3>2
  <2> QED BY <2>4, <2>5 DEF ReplayInv
<1>12. ASSUME NEW t \in Teachers, WriteMastery(t) PROVE ReplayInv'
  <2> DEFINE p == teacher[t].point
  <2>1. /\ teacher[t].state = "writing" /\ p \in Points
        /\ teacher'[t].left = teacher[t].left \ {p}
        /\ teacher'[t].state = IF teacher'[t].left = {} THEN "done" ELSE "regrading"
        /\ ledger' = [ledger EXCEPT ![p] = teacher[t].evidence]
        /\ ReviewStep(t) /\ ~CommitOutcome(t)
    BY <1>0, <1>12, WriteMasteryDoes DEF ReviewStep, CommitOutcome
  <2>2. \A u \in Teachers \ {t} : ~TeacherBusy(u) /\ ~TeacherBusy(u)'
    <3>1. \A u \in Teachers \ {t} : ~TeacherBusy(u)
      BY <1>1, <2>1 DEF TeacherBusy
    <3> QED BY <1>8, <2>1, <3>1 DEF TeacherBusy
  <2>3. ASSUME NEW j \in Points PROVE ledger'[j] = Replay(j)' \/ Regrading(t, j)'
    <3>1. Replay(j)' = Replay(j)
      BY <1>8, <2>1
    <3>2. CASE j = teacher[t].point
      <4>1. teacher[t].evidence = Replay(j)
        BY <1>3, <2>1, <3>2
      <4>2. ledger'[j] = teacher[t].evidence
        BY <1>0, <2>1, <3>2 DEF TypeOK, Ledger
      <4> QED BY <3>1, <4>1, <4>2
    <3>3. CASE j # teacher[t].point
      <4>1. ledger'[j] = ledger[j]
        BY <1>0, <2>1, <3>3 DEF TypeOK, Ledger
      <4>2. CASE ledger[j] = Replay(j)
        BY <3>1, <4>1, <4>2
      <4>3. CASE \E u \in Teachers : Regrading(u, j)
        <5>1. Regrading(t, j)
          BY <2>2, <4>3 DEF Regrading, TeacherBusy
        <5> QED BY <2>1, <3>3, <5>1 DEF Regrading
      <4> QED BY <1>3, <4>2, <4>3
    <3> QED BY <3>2, <3>3
  <2>4. \A u \in Teachers : teacher'[u].state # "writing"
    BY <2>1, <2>2 DEF TeacherBusy
  <2> QED BY <2>3, <2>4 DEF ReplayInv
<1>13. ASSUME NEW t \in Teachers, ResolveFails(t) PROVE ReplayInv'
  BY <1>0, <1>13, ResolveFailsDoes
<1>14. CASE UNCHANGED vars
  <2>1. /\ ledger' = ledger /\ teacher' = teacher /\ table' = table /\ stamp' = stamp
        /\ appeal' = appeal
    BY <1>14 DEF vars, student
  <2>2. ASSUME NEW k \in Points PROVE Replay(k)' = Replay(k)
    <3>1. Cited(k)' = Cited(k) /\ stamp' \in [Attempts -> Nat]
      BY <1>0, <2>1 DEF Cited, TypeOK
    <3> QED BY <1>0, <2>1, <3>1, SameReplay
  <2> QED BY <1>5, <2>1, <2>2
<1> QED BY <1>0, <1>6, <1>7, <1>9, <1>10, <1>11, <1>12, <1>13, <1>14, NextAlone

-----------------------------------------------------------------------------
\* Nothing is stored or under way at the start, so all the invariants hold.
LEMMA InitMastery ==
    Init => MasteryInv /\ OnceInv /\ LockInv /\ AloneInv /\ ReplayInv
<1> SUFFICES ASSUME Init
             PROVE  MasteryInv /\ OnceInv /\ LockInv /\ AloneInv /\ ReplayInv
  OBVIOUS
<1> USE DEF Init
<1>1. <<>> \in Seq(Entry) /\ Len(<<>>) = 0 /\ Empty \in Ledger
  BY EmptySeq DEF Empty, Ledger
<1>2. Idle \in Call /\ Idle.state = "idle" /\ Idle.attempt = None
  BY <1>1 DEF Idle, Call
<1>3. \A t \in Teachers : teacher[t].state = "idle" /\ teacher[t].attempt = None
  BY <1>2
<1>4. MasteryInv
  <2>1. TypeOK
    BY <1>1, <1>2 DEF TypeOK, Call
  <2>2. TableIsDone
    BY FS_EmptySet DEF TableIsDone
  <2>3. ReviewsCite
    BY <1>3 DEF ReviewsCite
  <2> QED BY <2>1, <2>2, <2>3 DEF MasteryInv
<1>5. OnceInv
  BY <1>1, <1>3 DEF OnceInv, Once, Empty
<1>6. LockInv
  BY MasteryLedgerAssumption DEF LockInv, AttemptsKept
<1>7. AloneInv
  BY <1>3 DEF AloneInv, AttemptBusy, TeacherBusy
<1>8. ReplayInv
  <2> SUFFICES ASSUME NEW k \in Points PROVE ledger[k] = Replay(k)
    BY <1>3 DEF ReplayInv
  <2>1. Cited(k) = {}
    BY DEF Cited
  <2>2. Cardinality(Cited(k)) = 0
    BY <2>1, FS_EmptySet
  <2>3. Replay(k) \in Seq(Entry) /\ Len(Replay(k)) = 0
    BY <1>4, <2>2, ReplayIs DEF MasteryInv
  <2>4. Replay(k) = <<>>
    BY <2>3, EmptySeq
  <2> QED BY <2>4 DEF Empty
<1> QED BY <1>4, <1>5, <1>6, <1>7, <1>8

\* Every variable keeps its type, the stamps tell the attempts apart and a
\* review is of an attempt that was appealed.
THEOREM MasteryInvariant == Spec => []MasteryInv
BY InitMastery, NextMasteryInv, PTL DEF Spec

\* Type correctness: in particular every score that is stored, read or about to
\* be written is of an attempt.
THEOREM MasteryTypeCorrect == Spec => []TypeOK
<1>1. MasteryInv => TypeOK
  BY DEF MasteryInv
<1> QED BY <1>1, MasteryInvariant, PTL

\* With or without a write lock, whatever fails and overlaps, an attempt counts
\* at most once in a point it cites, and only if it was committed.
THEOREM AttemptsCountOnce == Spec => []CountedOnce
<1>1. MasteryInv /\ OnceInv => CountedOnce
  <2> SUFFICES ASSUME MasteryInv, OnceInv PROVE CountedOnce
    OBVIOUS
  <2>1. \A k \in Points : DOMAIN ledger[k] = 1..Len(ledger[k])
    <3>1. \A k \in Points : ledger[k] \in Seq(Entry)
      BY DEF MasteryInv, TypeOK, Ledger
    <3> QED BY <3>1, LenProperties
  <2> QED BY <2>1 DEF OnceInv, Once, CountedOnce
<1> QED BY <1>1, InitMastery, MasteryInvariant, NextOnceInv, PTL DEF Spec

\* One writing transaction at a time is enough to lose no attempt, as long as
\* no review recomputes its points.
THEOREM AttemptsAreKept == Spec => [](WriteLock => AttemptsKept)
<1>1. LockInv => (WriteLock => AttemptsKept)
  BY DEF LockInv
<1> QED BY <1>1, InitMastery, MasteryInvariant, NextLockInv, PTL DEF Spec

\* Incremental updates and recomputation agree: whenever nothing is under way,
\* and no two calls have overlapped nor a review been cut short, what is stored
\* for every point is the replay of all the evidence.
THEOREM LedgerIsTheReplay == Spec => []LedgerIsReplay
<1>1. ReplayInv => LedgerIsReplay
  <2> SUFFICES ASSUME ReplayInv, Quiet, ~overlap,
                      \A t \in Teachers : teacher[t].state # "failed",
                      NEW k \in Points
               PROVE  ledger[k] = Replay(k)
    BY DEF LedgerIsReplay
  <2> QED BY DEF ReplayInv, Regrading, Quiet, TeacherBusy
<1> QED BY <1>1, InitMastery, MasteryInvariant, NextAloneInv, NextReplayInv, PTL DEF Spec
=============================================================================
