--------------------------- MODULE MasteryLedger ---------------------------
(***************************************************************************)
(* The mastery of one student: record_attempt, create_appeal,              *)
(* resolve_appeal and recompute_student_kp_mastery of EduRepository, and   *)
(* the route that chains the last two.                                     *)
(*                                                                         *)
(* mastery_states stores, per knowledge point, the fold of a list of       *)
(* scores.  Here it stores the list: two folds agree when their lists do,  *)
(* confidence is the list's length, and what matters is which attempts are *)
(* in it, in which order, and with which score.  Every call is a process;  *)
(* a step ends at an await of the database.  With WriteLock the database   *)
(* admits one writing transaction at a time, from its first INSERT or      *)
(* UPDATE to its commit (SQLite, the default); without, several (the       *)
(* PostgreSQL that database.py also provides for).                         *)
(***************************************************************************)
EXTENDS Integers, Sequences, FiniteSets

CONSTANTS
    Attempts,   \* calls of record_attempt, and the rows they make
    Points,     \* knowledge points
    Cites,      \* the knowledge points each attempt is evidence for
    Teachers,   \* calls of the resolve route
    WriteLock,  \* whether the database serialises writing transactions
    MaxFaults,  \* bound: calls cut short by an error or a dying process
    None        \* no writer, no attempt, no point

ASSUME MasteryLedgerAssumption ==
    /\ Cites \in [Attempts -> SUBSET Points]
    /\ WriteLock \in BOOLEAN
    /\ MaxFaults \in Nat
    /\ Attempts \cap Teachers = {}
    /\ None \notin Attempts \cup Teachers \cup Points

VARIABLES
    phase,     \* where each record_attempt stands
    stamp,     \* learning_attempts.created_at, 0 before it is taken
    clock,     \* the time of the next stamp
    table,     \* attempts whose transaction has committed
    writer,    \* the call whose transaction holds SQLite's write lock
    seen,      \* the mastery rows each record_attempt has read
    ledger,    \* mastery_states: the scores folded into each row
    appeal,    \* appeals.status of each attempt's appeal
    teacher,   \* where each resolve call stands, on which attempt and point
    faults,
    overlap    \* history: a call has arrived while another was under way

student == <<phase, stamp, clock, table, seen>>
vars    == <<student, writer, ledger, appeal, teacher, faults, overlap>>

\* One score in a fold: whose, and whether it is the teacher's new one.
Entry  == [attempt : Attempts, regraded : BOOLEAN]
Ledger == [Points -> Seq(Entry)]

Empty == [k \in Points |-> <<>>]

Idle == [state |-> "idle", attempt |-> None, outcome |-> "pending",
         left |-> {}, point |-> None, evidence |-> <<>>]

TypeOK ==
    /\ phase \in [Attempts -> {"idle", "stamped", "inserted", "read", "done", "failed"}]
    /\ stamp \in [Attempts -> Nat]
    /\ clock \in Nat
    /\ table \subseteq Attempts
    /\ writer \in Attempts \cup {None}
    /\ seen \in [Attempts -> Ledger]
    /\ ledger \in Ledger
    /\ appeal \in [Attempts -> {"none", "pending", "sustained", "rejected"}]
    /\ teacher \in [Teachers ->
          [state : {"idle", "resolving", "regrading", "writing", "done",
                    "refused", "failed"},
           attempt : Attempts \cup {None},
           outcome : {"pending", "sustained", "rejected"},
           left : SUBSET Points,
           point : Points \cup {None},
           evidence : Seq(Entry)]]
    /\ faults \in Nat
    /\ overlap \in BOOLEAN

Init ==
    /\ phase = [a \in Attempts |-> "idle"]
    /\ stamp = [a \in Attempts |-> 0]
    /\ clock = 1
    /\ table = {}
    /\ writer = None
    /\ seen = [a \in Attempts |-> Empty]
    /\ ledger = Empty
    /\ appeal = [a \in Attempts |-> "none"]
    /\ teacher = [t \in Teachers |-> Idle]
    /\ faults = 0
    /\ overlap = FALSE

Move(a, from, to) == phase[a] = from /\ phase' = [phase EXCEPT ![a] = to]

\* The committed evidence for k, oldest first, with the new score where an
\* appeal was sustained: what recompute_student_kp_mastery reads and folds.
Replay(k) ==
    LET cited == {a \in table : k \in Cites[a]}
        older(a) == Cardinality({b \in cited : stamp[b] < stamp[a]})
        nth(i) == CHOOSE a \in cited : older(a) = i - 1
    IN [i \in 1..Cardinality(cited) |->
           [attempt |-> nth(i), regraded |-> appeal[nth(i)] = "sustained"]]

(***************************************************************************)
(* record_attempt                                                          *)
(***************************************************************************)

\* created_at is taken when the INSERT is prepared, before it gets its turn.
Stamp(a) ==
    /\ Move(a, "idle", "stamped")
    /\ stamp' = [stamp EXCEPT ![a] = clock]
    /\ clock' = clock + 1
    /\ UNCHANGED <<table, seen, writer, ledger, appeal, teacher, faults>>

\* Mutant of Insert: no transaction waits for another.
MutInsertUnlocked(a) ==
    /\ Move(a, "stamped", "inserted")
    /\ UNCHANGED <<stamp, clock, table, seen, writer, ledger, appeal, teacher, faults>>

\* flush: the INSERT opens the writing transaction.
Insert(a) ==
    /\ Move(a, "stamped", "inserted")
    /\ \/ WriteLock /\ writer = None /\ writer' = a
       \/ ~WriteLock /\ UNCHANGED writer
    /\ UNCHANGED <<stamp, clock, table, seen, ledger, appeal, teacher, faults>>

ReadMastery(a) ==
    /\ Move(a, "inserted", "read")
    /\ seen' = [seen EXCEPT ![a] = ledger]
    /\ UNCHANGED <<stamp, clock, table, writer, ledger, appeal, teacher, faults>>

\* One commit stores the attempt and, per cited point, the mastery that was
\* read moved by this attempt's score.
Commit(a) ==
    /\ Move(a, "read", "done")
    /\ table' = table \cup {a}
    /\ ledger' = [k \in Points |->
          IF k \in Cites[a]
          THEN Append(seen[a][k], [attempt |-> a, regraded |-> FALSE])
          ELSE ledger[k]]
    /\ seen' = [seen EXCEPT ![a] = Empty]
    /\ writer' = None
    /\ UNCHANGED <<stamp, clock, appeal, teacher, faults>>

\* "database is locked" or any other error: everything is rolled back.
AttemptFails(a) ==
    /\ phase[a] \in {"stamped", "inserted", "read"}
    /\ faults < MaxFaults
    /\ faults' = faults + 1
    /\ phase' = [phase EXCEPT ![a] = "failed"]
    /\ seen' = [seen EXCEPT ![a] = Empty]
    /\ writer' = IF writer = a THEN None ELSE writer
    /\ UNCHANGED <<stamp, clock, table, ledger, appeal, teacher>>

(***************************************************************************)
(* Appeals                                                                 *)
(***************************************************************************)

\* One appeal per attempt, by the check and by UNIQUE(attempt_id).
CreateAppeal(a) ==
    /\ a \in table
    /\ appeal[a] = "none"
    /\ writer = None
    /\ appeal' = [appeal EXCEPT ![a] = "pending"]
    /\ UNCHANGED <<student, writer, ledger, teacher, faults>>

\* resolve_appeal reads the appeal and refuses one that is not pending.
ReadAppeal(t, a, outcome) ==
    /\ teacher[t].state = "idle"
    /\ appeal[a] # "none"
    /\ teacher' = [teacher EXCEPT ![t] =
          [Idle EXCEPT !.state = IF appeal[a] = "pending" THEN "resolving" ELSE "refused",
                       !.attempt = a, !.outcome = outcome]]
    /\ UNCHANGED <<student, writer, ledger, appeal, faults>>

\* It then commits the outcome without looking again; the route goes on to
\* recompute the points of a sustained appeal, one transaction each.
CommitOutcome(t) ==
    LET call == teacher[t]
        points == IF call.outcome = "sustained" THEN Cites[call.attempt] ELSE {}
    IN /\ call.state = "resolving"
       /\ writer = None
       /\ appeal' = [appeal EXCEPT ![call.attempt] = call.outcome]
       /\ teacher' = [teacher EXCEPT
             ![t].state = IF points = {} THEN "done" ELSE "regrading",
             ![t].left = points]
       /\ UNCHANGED <<student, writer, ledger, faults>>

\* recompute_student_kp_mastery: both SELECTs and the fold ...
ReadEvidence(t, k) ==
    /\ teacher[t].state = "regrading"
    /\ k \in teacher[t].left
    /\ teacher' = [teacher EXCEPT ![t].state = "writing", ![t].point = k,
                                  ![t].evidence = Replay(k)]
    /\ UNCHANGED <<student, writer, ledger, appeal, faults>>

\* Mutant of WriteMastery: the replay is added to what is stored.
MutWriteMasteryOnTop(t) ==
    LET call == teacher[t]
    IN /\ call.state = "writing"
       /\ writer = None
       /\ ledger' = [ledger EXCEPT ![call.point] = @ \o call.evidence]
       /\ teacher' = [teacher EXCEPT ![t] = [Idle EXCEPT !.state = "done"]]
       /\ UNCHANGED <<student, writer, appeal, faults>>

\* Mutant of WriteMastery: only the first cited point is recomputed.
MutWriteMasteryOnce(t) ==
    LET call == teacher[t]
    IN /\ call.state = "writing"
       /\ writer = None
       /\ ledger' = [ledger EXCEPT ![call.point] = call.evidence]
       /\ teacher' = [teacher EXCEPT ![t] = [Idle EXCEPT !.state = "done"]]
       /\ UNCHANGED <<student, writer, appeal, faults>>

\* ... and the row overwritten with what they gave.
WriteMastery(t) ==
    LET call == teacher[t]
        left == call.left \ {call.point}
    IN /\ call.state = "writing"
       /\ writer = None
       /\ ledger' = [ledger EXCEPT ![call.point] = call.evidence]
       /\ teacher' = [teacher EXCEPT
             ![t] = [call EXCEPT !.state = IF left = {} THEN "done" ELSE "regrading",
                                 !.left = left, !.point = None, !.evidence = <<>>]]
       /\ UNCHANGED <<student, writer, appeal, faults>>

\* The request ends in an error, or the process dies under it.
ResolveFails(t) ==
    /\ teacher[t].state \in {"resolving", "regrading", "writing"}
    /\ faults < MaxFaults
    /\ faults' = faults + 1
    /\ teacher' = [teacher EXCEPT ![t] =
          [Idle EXCEPT !.state = "failed", !.attempt = teacher[t].attempt]]
    /\ UNCHANGED <<student, writer, ledger, appeal>>

AttemptBusy(a) == phase[a] \in {"stamped", "inserted", "read"}
TeacherBusy(t) == teacher[t].state \in {"resolving", "regrading", "writing"}
Quiet == (\A a \in Attempts : ~AttemptBusy(a)) /\ (\A t \in Teachers : ~TeacherBusy(t))

Arrive ==
    \/ \E a \in Attempts : Stamp(a) \/ CreateAppeal(a)
    \/ \E t \in Teachers, a \in Attempts, outcome \in {"sustained", "rejected"} :
          ReadAppeal(t, a, outcome)

Proceed ==
    \/ \E a \in Attempts : Insert(a) \/ ReadMastery(a) \/ Commit(a) \/ AttemptFails(a)
    \/ \E t \in Teachers : \/ CommitOutcome(t) \/ WriteMastery(t) \/ ResolveFails(t)
                           \/ \E k \in Points : ReadEvidence(t, k)

Next ==
    \/ Arrive /\ overlap' = (overlap \/ ~Quiet)
    \/ Proceed /\ UNCHANGED overlap

Spec == Init /\ [][Next]_vars

-----------------------------------------------------------------------------
\* As long as no two calls have overlapped, and no review was cut short after
\* its outcome, the stored mastery is the replay of all evidence: incremental
\* updates and recomputation agree ("incremental == recompute"), after failed
\* attempts and after sustained and rejected appeals too.
LedgerIsReplay ==
    Quiet /\ ~overlap /\ (\A t \in Teachers : teacher[t].state # "failed") =>
        \A k \in Points : ledger[k] = Replay(k)

\* No overlap of attempts, appeals and failures makes an attempt count twice,
\* or lets one count that was rolled back.
CountedOnce ==
    \A k \in Points : \A i, j \in DOMAIN ledger[k] :
        /\ ledger[k][i].attempt \in table
        /\ k \in Cites[ledger[k][i].attempt]
        /\ ledger[k][i].attempt = ledger[k][j].attempt => i = j

\* Attempts never overwrite each other: a committed attempt is part of the
\* mastery of every point it cites, unless a review has recomputed that point.
AttemptsKept ==
    \A a \in table : \A k \in Cites[a] :
        \/ \E i \in DOMAIN ledger[k] : ledger[k][i].attempt = a
        \/ \E t \in Teachers : /\ teacher[t].attempt \in Attempts
                              /\ k \in Cites[teacher[t].attempt]

\* Every committed attempt is part of the mastery it is evidence for ("re-grades
\* replay the full evidence").
EvidenceKept ==
    Quiet => \A k \in Points : \A a \in table :
        k \in Cites[a] => \E i \in DOMAIN ledger[k] : ledger[k][i].attempt = a
=============================================================================
