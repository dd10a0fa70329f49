-------------------------- MODULE MCMasteryLedger --------------------------
(***************************************************************************)
(* Small instances of MasteryLedger for TLC.                               *)
(***************************************************************************)
EXTENDS MasteryLedger

CONSTANTS a1, a2, a3, k1, k2, m1, m2

MCAttempts == {a1, a2}
MCThree    == {a1, a2, a3}
MCPoints   == {k1, k2}
MCOnePoint == {k1}
MCTeachers == {m1, m2}
MCOneTeacher == {m1}
MCNoTeacher  == {}

\* The first attempt is evidence for both points, the others for one.
MCCites      == [a \in MCAttempts |-> IF a = a1 THEN {k1, k2} ELSE {k1}]
MCCitesThree == [a \in MCThree |-> IF a = a1 THEN {k1, k2} ELSE {k1}]
MCCitesOne   == [a \in MCAttempts |-> {k1}]
=============================================================================
