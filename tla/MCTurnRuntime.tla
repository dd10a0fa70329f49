--------------------------- MODULE MCTurnRuntime ---------------------------
(***************************************************************************)
(* A small instance of TurnRuntime for TLC.                                *)
(***************************************************************************)
EXTENDS TurnRuntime

CONSTANTS t1, t2, t3, s1, s2

MCSessions == {s1, s2}

\* Two turns of one session, and one of another.
MCTurns     == {t1, t2, t3}
MCSessionOf == [t \in MCTurns |-> IF t = t3 THEN s2 ELSE s1]

\* The two turns of one session alone.
MCOneSession  == {s1}
MCTwoTurns    == {t1, t2}
MCSameSession == [t \in MCTwoTurns |-> s1]

\* Bound: clients ask for two turns.  Two of one session see everything; two of
\* different sessions compete for the one permit, without a restart, and with
\* either a failing call or a shutdown.  Which of two alike turns comes first is
\* fixed: t1 does.
TwoRequests ==
    LET begun == {t \in Turns : phase[t] # "idle"}
    IN \/ begun \in {{}, {t1}, {t1, t2}}
       \/ /\ begun = {t1, t3}
          /\ crashes = 0
          /\ faults = 0 \/ service = "up"

MCSpec == Init /\ [][Next /\ TwoRequests']_vars /\ TurnFairness
=============================================================================
