----------------------------- MODULE MCAgentLoop -----------------------------
(* AgentLoop with a reader, a writer and a question to the user. *)
EXTENDS AgentLoop

CONSTANTS read, write, ask

MCTools == {read, write, ask}
MCSafe  == {read, ask}
MCAsk   == {ask}
MCLimits == {2}
=============================================================================
