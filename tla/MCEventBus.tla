----------------------------- MODULE MCEventBus -----------------------------
(***************************************************************************)
(* Small instances of EventBus for TLC.                                    *)
(***************************************************************************)
EXTENDS EventBus

CONSTANTS w1, w2, w3, r1, close, ws, sse

\* Two events of the agent and one of a cancel or approval request.
MCWorkerCalls  == {w1, w2}
MCRequestCalls == {r1}
\* Three events of the agent alone.
MCThreeCalls   == {w1, w2, w3}
MCNoCalls      == {}
\* One WebSocket forwarder and one SSE stream; or the WebSocket alone.
MCSubscribers  == {ws, sse}
MCSSEReaders   == {sse}
MCOneReader    == {ws}
=============================================================================
