------------------------- MODULE MCPermissionBridge -------------------------
(***************************************************************************)
(* Small instances of PermissionBridge for TLC.                            *)
(***************************************************************************)
EXTENDS PermissionBridge

CONSTANTS p1, p2, r1, r2, allow, deny, typo

\* Two tool calls of different turns, two people, one decision not on offer.
MCPrompts   == {p1, p2}
MCOnePrompt == {p1}
MCResolvers == {r1, r2}
MCDecisions == {allow, deny, typo}
MCChoices   == {allow, deny}
=============================================================================
