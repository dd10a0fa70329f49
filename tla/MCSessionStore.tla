--------------------------- MODULE MCSessionStore ---------------------------
(***************************************************************************)
(* SessionStore with two files, of which one is new.                       *)
(***************************************************************************)
EXTENDS SessionStore

CONSTANTS a, b

MCFiles   == {a, b}
MCPresent == {a}
=============================================================================
