--------------------------- MODULE MCStream2File ---------------------------
(***************************************************************************)
(* Bounds of Stream2File by mode: with single pids four threads run at a   *)
(* time, so they get fewer bytes and only one recording.                   *)
(***************************************************************************)
EXTENDS Stream2File

MCBytes == [ts \in BOOLEAN |-> IF ts THEN 4 ELSE 1]
MCStarts == [ts \in BOOLEAN |-> IF ts THEN 2 ELSE 1]
=============================================================================
