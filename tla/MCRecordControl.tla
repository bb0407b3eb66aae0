-------------------------- MODULE MCRecordControl --------------------------
(***************************************************************************)
(* Instances of RecordControl.  No event but a firing timer, a key or a    *)
(* failure leads to a start, and one event leads to at most three.         *)
(***************************************************************************)
EXTENDS RecordControl

MCRecordings == 1 .. 9
=============================================================================
