--------------------------- MODULE MCEventDriver ---------------------------
(* Instances of EventDriver for TLC *)
EXTENDS EventDriver

MCLevels == {0, 1}
MCFilters == {{"AV"}}
=============================================================================
