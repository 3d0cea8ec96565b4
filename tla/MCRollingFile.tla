--------------------------- MODULE MCRollingFile ---------------------------
(* Memory that happens to be zero, negative, and past checkEveryN; clocks  *)
(* that are put forward at second 3.                                       *)
EXTENDS RollingFile

LocalTime(s) == IF s < 3 THEN s ELSE s + 2
Counts == {-2, 0, 7}
=============================================================================
