------------------------- MODULE MCRestartMission -----------------------------
(* Finite instances of RestartMission.                                       *)
EXTENDS RestartMission, TLC

CONSTANTS i1, i2, nobody
=============================================================================
