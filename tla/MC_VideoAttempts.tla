--------------------------- MODULE MC_VideoAttempts ---------------------------
(* Instances of VideoAttempts for TLC.                                     *)
EXTENDS VideoAttemptsProperties, TLC

CONSTANTS first, again, other, r1, r2

\* two attempts for one shot and one for another
ShotOf == (first :> "s1") @@ (again :> "s1") @@ (other :> "s2")
=============================================================================
