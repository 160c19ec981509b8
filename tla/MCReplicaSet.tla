---------------------------- MODULE MCReplicaSet ----------------------------
(* Instance of ReplicaSet for TLC: three units, two deployed at the start  *)
(* and one that a scale-up adds.                                           *)
EXTENDS ReplicaSet, TLC

CONSTANTS u1, u2, u3

MCUnit == {u1, u2, u3}
MCInitialUnits == {u1, u2}

\* u1 and u2 play the same part: both are deployed at the start.
\* The liveness runs: one unit deployed, one added by a scale-up.
MCSmallUnit == {u1, u2}
MCSmallInitialUnits == {u1}

\* One unit deployed, two added by scale-ups.

MCSymmetry == Permutations({u1, u2})
=============================================================================
