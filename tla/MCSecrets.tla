------------------------------ MODULE MCSecrets ------------------------------
(* Small instances of Secrets for TLC.                                     *)
EXTENDS Secrets, TLC

CONSTANTS u1, u2, u3, p1, p2

MCUnit == {u1, u2, u3}
MCPwd == {p1, p2}
MCSymmetry == Permutations({u1, u2, u3})
=============================================================================
