------------------------------ MODULE MCBackups ------------------------------
EXTENDS Backups, TLC

CONSTANTS u1, u2, k1, k2, c1, c2

MCUnit == {u1, u2}
MCKey == {k1, k2}
MCCred == {c1, c2}
MCSymmetry == Permutations(MCUnit)
==============================================================================
