--------------------------- MODULE MCLicenseLock ---------------------------
(* Three processes contending for one license slot, for TLC.               *)
EXTENDS LicenseLock, TLC

CONSTANTS p1, p2, p3

ProcSymmetry == Permutations({p1, p2, p3})
=============================================================================
