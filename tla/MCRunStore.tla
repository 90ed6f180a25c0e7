----------------------------- MODULE MCRunStore -----------------------------
(* A small Run for TLC.                                                    *)
EXTENDS RunStoreRefinement, TLC

CONSTANTS o1, o2,           \* owner tokens
          h1, h2,           \* real solves
          a1, a2,           \* ledger artifacts
          k1, k2, k3, k4,   \* caller and semantic keys
          gReal, gRecon,    \* approvals
          v1, v2, s1, s2, p1, e1

MCOwners == {o1, o2}
OwnerSymmetry == Permutations({o1, o2})

\* a1 and a2 mean the same action under different caller keys; a2 reuses the
\* caller key of the solve h1.
TwinSemKeys  == h1 :> k1 @@ h2 :> k2 @@ a1 :> k3 @@ a2 :> k3
TwinIdemKeys == h1 :> k1 @@ h2 :> k2 @@ a1 :> k4 @@ a2 :> k1
\* The budget of 4 holds both solves, or h1 and the artifact, but not h2 and it.
MixedCosts  == h1 :> 1 @@ h2 :> 3 @@ a1 :> 2 @@ a2 :> 2
SolveGrants == [r \in Requests |-> IF r \in {h1, h2} THEN gReal ELSE NoGrant]
=============================================================================
