--------------------------- MODULE MCHarnessCore ---------------------------
(* Two or three threads on one small Run, for TLC.                         *)
EXTENDS HarnessCore, TLC

CONSTANTS t1, t2, t3,      \* threads
          o1, o2,          \* owner tokens
          h1, h2,          \* two requests, for the same real solve or for two
          k1, k2,          \* keys
          gReal, gRecon,   \* approvals
          v1, v2, s1

\* A HarnessCore for each of two threads; one shared by two of three threads.
OwnTokens    == t1 :> o1 @@ t2 :> o2
SharedTokens == t1 :> o1 @@ t2 :> o1 @@ t3 :> o2

TwinSemKeys == [r \in Requests |-> k1]
OwnIdemKeys == h1 :> k1 @@ h2 :> k2
SolveKeys   == h1 :> k1
UnitCosts   == [r \in Requests |-> 1]
NoGrants == [r \in Requests |-> NoGrant]
SolveGrants == [r \in Requests |-> gReal]
=============================================================================
