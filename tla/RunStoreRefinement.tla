------------------------- MODULE RunStoreRefinement -------------------------
(***************************************************************************)
(* RunStore implements ActionLedger: the tables of the Run, read by the    *)
(* semantic key of the action rather than by request.                      *)
(***************************************************************************)
EXTENDS RunStore

\* Every request has a semantic key.
ASSUME RefinementAssumption == DOMAIN SemKey = Requests

Meanings == Range(SemKey)

\* What one operation row says of the action it stands for.
Knows(r) ==
    [is |-> CASE status[r] = "RUNNING"   -> "started"
              [] status[r] = "UNKNOWN"   -> "lost"
              [] status[r] = "FAILED"    -> "failed"
              [] status[r] = "SUCCEEDED" -> "succeeded",
     value |-> result[r]]

RowOf(m, r) == SemKey[r] = m /\ status[r] # "NONE"

ledgerOf == [m \in Meanings |->
               IF \E r \in Requests : RowOf(m, r)
               THEN Knows(CHOOSE r \in Requests : RowOf(m, r))
               ELSE [is |-> "absent", value |-> NoResult]]

gateOf == CASE runStatus = "ABSENT"                 -> "unregistered"
            [] runStatus = "ACTIVE"                 -> "open"
            [] runStatus = "WAITING_RECONCILIATION" -> "held"
            [] runStatus = "COMPLETED"              -> "closed"

Ledger == INSTANCE ActionLedger WITH ledger <- ledgerOf, gate <- gateOf

\* Every transaction of the store is a step of the abstract ledger or leaves
\* it alone: equivalent requests start one action (acquire_operation), its
\* verdict is given once, a lost outcome blocks the Run.
ImplementsActionLedger == Ledger!Spec

=============================================================================
