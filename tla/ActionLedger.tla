---------------------------- MODULE ActionLedger ----------------------------
(***************************************************************************)
(* What the control plane promises about external actions, without owners, *)
(* fences, leases, grants, budgets or attempts: every action, named by its *)
(* meaning, is started at most once; its verdict is given once; an action  *)
(* whose outcome is lost blocks the Run until an operator settles it.      *)
(***************************************************************************)
CONSTANTS Meanings,  \* semantic identities of actions
          Results, NoResult

VARIABLES ledger,    \* [Meanings -> what is known of the action]
          gate       \* may actions start?

vars == <<ledger, gate>>

Absent       == [is |-> "absent",  value |-> NoResult]
Started      == [is |-> "started", value |-> NoResult]
Lost         == [is |-> "lost",    value |-> NoResult]
Failed       == [is |-> "failed",  value |-> NoResult]
Succeeded(v) == [is |-> "succeeded", value |-> v]
Verdicts     == {Failed} \cup {Succeeded(v) : v \in Results}

Pending(m) == ledger[m] \in {Started, Lost}

Init == /\ ledger = [m \in Meanings |-> Absent]
        /\ gate = "unregistered"

Open == /\ gate = "unregistered"
        /\ gate' = "open"
        /\ UNCHANGED ledger

Start(m) == /\ gate = "open"
            /\ ledger[m] = Absent
            /\ ledger' = [ledger EXCEPT ![m] = Started]
            /\ UNCHANGED gate

Settle(m, d) == /\ ledger[m] = Started
                /\ ledger' = [ledger EXCEPT ![m] = d]
                /\ UNCHANGED gate

\* The outcomes of some started actions are lost: the gate is held.
Lose(S) == /\ S # {} /\ \A m \in S : ledger[m] = Started
           /\ ledger' = [m \in Meanings |-> IF m \in S THEN Lost ELSE ledger[m]]
           /\ gate' = "held"

Adjudicate(m, d) == /\ gate = "held"
                    /\ ledger[m] = Lost
                    /\ ledger' = [ledger EXCEPT ![m] = d]
                    /\ gate' = IF \E n \in Meanings \ {m} : Pending(n)
                               THEN "held" ELSE "open"

Hold == gate = "open" /\ gate' = "held" /\ UNCHANGED ledger

Close == /\ gate = "open"
         /\ \A m \in Meanings : ~Pending(m)
         /\ gate' = "closed"
         /\ UNCHANGED ledger

Moves(m) == \/ ledger[m] = Absent /\ Start(m)
            \/ Pending(m) /\ \E d \in Verdicts : Settle(m, d) \/ Adjudicate(m, d)

Next == /\ vars' # vars
        /\ \/ Open \/ Hold \/ Close
           \/ \E m \in Meanings : Moves(m)
           \/ \E S \in SUBSET {m \in Meanings : ledger[m] = Started} : Lose(S)

Spec == Init /\ [][Next]_vars

=============================================================================
