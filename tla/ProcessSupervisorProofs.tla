----------------------- MODULE ProcessSupervisorProofs -----------------------
(* What an answer of the supervisor means, on both platforms.              *)
EXTENDS ProcessSupervisor, TLAPS

\* The invariant of supervision, with what every answer it gave means.
AnswerInv == SupervisorInv /\ KnownMeansGone

\* Initially nothing runs and nothing is answered.
LEMMA AnswerInit == Init => AnswerInv
  BY DEF Init, AnswerInv, SupervisorInv, SupervisorTypeOK, KnownMeansGone, Runs,
         LeaderStates, Reasons, Verdicts

\* Steps of the parent: what it answers it has seen.
LEMMA ParentKeeps ==
  ASSUME AnswerInv, ParentStep \/ Interrupt \/ InterruptEarly \/ HostLost
  PROVE  AnswerInv'
<1> USE SupervisorAssumption
    DEF SupervisorAssumption, AnswerInv, SupervisorInv, SupervisorTypeOK,
        KnownMeansGone, Runs, LeaderStates, Reasons, Verdicts, treeVars, clockVars
<1>1. CASE Start
  <2>1. CASE Posix
    BY <1>1, <2>1 DEF Start
  <2>2. CASE ~Posix
    BY <1>1, <2>2 DEF Start
  <2>3. QED
    BY <2>1, <2>2
<1>2. CASE Contain
  BY <1>2 DEF Contain
<1>3. CASE ContainFails
  BY <1>3 DEF ContainFails
<1>4. CASE PollExit
  BY <1>4 DEF PollExit, Exited
<1>5. CASE PollCancelled \/ PollOverdue \/ PollSilent \/ Interrupt
  BY <1>5 DEF PollCancelled, PollOverdue, PollSilent, Interrupt, stopFor
<1>6. CASE Drain
  <2>1. Empty => ~Runs
    BY DEF Empty, Alive
  <2>2. QED
    BY <1>6, <2>1 DEF Drain
<1>7. CASE Terminate
  BY <1>7 DEF Terminate
<1>8. CASE Verify
  <2>1. Empty => ~Runs
    BY DEF Empty, Alive
  <2>2. QED
    BY <1>8, <2>1 DEF Verify, Stopped
<1>9. CASE Close \/ HostLost
  BY <1>9 DEF Close, HostLost
<1>10. CASE InterruptEarly
  BY <1>10 DEF InterruptEarly
<1>11. QED
  BY <1>1, <1>4, <1>5, <1>6, <1>7, <1>8, <1>9, <1>10, <1>2, <1>3
  DEF ParentStep

\* Steps of the tree and of time: what does not run cannot start to.
LEMMA TreeKeeps ==
  ASSUME AnswerInv, TreeStep \/ Clock \/ UNCHANGED vars
  PROVE  AnswerInv'
<1> USE DEF AnswerInv, SupervisorInv, SupervisorTypeOK, KnownMeansGone, Runs,
            LeaderStates, treeVars, parentVars, clockVars
<1>1. CASE LeaderEnds
  BY <1>1 DEF LeaderEnds
<1>2. CASE Beat
  BY <1>2 DEF Beat
<1>3. ASSUME NEW k \in Descendants, Spawn(k) \/ KidEnds(k) PROVE AnswerInv'
  <2>1. Runs
    BY <1>3 DEF Spawn, KidEnds
  <2>2. verdict \in {"NONE", "UNKNOWN"} /\ contained
    BY <2>1
  <2>3. /\ kids' \subseteq spawned' /\ spawned' \subseteq Descendants
        /\ UNCHANGED <<leader, doomed, contained, pc, reason, verdict, clockVars>>
    BY <1>3 DEF Spawn, KidEnds
  <2>4. QED
    BY <2>2, <2>3
<1>4. CASE Clock
  BY <1>4 DEF Clock, HeartbeatLapses, Cancel, TimeoutPasses
<1>5. CASE UNCHANGED vars
  BY <1>5 DEF vars
<1>6. QED
  BY <1>1, <1>3, <1>4, <1>5, <1>2 DEF TreeStep

\* Every step keeps the invariant.
LEMMA AnswerStep == AnswerInv /\ [Next]_vars => AnswerInv'
  BY ParentKeeps, TreeKeeps DEF Next

\* For any set of descendants, in a Job and in a process group, supervision and
\* its containment fit together.
THEOREM SupervisionTheorem == Spec => []SupervisorInv
<1>1. AnswerInv => SupervisorInv
  BY DEF AnswerInv
<1>2. QED
  BY <1>1, AnswerInit, AnswerStep, PTL DEF Spec

\* For any set of descendants, on both platforms and in every race of exit,
\* deadline, cancellation and heartbeat, an answer means that nothing runs.
THEOREM KnownTheorem == Spec => []KnownMeansGone
<1>1. AnswerInv => KnownMeansGone
  BY DEF AnswerInv
<1>2. QED
  BY <1>1, AnswerInit, AnswerStep, PTL DEF Spec

=============================================================================
