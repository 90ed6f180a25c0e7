------------------------- MODULE HarnessCoreProofs -------------------------
(* Threads implement the control plane, deliver at most once, hear only     *)
(* receipts, and lose an invocation for good.                               *)
EXTENDS HarnessCore, RunStoreProofs

\* Every step of the harness is a transaction of the store or none.
LEMMA HarnessStep ==
  ASSUME ThreadShape, [HarnessNext]_harnessVars
  PROVE  [Next]_vars
<1> USE HarnessAssumption DEF HarnessAssumption, ThreadShape, Executing
<1>1. ASSUME NEW t \in Threads, InvocationPart(t) PROVE [Next]_vars
  <2>1. CASE Enter(t)
    BY <2>1 DEF Enter, Next, InvocationStep
  <2>2. CASE EnterUnfenced(t) \/ Recover(t) \/ ReadRun(t)
    BY <2>2 DEF EnterUnfenced, Recover, ReadRun, Next, LifecycleStep
  <2>3. CASE Leave(t)
    BY <2>3 DEF Leave, Next, InvocationStep
  <2>4. CASE HeartbeatInvocation(t)
    BY <2>4 DEF HeartbeatInvocation, Next, InvocationStep
  <2>5. CASE Hold(t)
    BY <2>5 DEF Hold, Next, LifecycleStep
  <2>6. ASSUME NEW s \in States, Finish(t, s) PROVE [Next]_vars
    BY <2>6 DEF Finish, Next, LifecycleStep
  <2>7. QED
    BY <1>1, <2>1, <2>2, <2>3, <2>4, <2>5, <2>6 DEF InvocationPart
<1>2. ASSUME NEW t \in Threads, ExecutePart(t) PROVE [Next]_vars
  <2>1. ASSUME NEW r \in Requests, Claim(t, r) PROVE [Next]_vars
    BY <2>1 DEF Claim, Next, OperationStep
  <2>2. ASSUME NEW r \in Requests, Reuse(t, r) PROVE [Next]_vars
    BY <2>2 DEF Reuse
  <2>3. CASE Await(t) \/ Abandon(t) \/ CallProvider(t)
    BY <2>3 DEF Await, Abandon, CallProvider
  <2>4. CASE HeartbeatJob(t)
    BY <2>4 DEF HeartbeatJob, Next, OperationStep
  <2>5. CASE ProviderStep(t)
    BY <2>5 DEF ProviderStep, ProviderReturns, ProviderRaises, PostProviderFailure,
                Commit, Next, OperationStep
  <2>6. CASE Fail(t)
    <3>1. /\ job[t] \in Requests
          /\ job[t] \in Ambiguous => (pc[t] = "doubting")
          /\ (pc[t] = "doubting") \in BOOLEAN
          /\ Token[t] \in Owners
      BY <2>6 DEF Fail
    <3>2. CASE FailOperation(job[t], Token[t], pc[t] = "doubting")
      BY <3>1, <3>2 DEF Next, OperationStep
    <3>3. QED
      BY <2>6, <3>2 DEF Fail
  <2>7. QED
    BY <1>2, <2>1, <2>2, <2>3, <2>4, <2>5, <2>6 DEF ExecutePart
<1>3. CASE Register \/ Operator \/ Time \/ \E o \in Mortal : Crash(o)
  BY <1>3 DEF Register, Operator, Time, Crash, Next, RegistrationStep, OperationStep
<1>4. CASE UNCHANGED harnessVars
  BY <1>4 DEF harnessVars
<1>5. QED
  BY <1>1, <1>2, <1>3, <1>4 DEF HarnessNext

\* Only a claim moves the fence, and only within its bound.
LEMMA FenceStep ==
  ASSUME ControlInv, fence \in Fences, [Next]_vars
  PROVE  fence' \in Fences
<1>1. ASSUME NEW h \in Owners, ClaimRunInvocation(h) PROVE fence' \in Fences
  BY <1>1, RunStoreAssumption DEF ClaimRunInvocation, Fences, RunStoreAssumption
<1>2. ASSUME NEW h \in Owners, InvocationStep(h) PROVE fence' \in Fences
  BY <1>1, <1>2 DEF InvocationStep, HeartbeatRunInvocation, ReleaseRunInvocation
<1>3. CASE RegistrationStep \/ LifecycleStep \/ TimeStep
  BY <1>3 DEF RegistrationStep, RegisterRun, RevokeApproval, LifecycleStep,
              SaveCheckpoint, CompleteRun, LeaveActive, MarkWaitingReconciliation,
              ExpireStaleOperations, AppendEvent, TimeStep, RunLeaseLapses,
              OperationLeaseLapses, GrantLapses, runVars
<1>4. ASSUME NEW r \in Requests, OperationStep(r) PROVE fence' \in Fences
  BY <1>4 DEF OperationStep, AcquireOperation, CompleteOperation, FailOperation,
              LeaveActive, HeartbeatOperation, ReconcileOperation, runVars
<1>5. CASE UNCHANGED vars
  BY <1>5 DEF vars, runVars
<1>6. QED
  BY <1>2, <1>3, <1>4, <1>5 DEF Next

\* Threads keep their shape.
LEMMA ThreadShapeStep ==
  ASSUME ControlInv, ThreadShape, [HarnessNext]_harnessVars
  PROVE  ThreadShape'
<1>1. fence' \in Fences
  BY HarnessStep, FenceStep DEF ThreadShape
<1> USE <1>1, HarnessAssumption
    DEF HarnessAssumption, ThreadShape, Executing, Phases, Inside, goTo, Forget,
        threadVars
<1>2. ASSUME NEW t \in Threads, InvocationPart(t) PROVE ThreadShape'
  <2>1. 0 \in Fences
    BY RunStoreAssumption DEF RunStoreAssumption, Fences
  <2>2. CASE Enter(t)
    BY <2>2 DEF Enter
  <2>3. CASE EnterUnfenced(t) \/ Recover(t)
    BY <2>3 DEF EnterUnfenced, Recover
  <2>4. CASE Leave(t)
    BY <2>1, <2>4 DEF Leave
  <2>5. CASE HeartbeatInvocation(t) \/ Hold(t)
    BY <2>5 DEF HeartbeatInvocation, Hold
  <2>6. ASSUME NEW s \in States, Finish(t, s) PROVE ThreadShape'
    BY <2>6 DEF Finish
  <2>7. CASE ReadRun(t)
    BY <2>7 DEF ReadRun
  <2>8. QED
    BY <1>2, <2>2, <2>3, <2>4, <2>5, <2>6, <2>7 DEF InvocationPart
<1>3. ASSUME NEW t \in Threads, ExecutePart(t) PROVE ThreadShape'
  <2>1. ASSUME NEW r \in Requests, Claim(t, r) PROVE ThreadShape'
    BY <2>1 DEF Claim
  <2>2. ASSUME NEW r \in Requests, Reuse(t, r) PROVE ThreadShape'
    <3>1. PICK q \in Matching(r) :
             /\ job' = [job EXCEPT ![t] =
                   IF status[q] = "RUNNING" THEN q ELSE NoRequest]
             /\ pc' = [pc EXCEPT ![t] = CASE status[q] = "RUNNING" -> "waiting"
                                          [] status[q] = "UNKNOWN" -> "holding"
                                          [] OTHER                 -> "graph"]
      BY <2>2 DEF Reuse
    <3>2. q \in Requests
      BY DEF Matching, Admitted
    <3>3. pc'[t] \in {"waiting", "holding", "graph"}
      BY <3>1
    <3>4. QED
      BY <2>2, <3>1, <3>2, <3>3 DEF Reuse
  <2>3. CASE Await(t) \/ Abandon(t)
    BY <2>3 DEF Await, Abandon
  <2>4. CASE HeartbeatJob(t) \/ CallProvider(t)
    BY <2>4 DEF HeartbeatJob, CallProvider
  <2>5. CASE ProviderStep(t)
    BY <2>5 DEF ProviderStep, ProviderReturns, ProviderRaises, PostProviderFailure, Commit
  <2>6. CASE Fail(t)
    BY <2>6 DEF Fail
  <2>7. QED
    BY <1>3, <2>1, <2>2, <2>3, <2>4, <2>5, <2>6 DEF ExecutePart
<1>4. CASE Register \/ Operator \/ Time
  BY <1>4 DEF Register, Operator, Time
<1>5. ASSUME NEW o \in Mortal, Crash(o) PROVE ThreadShape'
  <2>1. 0 \in Fences
    BY RunStoreAssumption DEF RunStoreAssumption, Fences
  <2>2. \A t \in Threads :
          \/ pc'[t] = "dead"
          \/ pc'[t] = pc[t] /\ job'[t] = job[t] /\ value'[t] = value[t]
    BY <1>5 DEF Crash
  <2>3. QED
    BY <1>5, <2>1, <2>2 DEF Crash
<1>6. CASE UNCHANGED harnessVars
  BY <1>6 DEF harnessVars
<1>7. QED
  BY <1>2, <1>3, <1>4, <1>5, <1>6 DEF HarnessNext

\* Initially every thread is out.
LEMMA ThreadShapeInit == HarnessInit => Init /\ ControlInv /\ ThreadShape
<1>1. 0 \in Fences
  BY RunStoreAssumption DEF RunStoreAssumption, Fences
<1>2. QED
  BY <1>1, InitControlInv
  DEF HarnessInit, Init, ThreadShape, Executing, Phases, Inside

\* The invariant of the store is kept by the steps of its threads.
LEMMA StoreStep ==
  ControlInv /\ ThreadShape /\ [HarnessNext]_harnessVars
      => ControlInv' /\ ThreadShape' /\ [Next]_vars
<1> SUFFICES ASSUME ControlInv, ThreadShape, [HarnessNext]_harnessVars
             PROVE  ControlInv' /\ ThreadShape' /\ [Next]_vars
  OBVIOUS
<1>1. [Next]_vars
  BY HarnessStep
<1>2. QED
  BY <1>1, ThreadShapeStep, ControlStep

\* Whatever the threads do, the Run they share behaves as RunStore specifies;
\* every theorem about RunStore is one about them.
THEOREM RefinementTheorem == HarnessSpec => ImplementsRunStore
<1>1. QED
  BY ThreadShapeInit, StoreStep, PTL DEF HarnessSpec, Spec, ImplementsRunStore

-----------------------------------------------------------------------------
(* Delivery.                                                               *)

\* A called or claimed meaning has its row, and one claim leads to one call.
CallInv ==
    /\ calls \in [Range(SemKey) -> {0, 1}]
    /\ \A m \in Range(SemKey) : calls[m] = 1 => \E q \in Admitted : SemKey[q] = m
    /\ \A t \in Threads : pc[t] = "claimed" =>
          job[t] \in Admitted /\ calls[SemKey[job[t]]] = 0
    /\ \A t, u \in Threads :
          pc[t] = "claimed" /\ pc[u] = "claimed" /\ SemKey[job[t]] = SemKey[job[u]]
              => t = u

\* One claim, one call: no step of a thread breaks the correspondence.
LEMMA CallStep ==
  ControlInv /\ ThreadShape /\ CallInv /\ [HarnessNext]_harnessVars => CallInv'
<1> SUFFICES ASSUME ControlInv, ThreadShape, CallInv, [HarnessNext]_harnessVars
             PROVE  CallInv'
  OBVIOUS
<1>1. Admitted \subseteq Admitted' /\ Admitted \subseteq Requests
  BY HarnessStep, AdmissionStep DEF Admitted
<1>2. \A r \in Requests : SemKey[r] \in Range(SemKey)
  BY HarnessAssumption DEF HarnessAssumption, Range
<1>3. ASSUME UNCHANGED calls,
             \A t \in Threads : pc'[t] = "claimed" => pc[t] = "claimed" /\ job'[t] = job[t]
      PROVE  CallInv'
  BY <1>1, <1>3 DEF CallInv
<1>4. ASSUME NEW t \in Threads, NEW r \in Requests, Claim(t, r) PROVE CallInv'
  <2>1. \A q \in Admitted : SemKey[q] # SemKey[r]
    BY <1>4 DEF Claim, AcquireOperation, Matching
  <2>2. r \in Admitted'
    BY <1>4 DEF Claim, AcquireOperation, Admitted, ControlInv, TypeOK
  <2>3. calls[SemKey[r]] = 0
    BY <1>2, <2>1 DEF CallInv
  <2>4. \A u \in Threads : pc[u] = "claimed" => SemKey[job[u]] # SemKey[r]
    BY <2>1 DEF CallInv
  <2>5. /\ UNCHANGED calls
        /\ pc' = [pc EXCEPT ![t] = "claimed"] /\ job' = [job EXCEPT ![t] = r]
        /\ pc'[t] = "claimed" /\ job'[t] = r
        /\ \A u \in Threads \ {t} : pc'[u] = pc[u] /\ job'[u] = job[u]
    BY <1>4 DEF Claim, goTo, ThreadShape
  <2>6. QED
    BY <1>1, <2>2, <2>3, <2>4, <2>5 DEF CallInv
<1>5. ASSUME NEW t \in Threads, CallProvider(t) PROVE CallInv'
  <2>1. /\ pc[t] = "claimed"
        /\ UNCHANGED job /\ Admitted' = Admitted
        /\ calls' = [calls EXCEPT ![SemKey[job[t]]] = calls[SemKey[job[t]]] + 1]
        /\ \A u \in Threads : pc'[u] = "claimed" => pc[u] = "claimed" /\ u # t
    BY <1>5 DEF CallProvider, goTo, ThreadShape, Admitted, vars, opVars
  <2>2. job[t] \in Admitted /\ calls[SemKey[job[t]]] = 0
    BY <2>1 DEF CallInv
  <2>3. SemKey[job[t]] \in Range(SemKey)
    BY <1>1, <1>2, <2>2
  <2>4. /\ calls'[SemKey[job[t]]] = 1
        /\ \A m \in Range(SemKey) \ {SemKey[job[t]]} : calls'[m] = calls[m]
        /\ calls' \in [Range(SemKey) -> {0, 1}]
    BY <2>1, <2>2, <2>3 DEF CallInv
  <2>5. \A m \in Range(SemKey) : calls'[m] = 1 => \E q \in Admitted' : SemKey[q] = m
    BY <2>1, <2>2, <2>4 DEF CallInv
  <2>6. \A u \in Threads : pc'[u] = "claimed" =>
          job'[u] \in Admitted' /\ calls'[SemKey[job'[u]]] = 0
    BY <1>1, <1>2, <2>1, <2>4 DEF CallInv
  <2>7. QED
    BY <2>1, <2>4, <2>5, <2>6 DEF CallInv
<1>6. ASSUME NEW t \in Threads, InvocationPart(t) PROVE CallInv'
  BY <1>3, <1>6 DEF InvocationPart, Enter, EnterUnfenced, Recover, ReadRun, Leave,
     HeartbeatInvocation, Hold, Finish, goTo, ThreadShape, threadVars
<1>7. ASSUME NEW t \in Threads, ExecutePart(t) PROVE CallInv'
  <2>1. ASSUME NEW r \in Requests, Reuse(t, r) PROVE CallInv'
    <3>1. PICK q \in Matching(r) :
             /\ job' = [job EXCEPT ![t] =
                   IF status[q] = "RUNNING" THEN q ELSE NoRequest]
             /\ pc' = [pc EXCEPT ![t] = CASE status[q] = "RUNNING" -> "waiting"
                                          [] status[q] = "UNKNOWN" -> "holding"
                                          [] OTHER                 -> "graph"]
      BY <2>1 DEF Reuse, goTo
    <3>2. pc'[t] # "claimed"
      BY <3>1 DEF ThreadShape
    <3>3. QED
      BY <1>3, <2>1, <3>1, <3>2 DEF Reuse, ThreadShape
  <2>2. CASE Await(t) \/ Abandon(t) \/ HeartbeatJob(t) \/ Fail(t)
    BY <1>3, <2>2 DEF Await, Abandon, HeartbeatJob, Fail, Forget, goTo, ThreadShape,
       threadVars
  <2>3. CASE ProviderStep(t)
    BY <1>3, <2>3 DEF ProviderStep, ProviderReturns, ProviderRaises,
       PostProviderFailure, Commit, Forget, goTo, ThreadShape
  <2>4. QED
    BY <1>4, <1>5, <1>7, <2>1, <2>2, <2>3 DEF ExecutePart
<1>8. CASE Register \/ Operator \/ Time \/ \E o \in Mortal : Crash(o)
  BY <1>3, <1>8 DEF Register, Operator, Time, Crash, threadVars
<1>9. CASE UNCHANGED harnessVars
  BY <1>3, <1>9 DEF harnessVars, threadVars
<1>10. QED
  BY <1>6, <1>7, <1>8, <1>9 DEF HarnessNext

\* No interleaving of crashes, lapses, retries and reconciliations calls the
\* provider of one action twice.
THEOREM DeliveryTheorem == HarnessSpec => []CalledAtMostOnce
<1>1. HarnessInit => CallInv
  BY DEF HarnessInit, CallInv
<1>2. CallInv => CalledAtMostOnce
  BY DEF CallInv, CalledAtMostOnce
<1>3. QED
  BY <1>1, <1>2, ThreadShapeInit, StoreStep, CallStep, PTL DEF HarnessSpec

\* What a phase says of a thread's registers holds always: whoever executes has
\* a request, whoever commits has a value, and no ambiguous failure is taken for
\* a known one (HarnessCore.execute).
THEOREM ThreadTheorem == HarnessSpec => []ThreadShape
  BY ThreadShapeInit, StoreStep, PTL DEF HarnessSpec

-----------------------------------------------------------------------------
(* What the Graph hears.                                                   *)

Vouched(h) == h # Nothing =>
    \E q \in Requests : /\ SemKey[q] = SemKey[h.of]
                        /\ status[q] = "SUCCEEDED"
                        /\ result[q] = h.value

\* A thread waits for a row that exists.
HeardInv ==
    /\ heard = [t \in Threads |-> heard[t]]
    /\ \A t \in Threads : pc[t] = "waiting" => job[t] \in Requests
    /\ \A t \in Threads : Vouched(heard[t])

\* A receipt vouches for good, and only receipts are handed to a thread.
LEMMA HeardStep ==
  ControlInv /\ ThreadShape /\ HeardInv /\ [HarnessNext]_harnessVars => HeardInv'
<1> SUFFICES ASSUME ControlInv, ThreadShape, HeardInv, [HarnessNext]_harnessVars
             PROVE  HeardInv'
  OBVIOUS
<1>1. \A t \in Threads : Vouched(heard[t]) => (heard'[t] = heard[t] => Vouched(heard[t])')
  BY HarnessStep, SettledStep DEF Vouched, Nothing
<1>2. ASSUME UNCHANGED heard,
             \A t \in Threads : pc'[t] = "waiting" => pc[t] = "waiting" /\ job'[t] = job[t]
      PROVE  HeardInv'
  BY <1>1, <1>2 DEF HeardInv
<1>3. ASSUME NEW t \in Threads, NEW h, heard' = [heard EXCEPT ![t] = h], Vouched(h)',
             \A u \in Threads : pc'[u] = "waiting" => job'[u] \in Requests
      PROVE  HeardInv'
  <2>1. heard'[t] = h /\ \A u \in Threads \ {t} : heard'[u] = heard[u]
    BY <1>3 DEF HeardInv
  <2>2. \A u \in Threads : Vouched(heard[u])'
    BY <1>1, <1>3, <2>1 DEF HeardInv, Vouched
  <2>3. QED
    BY <1>3, <2>2 DEF HeardInv
<1>4. ASSUME NEW t \in Threads, InvocationPart(t) PROVE HeardInv'
  BY <1>2, <1>4 DEF InvocationPart, Enter, EnterUnfenced, Recover, ReadRun, Leave,
     HeartbeatInvocation, Hold, Finish, goTo, ThreadShape, threadVars
<1>5. ASSUME NEW t \in Threads, NEW r \in Requests, Reuse(t, r) PROVE HeardInv'
  <2>1. PICK q \in Matching(r) :
           /\ IdemKey[q] = IdemKey[r] => q = r
           /\ job' = [job EXCEPT ![t] =
                 IF status[q] = "RUNNING" THEN q ELSE NoRequest]
           /\ heard' = [heard EXCEPT ![t] =
                IF status[q] = "SUCCEEDED" THEN [of |-> r, value |-> result[q]]
                                           ELSE Nothing]
           /\ pc' = [pc EXCEPT ![t] = CASE status[q] = "RUNNING" -> "waiting"
                                        [] status[q] = "UNKNOWN" -> "holding"
                                        [] OTHER                 -> "graph"]
    BY <1>5 DEF Reuse, goTo
  <2>2. q \in Requests /\ SemKey[q] = SemKey[r]
    BY <2>1 DEF Matching, Admitted
  <2>3. UNCHANGED <<status, result>>
    BY <1>5 DEF Reuse, vars, opVars
  <2> DEFINE told == IF status[q] = "SUCCEEDED" THEN [of |-> r, value |-> result[q]]
                                               ELSE Nothing
  <2>4. PICK h : h = told
    OBVIOUS
  <2>5. Vouched(h)'
    BY <2>2, <2>3, <2>4 DEF Vouched, Nothing
  <2>6. \A u \in Threads : pc'[u] = "waiting" => job'[u] \in Requests
    <3>1. \A u \in Threads \ {t} : pc'[u] = pc[u] /\ job'[u] = job[u]
      BY <1>5, <2>1 DEF Reuse, goTo, ThreadShape
    <3>2. CASE status[q] = "RUNNING"
      BY <2>1, <2>2, <3>1, <3>2 DEF HeardInv, ThreadShape
    <3>3. CASE status[q] # "RUNNING"
      <4>1. pc'[t] # "waiting"
        BY <2>1, <3>3 DEF ThreadShape
      <4>2. QED
        BY <3>1, <4>1 DEF HeardInv
    <3>4. QED
      BY <3>2, <3>3
  <2>7. QED
    BY <1>3, <2>1, <2>4, <2>5, <2>6
<1>6. ASSUME NEW t \in Threads, Await(t) PROVE HeardInv'
  <2> DEFINE told == IF status[job[t]] = "SUCCEEDED"
                     THEN [of |-> job[t], value |-> result[job[t]]] ELSE Nothing
  <2>1. PICK q, h : q = job[t] /\ h = told
    OBVIOUS
  <2>2. q \in Requests /\ heard' = [heard EXCEPT ![t] = h] /\ UNCHANGED <<status, result>>
    BY <1>6, <2>1 DEF Await, HeardInv, vars, opVars
  <2>3. Vouched(h)'
    BY <2>1, <2>2 DEF Vouched, Nothing
  <2>4. \A u \in Threads : pc'[u] = "waiting" => job'[u] \in Requests
    BY <1>6 DEF Await, Forget, goTo, ThreadShape, HeardInv
  <2>5. QED
    BY <1>3, <2>2, <2>3, <2>4
<1>7. ASSUME NEW t \in Threads, Commit(t) PROVE HeardInv'
  <2>1. PICK q, v, h : q = job[t] /\ v = value[t] /\ h = [of |-> q, value |-> v]
    OBVIOUS
  <2>2. /\ q \in Requests
        /\ heard' = [heard EXCEPT ![t] = h]
        /\ status'[q] = "SUCCEEDED" /\ result'[q] = v
    BY <1>7, <2>1 DEF Commit, CompleteOperation, EndAttempt, ThreadShape, Executing,
                      ControlInv, TypeOK
  <2>3. Vouched(h)'
    BY <2>1, <2>2 DEF Vouched
  <2>4. \A u \in Threads : pc'[u] = "waiting" => job'[u] \in Requests
    BY <1>7 DEF Commit, Forget, goTo, ThreadShape, HeardInv
  <2>5. QED
    BY <1>3, <2>2, <2>3, <2>4
<1>8. ASSUME NEW t \in Threads, Fail(t) PROVE HeardInv'
  <2>1. heard' = [heard EXCEPT ![t] = Nothing] /\ Vouched(Nothing)'
    BY <1>8 DEF Fail, Vouched, Nothing
  <2>2. \A u \in Threads : pc'[u] = "waiting" => job'[u] \in Requests
    BY <1>8 DEF Fail, Forget, goTo, ThreadShape, HeardInv
  <2>3. QED
    BY <1>3, <2>1, <2>2
<1>9. ASSUME NEW t \in Threads, NEW r \in Requests, Claim(t, r) PROVE HeardInv'
  BY <1>2, <1>9 DEF Claim, goTo, ThreadShape
<1>10. ASSUME NEW t \in Threads,
              Abandon(t) \/ HeartbeatJob(t) \/ CallProvider(t) \/ ProviderRaises(t)
              \/ PostProviderFailure(t) \/ \E v \in Results : ProviderReturns(t, v)
       PROVE  HeardInv'
  BY <1>2, <1>10 DEF Abandon, Forget, HeartbeatJob, CallProvider, ProviderRaises,
     PostProviderFailure, ProviderReturns, goTo, ThreadShape, threadVars
<1>11. CASE Register \/ Operator \/ Time
  BY <1>2, <1>11 DEF Register, Operator, Time, threadVars
<1>12. ASSUME NEW o \in Mortal, Crash(o) PROVE HeardInv'
  <2>1. /\ heard' = [t \in Threads |-> IF Token[t] = o THEN Nothing ELSE heard[t]]
        /\ UNCHANGED <<status, result>>
        /\ \A t \in Threads : \/ pc'[t] = "dead"
                              \/ pc'[t] = pc[t] /\ job'[t] = job[t]
    BY <1>12 DEF Crash, vars, opVars
  <2>2. \A t \in Threads : Vouched(heard[t])'
    <3>1. ASSUME NEW t \in Threads, NEW h, heard'[t] = h PROVE Vouched(h)'
      <4>1. \/ h = Nothing
            \/ h = heard[t]
        BY <2>1, <3>1
      <4>2. CASE h = Nothing
        BY <4>2 DEF Vouched, Nothing
      <4>3. CASE h = heard[t]
        BY <2>1, <4>3 DEF HeardInv, Vouched
      <4>4. QED
        BY <4>1, <4>2, <4>3
    <3>2. QED
      BY <3>1 DEF Vouched
  <2>3. QED
    BY <2>1, <2>2 DEF HeardInv
<1>13. CASE UNCHANGED harnessVars
  BY <1>2, <1>13 DEF harnessVars, threadVars
<1>14. QED
  BY <1>4, <1>5, <1>6, <1>7, <1>8, <1>9, <1>10, <1>11, <1>12,
     <1>13
  DEF HarnessNext, ExecutePart, ProviderStep

\* Whatever a Graph hears, fresh, replayed or waited for, is a receipt of that
\* meaning, for any number of threads, crashes and lapses (HarnessCore.execute).
THEOREM HeardTheorem == HarnessSpec => []HeardIsDurable
<1>1. HarnessInit => HeardInv
  BY DEF HarnessInit, HeardInv, Vouched
<1>2. HeardInv => HeardIsDurable
  BY DEF HeardInv, Vouched, HeardIsDurable
<1>3. QED
  BY <1>1, <1>2, ThreadShapeInit, StoreStep, HeardStep, PTL DEF HarnessSpec

-----------------------------------------------------------------------------
(* Who writes.                                                             *)

\* What a step does to the owner and the fence: nothing, or the owner goes, or
\* another one comes with the next fence.
WriterStep ==
    \/ owner' = owner /\ fence' = fence
    \/ owner' = NoOwner /\ fence' = fence
    \/ owner' \in Owners /\ fence' = fence + 1

\* The store has no other way to change its writer.
LEMMA WriterChange ==
  ASSUME ControlInv, [Next]_vars
  PROVE  WriterStep
<1>1. ASSUME NEW h \in Owners, InvocationStep(h) PROVE WriterStep
  BY <1>1 DEF WriterStep, InvocationStep, ClaimRunInvocation, HeartbeatRunInvocation,
              ReleaseRunInvocation
<1>2. CASE RegistrationStep \/ LifecycleStep \/ TimeStep
  BY <1>2 DEF WriterStep, RegistrationStep, RegisterRun, RevokeApproval, LifecycleStep,
              SaveCheckpoint, CompleteRun, LeaveActive, MarkWaitingReconciliation,
              ExpireStaleOperations, AppendEvent, TimeStep, RunLeaseLapses,
              OperationLeaseLapses, GrantLapses, runVars
<1>3. ASSUME NEW r \in Requests, OperationStep(r) PROVE WriterStep
  BY <1>3 DEF WriterStep, OperationStep, AcquireOperation, CompleteOperation,
              FailOperation, LeaveActive, HeartbeatOperation, ReconcileOperation, runVars
<1>4. CASE UNCHANGED vars
  BY <1>4 DEF WriterStep, vars, runVars
<1>5. QED
  BY <1>1, <1>2, <1>3, <1>4 DEF Next

\* No thread is ahead of the store, and a writer has a fence of its own.
FenceInv ==
    /\ owner # NoOwner => fence > 0
    /\ \A t \in Threads : myFence[t] <= fence

\* What a step does to the fence that a thread presents.
LEMMA MyFenceStep ==
  ASSUME ThreadShape, [HarnessNext]_harnessVars, NEW t \in Threads
  PROVE  \/ myFence'[t] = myFence[t]
         \/ pc[t] = "out" /\ myFence'[t] = fence'
         \/ myFence'[t] = 0 /\ (owner' = NoOwner \/ UNCHANGED <<owner, fence>>)
<1> USE DEF ThreadShape, threadVars
<1>1. ASSUME NEW u \in Threads, Enter(u)
      PROVE  \/ myFence'[t] = myFence[t]
             \/ pc[t] = "out" /\ myFence'[t] = fence'
  BY <1>1 DEF Enter
<1>2. ASSUME NEW u \in Threads, Leave(u)
      PROVE  \/ myFence'[t] = myFence[t]
             \/ myFence'[t] = 0 /\ (owner' = NoOwner \/ UNCHANGED <<owner, fence>>)
  <2>1. myFence'[t] = myFence[t] \/ myFence'[t] = 0
    BY <1>2 DEF Leave
  <2>2. owner' = NoOwner \/ UNCHANGED <<owner, fence>>
    BY <1>2 DEF Leave, ReleaseRunInvocation, vars, runVars
  <2>3. QED
    BY <2>1, <2>2
<1>3. ASSUME NEW u \in Threads, InvocationPart(u), ~Enter(u), ~Leave(u)
      PROVE  UNCHANGED myFence
  BY <1>3 DEF InvocationPart, EnterUnfenced, Recover, ReadRun, HeartbeatInvocation, Hold, Finish
<1>4. ASSUME NEW u \in Threads, ExecutePart(u) PROVE UNCHANGED myFence
  <2>1. ASSUME NEW r \in Requests, Claim(u, r) \/ Reuse(u, r) PROVE UNCHANGED myFence
    BY <2>1 DEF Claim, Reuse
  <2>2. CASE Await(u) \/ Abandon(u) \/ HeartbeatJob(u) \/ CallProvider(u) \/ Fail(u)
    BY <2>2 DEF Await, Abandon, HeartbeatJob, CallProvider, Fail
  <2>3. CASE ProviderStep(u)
    BY <2>3 DEF ProviderStep, ProviderReturns, ProviderRaises, PostProviderFailure, Commit
  <2>4. QED
    BY <1>4, <2>1, <2>2, <2>3 DEF ExecutePart
<1>5. CASE Register \/ Operator \/ Time
  BY <1>5 DEF Register, Operator, Time
<1>6. ASSUME NEW o \in Mortal, Crash(o)
      PROVE  \/ myFence'[t] = myFence[t]
             \/ myFence'[t] = 0 /\ UNCHANGED <<owner, fence>>
  BY <1>6 DEF Crash, vars, runVars
<1>7. CASE UNCHANGED harnessVars
  BY <1>7 DEF harnessVars
<1>8. QED
  BY <1>1, <1>2, <1>3, <1>4, <1>5, <1>6, <1>7 DEF HarnessNext

\* Fences only rise, and a thread takes the one that was given.
LEMMA FenceInvStep ==
  ControlInv /\ ThreadShape /\ FenceInv /\ [HarnessNext]_harnessVars => FenceInv'
<1> SUFFICES ASSUME ControlInv, ThreadShape, FenceInv, [HarnessNext]_harnessVars
             PROVE  FenceInv'
  OBVIOUS
<1>1. WriterStep
  BY HarnessStep, WriterChange
<1>2. fence \in Nat /\ fence' \in Nat /\ \A t \in Threads : myFence[t] \in Nat
  BY <1>1, RunStoreAssumption DEF ThreadShape, Fences, WriterStep, RunStoreAssumption
<1>3. fence <= fence' /\ (owner' # NoOwner => fence' > 0)
  BY <1>1, <1>2 DEF WriterStep, FenceInv
<1>4. ASSUME NEW t \in Threads PROVE myFence'[t] <= fence'
  BY <1>2, <1>3, MyFenceStep DEF FenceInv
<1>5. QED
  BY <1>3, <1>4 DEF FenceInv

\* A thread that lost its invocation stays lost: the next writer has a fence that
\* no thread had before.
LEMMA LostStep ==
  ASSUME ControlInv, ThreadShape, FenceInv, [HarnessNext]_harnessVars,
         NEW t \in Threads, pc[t] \in Inside, ~IsCurrent(t)
  PROVE  ~IsCurrent(t)'
<1>1. WriterStep
  BY HarnessStep, WriterChange
<1>2. fence \in Nat /\ myFence[t] \in Nat /\ myFence[t] <= fence
  BY RunStoreAssumption DEF ThreadShape, Fences, FenceInv, RunStoreAssumption
<1>3. Token[t] \in Owners /\ NoOwner \notin Owners
  BY HarnessAssumption, RunStoreAssumption DEF HarnessAssumption, RunStoreAssumption
<1>4. \/ myFence'[t] = myFence[t]
      \/ myFence'[t] = 0 /\ (owner' = NoOwner \/ UNCHANGED <<owner, fence>>)
  BY MyFenceStep DEF Inside, Executing
<1>5. CASE owner' = NoOwner
  BY <1>3, <1>5 DEF IsCurrent
<1>6. CASE owner' = owner /\ fence' = fence
  BY <1>2, <1>3, <1>4, <1>6 DEF IsCurrent, FenceInv
<1>7. CASE owner' \in Owners /\ fence' = fence + 1
  BY <1>2, <1>3, <1>4, <1>7 DEF IsCurrent
<1>8. QED
  BY <1>1, <1>5, <1>6, <1>7 DEF WriterStep

\* Initially nobody writes.
LEMMA FenceInit == HarnessInit => FenceInv
  BY DEF HarnessInit, Init, FenceInv

\* An invocation that was taken over never becomes the current one again, for any
\* number of threads, owners and takeovers, although a HarnessCore keeps its owner
\* token (claim_run_invocation).
THEOREM LostTheorem == HarnessSpec => LostIsLost
<1>1. ASSUME ControlInv, ThreadShape, FenceInv, [HarnessNext]_harnessVars
      PROVE  [\A t \in Threads : pc[t] \in Inside /\ ~IsCurrent(t) => ~IsCurrent(t)']_harnessVars
  BY <1>1, LostStep
<1>2. QED
  BY <1>1, FenceInit, FenceInvStep, ThreadShapeInit, StoreStep, PTL
  DEF HarnessSpec, LostIsLost
=============================================================================
