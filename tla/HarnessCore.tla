---------------------------- MODULE HarnessCore ----------------------------
(***************************************************************************)
(* Threads that drive one Run through the control plane (harness/core.py): *)
(* each claims the Run invocation, recovers stale operations, executes     *)
(* requests of its Graph and leaves.  A provider is called outside every   *)
(* transaction, so between the admission of an operation and its receipt   *)
(* a thread may be slow, lose its leases to another thread, raise, or die. *)
(*                                                                         *)
(* Every step of a thread is at most one transaction of RunStore.  What    *)
(* the Graph asks for, and when it gives up, is arbitrary.                 *)
(***************************************************************************)
EXTENDS RunStore

CONSTANTS Threads,
          Token,      \* [Threads -> Owners], the HarnessCore a thread uses
          Mortal,     \* owner tokens whose process may be lost
          NoRequest

ASSUME HarnessAssumption ==
    /\ Token \in [Threads -> Owners]
    /\ Mortal \subseteq Owners
    /\ NoRequest \notin Requests
    /\ DOMAIN SemKey = Requests

VARIABLES
    pc,       \* where the thread is in run_invocation and execute
    myFence,  \* _invocation_local.fence, 0 for None
    job,      \* the request being executed, or the row being waited for, if any
    value,    \* what its provider returned
    heard,    \* the value execute last handed to the Graph, if any
    calls     \* how often a provider was called, per semantic key

threadVars  == <<pc, myFence, job, value, heard, calls>>
harnessVars == <<vars, threadVars>>

Nothing == [of |-> NoRequest, value |-> NoResult]

\* The phases in which execute owns an attempt, with its heartbeat running.
Executing == {"claimed", "running", "frozen", "failing", "doubting"}
Inside    == Executing \cup {"entered", "graph", "waiting", "holding", "leaving"}
Phases    == Inside \cup {"out", "dead"}

\* Fence arithmetic is the store's; a thread presents the fence it was given.
IsCurrent(t) == owner = Token[t] /\ fence = myFence[t]

goTo(t, p) == pc' = [pc EXCEPT ![t] = p]

\* execute is over and its locals are gone.
Forget(t) == /\ job'   = [job EXCEPT ![t] = NoRequest]
             /\ value' = [value EXCEPT ![t] = NoResult]

-----------------------------------------------------------------------------
(* run_invocation, and the recovery the runner does first inside it.       *)

Register ==
    /\ runStatus = "ABSENT"
    /\ RegisterRun(Grants)
    /\ UNCHANGED threadVars

Enter(t) ==
    /\ pc[t] = "out"
    /\ ClaimRunInvocation(Token[t])
    /\ myFence' = [myFence EXCEPT ![t] = fence']
    /\ goTo(t, "entered")
    /\ UNCHANGED <<job, value, heard, calls>>

\* The claim of a held Run is TERMINAL: it gives no fence, and the runner goes on
\* without one.  That of a COMPLETED Run only returns what was saved.
EnterUnfenced(t) ==
    /\ pc[t] = "out"
    /\ runStatus = "WAITING_RECONCILIATION"
    /\ goTo(t, "entered")
    /\ UNCHANGED <<vars, myFence, job, value, heard, calls>>

Recover(t) ==
    /\ pc[t] = "entered"
    /\ ExpireStaleOperations
    /\ UNCHANGED threadVars

\* Nothing is stale, and the Run is read again.  Only an ACTIVE one gets into the
\* Graph: it may have been held since the claim, or reconciled since a claim that
\* gave no fence.
ReadRun(t) ==
    /\ pc[t] = "entered"
    /\ Stale = {}
    /\ goTo(t, CASE runStatus = "ACTIVE" -> "graph"
                 [] myFence[t] = 0       -> "out"
                 [] OTHER                -> "leaving")
    /\ UNCHANGED <<vars, myFence, job, value, heard, calls>>

Leave(t) ==
    /\ pc[t] = "leaving"
    /\ \/ ReleaseRunInvocation(Token[t], myFence[t])
       \/ ~IsCurrent(t) /\ UNCHANGED vars
    /\ myFence' = [myFence EXCEPT ![t] = 0]
    /\ goTo(t, "out")
    /\ UNCHANGED <<job, value, heard, calls>>

HeartbeatInvocation(t) ==
    /\ pc[t] \in Inside
    /\ HeartbeatRunInvocation(Token[t], myFence[t])
    /\ UNCHANGED threadVars

-----------------------------------------------------------------------------
(* execute: the claim.                                                     *)

Claim(t, r) ==
    /\ pc[t] = "graph"
    /\ AcquireOperation(r, Token[t], myFence[t])
    /\ job' = [job EXCEPT ![t] = r]
    /\ goTo(t, "claimed")
    /\ UNCHANGED <<myFence, value, heard, calls>>

\* The request names a row that exists.  A RUNNING one is waited for; a result
\* is replayed; a failure is reported; a lost outcome stops the Graph.
Reuse(t, r) ==
    /\ pc[t] = "graph"
    /\ FenceAdmits(Token[t], myFence[t])
    /\ \E q \in Matching(r) :
          /\ Matching(r) = {q}
          /\ IdemKey[q] = IdemKey[r] => q = r
          /\ job' = [job EXCEPT ![t] =
                IF status[q] = "RUNNING" THEN q ELSE NoRequest]
          /\ heard' = [heard EXCEPT ![t] =
                IF status[q] = "SUCCEEDED" THEN [of |-> r, value |-> result[q]]
                                           ELSE Nothing]
          /\ goTo(t, CASE status[q] = "RUNNING" -> "waiting"
                       [] status[q] = "UNKNOWN" -> "holding"
                       [] OTHER                 -> "graph")
    /\ UNCHANGED <<vars, myFence, value, calls>>

\* wait_for_operation polls the row until it is no longer RUNNING.
Await(t) ==
    /\ pc[t] = "waiting"
    /\ status[job[t]] # "RUNNING"
    /\ heard' = [heard EXCEPT ![t] =
          IF status[job[t]] = "SUCCEEDED"
          THEN [of |-> job[t], value |-> result[job[t]]] ELSE Nothing]
    /\ goTo(t, IF status[job[t]] = "UNKNOWN" THEN "holding" ELSE "graph")
    /\ Forget(t)
    /\ UNCHANGED <<vars, myFence, calls>>

\* The wait times out, an admission is refused, or the Graph raises or ends
\* without completing the Run.
Abandon(t) ==
    /\ pc[t] \in {"graph", "waiting"}
    /\ goTo(t, "leaving")
    /\ Forget(t)
    /\ UNCHANGED <<vars, myFence, heard, calls>>

-----------------------------------------------------------------------------
(* execute: the provider and its receipt.                                  *)

HeartbeatJob(t) ==
    /\ pc[t] \in Executing
    /\ HeartbeatOperation(job[t], Token[t])
    /\ UNCHANGED threadVars

CallProvider(t) ==
    /\ pc[t] = "claimed"
    /\ calls' = [calls EXCEPT ![SemKey[job[t]]] = @ + 1]
    /\ goTo(t, "running")
    /\ UNCHANGED <<vars, myFence, job, value, heard>>

\* The value is decoded and frozen as an immutable artifact.
ProviderReturns(t, v) ==
    /\ pc[t] = "running"
    /\ value' = [value EXCEPT ![t] = v]
    /\ goTo(t, "frozen")
    /\ UNCHANGED <<vars, myFence, job, heard, calls>>

\* Bug: ambiguity_on_exception is ignored.
ProviderRaisesKnown(t) ==
    /\ pc[t] = "running"
    /\ goTo(t, "failing")
    /\ UNCHANGED <<vars, myFence, job, value, heard, calls>>

ProviderRaises(t) ==
    /\ pc[t] = "running"
    /\ goTo(t, IF job[t] \in Ambiguous THEN "doubting" ELSE "failing")
    /\ UNCHANGED <<vars, myFence, job, value, heard, calls>>

\* After the provider completed, every exception leaves the outcome in doubt:
\* a strict decoder or the freeze raises, or the store refuses the receipt.
PostProviderFailure(t) ==
    /\ pc[t] \in {"running", "frozen"}
    /\ goTo(t, "doubting")
    /\ UNCHANGED <<vars, myFence, job, value, heard, calls>>

\* Bug: a refused receipt does not keep the value from the Graph.
CommitOrIgnore(t) ==
    /\ pc[t] = "frozen"
    /\ \/ CompleteOperation(job[t], Token[t], value[t])
       \/ status[job[t]] # "RUNNING" /\ UNCHANGED vars
    /\ heard' = [heard EXCEPT ![t] = [of |-> job[t], value |-> value[t]]]
    /\ goTo(t, "graph")
    /\ Forget(t)
    /\ UNCHANGED <<myFence, calls>>

Commit(t) ==
    /\ pc[t] = "frozen"
    /\ CompleteOperation(job[t], Token[t], value[t])
    /\ heard' = [heard EXCEPT ![t] = [of |-> job[t], value |-> value[t]]]
    /\ goTo(t, "graph")
    /\ Forget(t)
    /\ UNCHANGED <<myFence, calls>>

\* fail_operation leaves an operation that is no longer RUNNING as it is, and
\* the caller hears the doubt all the same.
Fail(t) ==
    /\ pc[t] \in {"failing", "doubting"}
    /\ \/ FailOperation(job[t], Token[t], pc[t] = "doubting")
       \/ status[job[t]] # "RUNNING" /\ UNCHANGED vars
    /\ heard' = [heard EXCEPT ![t] = Nothing]
    /\ goTo(t, IF pc[t] = "doubting" THEN "holding" ELSE "graph")
    /\ Forget(t)
    /\ UNCHANGED <<myFence, calls>>

-----------------------------------------------------------------------------
(* The runner's end of an invocation.                                      *)

\* Bug: the Run is held whatever has become of it.
HoldAnyRun(t) ==
    /\ pc[t] = "holding"
    /\ LeaveActive("WAITING_RECONCILIATION")
    /\ UNCHANGED <<grantVars, opVars, checkpoints, events>>
    /\ goTo(t, "leaving")
    /\ UNCHANGED <<myFence, job, value, heard, calls>>

\* OperationUnknownError reaches the runner, which holds the Run.
Hold(t) ==
    /\ pc[t] = "holding"
    /\ \/ MarkWaitingReconciliation
       \/ runStatus # "ACTIVE" /\ UNCHANGED vars
    /\ goTo(t, "leaving")
    /\ UNCHANGED <<myFence, job, value, heard, calls>>

Finish(t, s) ==
    /\ pc[t] = "graph"
    /\ CompleteRun(Token[t], myFence[t], Len(checkpoints), s)
    /\ goTo(t, "leaving")
    /\ UNCHANGED <<myFence, job, value, heard, calls>>

\* The host process is lost with all its threads and what they remember; no
\* handler runs.
Crash(o) ==
    /\ o \in Mortal
    /\ \E t \in Threads : Token[t] = o /\ pc[t] # "dead"
    /\ LET lost(f, none) == [t \in Threads |-> IF Token[t] = o THEN none ELSE f[t]]
       IN  /\ pc'      = lost(pc, "dead")
           /\ myFence' = lost(myFence, 0)
           /\ job'     = lost(job, NoRequest)
           /\ value'   = lost(value, NoResult)
           /\ heard'   = lost(heard, Nothing)
    /\ UNCHANGED <<vars, calls>>

\* reconcile_unknown: an operator adjudicates, no provider is called.
Operator ==
    /\ \/ \E r \in Requests, g \in ReconcileGrants, v \in Results \cup {NoResult} :
             ReconcileOperation(r, g, v)
       \/ \E g \in Grants : RevokeApproval(g)
    /\ UNCHANGED threadVars

Time == TimeStep /\ UNCHANGED threadVars

-----------------------------------------------------------------------------
HarnessInit ==
    /\ Init
    /\ pc = [t \in Threads |-> "out"]
    /\ myFence = [t \in Threads |-> 0]
    /\ job = [t \in Threads |-> NoRequest]
    /\ value = [t \in Threads |-> NoResult]
    /\ heard = [t \in Threads |-> Nothing]
    /\ calls = [m \in Range(SemKey) |-> 0]

InvocationPart(t) ==
    \/ Enter(t) \/ EnterUnfenced(t) \/ Recover(t) \/ ReadRun(t) \/ Leave(t)
    \/ HeartbeatInvocation(t) \/ Hold(t)
    \/ \E s \in States : Finish(t, s)

ProviderStep(t) ==
    \/ \E v \in Results : ProviderReturns(t, v)
    \/ ProviderRaises(t) \/ PostProviderFailure(t) \/ Commit(t)

ExecutePart(t) ==
    \/ \E r \in Requests : Claim(t, r) \/ Reuse(t, r)
    \/ Await(t) \/ Abandon(t)
    \/ HeartbeatJob(t) \/ CallProvider(t) \/ ProviderStep(t) \/ Fail(t)

HarnessNext ==
    \/ Register
    \/ \E t \in Threads : InvocationPart(t) \/ ExecutePart(t)
    \/ \E o \in Mortal : Crash(o)
    \/ Operator
    \/ Time

HarnessSpec == HarnessInit /\ [][HarnessNext]_harnessVars

-----------------------------------------------------------------------------
(* Fairness.  A live thread takes its next step; a provider ends, because  *)
(* its supervisor has a deadline; an invocation ends, because the Graph    *)
(* has a recursion limit and the wait a deadline; a caller whose           *)
(* invocation ended tries again; nobody renews the leases of a lost        *)
(* process.  Nothing is assumed of the operator or of the Graph's wishes.  *)

IsDead(o) == \A t \in Threads : Token[t] = o => pc[t] = "dead"

RunLeaseOfTheDeadLapses == /\ IsDead(owner)
                           /\ RunLeaseLapses
                           /\ UNCHANGED threadVars

OperationLeaseOfTheDeadLapses(r) == /\ IsDead(holder[r])
                                    /\ OperationLeaseLapses(r)
                                    /\ UNCHANGED threadVars

ThreadFairness(t) ==
    /\ WF_harnessVars(Enter(t) \/ EnterUnfenced(t))
    /\ WF_harnessVars(Recover(t) \/ ReadRun(t))
    /\ WF_harnessVars(Abandon(t))
    /\ WF_harnessVars(CallProvider(t))
    /\ WF_harnessVars(ProviderStep(t))
    /\ WF_harnessVars(Fail(t))
    /\ WF_harnessVars(Hold(t))
    /\ WF_harnessVars(Leave(t))

Fairness ==
    /\ \A t \in Threads : ThreadFairness(t)
    /\ WF_harnessVars(RunLeaseOfTheDeadLapses)
    /\ \A r \in Requests : WF_harnessVars(OperationLeaseOfTheDeadLapses(r))

LiveSpec == HarnessSpec /\ Fairness

-----------------------------------------------------------------------------
(* Properties.                                                             *)

\* What the phase of a thread says of its registers.
ThreadShape ==
    /\ fence \in Fences
    /\ pc \in [Threads -> Phases]
    /\ myFence \in [Threads -> Fences]
    /\ job \in [Threads -> Requests \cup {NoRequest}]
    /\ value \in [Threads -> Results \cup {NoResult}]
    /\ \A t \in Threads :
          /\ pc[t] \in Executing => job[t] \in Requests
          /\ pc[t] = "frozen" => value[t] \in Results
          /\ pc[t] = "failing" => job[t] \notin Ambiguous

\* Delivery is at most once: whatever threads lose their leases, crash, time
\* out, retry or use other caller keys, no provider is called twice for one
\* meaning (HarnessCore.execute).
CalledAtMostOnce == \A m \in Range(SemKey) : calls[m] <= 1

\* A value handed to any Graph, fresh, replayed or waited for, is the durable
\* receipt of an action with the requested meaning, and stays so.
HeardIsDurable ==
    \A t \in Threads : heard[t] # Nothing =>
        \E q \in Requests : /\ SemKey[q] = SemKey[heard[t].of]
                            /\ status[q] = "SUCCEEDED"
                            /\ result[q] = heard[t].value

\* A thread whose invocation was taken over never becomes the current writer
\* again, not even when a thread of the same HarnessCore, with the same owner
\* token, claims the Run later (claim_run_invocation).
LostIsLost ==
    [][\A t \in Threads :
          pc[t] \in Inside /\ ~IsCurrent(t) => ~IsCurrent(t)']_harnessVars

\* Driven by these threads, the control plane is the one RunStore specifies.
ImplementsRunStore == Spec

\* The RUNNING operation of a lost process is resolved by some later
\* invocation, unless callers use up the bounded number of invocations first.
OrphansAreResolved ==
    \A r \in Requests :
        status[r] = "RUNNING" /\ IsDead(holder[r])
            ~> status[r] # "RUNNING" \/ fence = MaxFence

\* docs/PROJECT_STATUS.md:42 says "stale writers cannot checkpoint or admit
\* actions": an admission is by the thread with the latest fence.
StaleWriterAdmitsNothing ==
    [][\A t \in Threads :
          pc[t] = "graph" /\ pc'[t] = "claimed" => myFence[t] = fence]_harnessVars

=============================================================================
