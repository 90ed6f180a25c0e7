-------------------------- MODULE ProcessSupervisor --------------------------
(***************************************************************************)
(* One supervised worker process (harness/process_supervisor.py): the      *)
(* parent starts it, puts it into a containment (a kill-on-close Job       *)
(* Object on Windows, a process group on POSIX), polls it, and, when it    *)
(* ends, is cancelled, overdue or silent, establishes whether anything of  *)
(* its process tree is left.  What the caller makes of the answer is the   *)
(* worker protocol of hfss/worker_backend.py.                              *)
(*                                                                         *)
(* The worker is arbitrary: it may hang, spawn, exit and leave descendants *)
(* behind.  Clock comparisons are booleans that time may set.              *)
(***************************************************************************)
EXTENDS Naturals, FiniteSets

CONSTANTS Descendants,  \* processes the worker's tree may spawn
          Posix         \* the platform: TRUE a process group, FALSE a Job

ASSUME SupervisorAssumption == Posix \in BOOLEAN

VARIABLES
    leader,   \* the worker process
    kids,     \* its living descendants
    spawned,  \* every descendant it ever had
    doomed,   \* a kill of the containment has been delivered
    contained,\* the containment object exists
    pc,       \* where the parent is in SupervisedProcessRunner.run
    reason,   \* why it stopped polling
    verdict,  \* what run returned or raised
    cancel,   \* cancel_event.is_set()
    overdue,  \* now >= deadline
    silent    \* now >= heartbeat_deadline

treeVars   == <<leader, kids, spawned, doomed>>
parentVars == <<contained, pc, reason, verdict>>
clockVars  == <<cancel, overdue, silent>>
vars       == <<treeVars, parentVars, clockVars>>

\* "suspended": created, not yet resumed; "zombie": ended, not yet collected.
LeaderStates == {"suspended", "running", "zombie", "collected"}
Reasons      == {"none", "exited", "cancelled", "timeout", "heartbeat_lost",
                 "interrupted"}
Verdicts     == {"NONE", "RESULT", "TIMED_OUT", "CANCELLED", "HEARTBEAT_LOST",
                 "UNKNOWN", "RAISED"}

Alive == (IF leader \in {"suspended", "running"} THEN {"leader"} ELSE {}) \cup kids
Runs  == leader = "running" \/ kids # {}

-----------------------------------------------------------------------------
(* The containment.                                                        *)

\* active_processes() = 0.  A Job does not count a process that has ended;
\* killpg(pgid, 0) succeeds as long as the group has a member to collect.
Empty == Alive = {} /\ (Posix => leader # "zombie")

\* Bug: the worker is created running.
StartRunning ==
    /\ pc = "idle"
    /\ leader' = "running"
    /\ pc' = "started"
    /\ UNCHANGED <<kids, spawned, doomed, contained, reason, verdict, clockVars>>

\* CREATE_SUSPENDED, or a new session that is a process group at once.
Start ==
    /\ pc = "idle"
    /\ leader' = IF Posix THEN "running" ELSE "suspended"
    /\ contained' = Posix
    /\ pc' = IF Posix THEN "polling" ELSE "started"
    /\ UNCHANGED <<kids, spawned, doomed, reason, verdict, clockVars>>

\* The Job is created, the worker assigned to it and only then resumed.
Contain ==
    /\ pc = "started"
    /\ contained' = TRUE
    /\ leader' = IF leader = "suspended" THEN "running" ELSE leader
    /\ pc' = "polling"
    /\ UNCHANGED <<kids, spawned, doomed, reason, verdict, clockVars>>

\* Any of the four calls fails: the worker is left suspended, or terminated.
ContainFails ==
    /\ pc = "started"
    /\ leader' \in {leader, "zombie"}
    /\ verdict' = "UNKNOWN"
    /\ pc' = "done"
    /\ UNCHANGED <<kids, spawned, doomed, contained, reason, clockVars>>

-----------------------------------------------------------------------------
(* The polling loop, in its order of checks.                               *)

stopFor(r) == /\ reason' = r
              /\ pc' = "terminating"
              /\ UNCHANGED <<treeVars, contained, verdict, clockVars>>

Exited == leader \in {"zombie", "collected"}

PollExit ==
    /\ pc = "polling"
    /\ Exited
    /\ leader' = "collected"
    /\ pc' = "draining"
    /\ UNCHANGED <<kids, spawned, doomed, contained, reason, verdict, clockVars>>

PollCancelled == pc = "polling" /\ ~Exited /\ cancel /\ stopFor("cancelled")
\* Bug: a fresh heartbeat postpones the deadline.
PollOverdueAndSilent ==
    pc = "polling" /\ ~Exited /\ ~cancel /\ overdue /\ silent /\ stopFor("timeout")
PollOverdue   == pc = "polling" /\ ~Exited /\ ~cancel /\ overdue /\ stopFor("timeout")
PollSilent    == /\ pc = "polling" /\ ~Exited /\ ~cancel /\ ~overdue
                 /\ silent
                 /\ stopFor("heartbeat_lost")

\* Bug: descendants of a worker that exited are not waited for.
DrainLeader ==
    /\ pc = "draining"
    /\ verdict' = "RESULT"
    /\ pc' = "closing"
    /\ UNCHANGED <<treeVars, contained, reason, clockVars>>

\* _wait_empty after a normal exit: nothing is left, or the grace ends.
Drain ==
    /\ pc = "draining"
    /\ IF Empty
       THEN verdict' = "RESULT" /\ pc' = "closing" /\ UNCHANGED reason
       ELSE reason' = "exited" /\ pc' = "terminating" /\ UNCHANGED verdict
    /\ UNCHANGED <<treeVars, contained, clockVars>>

\* containment.terminate: the kill is delivered to every member, or refused.
Terminate ==
    /\ pc = "terminating"
    /\ \/ doomed' = TRUE /\ pc' = "verifying" /\ UNCHANGED verdict
       \/ verdict' = "UNKNOWN" /\ pc' = "closing" /\ UNCHANGED doomed
    /\ UNCHANGED <<leader, kids, spawned, contained, reason, clockVars>>

\* What run raises for a tree that is verified to be gone.
Stopped == CASE reason = "timeout"        -> "TIMED_OUT"
             [] reason = "heartbeat_lost" -> "HEARTBEAT_LOST"
             [] reason = "exited"         -> "UNKNOWN"
             [] OTHER                     -> "CANCELLED"

\* Bug: a delivered kill is taken for a stopped tree.
VerifyNothing ==
    /\ pc = "verifying"
    /\ verdict' = Stopped
    /\ pc' = "closing"
    /\ UNCHANGED <<treeVars, contained, reason, clockVars>>

\* _wait_empty within the grace.  The instant of its last look counts.
Verify ==
    /\ pc = "verifying"
    /\ verdict' = IF Empty THEN Stopped ELSE "UNKNOWN"
    /\ leader' = IF Empty /\ leader = "zombie" THEN "collected" ELSE leader
    /\ pc' = "closing"
    /\ UNCHANGED <<kids, spawned, doomed, contained, reason, clockVars>>

\* An exception of the parent itself (one, by the bound of its guard) terminates
\* and verifies as well; before the containment exists only the worker is killed,
\* without a look at the effect, and the error goes up.
Interrupt ==
    /\ pc \in {"polling", "draining", "terminating", "verifying"}
    /\ reason # "interrupted"
    /\ stopFor("interrupted")

InterruptEarly ==
    /\ pc = "started"
    /\ leader' \in {leader, "zombie"}
    /\ verdict' = "RAISED"
    /\ pc' = "done"
    /\ UNCHANGED <<kids, spawned, doomed, contained, reason, clockVars>>

\* containment.close: the last handle of a Job kills what is left in it.
Close ==
    /\ pc = "closing"
    /\ doomed' = (doomed \/ ~Posix)
    /\ pc' = "done"
    /\ UNCHANGED <<leader, kids, spawned, contained, reason, verdict, clockVars>>

\* The parent process is lost, and its handles with it.
HostLost ==
    /\ pc \notin {"idle", "done", "lost"}
    /\ doomed' = (doomed \/ (contained /\ ~Posix))
    /\ pc' = "lost"
    /\ UNCHANGED <<leader, kids, spawned, contained, reason, verdict, clockVars>>

-----------------------------------------------------------------------------
(* The worker's tree and the clock.                                        *)

Spawn(k) ==
    /\ Runs /\ ~doomed
    /\ k \notin spawned
    /\ kids' = kids \cup {k}
    /\ spawned' = spawned \cup {k}
    /\ UNCHANGED <<leader, doomed, parentVars, clockVars>>

\* Of its own accord or killed.
LeaderEnds ==
    /\ leader = "running" \/ (leader = "suspended" /\ doomed)
    /\ leader' = "zombie"
    /\ UNCHANGED <<kids, spawned, doomed, parentVars, clockVars>>

KidEnds(k) ==
    /\ k \in kids
    /\ kids' = kids \ {k}
    /\ UNCHANGED <<leader, spawned, doomed, parentVars, clockVars>>

\* A worker's thread, or the companion process of one blocked in a native call.
Beat ==
    /\ Runs /\ silent
    /\ silent' = FALSE
    /\ UNCHANGED <<treeVars, parentVars, cancel, overdue>>

HeartbeatLapses == ~silent /\ silent' = TRUE /\ UNCHANGED <<cancel, overdue>>
Cancel          == ~cancel /\ cancel' = TRUE /\ UNCHANGED <<silent, overdue>>
TimeoutPasses   == ~overdue /\ overdue' = TRUE /\ UNCHANGED <<silent, cancel>>

Clock == /\ pc = "polling"
         /\ HeartbeatLapses \/ Cancel \/ TimeoutPasses
         /\ UNCHANGED <<treeVars, parentVars>>

-----------------------------------------------------------------------------
Init ==
    /\ leader = "collected"
    /\ kids = {} /\ spawned = {}
    /\ doomed = FALSE /\ contained = FALSE
    /\ pc = "idle" /\ reason = "none" /\ verdict = "NONE"
    /\ cancel = FALSE /\ overdue = FALSE /\ silent = FALSE

ParentStep ==
    \/ Start \/ Contain \/ ContainFails
    \/ PollExit \/ PollCancelled \/ PollOverdue \/ PollSilent
    \/ Drain \/ Terminate \/ Verify \/ Close

TreeStep ==
    \/ LeaderEnds \/ Beat
    \/ \E k \in Descendants : Spawn(k) \/ KidEnds(k)

Next == ParentStep \/ Interrupt \/ InterruptEarly \/ HostLost \/ TreeStep \/ Clock

Spec == Init /\ [][Next]_vars

\* The parent runs on, the deadline passes, a delivered kill is carried out.
\* Nothing is assumed of a worker that was not killed.
SupervisorFairness ==
    /\ WF_vars(ParentStep)
    /\ WF_vars(pc = "polling" /\ TimeoutPasses /\ UNCHANGED <<treeVars, parentVars>>)
    /\ WF_vars(doomed /\ LeaderEnds)
    /\ \A k \in Descendants : WF_vars(doomed /\ KidEnds(k))

LiveSpec == Spec /\ SupervisorFairness

-----------------------------------------------------------------------------
(* Properties.                                                             *)

SupervisorTypeOK ==
    /\ leader \in LeaderStates
    /\ kids \subseteq spawned /\ spawned \subseteq Descendants
    /\ doomed \in BOOLEAN /\ contained \in BOOLEAN
    /\ pc \in {"idle", "started", "polling", "draining", "terminating", "verifying",
               "closing", "done", "lost"}
    /\ reason \in Reasons /\ verdict \in Verdicts
    /\ cancel \in BOOLEAN /\ overdue \in BOOLEAN /\ silent \in BOOLEAN

\* Where the parent is, what it knows and what runs fit together; in particular
\* nothing of the worker ever runs outside the containment.
SupervisorInv ==
    /\ SupervisorTypeOK
    /\ Runs => contained
    /\ contained => pc \notin {"idle", "started"}
    /\ pc \notin {"idle", "started", "done", "lost"} => contained
    /\ pc \in {"draining", "closing", "done", "lost"} \/ verdict = "NONE"
    /\ pc = "draining" => verdict = "NONE" /\ leader = "collected"

\* Whatever races the deadline, a cancellation, the last heartbeat and the
\* worker's exit run, an answer other than UNKNOWN means that nothing of the
\* worker's process tree runs, or ever will (SupervisedProcessRunner.run).
KnownMeansGone == verdict \notin {"NONE", "UNKNOWN"} => ~Runs

\* A parent lost at any moment leaves nothing running: the worker cannot run
\* before it is in the kill-on-close Job.
LostHostLeavesNothing == pc = "lost" /\ ~Posix ~> ~Runs

\* tests/test_phase3_process_safety.py:78 says `ProcessCancelled if
\* cancel_event is not None else ProcessTimedOut`: a worker that was stopped for
\* a reason is not reported UNKNOWN when its whole tree has died.
StoppedIsReported ==
    [][pc = "verifying" /\ pc' = "closing" /\ reason \in {"timeout", "cancelled"}
          => verdict' # "UNKNOWN" \/ Alive # {}]_vars

=============================================================================
