--------------------------- MODULE TaskLifecycle ----------------------------
(***************************************************************************)
(* The life of the tasks of one queue when commands are handled one at a   *)
(* time: every accepted command of the runtime carrier, of the owner       *)
(* administration and of the review completion is one atomic step.  What   *)
(* GitHub answers (which pull requests drifted, merged or closed), which   *)
(* verdicts the Runner reports and which targets a TICK may read are       *)
(* nondeterministic.  A command the code rejects changes nothing and is a  *)
(* stuttering step.                                                        *)
(***************************************************************************)
EXTENDS ControlQueue

VARIABLES
    queue,     \* the durable queue
    rework     \* history: findings in a row admitted on an unchanged candidate

vars == <<queue, rework>>

\* rework saturates here, beyond what NoProgressBrake allows.
MaxRework == 3

TypeOK ==
    /\ queue \in Queue
    /\ rework \in [Tasks -> 0 .. MaxRework]

Init ==
    /\ queue = InitialQueue
    /\ rework = [t \in Tasks |-> 0]

NewFinding(t) ==
    rework' = [rework EXCEPT ![t] = IF @ < MaxRework THEN @ + 1 ELSE @]

\* A PASS, or a real change of the candidate, starts the count again.
Settled(t) == rework' = [rework EXCEPT ![t] = 0]

LiveDiffers(t) == \E rev \in Revs : rev # queue.tasks[t].candidate.rev

-----------------------------------------------------------------------------
(* Time: the 5400 seconds of the lease run out. *)
LeaseExpires ==
    /\ Busy(queue)
    /\ queue' = [queue EXCEPT !.lock.live = FALSE]
    /\ UNCHANGED rework

(* TICK of run r that may read the repositories of resumable and select    *)
(* among available.  drifted: the parked tasks it finds moved.  Selection  *)
(* and acquisition insist on a queue without a lock.                       *)
TickFor(r, resumable, available, drifted) ==
    LET image == ResumeDrifted(RecoverExpiredLock(queue), drifted)
    IN  /\ ~Busy(queue)
        /\ image.lock = None
        /\ drifted \subseteq ParkedNoProgress(queue) \cap resumable
        /\ \A t \in drifted : LiveDiffers(t)
        /\ rework' = [t \in Tasks |-> IF t \in drifted THEN 0 ELSE rework[t]]
        /\ \/ /\ SelectionClass(image, available) = {}
              /\ queue' = image
           \/ \E t \in Tasks :
                /\ Selects(image, available, t)
                /\ queue' = AcquireTask(image, t, r)
           \/ \E t \in Tasks \ drifted, blocker \in {"INTEGRATED", "CLOSED"} :
                /\ Selects(image, available, t)
                /\ image.tasks[t].candidate # None
                /\ image.tasks[t].status = "ACTIVE"
                /\ queue' = ParkTerminalTarget(image, t, blocker)

InRepositories(repos) == {t \in Tasks : Repository[t] \in repos}

\* A public TICK reads and selects in the anonymously readable repositories;
\* a native start may resume anywhere, and selects outside the core-excluded
\* ones or in the one repository asked for.
Tick(r) ==
    \E repos \in SUBSET Repositories, yielded \in SUBSET Tasks,
       drifted \in SUBSET ParkedNoProgress(queue) :
      \/ TickFor(r, InRepositories(repos), InRepositories(repos) \ yielded,
                 drifted)
      \/ TickFor(r, Tasks, InRepositories(repos), drifted)

-----------------------------------------------------------------------------
(* EVENTs of the holder.  The carrier accepts one only under an unexpired   *)
(* lock, but the lease may still run out between its last check and the     *)
(* compare-and-swap: at the instant an EVENT takes effect the lock is       *)
(* certainly held, not certainly live (RuntimeCarrier has both instants).   *)
Report(r, t, event, task) == queue' = AfterEvent(queue, r, t, event, task)

Yield(r, t) ==
    /\ Held(queue, r, t)
    /\ Report(r, t, "YIELD", queue.tasks[t])
    /\ UNCHANGED rework

Reviewing(r, t) ==
    /\ Held(queue, r, t)
    /\ InPhase(queue, t, {"REVIEW"})
    /\ queue.tasks[t].candidate # None

\* A review or candidate event that finds the pull request moved.
CandidateDrift(r, t) ==
    /\ Reviewing(r, t)
    /\ LiveDiffers(t)
    /\ queue' = Release([queue EXCEPT !.tasks[t] = DriftToRepair(@)])
    /\ Settled(t)

NewCandidate(r, t, c) ==
    /\ Held(queue, r, t)
    /\ \/ InPhase(queue, t, {"BUILD"})
       \/ InPhase(queue, t, {"REPAIR"}) /\ queue.tasks[t].candidate # c
    /\ Report(r, t, "CANDIDATE_READY", CandidateReady(queue.tasks[t], c))
    /\ Settled(t)

UnchangedCandidate(r, t) ==
    /\ Held(queue, r, t)
    /\ InPhase(queue, t, {"REPAIR"})
    /\ queue.tasks[t].candidate # None
    /\ Report(r, t, "CANDIDATE_READY", MarkNoProgress(t, queue.tasks[t]))
    /\ UNCHANGED rework

ReportPass(r, t) ==
    /\ Reviewing(r, t)
    /\ Report(r, t, "INTERNAL_PASS", InternalPass(t, queue.tasks[t]))
    /\ Settled(t)

ReportRepair(r, t) ==
    /\ Reviewing(r, t)
    /\ Report(r, t, "INTERNAL_REPAIR", InternalRepair(queue.tasks[t]))
    /\ NewFinding(t)

ReportRequested(r, t, ref) ==
    /\ Reviewing(r, t)
    /\ CanRequestExternal(t, queue.tasks[t], ref)
    /\ Report(r, t, "EXTERNAL_REQUESTED",
              ExternalRequested(queue.tasks[t], ref))
    /\ UNCHANGED rework

ReportUnavailable(r, t) ==
    /\ Reviewing(r, t)
    /\ CanReportUnavailable(t, queue.tasks[t])
    /\ Report(r, t, "REVIEW_UNAVAILABLE", ExternalUnavailable(queue.tasks[t]))
    /\ UNCHANGED rework

ReportFinding(r, t) ==
    /\ Reviewing(r, t)
    /\ ReviewPolicy[t] = "EXTERNAL"
    /\ Report(r, t, "EXTERNAL_FINDING", ExternalFinding(queue.tasks[t]))
    /\ NewFinding(t)

ReportExternalPass(r, t) ==
    /\ Reviewing(r, t)
    /\ CanPassExternal(t, queue.tasks[t])
    /\ Report(r, t, "EXTERNAL_PASS", ExternalPass(queue.tasks[t]))
    /\ Settled(t)

-----------------------------------------------------------------------------
(* The hourly review completion and the owner's administration.            *)
Administer(t, task) == queue' = AfterAdministration(queue, t, task)

CompleteReview(t) ==
    /\ CanFinishReview(queue, t)
    /\ Administer(t, FinishReview(queue.tasks[t]))
    /\ Settled(t)

Finalize(t) ==
    /\ CanFinalizeIntegrated(queue, t)
    /\ Administer(t, FinalizeIntegrated(queue.tasks[t]))
    /\ UNCHANGED rework

\* rebind_ready_candidate_v4 leaves the task as candidate_ready_v4 would.
Rebind(t, c) ==
    /\ CanRebindReady(queue, t, c)
    /\ Administer(t, CandidateReady(queue.tasks[t], c))
    /\ Settled(t)

Reconcile(t, c, ref) ==
    /\ CanReconcileIntegrated(queue, t, c)
    /\ Administer(t, ReconcileIntegrated(t, queue.tasks[t], c, ref))
    /\ Settled(t)

-----------------------------------------------------------------------------
Event(r, t) ==
    \/ Yield(r, t)
    \/ CandidateDrift(r, t)
    \/ \E c \in Candidate : NewCandidate(r, t, c)
    \/ UnchangedCandidate(r, t)
    \/ ReportPass(r, t)
    \/ ReportRepair(r, t)
    \/ \E ref \in Refs : ReportRequested(r, t, ref)
    \/ ReportUnavailable(r, t)
    \/ ReportFinding(r, t)
    \/ ReportExternalPass(r, t)

Administration(t) ==
    \/ CompleteReview(t)
    \/ Finalize(t)
    \/ \E c \in Candidate : Rebind(t, c)
    \/ \E c \in Candidate, ref \in Refs : Reconcile(t, c, ref)

Next ==
    \/ LeaseExpires
    \/ \E r \in Runs : Tick(r)
    \/ \E r \in Runs, t \in Tasks : Event(r, t)
    \/ \E t \in Tasks : Administration(t)

Spec == Init /\ [][Next]_vars

-----------------------------------------------------------------------------
(* Safety.                                                                 *)

\* validate_queue_v4 runs on the result of every transition and the carrier
\* fails closed when it refuses.  It never has to: no sequence of accepted
\* commands ends in a queue whose evidence is not that of the bound
\* candidate, whose READY or DONE task lacks a PASS, or whose lock holder is
\* not ACTIVE.
QueueStaysValid == ValidQueue(queue)

\* The no-progress brake of v4_safety: findings on a candidate nobody changed
\* and no recheck passed are admitted once, and once more at the recheck.
\* Two of them leave the task parked, or in REPAIR after an external finding,
\* where the next unchanged candidate parks it.  There is no third.
NoProgressBrake ==
    \A t \in Tasks :
      /\ rework[t] <= 2
      /\ rework[t] = 2 =>
           \/ queue.tasks[t].status = "BLOCKED"
           \/ /\ InPhase(queue, t, {"REPAIR"})
              /\ ExternalFailed(t, queue.tasks[t])

FailKept(t, before, after) ==
    ExternalFailed(t, before) =>
      \/ after.external = before.external
      \/ after.candidate # before.candidate
      \/ after.status = "DONE"

FailStandsStep ==
    \A t \in Tasks : FailKept(t, queue.tasks[t], queue'.tasks[t])

\* external_unavailable_v4 says terminal external evidence cannot be
\* downgraded; external_requested_v4 and external_pass_v4 do not look at the
\* earlier status.  An external FAIL still stands until the task gets another
\* candidate or the owner closes it as integrated.
ExternalFailStands == [][FailStandsStep]_vars

\* PUBLIC_PRIVATE_BOUNDARY_V4 has every candidate-drift decision made by an
\* EVENT, and none by a TICK: a task enters REPAIR only under its own lock.
DriftDecidedByEvents ==
    [][\A t \in Tasks :
         queue.tasks[t].phase # "REPAIR" /\ queue'.tasks[t].phase = "REPAIR" =>
           \E r \in Runs : Held(queue, r, t)]_vars

\* The inductive invariant behind the first three: the discipline of every
\* task, and an ACTIVE holder.
IInv ==
    /\ TypeOK
    /\ \A t \in Tasks : TaskDiscipline(t, queue.tasks[t], rework[t])
    /\ queue.lock # None => queue.tasks[queue.lock.task].status = "ACTIVE"

=============================================================================
