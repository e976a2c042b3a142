---------------------------- MODULE ControlQueue ----------------------------
(***************************************************************************)
(* The V4 dispatch queue (control/DISPATCH_QUEUE.json of the private       *)
(* control plane) and the pure transitions the engine computes on it.      *)
(*                                                                         *)
(* A queue is a record of the tasks, in list order, and of the single      *)
(* execution lock.  Every operator below is a guard on a queue or the      *)
(* queue a transition returns; who applies them, when, and to which        *)
(* snapshot is the business of the modules that extend this one.           *)
(*                                                                         *)
(* Abstractions.  A candidate is a pull request number and a revision; the *)
(* revision stands for (candidate_sha, expected_base_branch,               *)
(* expected_base_sha), the part a review binds to.  The head branch is a   *)
(* function of the pull request.  Time is one bit of the lock, "live"      *)
(* while expires_at lies in the future.  The carrier runs with             *)
(* integration_enabled = false in every mutation (it refuses otherwise),   *)
(* so phases INTEGRATE and CONVERGE, which only a migrated V3.1 queue can  *)
(* contain, are left out; so are the values no deployed command ever sets: *)
(* the PENDING_DRIFT marker, status SUPERSEDED, verdict BLOCKED and the    *)
(* external status REQUESTING.                                             *)
(***************************************************************************)
EXTENDS Naturals, FiniteSets

CONSTANTS
    NumTasks,            \* tasks of the queue, numbered in list order
    Repositories,        \* target repositories
    Repository,          \* task -> its repository
    ReviewPolicy,        \* task -> "INTERNAL" or "EXTERNAL"
    IntegrationPolicy,   \* task -> "HOLD_AFTER_PASS" or "AUTO_AFTER_PASS"
    PRs,                 \* pull request numbers (numbered per repository)
    Revs,                \* exact head/base identities of pull requests
    Refs,                \* public references of external review requests
    Runs,                \* run identities
    InteractiveRuns,     \* those of the form v41:control-go:<run id>
    InitialTasks,        \* the tasks of the queue taken into service
    None                 \* JSON null

Tasks == 1 .. NumTasks

Status == {"QUEUED", "ACTIVE", "READY", "BLOCKED", "DONE"}
Phase == {"BUILD", "REVIEW", "REPAIR", "NONE"}
Blocker == {"NONE", "NO_PROGRESS", "INTEGRATED", "CLOSED"}

Candidate == [pr : PRs, rev : Revs]
Review == [rev : Revs, verdict : {"PASS", "REPAIR_REQUIRED"}]
External == [rev : Revs,
             status : {"PENDING", "PASS", "FAIL", "INDETERMINATE"},
             ref : Refs \cup {None}]

Task == [status : Status, phase : Phase, blocker : Blocker,
         candidate : Candidate \cup {None},
         review : Review \cup {None},
         external : External \cup {None}]
Lock == [task : Tasks, run : Runs, live : BOOLEAN]
Queue == [tasks : [Tasks -> Task], lock : Lock \cup {None}]

ASSUME QueueAssumption ==
    /\ NumTasks \in Nat
    /\ Repository \in [Tasks -> Repositories]
    /\ ReviewPolicy \in [Tasks -> {"INTERNAL", "EXTERNAL"}]
    /\ IntegrationPolicy \in [Tasks -> {"HOLD_AFTER_PASS", "AUTO_AFTER_PASS"}]
    /\ InteractiveRuns \subseteq Runs
    /\ InitialTasks \in [Tasks -> Task]
    /\ None \notin Candidate \cup Review \cup External \cup Lock \cup Refs

-----------------------------------------------------------------------------
(* Reading a queue. *)

InitialQueue == [tasks |-> InitialTasks, lock |-> None]

InPhase(q, t, phases) ==
    q.tasks[t].status = "ACTIVE" /\ q.tasks[t].phase \in phases

\* The internal verdict on exactly the bound candidate is PASS.
InternalPassed(task) ==
    /\ task.candidate # None
    /\ task.review # None
    /\ task.review.verdict = "PASS"
    /\ task.review.rev = task.candidate.rev

\* All the evidence the task's review policy asks for, on that candidate.
TaskReviewPassed(t, task) ==
    /\ InternalPassed(task)
    /\ ReviewPolicy[t] = "EXTERNAL" =>
         /\ task.external # None
         /\ task.external.status = "PASS"
         /\ task.external.rev = task.candidate.rev

\* The action a WORK capsule asks the Runner for.
WorkAction(t, task) ==
    CASE task.phase # "REVIEW" -> task.phase
      [] task.phase = "REVIEW"
           /\ (ReviewPolicy[t] = "INTERNAL" \/ ~InternalPassed(task)) ->
         "REVIEW_INTERNAL"
      [] OTHER ->
         IF task.external = None THEN "REQUEST_EXTERNAL_REVIEW"
         ELSE IF task.external.ref = None THEN "REQUEST_EXTERNAL_REVIEW"
         ELSE "RECONCILE_EXTERNAL_REVIEW"

RetryableExternalWait(t, task) ==
    /\ task.status = "ACTIVE"
    /\ task.phase = "REVIEW"
    /\ ReviewPolicy[t] = "EXTERNAL"
    /\ task.external # None
    /\ task.external.status = "INDETERMINATE"

Held(q, r, t) == q.lock # None /\ q.lock.run = r /\ q.lock.task = t

\* assert_event_identity and _assert_holder: an unexpired lock of this run.
HolderOf(q, r, t) == Held(q, r, t) /\ q.lock.live

\* Mutant: the expiry of the lease is not looked at.
BusyMutant(q) == q.lock # None

Busy(q) == q.lock # None /\ q.lock.live

Expired(q) == q.lock # None /\ ~q.lock.live

-----------------------------------------------------------------------------
(* TICK: recovery, selection, acquisition, and the two parkings. *)

Release(q) == [q EXCEPT !.lock = None]

RecoverExpiredLock(q) == IF Expired(q) THEN Release(q) ELSE q

\* The first non-empty class of available tasks: ACTIVE work, then QUEUED,
\* then reviews reported unavailable.
SelectionClass(q, available) ==
    LET waiting == {t \in available : RetryableExternalWait(t, q.tasks[t])}
        active == {t \in available : q.tasks[t].status = "ACTIVE"} \ waiting
        queued == {t \in available : q.tasks[t].status = "QUEUED"}
    IN  IF active # {} THEN active
        ELSE IF queued # {} THEN queued
        ELSE waiting

\* select_task_id_v4 returns t: the first of its class in list order.
Selects(q, available, t) ==
    /\ t \in SelectionClass(q, available)
    /\ \A u \in SelectionClass(q, available) : t <= u

AcquireTask(q, t, r) ==
    [tasks |-> [q.tasks EXCEPT ![t] =
                  IF @.status = "QUEUED"
                  THEN [@ EXCEPT !.status = "ACTIVE", !.phase = "BUILD"]
                  ELSE @],
     lock |-> [task |-> t, run |-> r, live |-> TRUE]]

\* Tasks parked for lack of progress, which a real change of their pull
\* request sends back to REPAIR.
ParkedNoProgress(q) ==
    {t \in Tasks : /\ q.tasks[t].status = "BLOCKED"
                   /\ q.tasks[t].blocker = "NO_PROGRESS"
                   /\ q.tasks[t].candidate # None}

Resume(task) ==
    [task EXCEPT !.status = "ACTIVE", !.phase = "REPAIR", !.blocker = "NONE"]

ResumeDrifted(q, drifted) ==
    [q EXCEPT !.tasks =
       [t \in Tasks |-> IF t \in drifted THEN Resume(q.tasks[t])
                        ELSE q.tasks[t]]]

Park(task, blocker) ==
    [task EXCEPT !.status = "BLOCKED", !.phase = "NONE", !.blocker = blocker]

\* The selected task's pull request was merged or closed.
ParkTerminalTarget(q, t, blocker) ==
    [q EXCEPT !.tasks[t] = Park(@, blocker)]

-----------------------------------------------------------------------------
(* EVENTs: what each does to the held task, and the holder boundary.       *)

ContinuationEvents ==
    {"CANDIDATE_READY", "INTERNAL_PASS", "INTERNAL_REPAIR",
     "EXTERNAL_REQUESTED", "EXTERNAL_FINDING"}

\* An interactive run keeps the very lock it had while its task stays in
\* ordinary REVIEW or REPAIR.
KeepsHolder(r, event, task) ==
    /\ r \in InteractiveRuns
    /\ event \in ContinuationEvents
    /\ task.status = "ACTIVE"
    /\ task.phase \in {"REVIEW", "REPAIR"}
    /\ task.blocker = "NONE"

\* An accepted event: the new state of its task and the holder's disposition
\* in one queue image.
AfterEvent(q, r, t, event, task) ==
    [tasks |-> [q.tasks EXCEPT ![t] = task],
     lock |-> IF KeepsHolder(r, event, task) THEN q.lock ELSE None]

\* The live pull request no longer is the candidate under review.
DriftToRepair(task) == [task EXCEPT !.phase = "REPAIR", !.blocker = "NONE"]

\* Mutant: the external evidence survives a new candidate.
CandidateReadyMutant(task, c) ==
    [task EXCEPT !.candidate = c, !.review = None, !.blocker = "NONE",
                 !.status = "ACTIVE", !.phase = "REVIEW"]

CandidateReady(task, c) ==
    [task EXCEPT !.candidate = c, !.review = None, !.external = None,
                 !.blocker = "NONE", !.status = "ACTIVE", !.phase = "REVIEW"]

ExternalFailed(t, task) ==
    /\ ReviewPolicy[t] = "EXTERNAL"
    /\ task.external # None
    /\ task.external.status = "FAIL"

\* Mutant: an external finding is rechecked like an internal one.
MarkNoProgressMutant(t, task) ==
    [task EXCEPT !.phase = "REVIEW", !.blocker = "NO_PROGRESS"]

\* REPAIR handed back the candidate it was given: one bounded recheck, or,
\* after an external finding, no recheck at all.
MarkNoProgress(t, task) ==
    IF ExternalFailed(t, task)
    THEN Park(task, "NO_PROGRESS")
    ELSE [task EXCEPT !.phase = "REVIEW", !.blocker = "NO_PROGRESS"]

\* Mutant: the verdict records the candidate instead of its identity.
SetVerdictMutant(task, verdict) ==
    [task EXCEPT !.review = [rev |-> task.candidate, verdict |-> verdict]]

\* An internal verdict always binds to the candidate of the moment.
SetVerdict(task, verdict) ==
    [task EXCEPT !.review = [rev |-> task.candidate.rev, verdict |-> verdict]]

\* Mutant: the recheck sends the task to REPAIR again.
InternalRepairMutant(task) ==
    [SetVerdict(task, "REPAIR_REQUIRED") EXCEPT !.phase = "REPAIR"]

\* A recheck that admits the finding again parks instead of repairing again.
InternalRepair(task) ==
    IF task.blocker = "NO_PROGRESS"
    THEN Park(SetVerdict(task, "REPAIR_REQUIRED"), "NO_PROGRESS")
    ELSE [SetVerdict(task, "REPAIR_REQUIRED") EXCEPT !.phase = "REPAIR"]

\* finish_passed_review_v4 with integration disabled.
FinishPassedReview(task) ==
    [SetVerdict(task, "PASS") EXCEPT !.status = "READY", !.phase = "NONE"]

ClearNoProgress(task) ==
    [task EXCEPT !.blocker = IF @ = "NO_PROGRESS" THEN "NONE" ELSE @]

\* The marker is cleared before the verdict is recorded; only an INTERNAL
\* task is finished by it.
InternalPass(t, task) ==
    IF ReviewPolicy[t] = "INTERNAL"
    THEN FinishPassedReview(ClearNoProgress(task))
    ELSE SetVerdict(ClearNoProgress(task), "PASS")

RequestRef(task) == IF task.external = None THEN None ELSE task.external.ref

SetExternal(task, status, ref) ==
    [task EXCEPT !.external = [rev |-> task.candidate.rev, status |-> status,
                                ref |-> ref]]

CanRequestExternal(t, task, ref) ==
    /\ ReviewPolicy[t] = "EXTERNAL"
    /\ InternalPassed(task)
    /\ RequestRef(task) \in {None, ref}

ExternalRequested(task, ref) == SetExternal(task, "PENDING", ref)

CanReportUnavailable(t, task) ==
    /\ ReviewPolicy[t] = "EXTERNAL"
    /\ task.external # None => task.external.status \notin {"PASS", "FAIL"}

ExternalUnavailable(task) ==
    SetExternal(task, "INDETERMINATE", RequestRef(task))

ExternalFinding(task) ==
    [SetExternal(task, "FAIL", RequestRef(task)) EXCEPT
       !.status = "ACTIVE", !.phase = "REPAIR", !.blocker = "NONE"]

\* Neither a registered request nor a particular earlier external status is
\* required, only the internal PASS.
CanPassExternal(t, task) ==
    ReviewPolicy[t] = "EXTERNAL" /\ InternalPassed(task)

ExternalPass(task) ==
    FinishPassedReview(SetExternal(task, "PASS", RequestRef(task)))

-----------------------------------------------------------------------------
(* Owner administration and the deterministic review completion.           *)

\* Tasks of t's repository bound to a pull request with this number.
TasksOfPublicPR(q, t, pr) ==
    {u \in Tasks : /\ Repository[u] = Repository[t]
                   /\ q.tasks[u].candidate # None
                   /\ q.tasks[u].candidate.pr = pr}

TasksOfCandidate(q, t, c) ==
    {u \in Tasks : Repository[u] = Repository[t] /\ q.tasks[u].candidate = c}

CanFinalizeIntegrated(q, t) ==
    /\ q.lock = None
    /\ q.tasks[t].status = "READY"
    /\ TasksOfCandidate(q, t, q.tasks[t].candidate) = {t}

FinalizeIntegrated(task) ==
    [task EXCEPT !.status = "DONE", !.phase = "NONE", !.blocker = "NONE"]

CanRebindReady(q, t, c) ==
    /\ q.lock = None
    /\ TasksOfPublicPR(q, t, c.pr) = {t}
    /\ q.tasks[t].status = "READY"
    /\ q.tasks[t].candidate # c

CanReconcileIntegrated(q, t, c) ==
    /\ q.lock = None
    /\ TasksOfPublicPR(q, t, c.pr) = {t}
    /\ \/ q.tasks[t].status = "READY"
       \/ /\ ReviewPolicy[t] = "EXTERNAL"
          /\ InPhase(q, t, {"REVIEW"}) \/ q.tasks[t].status = "BLOCKED"

\* The owner supplies fresh PASS evidence for the merged candidate.
ReconcileIntegrated(t, task, c, ref) ==
    [task EXCEPT
       !.candidate = c,
       !.review = [rev |-> c.rev, verdict |-> "PASS"],
       !.external = IF ReviewPolicy[t] = "INTERNAL" THEN None
                    ELSE [rev |-> c.rev, status |-> "PASS", ref |-> ref],
       !.status = "DONE", !.phase = "NONE", !.blocker = "NONE"]

AwaitsReviewCompletion(q, t) ==
    /\ InPhase(q, t, {"REVIEW"})
    /\ ReviewPolicy[t] = "EXTERNAL"
    /\ IntegrationPolicy[t] = "HOLD_AFTER_PASS"
    /\ q.tasks[t].blocker = "NONE"
    /\ q.tasks[t].candidate # None
    /\ q.tasks[t].external # None
    /\ q.tasks[t].external.status = "PENDING"
    /\ q.tasks[t].external.ref # None

\* eligible, the private part of completion_evidence, and _unheld_queue.
CanFinishReview(q, t) ==
    /\ AwaitsReviewCompletion(q, t)
    /\ InternalPassed(q.tasks[t])
    /\ q.tasks[t].external.rev = q.tasks[t].candidate.rev
    /\ TasksOfPublicPR(q, t, q.tasks[t].candidate.pr) = {t}
    /\ q.lock = None \/ (Expired(q) /\ q.lock.task = t)

FinishReview(task) ==
    [SetExternal(task, "PASS", RequestRef(task)) EXCEPT
       !.status = "READY", !.phase = "NONE"]

\* These writers leave no lock: there was none, or it was the task's own
\* expired one.
AfterAdministration(q, t, task) ==
    [tasks |-> [q.tasks EXCEPT ![t] = task], lock |-> None]

-----------------------------------------------------------------------------
(* validate_queue_v4: what every loaded and every written queue must pass. *)

ReviewsMatchCandidate(task) ==
    /\ task.review # None =>
         task.candidate # None /\ task.review.rev = task.candidate.rev
    /\ task.external # None =>
         task.candidate # None /\ task.external.rev = task.candidate.rev

\* The status-dependent phase of the queue schema.
PhaseFitsStatus(task) ==
    CASE task.status = "QUEUED" -> task.phase = "BUILD"
      [] task.status = "ACTIVE" -> task.phase # "NONE"
      [] OTHER -> task.phase = "NONE"

ValidTask(t, task) ==
    /\ PhaseFitsStatus(task)
    /\ ReviewsMatchCandidate(task)
    /\ task.status \in {"READY", "DONE"} => TaskReviewPassed(t, task)

ValidQueue(q) ==
    /\ \A t \in Tasks : ValidTask(t, q.tasks[t])
    /\ q.lock # None => q.tasks[q.lock.task].status = "ACTIVE"

-----------------------------------------------------------------------------
(* What is true of every task, beyond what the validator asks.             *)

\* One task together with the number of findings in a row that were admitted
\* on its unchanged candidate: a candidate exists wherever one is judged or
\* repaired, a candidate with an external FAIL is in REPAIR or parked, and a
\* finding nobody settled is being repaired, rechecked or parked.
TaskDiscipline(t, task, findings) ==
    /\ ValidTask(t, task)
    /\ task.phase \in {"REVIEW", "REPAIR"} => task.candidate # None
    /\ ExternalFailed(t, task) =>
         task.status = "BLOCKED" \/ task.phase = "REPAIR"
    /\ findings <= 2
    /\ findings >= 1 =>
         \/ task.status = "BLOCKED"
         \/ task.phase = "REPAIR"
         \/ task.phase = "REVIEW" /\ task.blocker = "NO_PROGRESS"
    /\ findings = 2 =>
         \/ task.status = "BLOCKED"
         \/ task.phase = "REPAIR" /\ ExternalFailed(t, task)

\* A queue is taken into service with tasks of that kind.
ASSUME InitialAssumption ==
    \A t \in Tasks : TaskDiscipline(t, InitialTasks[t], 0)
=============================================================================
