------------------------- MODULE ControlQueueProofs -------------------------
(***************************************************************************)
(* What each transition of ControlQueue makes of one task: it stays a task *)
(* and keeps TaskDiscipline, for every policy and every set of candidates. *)
(* The sequential life of the tasks and the concurrent jobs both rest on   *)
(* these lemmas.                                                           *)
(***************************************************************************)
EXTENDS ControlQueue, TLAPS

(* What the transitions make of one task.                                  *)

(* A new candidate starts in REVIEW with no evidence and no findings.       *)
LEMMA CandidateReadyTask ==
    ASSUME NEW t \in Tasks, NEW task \in Task, NEW c \in Candidate
    PROVE  /\ CandidateReady(task, c) \in Task
           /\ TaskDiscipline(t, CandidateReady(task, c), 0)
<1> DEFINE bound == CandidateReady(task, c)
<1>1. c # None
  BY QueueAssumption
<1>2. bound \in Task
  BY DEF CandidateReady, Task, Status, Phase, Blocker
<1>3. TaskDiscipline(t, bound, 0)
  BY <1>1 DEF CandidateReady, Task, TaskDiscipline, ValidTask,
              PhaseFitsStatus, ReviewsMatchCandidate, ExternalFailed
<1> QED  BY <1>2, <1>3

(* An unchanged candidate is rechecked once or, after an external finding,  *)
(* parked.                                                                  *)
LEMMA MarkNoProgressTask ==
    ASSUME NEW t \in Tasks, NEW task \in Task, NEW n \in Nat,
           TaskDiscipline(t, task, n),
           task.status = "ACTIVE", task.phase = "REPAIR"
    PROVE  /\ MarkNoProgress(t, task) \in Task
           /\ TaskDiscipline(t, MarkNoProgress(t, task), n)
<1>1. CASE ExternalFailed(t, task)
  <2> DEFINE parked == [task EXCEPT !.status = "BLOCKED", !.phase = "NONE",
                                    !.blocker = "NO_PROGRESS"]
  <2>1. MarkNoProgress(t, task) = parked
    BY <1>1 DEF MarkNoProgress, Park
  <2>2. parked \in Task
    BY DEF Task, Status, Phase, Blocker
  <2>3. TaskDiscipline(t, parked, n)
    BY DEF Task, TaskDiscipline, ValidTask, PhaseFitsStatus,
           ReviewsMatchCandidate, ExternalFailed
  <2> QED  BY <2>1, <2>2, <2>3
<1>2. CASE ~ExternalFailed(t, task)
  <2> DEFINE recheck == [task EXCEPT !.phase = "REVIEW",
                                     !.blocker = "NO_PROGRESS"]
  <2>1. MarkNoProgress(t, task) = recheck
    BY <1>2 DEF MarkNoProgress
  <2>2. recheck \in Task
    BY DEF Task, Status, Phase, Blocker
  <2>3. TaskDiscipline(t, recheck, n)
    BY <1>2 DEF Task, TaskDiscipline, ValidTask, PhaseFitsStatus,
           ReviewsMatchCandidate, ExternalFailed
  <2> QED  BY <2>1, <2>2, <2>3
<1> QED  BY <1>1, <1>2

(* A drifted candidate goes to REPAIR and its findings no longer count.     *)
LEMMA DriftToRepairTask ==
    ASSUME NEW t \in Tasks, NEW task \in Task, NEW n \in Nat,
           TaskDiscipline(t, task, n),
           task.status = "ACTIVE", task.phase = "REVIEW"
    PROVE  /\ DriftToRepair(task) \in Task
           /\ TaskDiscipline(t, DriftToRepair(task), 0)
<1> DEFINE drifted == DriftToRepair(task)
<1>1. drifted \in Task
  BY DEF DriftToRepair, Task, Status, Phase, Blocker
<1>2. TaskDiscipline(t, drifted, 0)
  BY DEF DriftToRepair, Task, TaskDiscipline, ValidTask, PhaseFitsStatus,
         ReviewsMatchCandidate, ExternalFailed
<1> QED  BY <1>1, <1>2

(* A verdict record is well formed and not null.                            *)
LEMMA VerdictIsReview ==
    ASSUME NEW c \in Candidate, NEW v \in {"PASS", "REPAIR_REQUIRED"}
    PROVE  /\ [rev |-> c.rev, verdict |-> v] \in Review
           /\ [rev |-> c.rev, verdict |-> v] # None
<1>1. [rev |-> c.rev, verdict |-> v] \in Review
  BY DEF Candidate, Review
<1> QED  BY <1>1, QueueAssumption

(* So is an external record.                                                *)
LEMMA ExternalIsRecord ==
    ASSUME NEW c \in Candidate, NEW ref \in Refs \cup {None},
           NEW v \in {"PENDING", "PASS", "FAIL", "INDETERMINATE"}
    PROVE  /\ [rev |-> c.rev, status |-> v, ref |-> ref] \in External
           /\ [rev |-> c.rev, status |-> v, ref |-> ref] # None
<1>1. [rev |-> c.rev, status |-> v, ref |-> ref] \in External
  BY DEF Candidate, External
<1> QED  BY <1>1, QueueAssumption

(* The registered request, if any, is a public reference.                   *)
LEMMA RequestRefIsRef ==
    ASSUME NEW task \in Task
    PROVE  RequestRef(task) \in Refs \cup {None}
<1>1. task.external \in External \cup {None}
  BY DEF Task
<1> QED  BY <1>1 DEF RequestRef, External

(* A PASS finishes an INTERNAL task and leaves an EXTERNAL one in REVIEW.   *)
LEMMA InternalPassTask ==
    ASSUME NEW t \in Tasks, NEW task \in Task, NEW n \in Nat,
           TaskDiscipline(t, task, n),
           task.status = "ACTIVE", task.phase = "REVIEW"
    PROVE  /\ InternalPass(t, task) \in Task
           /\ TaskDiscipline(t, InternalPass(t, task), 0)
<1> DEFINE verdict == [rev |-> task.candidate.rev, verdict |-> "PASS"]
           passed == InternalPass(t, task)
<1>1. task.candidate \in Candidate /\ task.candidate # None
  BY DEF Task, TaskDiscipline
<1>2. verdict \in Review /\ verdict # None
  BY <1>1, VerdictIsReview
<1>3. verdict.rev = task.candidate.rev /\ verdict.verdict = "PASS"
  OBVIOUS
<1> HIDE DEF verdict
<1>4. CASE ReviewPolicy[t] = "INTERNAL"
  <2>1. passed = [[[task EXCEPT !.blocker = IF @ = "NO_PROGRESS"
                                            THEN "NONE" ELSE @]
                     EXCEPT !.review = verdict]
                     EXCEPT !.status = "READY", !.phase = "NONE"]
    BY <1>4 DEF InternalPass, FinishPassedReview, SetVerdict,
                ClearNoProgress, verdict, Task
  <2>2. passed \in Task
    BY <1>2, <2>1 DEF Task, Status, Phase, Blocker
  <2>3. TaskDiscipline(t, passed, 0)
    BY <1>1, <1>2, <1>3, <1>4, <2>1
    DEF Task, TaskDiscipline, ValidTask, PhaseFitsStatus,
        ReviewsMatchCandidate, ExternalFailed, TaskReviewPassed,
        InternalPassed
  <2> QED  BY <2>2, <2>3
<1>5. CASE ReviewPolicy[t] # "INTERNAL"
  <2>1. passed = [[task EXCEPT !.blocker = IF @ = "NO_PROGRESS"
                                           THEN "NONE" ELSE @]
                     EXCEPT !.review = verdict]
    BY <1>5 DEF InternalPass, SetVerdict, ClearNoProgress, verdict, Task
  <2>2. passed \in Task
    BY <1>2, <2>1 DEF Task, Status, Phase, Blocker
  <2>3. TaskDiscipline(t, passed, 0)
    BY <1>1, <1>2, <1>3, <1>5, <2>1
    DEF Task, TaskDiscipline, ValidTask, PhaseFitsStatus,
        ReviewsMatchCandidate, ExternalFailed
  <2> QED  BY <2>2, <2>3
<1> QED  BY <1>4, <1>5

(* A finding in REVIEW is at most the second one: the count cannot saturate. *)
LEMMA InternalRepairTask ==
    ASSUME NEW t \in Tasks, NEW task \in Task, NEW n \in Nat,
           TaskDiscipline(t, task, n),
           task.status = "ACTIVE", task.phase = "REVIEW"
    PROVE  /\ InternalRepair(task) \in Task
           /\ TaskDiscipline(t, InternalRepair(task), n + 1)
           /\ n <= 1
<1> DEFINE verdict == [rev |-> task.candidate.rev,
                       verdict |-> "REPAIR_REQUIRED"]
           judged == InternalRepair(task)
<1>1. task.candidate \in Candidate /\ task.candidate # None
  BY DEF Task, TaskDiscipline
<1>2. verdict \in Review /\ verdict # None
  BY <1>1, VerdictIsReview
<1>3. verdict.rev = task.candidate.rev
  OBVIOUS
<1>4. n \in {0, 1} /\ (n = 1 => task.blocker = "NO_PROGRESS")
  BY DEF TaskDiscipline
<1> HIDE DEF verdict
<1>5. CASE task.blocker = "NO_PROGRESS"
  <2>1. judged = [[task EXCEPT !.review = verdict]
                     EXCEPT !.status = "BLOCKED", !.phase = "NONE",
                            !.blocker = "NO_PROGRESS"]
    BY <1>5 DEF InternalRepair, Park, SetVerdict, verdict
  <2>2. judged \in Task
    BY <1>2, <2>1 DEF Task, Status, Phase, Blocker
  <2>3. TaskDiscipline(t, judged, n + 1)
    BY <1>1, <1>2, <1>3, <1>4, <2>1
    DEF Task, TaskDiscipline, ValidTask, PhaseFitsStatus,
        ReviewsMatchCandidate, ExternalFailed
  <2> QED  BY <1>4, <2>2, <2>3
<1>6. CASE task.blocker # "NO_PROGRESS"
  <2>1. judged = [[task EXCEPT !.review = verdict]
                     EXCEPT !.phase = "REPAIR"]
    BY <1>6 DEF InternalRepair, SetVerdict, verdict
  <2>2. judged \in Task
    BY <1>2, <2>1 DEF Task, Status, Phase, Blocker
  <2>3. TaskDiscipline(t, judged, n + 1)
    BY <1>1, <1>2, <1>3, <1>4, <1>6, <2>1
    DEF Task, TaskDiscipline, ValidTask, PhaseFitsStatus,
        ReviewsMatchCandidate, ExternalFailed
  <2> QED  BY <1>4, <2>2, <2>3
<1> QED  BY <1>5, <1>6

(* PENDING and INDETERMINATE: the task stays in REVIEW with the evidence    *)
(* bound to its candidate.                                                  *)
LEMMA SetExternalTask ==
    ASSUME NEW t \in Tasks, NEW task \in Task, NEW n \in Nat,
           TaskDiscipline(t, task, n),
           task.status = "ACTIVE", task.phase = "REVIEW",
           NEW v \in {"PENDING", "INDETERMINATE"},
           NEW ref \in Refs \cup {None}
    PROVE  /\ SetExternal(task, v, ref) \in Task
           /\ TaskDiscipline(t, SetExternal(task, v, ref), n)
<1> DEFINE external == [rev |-> task.candidate.rev, status |-> v, ref |-> ref]
           waiting == SetExternal(task, v, ref)
<1>1. task.candidate \in Candidate /\ task.candidate # None
  BY DEF Task, TaskDiscipline
<1>2. external \in External /\ external # None
  BY <1>1, ExternalIsRecord
<1>3. external.rev = task.candidate.rev /\ external.status = v
  OBVIOUS
<1> HIDE DEF external
<1>4. waiting = [task EXCEPT !.external = external]
  BY DEF SetExternal, external
<1>5. waiting \in Task
  BY <1>2, <1>4 DEF Task
<1>6. TaskDiscipline(t, waiting, n)
  BY <1>1, <1>2, <1>3, <1>4
  DEF Task, TaskDiscipline, ValidTask, PhaseFitsStatus,
      ReviewsMatchCandidate, ExternalFailed
<1> QED  BY <1>5, <1>6

(* An external finding in REVIEW is at most the second finding.             *)
LEMMA ExternalFindingTask ==
    ASSUME NEW t \in Tasks, NEW task \in Task, NEW n \in Nat,
           TaskDiscipline(t, task, n), ReviewPolicy[t] = "EXTERNAL",
           task.status = "ACTIVE", task.phase = "REVIEW"
    PROVE  /\ ExternalFinding(task) \in Task
           /\ TaskDiscipline(t, ExternalFinding(task), n + 1)
           /\ n <= 1
<1> DEFINE external == [rev |-> task.candidate.rev, status |-> "FAIL",
                        ref |-> RequestRef(task)]
           failed == ExternalFinding(task)
<1>1. task.candidate \in Candidate /\ task.candidate # None
  BY DEF Task, TaskDiscipline
<1>2. external \in External /\ external # None
  BY <1>1, RequestRefIsRef, ExternalIsRecord
<1>3. external.rev = task.candidate.rev /\ external.status = "FAIL"
  OBVIOUS
<1>4. n \in {0, 1}
  BY DEF TaskDiscipline
<1> HIDE DEF external
<1>5. failed = [[task EXCEPT !.external = external]
                  EXCEPT !.status = "ACTIVE", !.phase = "REPAIR",
                         !.blocker = "NONE"]
  BY DEF ExternalFinding, SetExternal, external
<1>6. failed \in Task
  BY <1>2, <1>5 DEF Task, Status, Phase, Blocker
<1>7. TaskDiscipline(t, failed, n + 1)
  BY <1>1, <1>2, <1>3, <1>4, <1>5
  DEF Task, TaskDiscipline, ValidTask, PhaseFitsStatus,
      ReviewsMatchCandidate, ExternalFailed
<1> QED  BY <1>4, <1>6, <1>7

(* EXTERNAL_PASS leaves a READY task with both verdicts on its candidate.   *)
LEMMA ExternalPassTask ==
    ASSUME NEW t \in Tasks, NEW task \in Task, NEW n \in Nat,
           TaskDiscipline(t, task, n), ReviewPolicy[t] = "EXTERNAL",
           task.status = "ACTIVE", task.phase = "REVIEW"
    PROVE  /\ ExternalPass(task) \in Task
           /\ TaskDiscipline(t, ExternalPass(task), 0)
<1> DEFINE external == [rev |-> task.candidate.rev, status |-> "PASS",
                        ref |-> RequestRef(task)]
           verdict == [rev |-> task.candidate.rev, verdict |-> "PASS"]
           passed == ExternalPass(task)
<1>1. task.candidate \in Candidate /\ task.candidate # None
  BY DEF Task, TaskDiscipline
<1>2. /\ external \in External /\ external # None
      /\ verdict \in Review /\ verdict # None
  BY <1>1, RequestRefIsRef, ExternalIsRecord, VerdictIsReview
<1>3. /\ external.rev = task.candidate.rev /\ external.status = "PASS"
      /\ verdict.rev = task.candidate.rev /\ verdict.verdict = "PASS"
  OBVIOUS
<1>4. passed = [[[task EXCEPT !.external = external]
                   EXCEPT !.review = verdict]
                   EXCEPT !.status = "READY", !.phase = "NONE"]
  BY DEF ExternalPass, FinishPassedReview, SetVerdict, SetExternal, Task
<1> HIDE DEF external, verdict
<1>5. passed \in Task
  BY <1>2, <1>4 DEF Task, Status, Phase, Blocker
<1>6. TaskDiscipline(t, passed, 0)
  BY <1>1, <1>2, <1>3, <1>4
  DEF Task, TaskDiscipline, ValidTask, PhaseFitsStatus,
      ReviewsMatchCandidate, ExternalFailed, TaskReviewPassed, InternalPassed
<1> QED  BY <1>5, <1>6

(* The review completion keeps the internal PASS it found.                  *)
LEMMA FinishReviewTask ==
    ASSUME NEW t \in Tasks, NEW task \in Task, InternalPassed(task)
    PROVE  /\ FinishReview(task) \in Task
           /\ TaskDiscipline(t, FinishReview(task), 0)
<1> DEFINE external == [rev |-> task.candidate.rev, status |-> "PASS",
                        ref |-> RequestRef(task)]
           passed == FinishReview(task)
<1>1. task.candidate \in Candidate /\ task.candidate # None
  BY DEF Task, InternalPassed
<1>2. external \in External /\ external # None
  BY <1>1, RequestRefIsRef, ExternalIsRecord
<1>3. external.rev = task.candidate.rev /\ external.status = "PASS"
  OBVIOUS
<1>4. passed = [[task EXCEPT !.external = external]
                   EXCEPT !.status = "READY", !.phase = "NONE"]
  BY DEF FinishReview, SetExternal
<1> HIDE DEF external
<1>5. passed \in Task
  BY <1>2, <1>4 DEF Task, Status, Phase, Blocker
<1>6. TaskDiscipline(t, passed, 0)
  BY <1>1, <1>2, <1>3, <1>4
  DEF Task, TaskDiscipline, ValidTask, PhaseFitsStatus,
      ReviewsMatchCandidate, ExternalFailed, TaskReviewPassed, InternalPassed
<1> QED  BY <1>5, <1>6

(* Finalizing keeps the evidence of a READY task.                           *)
LEMMA FinalizeTask ==
    ASSUME NEW t \in Tasks, NEW task \in Task, NEW n \in Nat,
           TaskDiscipline(t, task, n), task.status = "READY"
    PROVE  /\ FinalizeIntegrated(task) \in Task
           /\ TaskDiscipline(t, FinalizeIntegrated(task), n)
<1> DEFINE done == FinalizeIntegrated(task)
<1>1. done \in Task
  BY DEF FinalizeIntegrated, Task, Status, Phase, Blocker
<1>2. TaskDiscipline(t, done, n)
  BY DEF FinalizeIntegrated, Task, TaskDiscipline, ValidTask,
         PhaseFitsStatus, ReviewsMatchCandidate, ExternalFailed,
         TaskReviewPassed, InternalPassed
<1> QED  BY <1>1, <1>2

(* Reconciling replaces candidate and evidence together.                    *)
LEMMA ReconcileTask ==
    ASSUME NEW t \in Tasks, NEW task \in Task,
           NEW c \in Candidate, NEW ref \in Refs
    PROVE  /\ ReconcileIntegrated(t, task, c, ref) \in Task
           /\ TaskDiscipline(t, ReconcileIntegrated(t, task, c, ref), 0)
<1> DEFINE external == [rev |-> c.rev, status |-> "PASS", ref |-> ref]
           verdict == [rev |-> c.rev, verdict |-> "PASS"]
           done == ReconcileIntegrated(t, task, c, ref)
<1>1. /\ external \in External /\ external # None
      /\ verdict \in Review /\ verdict # None
      /\ c # None
  BY ExternalIsRecord, VerdictIsReview, QueueAssumption
<1>2. /\ external.rev = c.rev /\ external.status = "PASS"
      /\ verdict.rev = c.rev /\ verdict.verdict = "PASS"
  OBVIOUS
<1>3. ReviewPolicy[t] \in {"INTERNAL", "EXTERNAL"}
  BY QueueAssumption
<1>4. done = [task EXCEPT !.candidate = c, !.review = verdict,
                !.external = IF ReviewPolicy[t] = "INTERNAL" THEN None
                             ELSE external,
                !.status = "DONE", !.phase = "NONE", !.blocker = "NONE"]
  BY DEF ReconcileIntegrated
<1> HIDE DEF external, verdict
<1>5. done \in Task
  BY <1>1, <1>4 DEF Task, Status, Phase, Blocker
<1>6. TaskDiscipline(t, done, 0)
  BY <1>1, <1>2, <1>3, <1>4
  DEF Task, TaskDiscipline, ValidTask, PhaseFitsStatus,
      ReviewsMatchCandidate, ExternalFailed, TaskReviewPassed, InternalPassed
<1> QED  BY <1>5, <1>6

(* A task resumed by drift is in REPAIR with its candidate and no finding.  *)
LEMMA ResumedTask ==
    ASSUME NEW t \in Tasks, NEW task \in Task, NEW n \in Nat,
           TaskDiscipline(t, task, n), task.candidate # None
    PROVE  /\ Resume(task) \in Task
           /\ TaskDiscipline(t, Resume(task), 0)
<1>1. Resume(task) \in Task
  BY DEF Resume, Task, Status, Phase, Blocker
<1>2. TaskDiscipline(t, Resume(task), 0)
  BY DEF Resume, Task, TaskDiscipline, ValidTask, PhaseFitsStatus,
         ReviewsMatchCandidate, ExternalFailed
<1> QED  BY <1>1, <1>2

(* Acquisition: a QUEUED task becomes ACTIVE in BUILD, an ACTIVE one stays. *)
LEMMA AcquiredTask ==
    ASSUME NEW t \in Tasks, NEW task \in Task, NEW n \in Nat,
           TaskDiscipline(t, task, n), task.status \in {"QUEUED", "ACTIVE"}
    PROVE  LET acquired == IF task.status = "QUEUED"
                           THEN [task EXCEPT !.status = "ACTIVE",
                                             !.phase = "BUILD"]
                           ELSE task
           IN  /\ acquired \in Task
               /\ acquired.status = "ACTIVE"
               /\ TaskDiscipline(t, acquired, n)
<1> DEFINE begun == [task EXCEPT !.status = "ACTIVE", !.phase = "BUILD"]
<1>1. CASE task.status = "QUEUED"
  <2>1. begun \in Task /\ begun.status = "ACTIVE"
    BY DEF Task, Status, Phase
  <2>2. TaskDiscipline(t, begun, n)
    BY <1>1 DEF Task, TaskDiscipline, ValidTask, PhaseFitsStatus,
                ReviewsMatchCandidate, ExternalFailed
  <2> QED  BY <1>1, <2>1, <2>2
<1>2. CASE task.status = "ACTIVE"
  BY <1>2
<1> QED  BY <1>1, <1>2

(* A parked task is disciplined whatever was found in it.                   *)
LEMMA ParkedTask ==
    ASSUME NEW t \in Tasks, NEW task \in Task, NEW n \in Nat,
           TaskDiscipline(t, task, n), NEW blocker \in Blocker
    PROVE  /\ Park(task, blocker) \in Task
           /\ TaskDiscipline(t, Park(task, blocker), n)
<1>1. Park(task, blocker) \in Task
  BY DEF Park, Task, Status, Phase
<1>2. TaskDiscipline(t, Park(task, blocker), n)
  BY DEF Park, Task, TaskDiscipline, ValidTask, PhaseFitsStatus,
         ReviewsMatchCandidate, ExternalFailed
<1> QED  BY <1>1, <1>2
=============================================================================
