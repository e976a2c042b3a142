------------------------ MODULE TaskLifecycleProofs -------------------------
(***************************************************************************)
(* Type correctness, the validity of every queue a command writes, the     *)
(* no-progress brake and the persistence of external findings, for every   *)
(* number of tasks, every policy and every set of candidates.  All four    *)
(* follow from one inductive invariant that speaks of one task at a time:  *)
(* a step changes one task (a TICK, at most the parked ones and one more), *)
(* and what it makes of the task is a pure function of ControlQueue.       *)
(***************************************************************************)
EXTENDS TaskLifecycle, ControlQueueProofs

Counts == 0 .. MaxRework

(* The invariant as a statement about one queue image and its counts.       *)
Disciplined(q, counts) ==
    /\ q \in Queue
    /\ counts \in [Tasks -> Counts]
    /\ \A t \in Tasks : TaskDiscipline(t, q.tasks[t], counts[t])
    /\ q.lock # None => q.tasks[q.lock.task].status = "ACTIVE"

(* IInv says of the present queue what Disciplined says of any.             *)
LEMMA IInvIsDisciplined == IInv <=> Disciplined(queue, rework)
BY DEF IInv, TypeOK, Disciplined, Counts

(* Replacing task t alone keeps an image disciplined if the new task is     *)
(* well formed and disciplined and the lock, if any, has an ACTIVE holder.  *)
LEMMA ReplaceTask ==
    ASSUME NEW q, NEW counts, Disciplined(q, counts),
           NEW t \in Tasks, NEW task \in Task, NEW n \in Counts,
           NEW lock \in Lock \cup {None},
           TaskDiscipline(t, task, n),
           lock # None =>
             [q.tasks EXCEPT ![t] = task][lock.task].status = "ACTIVE"
    PROVE  Disciplined([tasks |-> [q.tasks EXCEPT ![t] = task],
                        lock |-> lock],
                       [counts EXCEPT ![t] = n])
<1> DEFINE tasks == [q.tasks EXCEPT ![t] = task]
           new == [counts EXCEPT ![t] = n]
<1>1. q.tasks \in [Tasks -> Task] /\ counts \in [Tasks -> Counts]
  BY DEF Disciplined, Queue
<1>2. tasks \in [Tasks -> Task] /\ new \in [Tasks -> Counts]
  BY <1>1
<1>3. ASSUME NEW u \in Tasks
      PROVE  TaskDiscipline(u, tasks[u], new[u])
  <2>1. CASE u = t
    BY <1>1, <2>1
  <2>2. CASE u # t
    BY <1>1, <2>2 DEF Disciplined
  <2> QED  BY <2>1, <2>2
<1>4. [tasks |-> tasks, lock |-> lock] \in Queue
  BY <1>2 DEF Queue
<1> HIDE DEF new
<1> QED  BY <1>2, <1>3, <1>4 DEF Disciplined

(* A step that replaces task t alone keeps the invariant.                   *)
LEMMA OneTask ==
    ASSUME IInv, NEW t \in Tasks, NEW task \in Task, NEW n \in Counts,
           NEW lock \in Lock \cup {None},
           queue' = [tasks |-> [queue.tasks EXCEPT ![t] = task],
                     lock |-> lock],
           rework' = [rework EXCEPT ![t] = n],
           TaskDiscipline(t, task, n),
           lock # None =>
             [queue.tasks EXCEPT ![t] = task][lock.task].status = "ACTIVE"
    PROVE  IInv'
<1>1. Disciplined(queue, rework)
  BY IInvIsDisciplined
<1>2. Disciplined(queue', rework')
  BY <1>1, ReplaceTask
<1> QED  BY <1>2 DEF IInv, TypeOK, Disciplined, Counts

-----------------------------------------------------------------------------
(* The steps.                                                              *)

(* The queue taken into service is disciplined.                             *)
LEMMA InitIInv == Init => IInv
<1> SUFFICES ASSUME Init PROVE IInv
  OBVIOUS
<1>1. InitialTasks \in [Tasks -> Task]
  BY QueueAssumption
<1>2. TypeOK
  BY <1>1 DEF Init, InitialQueue, TypeOK, Queue, MaxRework
<1>3. ASSUME NEW t \in Tasks
      PROVE  TaskDiscipline(t, queue.tasks[t], rework[t])
  BY InitialAssumption DEF Init, InitialQueue
<1>4. queue.lock = None
  BY DEF Init, InitialQueue
<1> QED  BY <1>2, <1>3, <1>4 DEF IInv

(* Expiry of the lease changes no task.                                     *)
LEMMA LeaseExpiresStep == IInv /\ LeaseExpires => IInv'
<1> SUFFICES ASSUME IInv, LeaseExpires PROVE IInv'
  OBVIOUS
<1>1. queue \in Queue /\ queue.lock \in Lock /\ queue.lock # None
  BY DEF IInv, TypeOK, Queue, LeaseExpires, Busy
<1>2. queue' = [queue EXCEPT !.lock = [queue.lock EXCEPT !.live = FALSE]]
  BY <1>1 DEF LeaseExpires, Queue
<1>3. /\ queue' \in Queue
      /\ queue'.tasks = queue.tasks
      /\ queue'.lock.task = queue.lock.task
  BY <1>1, <1>2 DEF Queue, Lock
<1>4. rework' = rework
  BY DEF LeaseExpires
<1>5. TypeOK'
  BY <1>3, <1>4 DEF IInv, TypeOK
<1>6. (\A t \in Tasks : TaskDiscipline(t, queue.tasks[t], rework[t]))'
  BY <1>3, <1>4 DEF IInv, TaskDiscipline
<1>7. (queue.lock # None =>
         queue.tasks[queue.lock.task].status = "ACTIVE")'
  BY <1>1, <1>3 DEF IInv
<1> QED  BY <1>5, <1>6, <1>7 DEF IInv

(* A holder's event: its task is replaced, and the lock is kept only if the *)
(* new task is ACTIVE.                                                      *)
LEMMA ReportStep ==
    ASSUME IInv, NEW r \in Runs, NEW t \in Tasks, Held(queue, r, t),
           NEW event, NEW task \in Task, NEW n \in Counts,
           TaskDiscipline(t, task, n),
           Report(r, t, event, task),
           rework' = [rework EXCEPT ![t] = n]
    PROVE  IInv'
<1> DEFINE lock == IF KeepsHolder(r, event, task) THEN queue.lock ELSE None
<1>1. /\ queue.tasks \in [Tasks -> Task]
      /\ queue.lock \in Lock /\ queue.lock # None
      /\ queue.lock.task = t
  BY DEF IInv, TypeOK, Queue, Held
<1>2. queue' = [tasks |-> [queue.tasks EXCEPT ![t] = task], lock |-> lock]
  BY DEF Report, AfterEvent
<1>3. lock \in Lock \cup {None}
  BY <1>1
<1>4. lock # None =>
        [queue.tasks EXCEPT ![t] = task][lock.task].status = "ACTIVE"
  BY <1>1 DEF KeepsHolder
<1> HIDE DEF lock
<1> QED  BY <1>2, <1>3, <1>4, OneTask

(* An administrative writer replaces one task and leaves no lock.           *)
LEMMA AdministerStep ==
    ASSUME IInv, NEW t \in Tasks, NEW task \in Task, NEW n \in Counts,
           TaskDiscipline(t, task, n),
           Administer(t, task),
           rework' = [rework EXCEPT ![t] = n]
    PROVE  IInv'
<1>1. queue' = [tasks |-> [queue.tasks EXCEPT ![t] = task], lock |-> None]
  BY DEF Administer, AfterAdministration
<1> QED  BY <1>1, OneTask

(* What every event and every administrative step starts from.              *)
LEMMA TaskFacts ==
    ASSUME IInv, NEW t \in Tasks
    PROVE  /\ queue.tasks[t] \in Task
           /\ rework[t] \in Counts
           /\ 0 \in Counts
           /\ TaskDiscipline(t, queue.tasks[t], rework[t])
           /\ rework = [rework EXCEPT ![t] = rework[t]]
           /\ rework[t] <= 1 => /\ rework[t] < MaxRework
                               /\ rework[t] + 1 \in Counts
           /\ rework[t] \in Nat
BY DEF IInv, TypeOK, Queue, Counts, MaxRework

(* Every event of a holder keeps the invariant.                             *)
LEMMA EventStep ==
    ASSUME IInv, NEW r \in Runs, NEW t \in Tasks, Event(r, t)
    PROVE  IInv'
<1> DEFINE task == queue.tasks[t]
           n == rework[t]
<1>1. /\ task \in Task /\ n \in Counts /\ n \in Nat /\ 0 \in Counts
      /\ TaskDiscipline(t, task, n)
      /\ rework = [rework EXCEPT ![t] = n]
  BY TaskFacts
<1>2. CASE Yield(r, t)
  BY <1>1, <1>2, ReportStep DEF Yield
<1>3. CASE CandidateDrift(r, t)
  <2>1. task.status = "ACTIVE" /\ task.phase = "REVIEW"
    BY <1>3 DEF CandidateDrift, Reviewing, InPhase
  <2>2. queue' = [tasks |-> [queue.tasks EXCEPT ![t] = DriftToRepair(task)],
                  lock |-> None]
    BY <1>3 DEF CandidateDrift, Release, IInv, TypeOK, Queue
  <2>3. rework' = [rework EXCEPT ![t] = 0]
    BY <1>3 DEF CandidateDrift, Settled
  <2>4. /\ DriftToRepair(task) \in Task
        /\ TaskDiscipline(t, DriftToRepair(task), 0)
    BY <1>1, <2>1, DriftToRepairTask
  <2> QED  BY <1>1, <2>2, <2>3, <2>4, OneTask
<1>4. ASSUME NEW c \in Candidate, NewCandidate(r, t, c)
      PROVE  IInv'
  <2>1. /\ CandidateReady(task, c) \in Task
        /\ TaskDiscipline(t, CandidateReady(task, c), 0)
    BY <1>1, CandidateReadyTask
  <2> QED  BY <1>1, <1>4, <2>1, ReportStep DEF NewCandidate, Settled
<1>5. CASE UnchangedCandidate(r, t)
  <2>1. task.status = "ACTIVE" /\ task.phase = "REPAIR"
    BY <1>5 DEF UnchangedCandidate, InPhase
  <2>2. /\ MarkNoProgress(t, task) \in Task
        /\ TaskDiscipline(t, MarkNoProgress(t, task), n)
    BY <1>1, <2>1, MarkNoProgressTask
  <2> QED  BY <1>1, <1>5, <2>2, ReportStep DEF UnchangedCandidate
<1>6. ASSUME Reviewing(r, t)
      PROVE  /\ Held(queue, r, t)
             /\ task.status = "ACTIVE" /\ task.phase = "REVIEW"
  BY <1>6 DEF Reviewing, InPhase
<1>7. CASE ReportPass(r, t)
  <2>1. /\ InternalPass(t, task) \in Task
        /\ TaskDiscipline(t, InternalPass(t, task), 0)
    BY <1>1, <1>6, <1>7, InternalPassTask DEF ReportPass
  <2> QED  BY <1>1, <1>6, <1>7, <2>1, ReportStep DEF ReportPass, Settled
<1>8. CASE ReportRepair(r, t)
  <2>1. /\ InternalRepair(task) \in Task
        /\ TaskDiscipline(t, InternalRepair(task), n + 1)
        /\ n <= 1
    BY <1>1, <1>6, <1>8, InternalRepairTask DEF ReportRepair
  <2>2. rework' = [rework EXCEPT ![t] = n + 1] /\ n + 1 \in Counts
    BY <1>8, <2>1, TaskFacts DEF ReportRepair, NewFinding
  <2> QED  BY <1>6, <1>8, <2>1, <2>2, ReportStep DEF ReportRepair
<1>9. ASSUME NEW ref \in Refs, ReportRequested(r, t, ref)
      PROVE  IInv'
  <2>1. /\ ExternalRequested(task, ref) \in Task
        /\ TaskDiscipline(t, ExternalRequested(task, ref), n)
    BY <1>1, <1>6, <1>9, SetExternalTask
    DEF ReportRequested, ExternalRequested
  <2> QED  BY <1>1, <1>6, <1>9, <2>1, ReportStep DEF ReportRequested
<1>10. CASE ReportUnavailable(r, t)
  <2>1. /\ ExternalUnavailable(task) \in Task
        /\ TaskDiscipline(t, ExternalUnavailable(task), n)
    BY <1>1, <1>6, <1>10, SetExternalTask, RequestRefIsRef
    DEF ReportUnavailable, ExternalUnavailable
  <2> QED  BY <1>1, <1>6, <1>10, <2>1, ReportStep DEF ReportUnavailable
<1>11. CASE ReportFinding(r, t)
  <2>1. /\ ExternalFinding(task) \in Task
        /\ TaskDiscipline(t, ExternalFinding(task), n + 1)
        /\ n <= 1
    BY <1>1, <1>6, <1>11, ExternalFindingTask DEF ReportFinding
  <2>2. rework' = [rework EXCEPT ![t] = n + 1] /\ n + 1 \in Counts
    BY <1>11, <2>1, TaskFacts DEF ReportFinding, NewFinding
  <2> QED  BY <1>6, <1>11, <2>1, <2>2, ReportStep DEF ReportFinding
<1>12. CASE ReportExternalPass(r, t)
  <2>1. /\ ExternalPass(task) \in Task
        /\ TaskDiscipline(t, ExternalPass(task), 0)
    BY <1>1, <1>6, <1>12, ExternalPassTask
    DEF ReportExternalPass, CanPassExternal
  <2> QED  BY <1>1, <1>6, <1>12, <2>1, ReportStep
           DEF ReportExternalPass, Settled
<1> QED
  BY <1>2, <1>3, <1>4, <1>5, <1>7, <1>8, <1>9, <1>10, <1>11, <1>12
  DEF Event

(* Administration: DONE and READY with fresh or kept evidence, or a new     *)
(* candidate without any.                                                   *)
LEMMA AdministrationStep ==
    ASSUME IInv, NEW t \in Tasks, Administration(t)
    PROVE  IInv'
<1> DEFINE task == queue.tasks[t]
           n == rework[t]
<1>1. /\ task \in Task /\ n \in Counts /\ n \in Nat /\ 0 \in Counts
      /\ TaskDiscipline(t, task, n)
      /\ rework = [rework EXCEPT ![t] = n]
  BY TaskFacts
<1>2. CASE CompleteReview(t)
  <2>1. /\ FinishReview(task) \in Task
        /\ TaskDiscipline(t, FinishReview(task), 0)
    BY <1>1, <1>2, FinishReviewTask DEF CompleteReview, CanFinishReview
  <2> QED  BY <1>1, <1>2, <2>1, AdministerStep DEF CompleteReview, Settled
<1>3. CASE Finalize(t)
  <2>1. /\ FinalizeIntegrated(task) \in Task
        /\ TaskDiscipline(t, FinalizeIntegrated(task), n)
    BY <1>1, <1>3, FinalizeTask DEF Finalize, CanFinalizeIntegrated
  <2> QED  BY <1>1, <1>3, <2>1, AdministerStep DEF Finalize
<1>4. ASSUME NEW c \in Candidate, Rebind(t, c)
      PROVE  IInv'
  <2>1. /\ CandidateReady(task, c) \in Task
        /\ TaskDiscipline(t, CandidateReady(task, c), 0)
    BY <1>1, CandidateReadyTask
  <2> QED  BY <1>1, <1>4, <2>1, AdministerStep DEF Rebind, Settled
<1>5. ASSUME NEW c \in Candidate, NEW ref \in Refs, Reconcile(t, c, ref)
      PROVE  IInv'
  <2>1. /\ ReconcileIntegrated(t, task, c, ref) \in Task
        /\ TaskDiscipline(t, ReconcileIntegrated(t, task, c, ref), 0)
    BY <1>1, ReconcileTask
  <2> QED  BY <1>1, <1>5, <2>1, AdministerStep DEF Reconcile, Settled
<1> QED  BY <1>2, <1>3, <1>4, <1>5 DEF Administration

(* A TICK keeps the invariant: its image frees the expired lock and resumes *)
(* the drifted tasks, and it then leaves that image, acquires or parks one  *)
(* task of it.                                                              *)
LEMMA TickStep ==
    ASSUME IInv, NEW r \in Runs, NEW resumable, NEW available,
           NEW drifted, TickFor(r, resumable, available, drifted)
    PROVE  IInv'
<1> DEFINE image == ResumeDrifted(RecoverExpiredLock(queue), drifted)
<1>1. /\ queue \in Queue
      /\ queue.tasks \in [Tasks -> Task]
      /\ rework \in [Tasks -> Counts]
  BY DEF IInv, TypeOK, Queue, Counts
<1>2. /\ RecoverExpiredLock(queue) \in Queue
      /\ RecoverExpiredLock(queue).tasks = queue.tasks
      /\ RecoverExpiredLock(queue).lock = None
  BY <1>1 DEF RecoverExpiredLock, Expired, Release, TickFor, Busy, Queue, Lock
<1>3. /\ image = [tasks |-> image.tasks, lock |-> image.lock]
      /\ image.lock = None
      /\ image.tasks = [u \in Tasks |-> IF u \in drifted
                                        THEN Resume(queue.tasks[u])
                                        ELSE queue.tasks[u]]
  <2> DEFINE free == RecoverExpiredLock(queue)
  <2>1. free \in Queue /\ free.tasks = queue.tasks /\ free.lock = None
    BY <1>2
  <2> HIDE DEF free
  <2>2. image = [free EXCEPT !.tasks =
                   [u \in Tasks |-> IF u \in drifted
                                    THEN Resume(free.tasks[u])
                                    ELSE free.tasks[u]]]
    BY DEF ResumeDrifted, free
  <2> HIDE DEF image
  <2> QED  BY <2>1, <2>2 DEF Queue
<1>4. rework' = [u \in Tasks |-> IF u \in drifted THEN 0 ELSE rework[u]]
  BY DEF TickFor
<1>5. \/ queue' = image
      \/ \E t \in Tasks : /\ Selects(image, available, t)
                          /\ queue' = AcquireTask(image, t, r)
      \/ \E t \in Tasks, blocker \in {"INTEGRATED", "CLOSED"} :
            queue' = ParkTerminalTarget(image, t, blocker)
  BY DEF TickFor
<1>6. \A u \in drifted : queue.tasks[u].candidate # None
  BY DEF TickFor, ParkedNoProgress
<1> HIDE DEF image
<1>7. ASSUME NEW u \in Tasks
      PROVE  /\ image.tasks[u] \in Task
             /\ rework'[u] \in Counts /\ rework'[u] \in Nat
             /\ TaskDiscipline(u, image.tasks[u], rework'[u])
  <2>1. /\ queue.tasks[u] \in Task /\ rework[u] \in Counts
        /\ rework[u] \in Nat /\ 0 \in Counts /\ 0 \in Nat
        /\ TaskDiscipline(u, queue.tasks[u], rework[u])
    BY TaskFacts
  <2>2. CASE u \in drifted
    <3>1. /\ Resume(queue.tasks[u]) \in Task
          /\ TaskDiscipline(u, Resume(queue.tasks[u]), 0)
      BY <1>6, <2>1, <2>2, ResumedTask
    <3>2. image.tasks[u] = Resume(queue.tasks[u]) /\ rework'[u] = 0
      BY <1>3, <1>4, <2>2
    <3> QED  BY <2>1, <3>1, <3>2
  <2>3. CASE u \notin drifted
    <3>1. image.tasks[u] = queue.tasks[u] /\ rework'[u] = rework[u]
      BY <1>3, <1>4, <2>3
    <3> QED  BY <2>1, <3>1
  <2> QED  BY <2>2, <2>3
<1>8. image.tasks \in [Tasks -> Task] /\ rework' \in [Tasks -> Counts]
  BY <1>3, <1>4, <1>7
<1>9. Disciplined(image, rework')
  <2>1. image \in Queue
    BY <1>3, <1>8 DEF Queue
  <2> QED  BY <1>3, <1>7, <1>8, <2>1 DEF Disciplined
<1>10. ASSUME NEW t \in Tasks
       PROVE  rework' = [rework' EXCEPT ![t] = rework'[t]]
  BY <1>8
<1>11. CASE queue' = image
  BY <1>9, <1>11 DEF IInv, TypeOK, Disciplined, Counts
<1>12. ASSUME NEW t \in Tasks, Selects(image, available, t),
              queue' = AcquireTask(image, t, r)
       PROVE  IInv'
  <2> DEFINE lock == [task |-> t, run |-> r, live |-> TRUE]
             acquired == IF image.tasks[t].status = "QUEUED"
                         THEN [image.tasks[t] EXCEPT !.status = "ACTIVE",
                                                     !.phase = "BUILD"]
                         ELSE image.tasks[t]
  <2>1. image.tasks[t].status \in {"QUEUED", "ACTIVE"}
    BY <1>12 DEF Selects, SelectionClass, RetryableExternalWait
  <2>2. /\ acquired \in Task /\ acquired.status = "ACTIVE"
        /\ TaskDiscipline(t, acquired, rework'[t])
    BY <1>7, <2>1, AcquiredTask
  <2>3. lock \in Lock /\ lock.task = t
    BY DEF Lock
  <2>4. queue' = [tasks |-> [image.tasks EXCEPT ![t] = acquired],
                  lock |-> lock]
    BY <1>8, <1>12 DEF AcquireTask
  <2> HIDE DEF acquired, lock
  <2>5. [image.tasks EXCEPT ![t] = acquired][lock.task].status = "ACTIVE"
    BY <1>8, <2>2, <2>3
  <2>6. Disciplined(queue', [rework' EXCEPT ![t] = rework'[t]])
    BY <1>7, <1>9, <2>2, <2>3, <2>4, <2>5, ReplaceTask
  <2> QED  BY <1>10, <2>6 DEF IInv, TypeOK, Disciplined, Counts
<1>13. ASSUME NEW t \in Tasks, NEW blocker \in {"INTEGRATED", "CLOSED"},
              queue' = ParkTerminalTarget(image, t, blocker)
       PROVE  IInv'
  <2> DEFINE parked == Park(image.tasks[t], blocker)
  <2>1. parked \in Task /\ TaskDiscipline(t, parked, rework'[t])
    BY <1>7, ParkedTask DEF Blocker
  <2>2. queue' = [tasks |-> [image.tasks EXCEPT ![t] = parked],
                  lock |-> None]
    <3>1. image \in Queue
      BY <1>9 DEF Disciplined
    <3> QED  BY <1>3, <1>8, <1>13, <3>1 DEF ParkTerminalTarget, Queue
  <2> HIDE DEF parked
  <2>3. Disciplined(queue', [rework' EXCEPT ![t] = rework'[t]])
    BY <1>7, <1>9, <2>1, <2>2, ReplaceTask
  <2> QED  BY <1>10, <2>3 DEF IInv, TypeOK, Disciplined, Counts
<1> QED  BY <1>5, <1>11, <1>12, <1>13

-----------------------------------------------------------------------------
(* The theorems.                                                           *)

(* Every step, and every stutter, keeps the invariant.                      *)
LEMMA NextStep == IInv /\ [Next]_vars => IInv'
<1> SUFFICES ASSUME IInv, [Next]_vars PROVE IInv'
  OBVIOUS
<1>1. CASE LeaseExpires
  BY <1>1, LeaseExpiresStep
<1>2. ASSUME NEW r \in Runs, Tick(r)
      PROVE  IInv'
  BY <1>2, TickStep DEF Tick
<1>3. ASSUME NEW r \in Runs, NEW t \in Tasks, Event(r, t)
      PROVE  IInv'
  BY <1>3, EventStep
<1>4. ASSUME NEW t \in Tasks, Administration(t)
      PROVE  IInv'
  BY <1>4, AdministrationStep
<1>5. CASE UNCHANGED vars
  BY <1>5 DEF vars, IInv, TypeOK, TaskDiscipline
<1> QED  BY <1>1, <1>2, <1>3, <1>4, <1>5 DEF Next

(* The inductive invariant holds in every reachable state.                  *)
THEOREM Discipline == Spec => []IInv
BY InitIInv, NextStep, PTL DEF Spec

(* The queue keeps its type whatever commands the carrier accepts.          *)
THEOREM TypeCorrect == Spec => []TypeOK
<1>1. IInv => TypeOK
  BY DEF IInv
<1> QED  BY <1>1, Discipline, PTL

(* Every queue written passes validate_queue_v4.                            *)
THEOREM QueueAlwaysValid == Spec => []QueueStaysValid
<1>1. IInv => QueueStaysValid
  BY DEF IInv, QueueStaysValid, ValidQueue, TaskDiscipline
<1> QED  BY <1>1, Discipline, PTL

(* The no-progress brake stops a third finding on an unchanged candidate.   *)
THEOREM BrakeHolds == Spec => []NoProgressBrake
<1>1. IInv => NoProgressBrake
  <2> SUFFICES ASSUME IInv, NEW t \in Tasks
               PROVE  /\ rework[t] <= 2
                      /\ rework[t] = 2 =>
                           \/ queue.tasks[t].status = "BLOCKED"
                           \/ /\ InPhase(queue, t, {"REPAIR"})
                              /\ ExternalFailed(t, queue.tasks[t])
    BY DEF NoProgressBrake
  <2>1. /\ queue.tasks[t] \in Task
        /\ TaskDiscipline(t, queue.tasks[t], rework[t])
    BY TaskFacts
  <2> QED  BY <2>1 DEF TaskDiscipline, ValidTask, PhaseFitsStatus, InPhase,
                       Task, Status
<1> QED  BY <1>1, Discipline, PTL
-----------------------------------------------------------------------------
(* An external FAIL stands: the action property, from the invariant.       *)

(* A step on one task has to answer for that task only.                     *)
LEMMA OneTaskFail ==
    ASSUME IInv, NEW t \in Tasks, NEW task,
           queue'.tasks = [queue.tasks EXCEPT ![t] = task],
           FailKept(t, queue.tasks[t], task)
    PROVE  FailStandsStep
<1>1. queue.tasks \in [Tasks -> Task]
  BY DEF IInv, TypeOK, Queue
<1>2. ASSUME NEW u \in Tasks
      PROVE  FailKept(u, queue.tasks[u], queue'.tasks[u])
  <2>1. CASE u = t
    BY <1>1, <2>1
  <2>2. CASE u # t
    BY <1>1, <2>2 DEF FailKept
  <2> QED  BY <2>1, <2>2
<1> QED  BY <1>2 DEF FailStandsStep

(* A TICK keeps the external evidence of every task.                        *)
LEMMA TickFail ==
    ASSUME IInv, NEW r \in Runs, NEW resumable, NEW available,
           NEW drifted, TickFor(r, resumable, available, drifted)
    PROVE  FailStandsStep
<1> DEFINE image == ResumeDrifted(RecoverExpiredLock(queue), drifted)
<1>1. queue \in Queue /\ queue.tasks \in [Tasks -> Task]
  BY DEF IInv, TypeOK, Queue
<1>2. /\ RecoverExpiredLock(queue) \in Queue
      /\ RecoverExpiredLock(queue).tasks = queue.tasks
  BY <1>1 DEF RecoverExpiredLock, Expired, Release, Queue
<1>3. image.tasks = [u \in Tasks |-> IF u \in drifted
                                    THEN Resume(queue.tasks[u])
                                    ELSE queue.tasks[u]]
  BY <1>2 DEF ResumeDrifted, Queue
<1>4. image \in [tasks : {image.tasks}, lock : {image.lock}]
  BY <1>2 DEF ResumeDrifted, Queue
<1>5. ASSUME NEW u \in Tasks
      PROVE  /\ image.tasks[u].external = queue.tasks[u].external
             /\ image.tasks[u] \in [status : {image.tasks[u].status},
                                     phase : {image.tasks[u].phase},
                                     blocker : {image.tasks[u].blocker},
                                     candidate : {image.tasks[u].candidate},
                                     review : {image.tasks[u].review},
                                     external : {image.tasks[u].external}]
  <2>1. queue.tasks[u] \in Task
    BY <1>1
  <2>2. CASE u \in drifted
    <3>1. image.tasks[u] = Resume(queue.tasks[u])
      BY <1>3, <2>2
    <3> QED  BY <2>1, <3>1 DEF Resume, Task
  <2>3. CASE u \notin drifted
    <3>1. image.tasks[u] = queue.tasks[u]
      BY <1>3, <2>3
    <3> QED  BY <2>1, <3>1 DEF Task
  <2> QED  BY <2>2, <2>3
<1>6. \/ queue' = image
      \/ \E t \in Tasks : queue' = AcquireTask(image, t, r)
      \/ \E t \in Tasks, blocker \in {"INTEGRATED", "CLOSED"} :
            queue' = ParkTerminalTarget(image, t, blocker)
  BY DEF TickFor
<1>7. \E tasks : image.tasks = [u \in Tasks |-> tasks[u]]
  <2> WITNESS [u \in Tasks |-> IF u \in drifted
                               THEN Resume(queue.tasks[u])
                               ELSE queue.tasks[u]]
  <2> QED  BY <1>3
<1> HIDE DEF image
<1>8. ASSUME NEW u \in Tasks
      PROVE  queue'.tasks[u].external = queue.tasks[u].external
  <2>1. CASE queue' = image
    BY <1>5, <2>1
  <2>2. ASSUME NEW t \in Tasks, queue' = AcquireTask(image, t, r)
        PROVE  queue'.tasks[u].external = queue.tasks[u].external
    BY <1>5, <1>7, <2>2 DEF AcquireTask
  <2>3. ASSUME NEW t \in Tasks, NEW blocker \in {"INTEGRATED", "CLOSED"},
               queue' = ParkTerminalTarget(image, t, blocker)
        PROVE  queue'.tasks[u].external = queue.tasks[u].external
    BY <1>4, <1>5, <1>7, <2>3 DEF ParkTerminalTarget, Park
  <2> QED  BY <1>6, <2>1, <2>2, <2>3
<1> QED  BY <1>8 DEF FailStandsStep, FailKept

(* An event either finds the failed task in REPAIR, where only another      *)
(* candidate removes the evidence, or does not apply to it.                 *)
LEMMA EventFail ==
    ASSUME IInv, NEW r \in Runs, NEW t \in Tasks, Event(r, t)
    PROVE  FailStandsStep
<1> DEFINE task == queue.tasks[t]
<1>1. /\ queue \in Queue /\ task \in Task
      /\ TaskDiscipline(t, task, rework[t])
  BY TaskFacts DEF IInv, TypeOK
<1>2. Reviewing(r, t) => ~ExternalFailed(t, task)
  BY <1>1 DEF Reviewing, InPhase, TaskDiscipline
<1>3. ASSUME NEW event, NEW new, Report(r, t, event, new),
             FailKept(t, task, new)
      PROVE  FailStandsStep
  <2>1. queue'.tasks = [queue.tasks EXCEPT ![t] = new]
    BY <1>3 DEF Report, AfterEvent
  <2> QED  BY <1>3, <2>1, OneTaskFail
<1>4. CASE Yield(r, t)
  BY <1>3, <1>4 DEF Yield, FailKept
<1>5. CASE CandidateDrift(r, t)
  <2>1. queue'.tasks = [queue.tasks EXCEPT ![t] = DriftToRepair(task)]
    BY <1>1, <1>5 DEF CandidateDrift, Release, Queue
  <2>2. FailKept(t, task, DriftToRepair(task))
    BY <1>2, <1>5 DEF CandidateDrift, FailKept
  <2> QED  BY <2>1, <2>2, OneTaskFail
<1>6. ASSUME NEW c \in Candidate, NewCandidate(r, t, c)
      PROVE  FailStandsStep
  <2>1. ExternalFailed(t, task) => task.candidate # c
    BY <1>1, <1>6 DEF NewCandidate, InPhase, TaskDiscipline
  <2>2. FailKept(t, task, CandidateReady(task, c))
    BY <1>1, <2>1 DEF FailKept, CandidateReady, Task
  <2> QED  BY <1>3, <1>6, <2>2 DEF NewCandidate
<1>7. CASE UnchangedCandidate(r, t)
  <2>1. FailKept(t, task, MarkNoProgress(t, task))
    BY <1>1 DEF FailKept, MarkNoProgress, Park, Task
  <2> QED  BY <1>3, <1>7, <2>1 DEF UnchangedCandidate
<1>8. ASSUME NEW event, NEW new, Reviewing(r, t), Report(r, t, event, new)
      PROVE  FailStandsStep
  BY <1>2, <1>3, <1>8 DEF FailKept
<1>9. CASE \/ ReportPass(r, t)
           \/ ReportRepair(r, t)
           \/ \E ref \in Refs : ReportRequested(r, t, ref)
           \/ ReportUnavailable(r, t)
           \/ ReportFinding(r, t)
           \/ ReportExternalPass(r, t)
  BY <1>8, <1>9 DEF ReportPass, ReportRepair, ReportRequested,
                    ReportUnavailable, ReportFinding, ReportExternalPass
<1> QED  BY <1>4, <1>5, <1>6, <1>7, <1>9 DEF Event

(* Administration: the review completion finds no FAIL, finalizing keeps    *)
(* it, rebinding takes another candidate, reconciling ends in DONE.         *)
LEMMA AdministrationFail ==
    ASSUME IInv, NEW t \in Tasks, Administration(t)
    PROVE  FailStandsStep
<1> DEFINE task == queue.tasks[t]
<1>1. task \in Task
  BY TaskFacts
<1>2. ASSUME NEW new, Administer(t, new), FailKept(t, task, new)
      PROVE  FailStandsStep
  <2>1. queue'.tasks = [queue.tasks EXCEPT ![t] = new]
    BY <1>2 DEF Administer, AfterAdministration
  <2> QED  BY <1>2, <2>1, OneTaskFail
<1>3. CASE CompleteReview(t)
  <2>1. ~ExternalFailed(t, task)
    BY <1>3 DEF CompleteReview, CanFinishReview, AwaitsReviewCompletion,
                ExternalFailed
  <2> QED  BY <1>2, <1>3, <2>1 DEF CompleteReview, FailKept
<1>4. CASE Finalize(t)
  <2>1. FailKept(t, task, FinalizeIntegrated(task))
    BY <1>1 DEF FailKept, FinalizeIntegrated, Task
  <2> QED  BY <1>2, <1>4, <2>1 DEF Finalize
<1>5. ASSUME NEW c \in Candidate, Rebind(t, c)
      PROVE  FailStandsStep
  <2>1. FailKept(t, task, CandidateReady(task, c))
    BY <1>1, <1>5 DEF FailKept, CandidateReady, Rebind, CanRebindReady, Task
  <2> QED  BY <1>2, <1>5, <2>1 DEF Rebind
<1>6. ASSUME NEW c \in Candidate, NEW ref \in Refs, Reconcile(t, c, ref)
      PROVE  FailStandsStep
  <2>1. FailKept(t, task, ReconcileIntegrated(t, task, c, ref))
    BY <1>1 DEF FailKept, ReconcileIntegrated, Task
  <2> QED  BY <1>2, <1>6, <2>1 DEF Reconcile
<1> QED  BY <1>3, <1>4, <1>5, <1>6 DEF Administration

(* No step replaces an external FAIL on the candidate it was found on,      *)
(* except the owner's reconciliation of an integrated pull request.         *)
THEOREM FailStands == Spec => ExternalFailStands
<1>1. IInv /\ [Next]_vars => [FailStandsStep]_vars
  <2> SUFFICES ASSUME IInv, Next PROVE FailStandsStep
    OBVIOUS
  <2>1. CASE LeaseExpires
    <3>1. queue'.tasks = queue.tasks
      BY <2>1 DEF LeaseExpires, IInv, TypeOK, Queue
    <3> QED  BY <3>1 DEF FailStandsStep, FailKept
  <2>2. ASSUME NEW r \in Runs, Tick(r)
        PROVE  FailStandsStep
    BY <2>2, TickFail DEF Tick
  <2> QED  BY <2>1, <2>2, EventFail, AdministrationFail DEF Next
<1> QED  BY <1>1, Discipline, PTL DEF Spec, ExternalFailStands
=============================================================================
