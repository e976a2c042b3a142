------------------------ MODULE RuntimeCarrierProofs ------------------------
(***************************************************************************)
(* The safety of the concurrent jobs, for every number of tasks, runs and  *)
(* commands.  One inductive invariant carries it: what a job plans to      *)
(* write is what its command makes of the queue the job has read, and the  *)
(* commit numbers tell whether that queue is still the present one.        *)
(***************************************************************************)
EXTENDS RuntimeCarrier, ControlQueueProofs

-----------------------------------------------------------------------------
(* What is true of a queue.                                                *)

Good(q) ==
    /\ q \in Queue
    /\ \A t \in Tasks : TaskDiscipline(t, q.tasks[t], 0)
    /\ q.lock # None => q.tasks[q.lock.task].status = "ACTIVE"

-----------------------------------------------------------------------------
(* What each kind of command makes of a queue.                             *)

TickPlan(cmd, q, plan) ==
    /\ ~Busy(q)
    /\ cmd.run \in InteractiveRuns => cmd.native
    /\ plan.found = {}
    /\ \E scope \in Scopes(cmd) :
         LET image == ResumeDrifted(RecoverExpiredLock(q), plan.settled)
         IN  /\ image.lock = None
             /\ plan.settled \in SUBSET ParkedNoProgress(q)
             /\ plan.settled \subseteq scope[1]
             /\ \A t \in plan.settled : \E rev \in Revs :
                  rev # q.tasks[t].candidate.rev
             /\ \/ /\ SelectionClass(image, scope[2]) = {}
                   /\ plan.queue = image
                \/ \E t \in Tasks :
                     /\ Selects(image, scope[2], t)
                     /\ plan.queue = AcquireTask(image, t, cmd.run)
                \/ \E t \in Tasks \ plan.settled,
                      blocker \in {"INTEGRATED", "CLOSED"} :
                     /\ Selects(image, scope[2], t)
                     /\ image.tasks[t].candidate # None
                     /\ image.tasks[t].status = "ACTIVE"
                     /\ plan.queue = ParkTerminalTarget(image, t, blocker)

DriftPlan(cmd, q, t, plan) ==
    /\ plan.queue = Release([q EXCEPT !.tasks[t] = DriftToRepair(@)])
    /\ plan.settled = {t}
    /\ plan.found = {}

ReportPlan(cmd, q, t, plan) ==
    /\ plan.queue = AfterEvent(q, cmd.run, t, cmd.event,
                               Effect(cmd, t, q.tasks[t]))
    /\ plan.settled = IF Settles(cmd, q.tasks[t]) THEN {t} ELSE {}
    /\ plan.found = IF Finds(cmd) THEN {t} ELSE {}

EventPlan(cmd, q, plan) ==
    LET t == cmd.capsule.task
        task == q.tasks[t]
    IN  /\ Held(q, cmd.run, t)
        /\ \E live \in Candidate :
             \/ /\ Drifted(cmd, task, live)
                /\ live.pr = task.candidate.pr
                /\ DriftPlan(cmd, q, t, plan)
             \/ /\ ~Drifted(cmd, task, live)
                /\ Accepts(cmd, t, task, live)
                /\ ReportPlan(cmd, q, t, plan)

OwnerPlan(cmd, q, enabled, plan) ==
    /\ CanOperate(cmd, q, enabled)
    /\ plan.queue = AfterAdministration(q, cmd.task,
                                        Operated(cmd, q.tasks[cmd.task]))
    /\ plan.settled = IF cmd.operation = "FINALIZE_INTEGRATED" THEN {}
                      ELSE {cmd.task}
    /\ plan.found = {}

-----------------------------------------------------------------------------
(* What is true of one job.                                                *)

\* A posted command carries what its kind of report or operation needs.
Command(cmd) ==
    \/ /\ cmd \in TickCommand
       /\ cmd.kind = "TICK"
    \/ /\ cmd \in EventCommand
       /\ cmd.kind = "EVENT"
       /\ cmd.run = cmd.capsule.run
       /\ cmd.event = "CANDIDATE_READY" => cmd.new \in Candidate
       /\ cmd.event = "EXTERNAL_REQUESTED" => cmd.ref \in Refs
    \/ /\ cmd \in OwnerCommand
       /\ cmd.kind = "OWNER"
       /\ cmd.operation \in {"REBIND_READY_CANDIDATE", "RECONCILE_INTEGRATED"}
            => cmd.new \in Candidate
       /\ cmd.operation = "RECONCILE_INTEGRATED" => cmd.ref \in Refs

\* A snapshot is good, and is the present state if its commits are the
\* present ones.
Snapshot(j, s, a) ==
    /\ j.source \in Store /\ j.main \in Authority
    /\ Good(j.source.queue)
    /\ j.source.version <= s.version
    /\ j.source.version = s.version => j.source.queue = s.queue
    /\ j.main.version <= a.version
    /\ j.main.version = a.version => j.main = a

PlanOK(cmd, j) ==
    /\ j.plan \in Plan
    /\ Good(j.plan.queue)
    /\ cmd.kind # "OWNER" => j.main.enabled
    /\ cmd.kind = "TICK" => TickPlan(cmd, j.source.queue, j.plan)
    /\ cmd.kind = "EVENT" => EventPlan(cmd, j.source.queue, j.plan)
    /\ cmd.kind = "OWNER" =>
         OwnerPlan(cmd, j.source.queue, j.main.enabled, j.plan)

JobOK(cmd, j, s, a) ==
    /\ IF j.stage = "unposted" THEN cmd = None
       ELSE cmd # None /\ Command(cmd)
    /\ j.stage # "over" => j.commit = 0
    /\ j.commit <= s.version
    /\ j.stage \in {"loaded", "planned", "checked"} => Snapshot(j, s, a)
    /\ j.stage \in {"planned", "checked"} => PlanOK(cmd, j)

\* The inductive invariant.
IInv ==
    /\ TypeOK
    /\ Good(store.queue)
    /\ \A c \in Commands : JobOK(command[c], job[c], store, authority)

\* A TICK that has a plan saw no later command of its run with a commit: one
\* that has a commit now has made it since.
CommitsInOrder ==
    \A c, d \in Commands :
      /\ c < d
      /\ Posted(c) /\ Posted(d)
      /\ command[c].kind = "TICK"
      /\ command[d].kind \in {"TICK", "EVENT"}
      /\ command[c].run = command[d].run
      /\ job[d].commit > 0
      => /\ job[c].commit > 0 => job[c].commit < job[d].commit
         /\ job[c].stage \in {"planned", "checked"} =>
              job[c].source.version < job[d].commit

NativeTick(c) ==
    Posted(c) /\ command[c].kind = "TICK" /\ command[c].native

\* A run has one native TICK, and a grant of an interactive run is that TICK's.
OneNativeTick ==
    \A c, d \in Commands :
      /\ NativeTick(c) /\ NativeTick(d)
      /\ command[c].run = command[d].run
      => c = d

GrantsAreNative ==
    \A r \in InteractiveRuns : grants[r] # 0 =>
      \E c \in Commands :
        NativeTick(c) /\ command[c].run = r /\ job[c].stage = "over"

-----------------------------------------------------------------------------
(* Good queues.                                                            *)

LEMMA GoodFacts ==
    ASSUME NEW q, Good(q)
    PROVE  /\ q \in Queue /\ q.tasks \in [Tasks -> Task]
           /\ q.lock \in Lock \cup {None}
           /\ \A t \in Tasks : q.tasks[t] \in Task
                               /\ TaskDiscipline(t, q.tasks[t], 0)
           /\ q = [tasks |-> q.tasks, lock |-> q.lock]
BY DEF Good, Queue

\* Replacing one task by a disciplined one, and the lock by one whose holder
\* is ACTIVE.
LEMMA ReplacedIsGood ==
    ASSUME NEW q, Good(q), NEW t \in Tasks, NEW task \in Task,
           TaskDiscipline(t, task, 0),
           NEW lock \in Lock \cup {None},
           lock # None =>
             [q.tasks EXCEPT ![t] = task][lock.task].status = "ACTIVE"
    PROVE  Good([tasks |-> [q.tasks EXCEPT ![t] = task], lock |-> lock])
<1> DEFINE tasks == [q.tasks EXCEPT ![t] = task]
<1>1. q.tasks \in [Tasks -> Task]
  BY GoodFacts
<1>2. tasks \in [Tasks -> Task]
  BY <1>1
<1>3. ASSUME NEW u \in Tasks
      PROVE  TaskDiscipline(u, tasks[u], 0)
  BY <1>1, GoodFacts
<1>4. [tasks |-> tasks, lock |-> lock] \in Queue
  BY <1>2 DEF Queue
<1> HIDE DEF tasks
<1> QED  BY <1>3, <1>4 DEF Good, tasks

\* The lease of a queue runs out: nothing else changes, and nothing at all
\* where no lease is live.
LEMMA RunOutFacts ==
    ASSUME NEW q \in Queue
    PROVE  /\ RunOut(q) \in Queue
           /\ RunOut(q).tasks = q.tasks
           /\ RunOut(q).lock = None <=> q.lock = None
           /\ q.lock # None => /\ RunOut(q).lock.task = q.lock.task
                               /\ RunOut(q).lock.run = q.lock.run
                               /\ RunOut(q).lock = [q.lock EXCEPT !.live = FALSE]
           /\ RunOut(q).lock \in Lock \cup {None}
           /\ ~Busy(q) => RunOut(q) = q
           /\ Good(q) => Good(RunOut(q))
           /\ RunOut(q) = [tasks |-> RunOut(q).tasks, lock |-> RunOut(q).lock]
<1>1. /\ q = [tasks |-> q.tasks, lock |-> q.lock]
      /\ q.tasks \in [Tasks -> Task] /\ q.lock \in Lock \cup {None}
  BY DEF Queue
<1>2. CASE q.lock = None
  BY <1>1, <1>2 DEF RunOut, Busy
<1>3. CASE q.lock # None
  <2> DEFINE out == [q.lock EXCEPT !.live = FALSE]
  <2>1. /\ q.lock \in Lock /\ out \in Lock
        /\ out.task = q.lock.task /\ out.run = q.lock.run
        /\ ~q.lock.live => out = q.lock
    BY <1>1, <1>3 DEF Lock
  <2>2. out # None
    BY <2>1, QueueAssumption
  <2>3. RunOut(q) = [q EXCEPT !.lock = out]
    BY <1>1, <1>3 DEF RunOut
  <2> HIDE DEF out
  <2>4. /\ RunOut(q).tasks = q.tasks /\ RunOut(q).lock = out
        /\ RunOut(q) = [tasks |-> q.tasks, lock |-> out]
    BY <1>1, <2>3
  <2>5. RunOut(q) \in Queue
    BY <1>1, <2>1, <2>4 DEF Queue
  <2>6. ~Busy(q) => RunOut(q) = q
    BY <1>1, <1>3, <2>1, <2>4 DEF Busy
  <2>7. Good(q) => Good(RunOut(q))
    BY <1>3, <2>1, <2>4, <2>5 DEF Good
  <2> QED  BY <1>3, <2>1, <2>2, <2>4, <2>5, <2>6, <2>7 DEF out
<1> QED  BY <1>2, <1>3

-----------------------------------------------------------------------------
(* The plans are good.                                                     *)

\* The image a TICK starts from: no lock, the drifted tasks in REPAIR.
LEMMA TickImage ==
    ASSUME NEW q, Good(q), ~Busy(q), NEW drifted \in SUBSET ParkedNoProgress(q)
    PROVE  /\ Good(ResumeDrifted(RecoverExpiredLock(q), drifted))
           /\ ResumeDrifted(RecoverExpiredLock(q), drifted).lock = None
<1> DEFINE free == RecoverExpiredLock(q)
           image == ResumeDrifted(free, drifted)
<1>1. free \in Queue /\ free.tasks = q.tasks /\ free.lock = None
  BY GoodFacts DEF RecoverExpiredLock, Expired, Release, Busy, Queue, Lock
<1> HIDE DEF free
<1>2. /\ image.lock = None
      /\ image.tasks = [u \in Tasks |-> IF u \in drifted
                                        THEN Resume(q.tasks[u])
                                        ELSE q.tasks[u]]
      /\ image = [tasks |-> image.tasks, lock |-> image.lock]
  BY <1>1 DEF ResumeDrifted, Queue
<1> HIDE DEF image
<1>3. ASSUME NEW u \in Tasks
      PROVE  /\ image.tasks[u] \in Task
             /\ TaskDiscipline(u, image.tasks[u], 0)
  <2>1. q.tasks[u] \in Task /\ TaskDiscipline(u, q.tasks[u], 0)
    BY GoodFacts
  <2>2. CASE u \in drifted
    <3>1. q.tasks[u].candidate # None
      BY <2>2 DEF ParkedNoProgress
    <3>2. /\ Resume(q.tasks[u]) \in Task
          /\ TaskDiscipline(u, Resume(q.tasks[u]), 0)
      BY <2>1, <3>1, ResumedTask
    <3> QED  BY <1>2, <2>2, <3>2
  <2>3. CASE u \notin drifted
    BY <1>2, <2>1, <2>3
  <2> QED  BY <2>2, <2>3
<1>4. image.tasks \in [Tasks -> Task]
  BY <1>2, <1>3
<1>5. image \in Queue
  BY <1>2, <1>4 DEF Queue
<1>6. Good(image)
  BY <1>2, <1>3, <1>5 DEF Good
<1> QED  BY <1>2, <1>6 DEF image, free

\* What a TICK plans to write.
LEMMA TickPlanIsGood ==
    ASSUME NEW cmd, cmd.run \in Runs, NEW q, Good(q), NEW plan,
           TickPlan(cmd, q, plan)
    PROVE  /\ Good(plan.queue)
           /\ plan.queue.lock # None =>
                \E t \in Tasks :
                  plan.queue.lock = [task |-> t, run |-> cmd.run, live |-> TRUE]
<1> DEFINE image == ResumeDrifted(RecoverExpiredLock(q), plan.settled)
<1>1. /\ ~Busy(q)
      /\ plan.settled \in SUBSET ParkedNoProgress(q)
      /\ \/ plan.queue = image
         \/ \E t \in Tasks : \E available :
              /\ Selects(image, available, t)
              /\ plan.queue = AcquireTask(image, t, cmd.run)
         \/ \E t \in Tasks, blocker \in {"INTEGRATED", "CLOSED"} :
              plan.queue = ParkTerminalTarget(image, t, blocker)
  BY DEF TickPlan
<1>2. Good(image) /\ image.lock = None
  BY <1>1, TickImage
<1> HIDE DEF image
<1>3. CASE plan.queue = image
  BY <1>2, <1>3
<1>4. ASSUME NEW t \in Tasks, NEW available, Selects(image, available, t),
             plan.queue = AcquireTask(image, t, cmd.run)
      PROVE  /\ Good(plan.queue)
             /\ plan.queue.lock = [task |-> t, run |-> cmd.run, live |-> TRUE]
  <2> DEFINE lock == [task |-> t, run |-> cmd.run, live |-> TRUE]
             acquired == IF image.tasks[t].status = "QUEUED"
                         THEN [image.tasks[t] EXCEPT !.status = "ACTIVE",
                                                     !.phase = "BUILD"]
                         ELSE image.tasks[t]
  <2>1. image.tasks[t].status \in {"QUEUED", "ACTIVE"}
    BY <1>4 DEF Selects, SelectionClass, RetryableExternalWait
  <2>2. image.tasks[t] \in Task /\ TaskDiscipline(t, image.tasks[t], 0)
    BY <1>2, GoodFacts
  <2>3. /\ acquired \in Task /\ acquired.status = "ACTIVE"
        /\ TaskDiscipline(t, acquired, 0)
    BY <2>1, <2>2, AcquiredTask
  <2>4. lock \in Lock /\ lock.task = t
    BY DEF Lock
  <2>5. image.tasks \in [Tasks -> Task]
    BY <1>2, GoodFacts
  <2>6. plan.queue = [tasks |-> [image.tasks EXCEPT ![t] = acquired],
                      lock |-> lock]
    BY <1>4, <2>5 DEF AcquireTask
  <2> HIDE DEF acquired, lock
  <2>7. [image.tasks EXCEPT ![t] = acquired][lock.task].status = "ACTIVE"
    BY <2>3, <2>4, <2>5
  <2>8. Good(plan.queue)
    BY <1>2, <2>3, <2>4, <2>6, <2>7, ReplacedIsGood
  <2>9. plan.queue.lock = lock
    BY <2>6
  <2> QED  BY <2>8, <2>9 DEF lock
<1>5. ASSUME NEW t \in Tasks, NEW blocker \in {"INTEGRATED", "CLOSED"},
             plan.queue = ParkTerminalTarget(image, t, blocker)
      PROVE  Good(plan.queue) /\ plan.queue.lock = None
  <2> DEFINE parked == Park(image.tasks[t], blocker)
  <2>1. image.tasks[t] \in Task /\ TaskDiscipline(t, image.tasks[t], 0)
    BY <1>2, GoodFacts
  <2>2. parked \in Task /\ TaskDiscipline(t, parked, 0)
    BY <2>1, ParkedTask DEF Blocker
  <2>3. plan.queue = [tasks |-> [image.tasks EXCEPT ![t] = parked],
                      lock |-> None]
    BY <1>2, <1>5, GoodFacts DEF ParkTerminalTarget, Queue
  <2> HIDE DEF parked
  <2>4. Good(plan.queue)
    BY <1>2, <2>2, <2>3, ReplacedIsGood
  <2> QED  BY <2>3, <2>4
<1> QED  BY <1>1, <1>2, <1>3, <1>4, <1>5

\* An accepted report leaves a disciplined task.
LEMMA EffectIsGood ==
    ASSUME NEW cmd, Command(cmd), cmd.kind = "EVENT", NEW t \in Tasks,
           NEW task \in Task, TaskDiscipline(t, task, 0),
           task.status = "ACTIVE",
           NEW live \in Candidate, Accepts(cmd, t, task, live)
    PROVE  /\ Effect(cmd, t, task) \in Task
           /\ TaskDiscipline(t, Effect(cmd, t, task), 0)
<1> DEFINE after == Effect(cmd, t, task)
           OK(x, n) == x \in Task /\ TaskDiscipline(t, x, n)
<1>1. cmd.event \in Events
  BY DEF Command, TickCommand, EventCommand, OwnerCommand
<1>2. cmd.event \in {"YIELD", "CANDIDATE_READY", "INTERNAL_PASS",
                     "INTERNAL_REPAIR", "EXTERNAL_REQUESTED",
                     "REVIEW_UNAVAILABLE", "EXTERNAL_FINDING",
                     "EXTERNAL_PASS"}
  BY <1>1, CommandsAssumption
<1>3. ASSUME NEW x, OK(x, 1)
      PROVE  OK(x, 0)
  BY <1>3 DEF TaskDiscipline
<1>4. CASE cmd.event = "YIELD"
  BY <1>4 DEF Effect
<1>5. CASE cmd.event = "CANDIDATE_READY"
  <2>1. /\ task.phase \in {"BUILD", "REPAIR"}
        /\ cmd.new \in Candidate
    BY <1>5 DEF Accepts, Command, TickCommand, OwnerCommand
  <2>2. CASE Unchanged(cmd, task)
    <3>1. task.phase = "REPAIR" /\ after = MarkNoProgress(t, task)
      BY <1>5, <2>2 DEF Unchanged, Effect
    <3> QED  BY <3>1, MarkNoProgressTask
  <2>3. CASE ~Unchanged(cmd, task)
    <3>1. after = CandidateReady(task, cmd.new)
      BY <1>5, <2>3 DEF Effect
    <3> QED  BY <2>1, <3>1, CandidateReadyTask
  <2> QED  BY <2>2, <2>3
<1>6. ASSUME cmd.event \notin {"YIELD", "CANDIDATE_READY"}
      PROVE  task.phase = "REVIEW" /\ task.candidate # None
  BY <1>2, <1>6 DEF Accepts
<1>7. CASE cmd.event = "INTERNAL_PASS"
  <2>1. after = InternalPass(t, task)
    BY <1>7 DEF Effect
  <2> QED  BY <1>6, <1>7, <2>1, InternalPassTask
<1>8. CASE cmd.event = "INTERNAL_REPAIR"
  <2>1. after = InternalRepair(task)
    BY <1>8 DEF Effect
  <2>2. OK(after, 0 + 1)
    BY <1>6, <1>8, <2>1, InternalRepairTask
  <2> QED  BY <1>3, <2>2
<1>9. CASE cmd.event = "EXTERNAL_REQUESTED"
  <2>1. after = SetExternal(task, "PENDING", cmd.ref) /\ cmd.ref \in Refs
    BY <1>9 DEF Effect, ExternalRequested, Command, TickCommand, OwnerCommand
  <2> QED  BY <1>6, <1>9, <2>1, SetExternalTask
<1>10. CASE cmd.event = "REVIEW_UNAVAILABLE"
  <2>1. after = SetExternal(task, "INDETERMINATE", RequestRef(task))
    BY <1>10 DEF Effect, ExternalUnavailable
  <2>2. RequestRef(task) \in Refs \cup {None}
    BY RequestRefIsRef
  <2> QED  BY <1>6, <1>10, <2>1, <2>2, SetExternalTask
<1>11. CASE cmd.event = "EXTERNAL_FINDING"
  <2>1. after = ExternalFinding(task) /\ ReviewPolicy[t] = "EXTERNAL"
    BY <1>11 DEF Effect, Accepts
  <2>2. OK(after, 0 + 1)
    BY <1>6, <1>11, <2>1, ExternalFindingTask
  <2> QED  BY <1>3, <2>2
<1>12. CASE cmd.event = "EXTERNAL_PASS"
  <2>1. after = ExternalPass(task) /\ ReviewPolicy[t] = "EXTERNAL"
    BY <1>12 DEF Effect, Accepts, CanPassExternal
  <2>2. task.phase = "REVIEW"
    BY <1>6, <1>12
  <2> QED  BY <2>1, <2>2, ExternalPassTask
<1> QED
  BY <1>2, <1>4, <1>5, <1>7, <1>8, <1>9, <1>10, <1>11, <1>12

\* What an EVENT plans to write; it keeps the lock or gives it up.
LEMMA EventPlanIsGood ==
    ASSUME NEW cmd, Command(cmd), cmd.kind = "EVENT", NEW q, Good(q),
           NEW plan, EventPlan(cmd, q, plan)
    PROVE  /\ Good(plan.queue)
           /\ plan.queue.lock \in {q.lock, None}
           /\ q.lock # None
           /\ q.lock.run = cmd.run /\ q.lock.task = cmd.capsule.task
<1> DEFINE t == cmd.capsule.task
           task == q.tasks[t]
<1>1. /\ q.lock # None /\ q.lock \in Lock
      /\ q.lock.run = cmd.run /\ q.lock.task = t /\ t \in Tasks
  BY GoodFacts DEF EventPlan, Held, Lock
<1>2. task \in Task /\ TaskDiscipline(t, task, 0) /\ task.status = "ACTIVE"
  BY <1>1, GoodFacts DEF Good
<1>3. q.tasks \in [Tasks -> Task]
  BY GoodFacts
<1>4. PICK live \in Candidate :
        \/ /\ Drifted(cmd, task, live)
           /\ DriftPlan(cmd, q, t, plan)
        \/ /\ Accepts(cmd, t, task, live)
           /\ ReportPlan(cmd, q, t, plan)
  BY DEF EventPlan
<1>5. ASSUME Drifted(cmd, task, live), DriftPlan(cmd, q, t, plan)
      PROVE  Good(plan.queue) /\ plan.queue.lock = None
  <2>1. task.phase = "REVIEW"
    BY <1>5 DEF Drifted
  <2> DEFINE drifted == DriftToRepair(task)
  <2>2. drifted \in Task /\ TaskDiscipline(t, drifted, 0)
    BY <1>1, <1>2, <2>1, DriftToRepairTask
  <2>3. plan.queue = [tasks |-> [q.tasks EXCEPT ![t] = drifted],
                      lock |-> None]
    BY <1>1, <1>3, <1>5, GoodFacts DEF DriftPlan, Release, Queue
  <2> HIDE DEF drifted
  <2> QED  BY <1>1, <2>2, <2>3, ReplacedIsGood
<1>6. ASSUME Accepts(cmd, t, task, live), ReportPlan(cmd, q, t, plan)
      PROVE  Good(plan.queue) /\ plan.queue.lock \in {q.lock, None}
  <2> DEFINE after == Effect(cmd, t, task)
             lock == IF KeepsHolder(cmd.run, cmd.event, after)
                     THEN q.lock ELSE None
  <2>1. after \in Task /\ TaskDiscipline(t, after, 0)
    BY <1>1, <1>2, <1>6, EffectIsGood
  <2>2. plan.queue = [tasks |-> [q.tasks EXCEPT ![t] = after], lock |-> lock]
    BY <1>6 DEF ReportPlan, AfterEvent
  <2> HIDE DEF after
  <2>3. lock # None =>
          [q.tasks EXCEPT ![t] = after][lock.task].status = "ACTIVE"
    BY <1>1, <1>3 DEF KeepsHolder
  <2>4. lock \in Lock \cup {None} /\ lock \in {q.lock, None}
    BY <1>1
  <2> HIDE DEF lock
  <2> QED  BY <1>1, <2>1, <2>2, <2>3, <2>4, ReplacedIsGood
<1> QED  BY <1>1, <1>4, <1>5, <1>6

\* What the owner and the review completion plan to write: without a lock.
LEMMA OwnerPlanIsGood ==
    ASSUME NEW cmd, Command(cmd), cmd.kind = "OWNER", NEW q, Good(q),
           NEW enabled, NEW plan, OwnerPlan(cmd, q, enabled, plan)
    PROVE  /\ Good(plan.queue) /\ plan.queue.lock = None
           /\ cmd.task \in Tasks
           /\ ~Busy(q)
<1> DEFINE t == cmd.task
           task == q.tasks[t]
           after == Operated(cmd, task)
<1>1. cmd \in OwnerCommand
  BY DEF Command, TickCommand, EventCommand
<1>2. t \in Tasks /\ cmd.operation \in Operations
  BY <1>1 DEF OwnerCommand
<1>3. cmd.operation \in {"COMPLETE_REVIEW", "FINALIZE_INTEGRATED",
                         "REBIND_READY_CANDIDATE", "RECONCILE_INTEGRATED"}
  BY <1>2, CommandsAssumption
<1>4. task \in Task /\ TaskDiscipline(t, task, 0)
  BY <1>2, GoodFacts
<1>5. /\ after \in Task /\ TaskDiscipline(t, after, 0)
      /\ ~Busy(q)
  <2>1. CASE cmd.operation = "COMPLETE_REVIEW"
    <3>1. after = FinishReview(task) /\ CanFinishReview(q, t)
      BY <2>1 DEF Operated, OwnerPlan, CanOperate
    <3>2. InternalPassed(task) /\ ~Busy(q)
      BY <3>1 DEF CanFinishReview, Busy, Expired
    <3> QED  BY <1>2, <1>4, <3>1, <3>2, FinishReviewTask
  <2>2. CASE cmd.operation = "FINALIZE_INTEGRATED"
    <3>1. after = FinalizeIntegrated(task) /\ CanFinalizeIntegrated(q, t)
      BY <2>2 DEF Operated, OwnerPlan, CanOperate
    <3>2. task.status = "READY" /\ ~Busy(q)
      BY <3>1 DEF CanFinalizeIntegrated, Busy
    <3> QED  BY <1>2, <1>4, <3>1, <3>2, FinalizeTask
  <2>3. CASE cmd.operation = "REBIND_READY_CANDIDATE"
    <3>1. after = CandidateReady(task, cmd.new) /\ CanRebindReady(q, t, cmd.new)
      BY <2>3 DEF Operated, OwnerPlan, CanOperate
    <3>2. cmd.new \in Candidate /\ ~Busy(q)
      BY <2>3, <3>1 DEF CanRebindReady, Busy, Command, TickCommand, EventCommand
    <3> QED  BY <1>2, <1>4, <3>1, <3>2, CandidateReadyTask
  <2>4. CASE cmd.operation = "RECONCILE_INTEGRATED"
    <3>1. /\ after = ReconcileIntegrated(t, task, cmd.new, cmd.ref)
          /\ CanReconcileIntegrated(q, t, cmd.new)
      BY <2>4 DEF Operated, OwnerPlan, CanOperate
    <3>2. cmd.new \in Candidate /\ cmd.ref \in Refs /\ ~Busy(q)
      BY <2>4, <3>1
      DEF CanReconcileIntegrated, Busy, Command, TickCommand, EventCommand
    <3> QED  BY <1>2, <1>4, <3>1, <3>2, ReconcileTask
  <2> QED  BY <1>3, <2>1, <2>2, <2>3, <2>4
<1>6. plan.queue = [tasks |-> [q.tasks EXCEPT ![t] = after], lock |-> None]
  BY DEF OwnerPlan, AfterAdministration
<1> HIDE DEF after
<1>7. Good(plan.queue)
  BY <1>2, <1>5, <1>6, ReplacedIsGood
<1> QED  BY <1>2, <1>5, <1>6, <1>7

\* The capsule of the holder of a good queue.
LEMMA CapsuleOfHolder ==
    ASSUME NEW q, Good(q), q.lock # None, NEW r, r = q.lock.run
    PROVE  CapsuleOf(q, r, q.lock.task) \in Capsule
<1> DEFINE t == q.lock.task
           task == q.tasks[t]
<1>1. q.lock \in Lock /\ r \in Runs /\ t \in Tasks
  BY GoodFacts DEF Lock
<1>2. /\ task \in Task /\ TaskDiscipline(t, task, 0)
      /\ task.status = "ACTIVE"
  BY <1>1, GoodFacts DEF Good
<1>3. task.phase \in {"BUILD", "REVIEW", "REPAIR"}
      /\ task.candidate \in Candidate \cup {None}
  BY <1>2 DEF TaskDiscipline, ValidTask, PhaseFitsStatus, Task, Phase
<1>4. WorkAction(t, task) \in
        {"BUILD", "REPAIR", "REVIEW_INTERNAL", "REQUEST_EXTERNAL_REVIEW",
         "RECONCILE_EXTERNAL_REVIEW"}
  BY <1>3 DEF WorkAction
<1> QED  BY <1>1, <1>3, <1>4 DEF CapsuleOf, Capsule

-----------------------------------------------------------------------------
(* The lease runs out in a snapshot and in a plan.                         *)

\* The plan of an EVENT is still what the EVENT makes of its snapshot.
LEMMA EventPlanRunsOut ==
    ASSUME NEW cmd, NEW q, Good(q), NEW plan \in Plan,
           EventPlan(cmd, q, plan), NEW next,
           next.queue = RunOut(plan.queue),
           next.settled = plan.settled, next.found = plan.found
    PROVE  EventPlan(cmd, RunOut(q), next)
<1> DEFINE t == cmd.capsule.task
           task == q.tasks[t]
           out == RunOut(q)
<1>1. q \in Queue /\ q.lock # None /\ q.lock.run = cmd.run /\ q.lock.task = t
  BY GoodFacts DEF EventPlan, Held
<1>2. /\ out.tasks = q.tasks /\ out \in Queue
      /\ out.lock # None /\ out.lock.task = t /\ out.lock.run = cmd.run
      /\ out.lock = [q.lock EXCEPT !.live = FALSE]
  BY <1>1, RunOutFacts
<1> HIDE DEF out
<1>3. Held(out, cmd.run, t)
  BY <1>2 DEF Held
<1>4. ASSUME DriftPlan(cmd, q, t, plan)
      PROVE  DriftPlan(cmd, out, t, next)
  <2> DEFINE image == Release([q EXCEPT !.tasks[t] = DriftToRepair(@)])
  <2>1. image.lock = None
    BY <1>1 DEF Release, Queue
  <2>2. RunOut(image) = image
    BY <2>1 DEF RunOut
  <2>3. Release([out EXCEPT !.tasks[t] = DriftToRepair(@)]) = image
    BY <1>1, <1>2 DEF Release, Queue
  <2> HIDE DEF image
  <2> QED  BY <1>4, <2>2, <2>3 DEF DriftPlan, image
<1>5. ASSUME ReportPlan(cmd, q, t, plan)
      PROVE  ReportPlan(cmd, out, t, next)
  <2> DEFINE after == Effect(cmd, t, task)
             image == AfterEvent(q, cmd.run, t, cmd.event, after)
  <2>1. RunOut(image) = AfterEvent(out, cmd.run, t, cmd.event, after)
    <3> DEFINE tasks == [q.tasks EXCEPT ![t] = after]
    <3> HIDE DEF after
    <3>1. CASE KeepsHolder(cmd.run, cmd.event, after)
      <4>1. image = [tasks |-> tasks, lock |-> q.lock]
        BY <3>1 DEF AfterEvent
      <4>2. AfterEvent(out, cmd.run, t, cmd.event, after) =
              [tasks |-> tasks, lock |-> [q.lock EXCEPT !.live = FALSE]]
        BY <1>2, <3>1 DEF AfterEvent
      <4> HIDE DEF image, tasks
      <4>3. RunOut(image) = [image EXCEPT !.lock = [image.lock EXCEPT !.live = FALSE]]
        BY <1>1, <4>1 DEF RunOut
      <4>4. image.lock = q.lock
        BY <4>1
      <4> QED  BY <4>1, <4>2, <4>3, <4>4
    <3>2. CASE ~KeepsHolder(cmd.run, cmd.event, after)
      BY <1>2, <3>2 DEF AfterEvent, RunOut
    <3> QED  BY <3>1, <3>2
  <2> HIDE DEF image, after
  <2> QED  BY <1>2, <1>5, <2>1 DEF ReportPlan, image, after
<1>6. out.tasks[t] = task
  BY <1>2
<1>7. PICK live \in Candidate :
        \/ /\ Drifted(cmd, task, live)
           /\ live.pr = task.candidate.pr
           /\ DriftPlan(cmd, q, t, plan)
        \/ /\ ~Drifted(cmd, task, live)
           /\ Accepts(cmd, t, task, live)
           /\ ReportPlan(cmd, q, t, plan)
  BY DEF EventPlan
<1>8. EventPlan(cmd, out, next)
  BY <1>3, <1>4, <1>5, <1>6, <1>7 DEF EventPlan
<1> QED  BY <1>8 DEF out

-----------------------------------------------------------------------------
(* What a step leaves alone.                                               *)

StoreAhead(s, next) == next = s \/ next.version = s.version + 1

AuthorityAhead(a, next) == next = a \/ next.version = a.version + 1

\* Whatever is committed or published, a job that does not move stays sound.
LEMMA JobStaysOK ==
    ASSUME NEW cmd, NEW j \in Job, NEW s \in Store, NEW s2 \in Store,
           NEW a \in Authority, NEW a2 \in Authority, JobOK(cmd, j, s, a),
           StoreAhead(s, s2), AuthorityAhead(a, a2)
    PROVE  JobOK(cmd, j, s2, a2)
<1>1. /\ s.version \in Nat /\ s2.version \in Nat /\ s.version <= s2.version
      /\ a.version \in Nat /\ a2.version \in Nat /\ a.version <= a2.version
      /\ j.commit \in Nat
  BY DEF Store, Authority, Job, StoreAhead, AuthorityAhead
<1>2. j.commit <= s2.version
  BY <1>1 DEF JobOK
<1>3. ASSUME Snapshot(j, s, a)
      PROVE  Snapshot(j, s2, a2)
  <2>1. /\ j.source \in Store /\ j.source.version \in Nat
        /\ j.main \in Authority /\ j.main.version \in Nat
    BY <1>3 DEF Snapshot, Store, Authority
  <2>2. j.source.version <= s2.version /\ j.main.version <= a2.version
    BY <1>1, <1>3, <2>1 DEF Snapshot
  <2>3. ASSUME j.source.version = s2.version
        PROVE  j.source.queue = s2.queue
    BY <1>1, <1>3, <2>1, <2>3 DEF Snapshot, StoreAhead
  <2>4. ASSUME j.main.version = a2.version
        PROVE  j.main = a2
    BY <1>1, <1>3, <2>1, <2>4 DEF Snapshot, AuthorityAhead
  <2> QED  BY <1>3, <2>2, <2>3, <2>4 DEF Snapshot
<1> QED  BY <1>2, <1>3 DEF JobOK

\* A step that moves one job, and the branches with it.
LEMMA OneJobMoves ==
    ASSUME IInv, NEW c \in Commands, NEW next \in Job,
           job' = [job EXCEPT ![c] = next], UNCHANGED command,
           store' \in Store, authority' \in Authority, Good(store'.queue),
           work' \in SUBSET Capsule, grants' \in [Runs -> Nat],
           rework' \in [Tasks -> 0 .. MaxRework],
           StoreAhead(store, store'), AuthorityAhead(authority, authority'),
           JobOK(command[c], next, store', authority')
    PROVE  IInv'
<1>1. /\ store \in Store /\ authority \in Authority
      /\ job \in [Commands -> Job]
  BY DEF IInv, TypeOK
<1>2. TypeOK'
  BY <1>1 DEF IInv, TypeOK
<1>3. ASSUME NEW d \in Commands
      PROVE  JobOK(command'[d], job'[d], store', authority')
  <2>1. CASE d = c
    BY <1>1, <2>1
  <2>2. CASE d # c
    <3>1. job[d] \in Job /\ JobOK(command[d], job[d], store, authority)
      BY <1>1 DEF IInv
    <3>2. job'[d] = job[d]
      BY <1>1, <2>2
    <3> QED  BY <1>1, <3>1, <3>2, JobStaysOK
  <2> QED  BY <2>1, <2>2
<1>4. (\A d \in Commands : JobOK(command[d], job[d], store, authority))'
  BY <1>3
<1>5. Good(store.queue)'
  OBVIOUS
<1> QED  BY <1>2, <1>4, <1>5 DEF IInv

\* What every step of one job starts from.
LEMMA JobFacts ==
    ASSUME IInv, NEW c \in Commands
    PROVE  /\ job[c] \in Job
           /\ JobOK(command[c], job[c], store, authority)
           /\ store \in Store /\ authority \in Authority
           /\ store.version \in Nat /\ authority.version \in Nat
           /\ Good(store.queue)
           /\ work \in SUBSET Capsule /\ grants \in [Runs -> Nat]
           /\ rework \in [Tasks -> 0 .. MaxRework]
           /\ StoreAhead(store, store)
           /\ AuthorityAhead(authority, authority)
BY DEF IInv, TypeOK, Store, Authority, StoreAhead, AuthorityAhead

\* What a job is that has ended.
LEMMA EndedJob ==
    ASSUME NEW n \in Nat
    PROVE  /\ Ended(n) \in Job
           /\ Ended(n).stage = "over" /\ Ended(n).commit = n
BY DEF Ended, UnpostedJob, Job, Stage

\* A job that ends without a commit.
LEMMA OverStep ==
    ASSUME IInv, NEW c \in Commands, job[c].stage # "unposted", Over(c),
           UNCHANGED <<store, authority, command, grants, rework>>,
           work' \in SUBSET Capsule
    PROVE  IInv'
<1>1. Ended(0) \in Job /\ Ended(0).stage = "over" /\ Ended(0).commit = 0
  BY EndedJob
<1>2. JobOK(command[c], Ended(0), store, authority)
  BY <1>1, JobFacts DEF JobOK
<1>3. job' = [job EXCEPT ![c] = Ended(0)]
  BY DEF Over
<1> HIDE DEF Over
<1> QED  BY <1>1, <1>2, <1>3, JobFacts, OneJobMoves

-----------------------------------------------------------------------------
(* The steps of the world.                                                 *)

LEMMA InitIsOK == Init => IInv
<1> SUFFICES ASSUME Init PROVE IInv
  OBVIOUS
<1>1. /\ store = [version |-> 1, queue |-> InitialQueue]
      /\ authority = [version |-> 1, enabled |-> TRUE]
      /\ command = [c \in Commands |-> None]
      /\ job = [c \in Commands |-> UnpostedJob]
      /\ work = {} /\ grants = [r \in Runs |-> 0]
      /\ rework = [t \in Tasks |-> 0]
  BY DEF Init
<1>2. InitialQueue \in Queue
  BY QueueAssumption DEF InitialQueue, Queue
<1>3. UnpostedJob \in Job
  BY DEF UnpostedJob, Job, Stage
<1>4. TypeOK
  BY <1>1, <1>2, <1>3 DEF TypeOK, Store, Authority, MaxRework
<1>5. Good(store.queue)
  BY <1>1, <1>2, InitialAssumption DEF Good, InitialQueue
<1>6. ASSUME NEW c \in Commands
      PROVE  JobOK(command[c], job[c], store, authority)
  BY <1>1 DEF JobOK, UnpostedJob
<1> QED  BY <1>4, <1>5, <1>6 DEF IInv

\* A well-formed command is posted.
LEMMA PostStep ==
    ASSUME IInv, NEW cmd, Command(cmd),
           cmd \in TickCommand \cup EventCommand \cup OwnerCommand, Post(cmd)
    PROVE  IInv'
<1>1. PICK c \in Commands :
        /\ ~Posted(c)
        /\ command' = [command EXCEPT ![c] = cmd]
        /\ job' = [job EXCEPT ![c].stage = "posted"]
        /\ UNCHANGED <<store, authority, work, grants, rework>>
  BY DEF Post
<1>2. cmd # None
  BY NoneIsNoRecord
<1>3. /\ job \in [Commands -> Job]
      /\ command \in [Commands -> TickCommand \cup EventCommand
                                    \cup OwnerCommand \cup {None}]
  BY DEF IInv, TypeOK
<1> DEFINE next == [job[c] EXCEPT !.stage = "posted"]
<1>4. job[c] \in Job /\ job[c].stage = "unposted" /\ job[c].commit = 0
  BY <1>1, JobFacts DEF JobOK, Posted
<1>5. /\ next \in Job /\ next.stage = "posted" /\ next.commit = 0
      /\ job' = [job EXCEPT ![c] = next]
  BY <1>1, <1>3, <1>4 DEF Job, Stage
<1> HIDE DEF next
<1>6. TypeOK'
  BY <1>1, <1>3, <1>5 DEF IInv, TypeOK
<1>7. ASSUME NEW d \in Commands
      PROVE  JobOK(command'[d], job'[d], store', authority')
  <2>1. CASE d = c
    <3>1. command'[d] = cmd /\ job'[d] = next
      BY <1>1, <1>3, <1>5, <2>1
    <3>2. 0 <= store'.version
      BY <1>1, JobFacts
    <3> QED  BY <1>2, <1>5, <3>1, <3>2 DEF JobOK
  <2>2. CASE d # c
    <3>1. /\ command'[d] = command[d] /\ job'[d] = job[d]
          /\ store' = store /\ authority' = authority
      BY <1>1, <1>3, <1>5, <2>2
    <3> QED  BY <3>1, JobFacts
  <2> QED  BY <2>1, <2>2
<1>8. (\A d \in Commands : JobOK(command[d], job[d], store, authority))'
  BY <1>7
<1>9. Good(store.queue)'
  BY <1>1 DEF IInv
<1> QED  BY <1>6, <1>8, <1>9 DEF IInv

LEMMA PostTickSteps == IInv /\ PostTick => IInv'
<1> SUFFICES ASSUME IInv, PostTick PROVE IInv'
  OBVIOUS
<1>1. PICK r \in Runs, native \in BOOLEAN :
        Post([kind |-> "TICK", run |-> r, native |-> native])
  BY DEF PostTick
<1> DEFINE cmd == [kind |-> "TICK", run |-> r, native |-> native]
<1>2. cmd \in TickCommand /\ Command(cmd)
  BY DEF TickCommand, Command
<1> HIDE DEF cmd
<1> QED  BY <1>1, <1>2, PostStep DEF cmd

LEMMA PostEventSteps == IInv /\ PostEvent => IInv'
<1> SUFFICES ASSUME IInv, PostEvent PROVE IInv'
  OBVIOUS
<1>1. PICK capsule \in work, event \in Events :
        \E new \in IF event = "CANDIDATE_READY" THEN Candidate ELSE {None},
           ref \in IF event = "EXTERNAL_REQUESTED" THEN Refs ELSE {None} :
          Post([kind |-> "EVENT", run |-> capsule.run, capsule |-> capsule,
                event |-> event, new |-> new, ref |-> ref])
  BY DEF PostEvent
<1>2. PICK new \in IF event = "CANDIDATE_READY" THEN Candidate ELSE {None},
           ref \in IF event = "EXTERNAL_REQUESTED" THEN Refs ELSE {None} :
        Post([kind |-> "EVENT", run |-> capsule.run, capsule |-> capsule,
              event |-> event, new |-> new, ref |-> ref])
  BY <1>1
<1> DEFINE cmd == [kind |-> "EVENT", run |-> capsule.run, capsule |-> capsule,
                   event |-> event, new |-> new, ref |-> ref]
<1>3. capsule \in Capsule /\ capsule.run \in Runs
  BY DEF IInv, TypeOK, Capsule
<1>4. /\ new \in Candidate \cup {None} /\ ref \in Refs \cup {None}
      /\ event = "CANDIDATE_READY" => new \in Candidate
      /\ event = "EXTERNAL_REQUESTED" => ref \in Refs
  OBVIOUS
<1>5. cmd \in EventCommand /\ Command(cmd)
  BY <1>3, <1>4 DEF EventCommand, Command
<1> HIDE DEF cmd
<1> QED  BY <1>2, <1>5, PostStep DEF cmd

LEMMA PostOwnerSteps == IInv /\ PostOwner => IInv'
<1> SUFFICES ASSUME IInv, PostOwner PROVE IInv'
  OBVIOUS
<1>1. PICK t \in Tasks, operation \in Operations :
        \E new \in IF operation \in {"REBIND_READY_CANDIDATE",
                                    "RECONCILE_INTEGRATED"}
                   THEN Candidate ELSE {None},
           ref \in IF operation = "RECONCILE_INTEGRATED" THEN Refs ELSE {None} :
          Post([kind |-> "OWNER", task |-> t, operation |-> operation,
                new |-> new, ref |-> ref])
  BY DEF PostOwner
<1>2. PICK new \in IF operation \in {"REBIND_READY_CANDIDATE",
                                    "RECONCILE_INTEGRATED"}
                   THEN Candidate ELSE {None},
           ref \in IF operation = "RECONCILE_INTEGRATED" THEN Refs ELSE {None} :
        Post([kind |-> "OWNER", task |-> t, operation |-> operation,
              new |-> new, ref |-> ref])
  BY <1>1
<1> DEFINE cmd == [kind |-> "OWNER", task |-> t, operation |-> operation,
                   new |-> new, ref |-> ref]
<1>4. /\ new \in Candidate \cup {None} /\ ref \in Refs \cup {None}
      /\ operation \in {"REBIND_READY_CANDIDATE", "RECONCILE_INTEGRATED"}
           => new \in Candidate
      /\ operation = "RECONCILE_INTEGRATED" => ref \in Refs
  OBVIOUS
<1>5. cmd \in OwnerCommand /\ Command(cmd)
  BY <1>4 DEF OwnerCommand, Command
<1> HIDE DEF cmd
<1> QED  BY <1>2, <1>5, PostStep DEF cmd

LEMMA AgesSteps ==
    ASSUME IInv, NEW c \in Commands, Ages(c)
    PROVE  IInv'
<1> DEFINE next == [job[c] EXCEPT !.fresh = FALSE]
<1>1. job[c] \in Job /\ job \in [Commands -> Job]
  BY DEF IInv, TypeOK
<1>2. /\ next \in Job /\ next.stage = job[c].stage
      /\ next.commit = job[c].commit /\ next.source = job[c].source
      /\ next.main = job[c].main /\ next.plan = job[c].plan
      /\ job' = [job EXCEPT ![c] = next]
  BY <1>1 DEF Ages, Job
<1> HIDE DEF next
<1>3. JobOK(command[c], next, store, authority)
  BY <1>2, JobFacts DEF JobOK, Snapshot, PlanOK
<1>4. UNCHANGED <<store, authority, command, work, grants, rework>>
  BY DEF Ages
<1> QED  BY <1>2, <1>3, <1>4, JobFacts, OneJobMoves

LEMMA PublishSteps ==
    ASSUME IInv, Publish
    PROVE  IInv'
<1>1. PICK enabled \in BOOLEAN :
         authority' = [version |-> authority.version + 1, enabled |-> enabled]
  BY DEF Publish
<1>2. UNCHANGED <<store, command, job, work, grants, rework>>
  BY DEF Publish
<1>3. authority \in Authority /\ authority.version \in Nat /\ store \in Store
  BY DEF IInv, TypeOK, Authority
<1>4. authority' \in Authority /\ AuthorityAhead(authority, authority')
  BY <1>1, <1>3 DEF Authority, AuthorityAhead
<1>5. ASSUME NEW d \in Commands
      PROVE  JobOK(command'[d], job'[d], store', authority')
  <2>1. JobOK(command[d], job[d], store, authority')
    BY <1>3, <1>4, JobFacts, JobStaysOK
  <2> QED  BY <1>2, <2>1
<1>6. (\A d \in Commands : JobOK(command[d], job[d], store, authority))'
  BY <1>5
<1>7. TypeOK'
  BY <1>2, <1>4 DEF IInv, TypeOK
<1>8. Good(store.queue)'
  BY <1>2 DEF IInv
<1> QED  BY <1>6, <1>7, <1>8 DEF IInv

\* The lease runs out for one job.
JobRunsOut(cmd, j) ==
    [j EXCEPT !.source = RunOutIn(j.source),
              !.plan = IF cmd # None /\ cmd.kind = "EVENT" THEN RunOutIn(j.plan)
                       ELSE j.plan]

LEMMA LeaseRunsOutForJob ==
    ASSUME NEW cmd, NEW j \in Job, NEW s \in Store, NEW a \in Authority,
           JobOK(cmd, j, s, a)
    PROVE  /\ JobRunsOut(cmd, j) \in Job
           /\ JobOK(cmd, JobRunsOut(cmd, j),
                    [s EXCEPT !.queue = RunOut(@)], a)
<1> DEFINE j2 == JobRunsOut(cmd, j)
           s2 == [s EXCEPT !.queue = RunOut(@)]
           source == RunOutIn(j.source)
           plan == IF cmd # None /\ cmd.kind = "EVENT" THEN RunOutIn(j.plan)
                   ELSE j.plan
<1>0. j2 = [j EXCEPT !.source = source, !.plan = plan]
  BY DEF JobRunsOut
<1> HIDE DEF source, plan, j2
<1>1. /\ j2.stage = j.stage /\ j2.commit = j.commit /\ j2.main = j.main
      /\ j2.fresh = j.fresh /\ j2.source = source /\ j2.plan = plan
      /\ j2 = [stage |-> j2.stage, fresh |-> j2.fresh, source |-> j2.source,
               main |-> j2.main, plan |-> j2.plan, commit |-> j2.commit]
  BY <1>0 DEF Job
<1> USE DEF source, plan, j2
<1>2. /\ s \in Store /\ s.queue \in Queue /\ s2.version = s.version
      /\ s2.queue = RunOut(s.queue)
  BY DEF Store
<1>3. /\ j.source \in Store \cup {None} /\ j.plan \in Plan \cup {None}
      /\ j.stage \in Stage /\ j.fresh \in BOOLEAN /\ j.commit \in Nat
      /\ j.main \in Authority \cup {None}
  BY DEF Job
<1>4. ASSUME j.source # None
      PROVE  /\ source \in Store /\ j.source \in Store
             /\ source.version = j.source.version
             /\ source.queue = RunOut(j.source.queue)
  <2>1. j.source \in Store /\ j.source.queue \in Queue
    BY <1>3, <1>4 DEF Store
  <2>2. RunOut(j.source.queue) \in Queue
    BY <2>1, RunOutFacts
  <2> QED  BY <1>4, <2>1, <2>2 DEF Store, RunOutIn
<1>5. ASSUME j.plan # None, cmd # None
      PROVE  /\ plan \in Plan /\ j.plan \in Plan
             /\ plan.settled = j.plan.settled /\ plan.found = j.plan.found
             /\ cmd.kind # "EVENT" => plan = j.plan
             /\ cmd.kind = "EVENT" => plan.queue = RunOut(j.plan.queue)
  <2>1. j.plan \in Plan /\ j.plan.queue \in Queue
    BY <1>3, <1>5 DEF Plan
  <2>2. RunOut(j.plan.queue) \in Queue
    BY <2>1, RunOutFacts
  <2> QED  BY <1>5, <2>1, <2>2 DEF Plan, RunOutIn
<1>6. source \in Store \cup {None} /\ plan \in Plan \cup {None}
  BY <1>4, <1>5, <1>3 DEF RunOutIn
<1> HIDE DEF source, plan, j2, s2
<1>7. j2 \in Job
  BY <1>1, <1>3, <1>6 DEF Job
<1>8. ASSUME Snapshot(j, s, a)
      PROVE  Snapshot(j2, s2, a)
  <2>1. j.source \in Store /\ j.source # None /\ Good(j.source.queue)
    BY <1>8, NoneIsNoRecord DEF Snapshot
  <2>2. Good(RunOut(j.source.queue))
    BY <2>1, RunOutFacts DEF Store
  <2> QED  BY <1>1, <1>2, <1>4, <1>8, <2>1, <2>2 DEF Snapshot
<1>9. ASSUME Snapshot(j, s, a), PlanOK(cmd, j), Command(cmd), cmd # None
      PROVE  PlanOK(cmd, j2)
  <2> DEFINE q == j.source.queue
  <2>1. /\ j.source \in Store /\ j.source # None /\ Good(q)
        /\ q \in Queue /\ j2.source.queue = RunOut(q)
    BY <1>1, <1>4, <1>9, NoneIsNoRecord DEF Snapshot, Good
  <2>2. /\ j.plan \in Plan /\ j.plan # None /\ Good(j.plan.queue)
        /\ j.plan.queue \in Queue
    BY <1>9, NoneIsNoRecord DEF PlanOK, Good
  <2>3. /\ j2.plan \in Plan
        /\ j2.plan.settled = j.plan.settled /\ j2.plan.found = j.plan.found
        /\ cmd.kind # "EVENT" => j2.plan = j.plan
        /\ cmd.kind = "EVENT" => j2.plan.queue = RunOut(j.plan.queue)
    BY <1>1, <1>5, <1>9, <2>2
  <2>4. Good(j2.plan.queue)
    BY <2>2, <2>3, RunOutFacts
  <2>5. ASSUME cmd.kind = "TICK"
        PROVE  TickPlan(cmd, j2.source.queue, j2.plan)
    <3>1. TickPlan(cmd, q, j.plan)
      BY <1>9, <2>5 DEF PlanOK
    <3>2. ~Busy(q)
      BY <3>1 DEF TickPlan
    <3>3. j2.source.queue = q /\ j2.plan = j.plan
      BY <2>1, <2>3, <2>5, <3>2, RunOutFacts
    <3> QED  BY <3>1, <3>3
  <2>6. ASSUME cmd.kind = "OWNER"
        PROVE  OwnerPlan(cmd, j2.source.queue, j2.main.enabled, j2.plan)
    <3>1. OwnerPlan(cmd, q, j.main.enabled, j.plan)
      BY <1>9, <2>6 DEF PlanOK
    <3>2. ~Busy(q)
      BY <1>9, <2>1, <2>6, <3>1, OwnerPlanIsGood
    <3>3. j2.source.queue = q /\ j2.plan = j.plan /\ j2.main = j.main
      BY <1>1, <2>1, <2>3, <2>6, <3>2, RunOutFacts
    <3> QED  BY <3>1, <3>3
  <2>7. ASSUME cmd.kind = "EVENT"
        PROVE  EventPlan(cmd, j2.source.queue, j2.plan)
    <3>1. EventPlan(cmd, q, j.plan)
      BY <1>9, <2>7 DEF PlanOK
    <3> QED  BY <2>1, <2>2, <2>3, <2>7, <3>1, EventPlanRunsOut
  <2>8. cmd.kind # "OWNER" => j2.main.enabled
    BY <1>1, <1>9 DEF PlanOK
  <2> QED  BY <2>3, <2>4, <2>5, <2>6, <2>7, <2>8 DEF PlanOK
<1>10. JobOK(cmd, j2, s2, a)
  BY <1>1, <1>2, <1>8, <1>9 DEF JobOK
<1> QED  BY <1>7, <1>10 DEF j2, s2

LEMMA LeaseExpiresSteps ==
    ASSUME IInv, LeaseExpires
    PROVE  IInv'
<1>1. /\ store' = [store EXCEPT !.queue = RunOut(@)]
      /\ job' = [c \in Commands |-> JobRunsOut(command[c], job[c])]
      /\ UNCHANGED <<authority, command, work, grants, rework>>
  BY DEF LeaseExpires, Posted, JobRunsOut
<1>2. store \in Store /\ Good(store.queue) /\ store.queue \in Queue
  BY DEF IInv, TypeOK, Store
<1>3. store' \in Store /\ Good(store'.queue)
  <2>1. RunOut(store.queue) \in Queue /\ Good(RunOut(store.queue))
    BY <1>2, RunOutFacts
  <2> QED  BY <1>1, <1>2, <2>1 DEF Store
<1>4. ASSUME NEW c \in Commands
      PROVE  /\ JobRunsOut(command[c], job[c]) \in Job
             /\ JobOK(command[c], JobRunsOut(command[c], job[c]),
                      store', authority)
  <2>1. /\ job[c] \in Job /\ authority \in Authority
        /\ JobOK(command[c], job[c], store, authority)
    BY JobFacts
  <2> QED  BY <1>1, <1>2, <2>1, LeaseRunsOutForJob
<1>5. job' \in [Commands -> Job]
  BY <1>1, <1>4
<1>6. TypeOK'
  BY <1>1, <1>3, <1>5 DEF IInv, TypeOK
<1>7. (\A c \in Commands : JobOK(command[c], job[c], store, authority))'
  BY <1>1, <1>4
<1> QED  BY <1>3, <1>6, <1>7 DEF IInv

-----------------------------------------------------------------------------
(* The steps of a job.                                                     *)

LEMMA LoadSteps ==
    ASSUME IInv, NEW c \in Commands, Load(c)
    PROVE  IInv'
<1> DEFINE next == [job[c] EXCEPT !.stage = "loaded", !.source = store,
                                  !.main = authority]
<1>1. /\ job \in [Commands -> Job] /\ job[c] \in Job
      /\ store \in Store /\ authority \in Authority
      /\ job[c].stage = "posted"
  BY DEF IInv, TypeOK, Load
<1>2. /\ next \in Job /\ next.stage = "loaded"
      /\ next.source = store /\ next.main = authority
      /\ next.commit = job[c].commit
  BY <1>1 DEF Job, Stage
<1>3. job' = [job EXCEPT ![c] = next]
  BY <1>1 DEF Load
<1> HIDE DEF next
<1>4. UNCHANGED <<store, authority, command, work, grants, rework>>
  BY DEF Load
<1>5. Snapshot(next, store, authority)
  BY <1>1, <1>2, JobFacts DEF Snapshot
<1>6. JobOK(command[c], next, store, authority)
  BY <1>1, <1>2, <1>5, JobFacts DEF JobOK
<1> QED  BY <1>2, <1>3, <1>4, <1>6, JobFacts, OneJobMoves

\* What a deciding job knows.
LEMMA LoadedJob ==
    ASSUME IInv, NEW c \in Commands, job[c].stage = "loaded"
    PROVE  /\ job[c] \in Job /\ job \in [Commands -> Job]
           /\ command[c] # None /\ Command(command[c])
           /\ Snapshot(job[c], store, authority)
           /\ Good(job[c].source.queue)
           /\ job[c].commit = 0
BY JobFacts DEF IInv, TypeOK, JobOK, Snapshot

\* A plan is made.
LEMMA PlannedStep ==
    ASSUME IInv, NEW c \in Commands, job[c].stage = "loaded",
           NEW queue, NEW settled \in SUBSET Tasks, NEW found \in SUBSET Tasks,
           Planned(c, queue, settled, found), Good(queue),
           NEW plan,
           plan = [queue |-> queue, settled |-> settled, found |-> found],
           command[c].kind # "OWNER" => job[c].main.enabled,
           command[c].kind = "TICK" =>
             TickPlan(command[c], job[c].source.queue, plan),
           command[c].kind = "EVENT" =>
             EventPlan(command[c], job[c].source.queue, plan),
           command[c].kind = "OWNER" =>
             OwnerPlan(command[c], job[c].source.queue, job[c].main.enabled,
                       plan),
           UNCHANGED <<store, authority, command, work, grants, rework>>
    PROVE  IInv'
<1> DEFINE next == [job[c] EXCEPT !.stage = "planned", !.plan = plan]
<1>1. /\ job[c] \in Job /\ job \in [Commands -> Job]
      /\ command[c] # None /\ Command(command[c])
      /\ Snapshot(job[c], store, authority)
      /\ job[c].commit = 0
  BY LoadedJob
<1>2. plan \in Plan /\ plan.queue = queue
  BY DEF Plan, Good
<1>3. /\ next \in Job /\ next.stage = "planned" /\ next.plan = plan
      /\ next.source = job[c].source /\ next.main = job[c].main
      /\ next.commit = 0
  BY <1>1, <1>2 DEF Job, Stage
<1>4. job' = [job EXCEPT ![c] = next]
  BY <1>1 DEF Planned
<1> HIDE DEF next
<1>5. Snapshot(next, store, authority)
  BY <1>1, <1>3 DEF Snapshot
<1>6. PlanOK(command[c], next)
  BY <1>2, <1>3 DEF PlanOK
<1>7. JobOK(command[c], next, store, authority)
  BY <1>1, <1>3, <1>5, <1>6, JobFacts DEF JobOK
<1> QED  BY <1>3, <1>4, <1>7, JobFacts, OneJobMoves

LEMMA AnswerTickSteps ==
    ASSUME IInv, NEW c \in Commands, job[c].stage = "loaded",
           AnswerTick(c),
           UNCHANGED <<store, authority, command, grants, rework>>
    PROVE  IInv'
<1> DEFINE q == job[c].source.queue
<1>1. Over(c)
  BY DEF AnswerTick
<1>2. \/ UNCHANGED work
      \/ /\ Busy(q) /\ q.lock.run = command[c].run
         /\ work' = work \cup {CapsuleOf(q, command[c].run, q.lock.task)}
  BY DEF AnswerTick
<1>3. Good(q) /\ work \in SUBSET Capsule
  BY LoadedJob, JobFacts
<1>4. work' \in SUBSET Capsule
  <2>1. CASE UNCHANGED work
    BY <1>3, <2>1
  <2>2. ASSUME Busy(q), q.lock.run = command[c].run,
               work' = work \cup {CapsuleOf(q, command[c].run, q.lock.task)}
        PROVE  work' \in SUBSET Capsule
    <3>1. q.lock # None
      BY <2>2 DEF Busy
    <3>2. CapsuleOf(q, command[c].run, q.lock.task) \in Capsule
      BY <1>3, <2>2, <3>1, CapsuleOfHolder
    <3> QED  BY <1>3, <2>2, <3>2
  <2> QED  BY <1>2, <2>1, <2>2
<1> QED  BY <1>1, <1>4, OverStep

LEMMA PlanTickSteps ==
    ASSUME IInv, NEW c \in Commands, job[c].stage = "loaded",
           command[c].kind = "TICK", PlanTick(c),
           UNCHANGED <<store, authority, command, grants, rework>>
    PROVE  IInv'
<1> DEFINE cmd == command[c]
           q == job[c].source.queue
           Image(drifted) == ResumeDrifted(RecoverExpiredLock(q), drifted)
<1>1. /\ Command(cmd) /\ Good(q) /\ cmd.run \in Runs
  BY LoadedJob DEF Command, TickCommand, EventCommand, OwnerCommand
<1>2. job[c].main.enabled /\ MayTick(cmd, q) /\ ~Busy(q) /\ UNCHANGED work
  BY DEF PlanTick
<1>3. PICK scope \in Scopes(cmd) : \E drifted \in SUBSET ParkedNoProgress(q) :
        /\ Image(drifted).lock = None
        /\ drifted \subseteq scope[1]
        /\ \A t \in drifted : \E rev \in Revs :
             rev # q.tasks[t].candidate.rev
        /\ \/ /\ SelectionClass(Image(drifted), scope[2]) = {}
              /\ Image(drifted) # q
              /\ Planned(c, Image(drifted), drifted, {})
           \/ \E t \in Tasks :
                /\ Selects(Image(drifted), scope[2], t)
                /\ Planned(c, AcquireTask(Image(drifted), t, cmd.run),
                           drifted, {})
           \/ \E t \in Tasks \ drifted,
                 blocker \in {"INTEGRATED", "CLOSED"} :
                /\ Selects(Image(drifted), scope[2], t)
                /\ Image(drifted).tasks[t].candidate # None
                /\ Image(drifted).tasks[t].status = "ACTIVE"
                /\ Planned(c, ParkTerminalTarget(Image(drifted), t, blocker),
                           drifted, {})
  BY DEF PlanTick
<1>4. PICK drifted \in SUBSET ParkedNoProgress(q) :
        /\ Image(drifted).lock = None
        /\ drifted \subseteq scope[1]
        /\ \A t \in drifted : \E rev \in Revs :
             rev # q.tasks[t].candidate.rev
        /\ \/ /\ SelectionClass(Image(drifted), scope[2]) = {}
              /\ Planned(c, Image(drifted), drifted, {})
           \/ \E t \in Tasks :
                /\ Selects(Image(drifted), scope[2], t)
                /\ Planned(c, AcquireTask(Image(drifted), t, cmd.run),
                           drifted, {})
           \/ \E t \in Tasks \ drifted,
                 blocker \in {"INTEGRATED", "CLOSED"} :
                /\ Selects(Image(drifted), scope[2], t)
                /\ Image(drifted).tasks[t].candidate # None
                /\ Image(drifted).tasks[t].status = "ACTIVE"
                /\ Planned(c, ParkTerminalTarget(Image(drifted), t, blocker),
                           drifted, {})
  BY <1>3
<1>5. drifted \in SUBSET Tasks
  BY DEF ParkedNoProgress
<1>6. cmd.run \in InteractiveRuns => cmd.native
  BY <1>2 DEF MayTick
<1>7. ASSUME NEW queue, Planned(c, queue, drifted, {}),
             \/ /\ SelectionClass(Image(drifted), scope[2]) = {}
                /\ queue = Image(drifted)
             \/ \E t \in Tasks :
                  /\ Selects(Image(drifted), scope[2], t)
                  /\ queue = AcquireTask(Image(drifted), t, cmd.run)
             \/ \E t \in Tasks \ drifted,
                   blocker \in {"INTEGRATED", "CLOSED"} :
                  /\ Selects(Image(drifted), scope[2], t)
                  /\ Image(drifted).tasks[t].candidate # None
                  /\ Image(drifted).tasks[t].status = "ACTIVE"
                  /\ queue = ParkTerminalTarget(Image(drifted), t, blocker)
      PROVE  IInv'
  <2> DEFINE plan == [queue |-> queue, settled |-> drifted, found |-> {}]
  <2>1. plan.queue = queue /\ plan.settled = drifted /\ plan.found = {}
    OBVIOUS
  <2>2. plan = [queue |-> queue, settled |-> drifted, found |-> {}]
    OBVIOUS
  <2> HIDE DEF plan
  <2>3. TickPlan(cmd, q, plan)
    BY <1>2, <1>4, <1>6, <1>7, <2>1 DEF TickPlan
  <2>4. Good(queue)
    BY <1>1, <2>1, <2>3, TickPlanIsGood
  <2>5. cmd.kind # "EVENT" /\ cmd.kind # "OWNER"
    OBVIOUS
  <2> QED  BY <1>2, <1>5, <1>7, <2>2, <2>3, <2>4, <2>5, PlannedStep
<1> QED  BY <1>4, <1>7

LEMMA PlanEventSteps ==
    ASSUME IInv, NEW c \in Commands, job[c].stage = "loaded",
           command[c].kind = "EVENT", PlanEvent(c),
           UNCHANGED <<store, authority, command, grants, rework>>
    PROVE  IInv'
<1> DEFINE cmd == command[c]
           q == job[c].source.queue
           t == cmd.capsule.task
           task == q.tasks[t]
<1>1. /\ Command(cmd) /\ Good(q)
  BY LoadedJob
<1>2. job[c].main.enabled /\ Bound(cmd, q) /\ UNCHANGED work
  BY DEF PlanEvent
<1>3. Held(q, cmd.run, t) /\ t \in Tasks
  BY <1>1, <1>2, GoodFacts DEF Bound, HolderOf, Held, Lock
<1>4. PICK live \in Candidate :
        \/ /\ Drifted(cmd, task, live)
           /\ live.pr = task.candidate.pr
           /\ Planned(c, Release([q EXCEPT !.tasks[t] = DriftToRepair(@)]),
                      {t}, {})
        \/ /\ ~Drifted(cmd, task, live)
           /\ Accepts(cmd, t, task, live)
           /\ Planned(c, AfterEvent(q, cmd.run, t, cmd.event,
                                    Effect(cmd, t, task)),
                      IF Settles(cmd, task) THEN {t} ELSE {},
                      IF Finds(cmd) THEN {t} ELSE {})
  BY DEF PlanEvent
<1>5. ASSUME NEW queue, NEW settled \in SUBSET Tasks,
             NEW found \in SUBSET Tasks, Planned(c, queue, settled, found),
             NEW plan,
             plan = [queue |-> queue, settled |-> settled, found |-> found],
             EventPlan(cmd, q, plan)
      PROVE  IInv'
  <2>1. Good(queue)
    BY <1>1, <1>5, EventPlanIsGood
  <2>2. cmd.kind # "TICK" /\ cmd.kind # "OWNER"
    OBVIOUS
  <2> QED  BY <1>2, <1>5, <2>1, <2>2, PlannedStep
<1>6. CASE Drifted(cmd, task, live)
  <2> DEFINE queue == Release([q EXCEPT !.tasks[t] = DriftToRepair(@)])
             settled == {t}
             found == {}
             plan == [queue |-> queue, settled |-> settled, found |-> found]
  <2>1. /\ Planned(c, queue, settled, found) /\ live.pr = task.candidate.pr
        /\ settled \in SUBSET Tasks /\ found \in SUBSET Tasks
    BY <1>3, <1>4, <1>6
  <2>2. /\ plan.queue = queue /\ plan.settled = {t} /\ plan.found = {}
        /\ plan = [queue |-> queue, settled |-> settled, found |-> found]
    OBVIOUS
  <2> HIDE DEF plan
  <2>3. EventPlan(cmd, q, plan)
    BY <1>3, <1>6, <2>1, <2>2 DEF EventPlan, DriftPlan
  <2> HIDE DEF queue, settled, found
  <2> QED  BY <1>5, <2>1, <2>2, <2>3
<1>7. CASE ~Drifted(cmd, task, live)
  <2> DEFINE queue == AfterEvent(q, cmd.run, t, cmd.event, Effect(cmd, t, task))
             settled == IF Settles(cmd, task) THEN {t} ELSE {}
             found == IF Finds(cmd) THEN {t} ELSE {}
             plan == [queue |-> queue, settled |-> settled, found |-> found]
  <2>1. /\ Planned(c, queue, settled, found) /\ Accepts(cmd, t, task, live)
        /\ settled \in SUBSET Tasks /\ found \in SUBSET Tasks
    BY <1>3, <1>4, <1>7
  <2>2. /\ plan.queue = queue /\ plan.settled = settled /\ plan.found = found
        /\ plan = [queue |-> queue, settled |-> settled, found |-> found]
    OBVIOUS
  <2> HIDE DEF plan
  <2>3. EventPlan(cmd, q, plan)
    BY <1>3, <1>7, <2>1, <2>2 DEF EventPlan, ReportPlan
  <2> HIDE DEF queue, settled, found
  <2> QED  BY <1>5, <2>1, <2>2, <2>3
<1> QED  BY <1>6, <1>7

LEMMA PlanOwnerSteps ==
    ASSUME IInv, NEW c \in Commands, job[c].stage = "loaded",
           command[c].kind = "OWNER", PlanOwner(c),
           UNCHANGED <<store, authority, command, grants, rework>>
    PROVE  IInv'
<1> DEFINE cmd == command[c]
           q == job[c].source.queue
           enabled == job[c].main.enabled
           queue == AfterAdministration(q, cmd.task,
                                        Operated(cmd, q.tasks[cmd.task]))
           settled == IF cmd.operation = "FINALIZE_INTEGRATED" THEN {}
                      ELSE {cmd.task}
           plan == [queue |-> queue, settled |-> settled, found |-> {}]
<1>1. /\ Command(cmd) /\ Good(q)
  BY LoadedJob
<1>2. /\ CanOperate(cmd, q, enabled) /\ UNCHANGED work
      /\ Planned(c, queue, settled, {})
  BY DEF PlanOwner
<1>3. /\ plan.queue = queue /\ plan.settled = settled /\ plan.found = {}
      /\ plan = [queue |-> queue, settled |-> settled, found |-> {}]
  OBVIOUS
<1> HIDE DEF plan
<1>4. OwnerPlan(cmd, q, enabled, plan)
  BY <1>2, <1>3 DEF OwnerPlan
<1> HIDE DEF queue
<1>5. Good(queue) /\ cmd.task \in Tasks
  BY <1>1, <1>3, <1>4, OwnerPlanIsGood
<1>6. settled \in SUBSET Tasks
  BY <1>5
<1> HIDE DEF settled
<1>7. cmd.kind # "TICK" /\ cmd.kind # "EVENT"
  OBVIOUS
<1> QED  BY <1>2, <1>3, <1>4, <1>5, <1>6, <1>7, PlannedStep

LEMMA DecideSteps ==
    ASSUME IInv, NEW c \in Commands, Decide(c)
    PROVE  IInv'
<1>1. /\ job[c].stage = "loaded"
      /\ UNCHANGED <<store, authority, command, grants, rework>>
  BY DEF Decide
<1>2. CASE RefuseEvent(c) \/ RefuseOwner(c)
  <2>1. Over(c) /\ UNCHANGED work
    BY <1>2 DEF RefuseEvent, RefuseOwner
  <2> QED  BY <1>1, <2>1, JobFacts, OverStep
<1> QED
  BY <1>1, <1>2, AnswerTickSteps, PlanTickSteps, PlanEventSteps,
     PlanOwnerSteps
  DEF Decide

LEMMA RecheckSteps ==
    ASSUME IInv, NEW c \in Commands, Recheck(c)
    PROVE  IInv'
<1>1. /\ job[c].stage = "planned"
      /\ UNCHANGED <<store, authority, command, work, grants, rework>>
  BY DEF Recheck
<1>2. CASE Over(c)
  BY <1>1, <1>2, JobFacts, OverStep
<1>3. CASE job' = [job EXCEPT ![c].stage = "checked"]
  <2> DEFINE next == [job[c] EXCEPT !.stage = "checked"]
  <2>1. job[c] \in Job /\ job \in [Commands -> Job]
    BY DEF IInv, TypeOK
  <2>2. /\ next \in Job /\ next.stage = "checked"
        /\ next.commit = job[c].commit /\ next.source = job[c].source
        /\ next.main = job[c].main /\ next.plan = job[c].plan
        /\ job' = [job EXCEPT ![c] = next]
    BY <1>3, <2>1 DEF Job, Stage
  <2> HIDE DEF next
  <2>3. JobOK(command[c], next, store, authority)
    BY <1>1, <2>2, JobFacts DEF JobOK, Snapshot, PlanOK
  <2> QED  BY <1>1, <2>2, <2>3, JobFacts, OneJobMoves
<1> QED  BY <1>2, <1>3 DEF Recheck

\* What a commit is: a good plan, made on the present queue under the present
\* authority, takes effect.
LEMMA CommitFacts ==
    ASSUME IInv, NEW c \in Commands, Commit(c)
    PROVE  /\ job[c].stage = "checked" /\ job[c].commit = 0
           /\ Command(command[c]) /\ command[c] # None
           /\ job[c].source.queue = store.queue
           /\ job[c].source.version = store.version
           /\ job[c].main = authority
           /\ PlanOK(command[c], job[c])
           /\ job[c].plan \in Plan /\ Good(job[c].plan.queue)
           /\ store' = [version |-> store.version + 1,
                        queue |-> job[c].plan.queue]
           /\ job' = [job EXCEPT ![c] = Ended(store.version + 1)]
           /\ UNCHANGED <<authority, command>>
<1>1. /\ job[c].stage = "checked" /\ Unmoved(c)
      /\ store' = [version |-> store.version + 1,
                   queue |-> job[c].plan.queue]
      /\ job' = [job EXCEPT ![c] = Ended(store.version + 1)]
      /\ UNCHANGED <<authority, command>>
  BY DEF Commit
<1>2. /\ Snapshot(job[c], store, authority) /\ PlanOK(command[c], job[c])
      /\ job[c].commit = 0
      /\ Command(command[c]) /\ command[c] # None
  BY <1>1, JobFacts DEF JobOK
<1> QED  BY <1>1, <1>2 DEF Unmoved, Snapshot, PlanOK

LEMMA CommitSteps ==
    ASSUME IInv, NEW c \in Commands, Commit(c)
    PROVE  IInv'
<1> DEFINE plan == job[c].plan
           q == plan.queue
           n == store.version + 1
<1>1. /\ plan \in Plan /\ Good(q) /\ q \in Queue
      /\ plan.settled \in SUBSET Tasks /\ plan.found \in SUBSET Tasks
      /\ Command(command[c]) /\ command[c] # None
      /\ store' = [version |-> n, queue |-> q]
      /\ job' = [job EXCEPT ![c] = Ended(n)]
      /\ UNCHANGED <<authority, command>>
  BY CommitFacts DEF Good, Plan
<1>2. n \in Nat /\ store' \in Store /\ store'.version = n /\ store'.queue = q
  BY <1>1, JobFacts DEF Store
<1>3. work' \in SUBSET Capsule
  <2>1. \/ UNCHANGED work
        \/ /\ q.lock # None
           /\ work' = work \cup {CapsuleOf(q, q.lock.run, q.lock.task)}
    BY DEF Commit
  <2>2. q.lock # None => CapsuleOf(q, q.lock.run, q.lock.task) \in Capsule
    BY <1>1, CapsuleOfHolder
  <2> QED  BY <2>1, <2>2, JobFacts
<1>4. grants' \in [Runs -> Nat]
  <2>1. grants' = IF command[c].kind = "TICK" /\ q.lock # None
                  THEN [grants EXCEPT ![command[c].run] = @ + 1]
                  ELSE grants
    BY DEF Commit
  <2>2. grants \in [Runs -> Nat]
    BY JobFacts
  <2>3. command[c].kind = "TICK" => command[c].run \in Runs
    BY <1>1 DEF Command, TickCommand
  <2> QED  BY <2>1, <2>2, <2>3
<1>5. rework' \in [Tasks -> 0 .. MaxRework]
  <2>1. rework' = [t \in Tasks |->
                     IF t \in plan.settled THEN 0
                     ELSE IF t \in plan.found /\ rework[t] < MaxRework
                     THEN rework[t] + 1
                     ELSE rework[t]]
    BY DEF Commit
  <2>2. rework \in [Tasks -> 0 .. MaxRework]
    BY JobFacts
  <2> QED  BY <2>1, <2>2 DEF MaxRework
<1>6. /\ Ended(n) \in Job /\ Ended(n).stage = "over" /\ Ended(n).commit = n
  BY <1>2, EndedJob
<1>7. JobOK(command[c], Ended(n), store', authority')
  <2>1. n <= store'.version
    BY <1>2
  <2> HIDE DEF n
  <2> QED  BY <1>1, <1>6, <2>1 DEF JobOK
<1>8. StoreAhead(store, store') /\ AuthorityAhead(authority, authority')
      /\ authority' \in Authority
  BY <1>1, <1>2, JobFacts DEF StoreAhead, AuthorityAhead
<1> HIDE DEF n, q, plan
<1> QED
  BY <1>1, <1>2, <1>3, <1>4, <1>5, <1>6, <1>7, <1>8, OneJobMoves

LEMMA LoseRaceSteps ==
    ASSUME IInv, NEW c \in Commands, LoseRace(c)
    PROVE  IInv'
BY JobFacts, OverStep DEF LoseRace

\* Every step, and every stutter, keeps the invariant.
LEMMA NextSteps == IInv /\ [Next]_vars => IInv'
<1> SUFFICES ASSUME IInv, [Next]_vars PROVE IInv'
  OBVIOUS
<1>1. CASE UNCHANGED vars
  <2>1. UNCHANGED <<store, authority, command, job, work, grants, rework>>
    BY <1>1 DEF vars
  <2>2. TypeOK' /\ Good(store'.queue)
    BY <2>1 DEF IInv, TypeOK
  <2>3. (\A c \in Commands : JobOK(command[c], job[c], store, authority))'
    BY <2>1 DEF IInv
  <2> QED  BY <2>2, <2>3 DEF IInv
<1>2. CASE World
  BY <1>2, PostTickSteps, PostEventSteps, PostOwnerSteps, AgesSteps,
     LeaseExpiresSteps, PublishSteps
  DEF World
<1>3. ASSUME NEW c \in Commands,
             Load(c) \/ Decide(c) \/ Recheck(c) \/ Commit(c) \/ LoseRace(c)
      PROVE  IInv'
  BY <1>3, LoadSteps, DecideSteps, RecheckSteps, CommitSteps, LoseRaceSteps
<1> QED  BY <1>1, <1>2, <1>3 DEF Next

\* The inductive invariant: every job holds a sound snapshot and a plan that
\* is what its command makes of it.
THEOREM Invariant == Spec => []IInv
BY InitIsOK, NextSteps, PTL DEF Spec

\* TypeOK: the branches, commands, jobs and WORK keep their shape; what a
\* transition writes is a queue again, whatever the command and its snapshot.
THEOREM Typed == Spec => []TypeOK
<1>1. IInv => TypeOK
  BY DEF IInv
<1> QED  BY <1>1, Invariant, PTL

-----------------------------------------------------------------------------
(* What a step may do.                                                     *)

\* What every step that is no commit and no expiry leaves to a job: its
\* commit, its end, its command, and the snapshot its plan was made on; a TICK
\* that has just made a plan has seen no later command.
Quiet(c) ==
    /\ job'[c].commit = job[c].commit
    /\ job[c].stage = "over" => job'[c].stage = "over"
    /\ Posted(c) => command'[c] = command[c]
    /\ job'[c].stage \in {"planned", "checked"} =>
         /\ Posted(c)
         /\ job'[c].source.version = job[c].source.version
         /\ \/ job[c].stage \in {"planned", "checked"}
            \/ command[c].kind = "TICK" => ~Superseded(c)

\* A job that does not move is quiet, and so is one that ends without commit.
LEMMA QuietJobs ==
    ASSUME IInv, NEW c \in Commands, UNCHANGED command,
           \/ UNCHANGED job
           \/ job[c].stage \notin {"unposted", "over"} /\ Over(c)
    PROVE  \A d \in Commands : Quiet(d)
<1>1. job \in [Commands -> Job]
  BY DEF IInv, TypeOK
<1>2. ASSUME NEW d \in Commands
      PROVE  job[d].stage \in {"planned", "checked"} => Posted(d)
  BY JobFacts DEF JobOK, Posted
<1>3. CASE UNCHANGED job
  BY <1>2, <1>3 DEF Quiet
<1>4. ASSUME job[c].stage \notin {"unposted", "over"}, Over(c),
             NEW d \in Commands
      PROVE  Quiet(d)
  <2>1. CASE d = c
    <3>1. job'[c] = Ended(0) /\ job[c].commit = 0
      BY <1>1, <1>4, JobFacts DEF Over, JobOK
    <3>2. Ended(0).stage = "over" /\ Ended(0).commit = 0
      BY EndedJob
    <3> QED  BY <2>1, <3>1, <3>2 DEF Quiet
  <2>2. CASE d # c
    <3>1. job'[d] = job[d]
      BY <1>1, <1>4, <2>2 DEF Over
    <3> QED  BY <1>2, <3>1 DEF Quiet
  <2> QED  BY <2>1, <2>2
<1> QED  BY <1>3, <1>4

\* A job that moves on is quiet.
LEMMA QuietMove ==
    ASSUME IInv, NEW c \in Commands, NEW next,
           job' = [job EXCEPT ![c] = next],
           next.commit = job[c].commit, job[c].stage # "over",
           UNCHANGED command \/ ~Posted(c),
           \A d \in Commands \ {c} : command'[d] = command[d],
           next.stage \in {"planned", "checked"} =>
             /\ job[c].stage \in {"loaded", "planned"}
             /\ next.source = job[c].source
             /\ \/ job[c].stage = "planned"
                \/ command[c].kind = "TICK" => ~Superseded(c)
    PROVE  \A d \in Commands : Quiet(d)
<1>1. job \in [Commands -> Job]
  BY DEF IInv, TypeOK
<1>2. ASSUME NEW d \in Commands
      PROVE  job[d].stage \in {"loaded", "planned", "checked"} => Posted(d)
  BY JobFacts DEF JobOK, Posted
<1>3. Quiet(c)
  BY <1>1, <1>2 DEF Quiet
<1>4. ASSUME NEW d \in Commands \ {c}
      PROVE  Quiet(d)
  <2>1. job'[d] = job[d]
    BY <1>1
  <2> QED  BY <1>2, <2>1 DEF Quiet
<1> QED  BY <1>3, <1>4

LEMMA QuietPost ==
    ASSUME IInv, NEW cmd, Post(cmd)
    PROVE  /\ \A d \in Commands : Quiet(d)
           /\ UNCHANGED <<store, grants, rework>>
<1>1. PICK c \in Commands :
        /\ ~Posted(c)
        /\ command' = [command EXCEPT ![c] = cmd]
        /\ job' = [job EXCEPT ![c].stage = "posted"]
        /\ UNCHANGED <<store, authority, work, grants, rework>>
  BY DEF Post
<1> DEFINE next == [job[c] EXCEPT !.stage = "posted"]
<1>2. /\ job \in [Commands -> Job] /\ job[c] \in Job
      /\ command \in [Commands -> TickCommand \cup EventCommand
                                    \cup OwnerCommand \cup {None}]
      /\ job[c].stage = "unposted"
  BY <1>1, JobFacts DEF IInv, TypeOK, JobOK, Posted
<1>3. /\ next.stage = "posted" /\ next.commit = job[c].commit
      /\ job' = [job EXCEPT ![c] = next]
  BY <1>1, <1>2 DEF Job
<1> HIDE DEF next
<1>4. \A d \in Commands \ {c} : command'[d] = command[d]
  BY <1>1, <1>2
<1>5. \A d \in Commands : Quiet(d)
  BY <1>1, <1>2, <1>3, <1>4, QuietMove
<1> QED  BY <1>1, <1>5

LEMMA QuietPlanned ==
    ASSUME IInv, NEW c \in Commands, job[c].stage = "loaded",
           UNCHANGED command, NEW queue, NEW settled, NEW found,
           Planned(c, queue, settled, found),
           command[c].kind = "TICK" => ~Superseded(c)
    PROVE  \A d \in Commands : Quiet(d)
<1> DEFINE plan == [queue |-> queue, settled |-> settled, found |-> found]
           next == [job[c] EXCEPT !.stage = "planned", !.plan = plan]
<1>1. job \in [Commands -> Job] /\ job[c] \in Job
  BY DEF IInv, TypeOK
<1>2. job' = [job EXCEPT ![c] = next]
  BY <1>1 DEF Planned
<1> HIDE DEF plan
<1>3. /\ next.stage = "planned" /\ next.commit = job[c].commit
      /\ next.source = job[c].source
  BY <1>1 DEF Job
<1> HIDE DEF next
<1> QED  BY <1>2, <1>3, QuietMove

LEMMA QuietDecide ==
    ASSUME IInv, NEW c \in Commands, Decide(c)
    PROVE  \A d \in Commands : Quiet(d)
<1>1. job[c].stage = "loaded" /\ UNCHANGED command
  BY DEF Decide
<1>2. CASE Over(c)
  BY <1>1, <1>2, QuietJobs
<1>3. ASSUME command[c].kind = "TICK", PlanTick(c)
      PROVE  \A d \in Commands : Quiet(d)
  <2>1. ~Superseded(c)
    BY <1>3 DEF PlanTick
  <2>2. \E queue, settled, found : Planned(c, queue, settled, found)
    BY <1>3 DEF PlanTick
  <2> QED  BY <1>1, <2>1, <2>2, QuietPlanned
<1>4. ASSUME command[c].kind = "EVENT", PlanEvent(c)
      PROVE  \A d \in Commands : Quiet(d)
  <2>1. \E queue, settled, found : Planned(c, queue, settled, found)
    BY <1>4 DEF PlanEvent
  <2> QED  BY <1>1, <1>4, <2>1, QuietPlanned
<1>5. ASSUME command[c].kind = "OWNER", PlanOwner(c)
      PROVE  \A d \in Commands : Quiet(d)
  <2>1. \E queue, settled, found : Planned(c, queue, settled, found)
    BY <1>5 DEF PlanOwner
  <2> QED  BY <1>1, <1>5, <2>1, QuietPlanned
<1>6. AnswerTick(c) \/ RefuseEvent(c) \/ RefuseOwner(c) => Over(c)
  BY DEF AnswerTick, RefuseEvent, RefuseOwner
<1> QED  BY <1>2, <1>3, <1>4, <1>5, <1>6 DEF Decide

\* A step is a commit, the expiry of the lease, or quiet.
LEMMA StepKinds ==
    ASSUME IInv, [Next]_vars
    PROVE  \/ LeaseExpires
           \/ \E c \in Commands : Commit(c)
           \/ /\ UNCHANGED <<store, grants, rework>>
              /\ \A c \in Commands : Quiet(c)
<1> DEFINE AllQuiet == /\ UNCHANGED <<store, grants, rework>>
                       /\ \A c \in Commands : Quiet(c)
<1>1. CASE UNCHANGED <<job, command, store, grants, rework>>
  <2>1. ASSUME NEW d \in Commands
        PROVE  Quiet(d)
    BY <1>1, <2>1, QuietJobs
  <2> QED  BY <1>1, <2>1
<1>2. CASE UNCHANGED vars
  BY <1>1, <1>2 DEF vars
<1>3. CASE PostTick
  <2>1. \E cmd : Post(cmd)
    BY <1>3 DEF PostTick
  <2> QED  BY <2>1, QuietPost
<1>4. CASE PostEvent
  <2>1. \E cmd : Post(cmd)
    BY <1>4 DEF PostEvent
  <2> QED  BY <2>1, QuietPost
<1>5. CASE PostOwner
  <2>1. \E cmd : Post(cmd)
    BY <1>5 DEF PostOwner
  <2> QED  BY <2>1, QuietPost
<1>6. CASE Publish
  <2>1. UNCHANGED <<job, command, store, grants, rework>>
    BY <1>6 DEF Publish
  <2> QED  BY <1>1, <2>1
<1>7. ASSUME NEW c \in Commands
      PROVE  /\ job[c] \in Job /\ job \in [Commands -> Job]
  BY DEF IInv, TypeOK
<1>8. ASSUME NEW c \in Commands, Ages(c)
      PROVE  AllQuiet
  <2> DEFINE next == [job[c] EXCEPT !.fresh = FALSE]
  <2>1. /\ next.stage = job[c].stage /\ next.commit = job[c].commit
        /\ next.source = job[c].source /\ job' = [job EXCEPT ![c] = next]
    BY <1>7, <1>8 DEF Ages, Job
  <2>2. UNCHANGED <<command, store, grants, rework>>
        /\ job[c].stage # "over" /\ Posted(c)
    BY <1>8 DEF Ages, Awaited
  <2> HIDE DEF next
  <2>3. ASSUME NEW d \in Commands
        PROVE  job[d].stage \in {"planned", "checked"} => Posted(d)
    BY JobFacts DEF JobOK, Posted
  <2>4. ASSUME NEW d \in Commands
        PROVE  Quiet(d)
    <3>1. CASE d = c
      BY <1>7, <2>1, <2>2, <2>3, <3>1 DEF Quiet
    <3>2. CASE d # c
      <4>1. job'[d] = job[d]
        BY <1>7, <2>1, <3>2
      <4> QED  BY <2>2, <2>3, <4>1 DEF Quiet
    <3> QED  BY <3>1, <3>2
  <2> QED  BY <2>2, <2>4
<1>9. ASSUME NEW c \in Commands, Load(c)
      PROVE  AllQuiet
  <2> DEFINE next == [job[c] EXCEPT !.stage = "loaded", !.source = store,
                                    !.main = authority]
  <2>1. /\ next.stage = "loaded" /\ next.commit = job[c].commit
        /\ job' = [job EXCEPT ![c] = next]
    BY <1>7, <1>9 DEF Load, Job
  <2>2. UNCHANGED <<command, store, grants, rework>>
        /\ job[c].stage = "posted"
    BY <1>9 DEF Load
  <2> HIDE DEF next
  <2>3. \A d \in Commands : Quiet(d)
    BY <2>1, <2>2, QuietMove
  <2> QED  BY <2>2, <2>3
<1>10. ASSUME NEW c \in Commands, Decide(c)
       PROVE  AllQuiet
  <2>1. UNCHANGED <<store, grants, rework>>
    BY <1>10 DEF Decide
  <2> QED  BY <1>10, <2>1, QuietDecide
<1>11. ASSUME NEW c \in Commands, Recheck(c)
       PROVE  AllQuiet
  <2>1. UNCHANGED <<command, store, grants, rework>>
        /\ job[c].stage = "planned"
    BY <1>11 DEF Recheck
  <2>2. CASE Over(c)
    BY <2>1, <2>2, QuietJobs
  <2>3. CASE job' = [job EXCEPT ![c].stage = "checked"]
    <3> DEFINE next == [job[c] EXCEPT !.stage = "checked"]
    <3>1. /\ next.stage = "checked" /\ next.commit = job[c].commit
          /\ next.source = job[c].source
          /\ job' = [job EXCEPT ![c] = next]
      BY <1>7, <2>3 DEF Job
    <3> HIDE DEF next
    <3>2. \A d \in Commands : Quiet(d)
      BY <2>1, <3>1, QuietMove
    <3> QED  BY <2>1, <3>2
  <2> QED  BY <1>11, <2>2, <2>3 DEF Recheck
<1>12. ASSUME NEW c \in Commands, LoseRace(c)
       PROVE  AllQuiet
  <2>1. UNCHANGED <<command, store, grants, rework>>
        /\ job[c].stage = "checked" /\ Over(c)
    BY <1>12 DEF LoseRace
  <2> QED  BY <2>1, QuietJobs
<1> QED
  BY <1>2, <1>3, <1>4, <1>5, <1>6, <1>8, <1>9, <1>10, <1>11, <1>12
  DEF Next, World

-----------------------------------------------------------------------------
(* The order of the commits.                                               *)

\* What the expiry of the lease leaves to a job.
LEMMA ExpiryFacts ==
    ASSUME IInv, LeaseExpires, NEW c \in Commands
    PROVE  /\ job'[c].commit = job[c].commit /\ job'[c].stage = job[c].stage
           /\ command' = command
           /\ job[c].stage \in {"loaded", "planned", "checked"} =>
                job'[c].source.version = job[c].source.version
<1>1. job[c] \in Job
  BY DEF IInv, TypeOK
<1>2. /\ job'[c] = [job[c] EXCEPT
                      !.source = RunOutIn(job[c].source),
                      !.plan = IF Posted(c) /\ command[c].kind = "EVENT"
                               THEN RunOutIn(job[c].plan)
                               ELSE job[c].plan]
      /\ command' = command
  BY DEF LeaseExpires
<1>3. /\ job'[c].commit = job[c].commit /\ job'[c].stage = job[c].stage
      /\ job'[c].source = RunOutIn(job[c].source)
  BY <1>1, <1>2 DEF Job
<1>4. ASSUME job[c].stage \in {"loaded", "planned", "checked"}
      PROVE  RunOutIn(job[c].source).version = job[c].source.version
  <2>1. job[c].source \in Store
    BY <1>4, JobFacts DEF JobOK, Snapshot
  <2>2. job[c].source # None
    BY <2>1, NoneIsNoRecord
  <2>3. RunOutIn(job[c].source) =
          [job[c].source EXCEPT !.queue = RunOut(job[c].source.queue)]
    BY <2>2 DEF RunOutIn
  <2> QED  BY <2>1, <2>3 DEF Store
<1> QED  BY <1>2, <1>3, <1>4

\* A job with a commit has a command, and its commit is in the branch.
LEMMA CommitterFacts ==
    ASSUME IInv, NEW c \in Commands
    PROVE  /\ job[c].commit \in Nat /\ store.version \in Nat
           /\ job[c].commit <= store.version
           /\ job[c].commit > 0 => Posted(c) /\ job[c].stage = "over"
           /\ job[c].stage \in {"planned", "checked"} =>
                /\ Posted(c)
                /\ job[c].source.version \in Nat
                /\ job[c].source.version <= store.version
<1>1. job[c] \in Job /\ store \in Store
  BY DEF IInv, TypeOK
<1>2. JobOK(command[c], job[c], store, authority)
  BY JobFacts
<1>3. job[c].stage = "over" => Posted(c)
  BY <1>2 DEF JobOK, Posted
<1>4. job[c].commit > 0 => job[c].stage = "over"
  BY <1>2 DEF JobOK
<1>5. ASSUME job[c].stage \in {"planned", "checked"}
      PROVE  /\ Posted(c)
             /\ job[c].source.version \in Nat
             /\ job[c].source.version <= store.version
  BY <1>2, <1>5 DEF JobOK, Posted, Snapshot, Store
<1> QED  BY <1>1, <1>2, <1>3, <1>4, <1>5 DEF Job, Store, JobOK

LEMMA OrderKept == IInv /\ CommitsInOrder /\ [Next]_vars => CommitsInOrder'
<1> SUFFICES ASSUME IInv, CommitsInOrder, [Next]_vars,
                    NEW c \in Commands, NEW d \in Commands, c < d,
                    Posted(c)', Posted(d)', (command[c].kind = "TICK")',
                    (command[d].kind \in {"TICK", "EVENT"})',
                    (command[c].run = command[d].run)',
                    (job[d].commit > 0)'
             PROVE  /\ (job[c].commit > 0 => job[c].commit < job[d].commit)'
                    /\ (job[c].stage \in {"planned", "checked"} =>
                          job[c].source.version < job[d].commit)'
  BY DEF CommitsInOrder
<1> DEFINE Pair(a, b) ==
             /\ Posted(a) /\ Posted(b)
             /\ command[a].kind = "TICK"
             /\ command[b].kind \in {"TICK", "EVENT"}
             /\ command[a].run = command[b].run
             /\ job[b].commit > 0
<1>1. Pair(c, d) => /\ job[c].commit > 0 => job[c].commit < job[d].commit
                    /\ job[c].stage \in {"planned", "checked"} =>
                         job[c].source.version < job[d].commit
  BY DEF CommitsInOrder
<1>2. CASE LeaseExpires
  <2>1. Pair(c, d)
    BY <1>2, ExpiryFacts DEF Posted
  <2> QED  BY <1>1, <1>2, <2>1, ExpiryFacts
<1>3. ASSUME NEW e \in Commands, Commit(e)
      PROVE  /\ (job[c].commit > 0 => job[c].commit < job[d].commit)'
             /\ (job[c].stage \in {"planned", "checked"} =>
                   job[c].source.version < job[d].commit)'
  <2> DEFINE n == store.version + 1
  <2>1. /\ job[e].stage = "checked" /\ job[e].commit = 0
        /\ job[e].source.version = store.version
        /\ job' = [job EXCEPT ![e] = Ended(n)] /\ command' = command
    BY <1>3, CommitFacts
  <2>2. /\ n \in Nat /\ Ended(n).commit = n /\ Ended(n).stage = "over"
        /\ \A x \in Commands : job[x].commit < n
    BY CommitterFacts, EndedJob
  <2>3. job \in [Commands -> Job]
    BY DEF IInv, TypeOK
  <2>4. c # d
    BY CommandsAssumption DEF Commands
  <2> HIDE DEF n
  <2>5. CASE d = e
    <3>1. job'[c] = job[c] /\ job'[d].commit = n
      BY <2>1, <2>2, <2>3, <2>4, <2>5
    <3>2. job[c].stage \in {"planned", "checked"} => job[c].source.version < n
      BY CommitterFacts DEF n
    <3> QED  BY <2>2, <3>1, <3>2
  <2>6. CASE c = e
    <3>1. job'[d] = job[d]
      BY <2>1, <2>3, <2>4, <2>6
    <3>2. Pair(c, d)
      BY <2>1, <2>6, <3>1, CommitterFacts DEF Posted
    <3>3. job[c].source.version < job[d].commit
      BY <1>1, <2>1, <2>6, <3>2
    <3> QED  BY <2>1, <2>6, <3>3, CommitterFacts
  <2>7. CASE c # e /\ d # e
    <3>1. job'[c] = job[c] /\ job'[d] = job[d]
      BY <2>1, <2>3, <2>7
    <3>2. Pair(c, d)
      BY <2>1, <3>1 DEF Posted
    <3> QED  BY <1>1, <3>1, <3>2
  <2> QED  BY <2>5, <2>6, <2>7
<1>4. CASE \A x \in Commands : Quiet(x)
  <2>1. /\ job'[d].commit = job[d].commit /\ job'[c].commit = job[c].commit
        /\ Quiet(c) /\ Quiet(d)
    BY <1>4 DEF Quiet
  <2>2. Posted(d) /\ command'[d] = command[d]
    BY <2>1, CommitterFacts DEF Quiet
  <2>3. ASSUME Posted(c)
        PROVE  Pair(c, d)
    BY <2>1, <2>2, <2>3 DEF Quiet
  <2>4. job'[c].commit > 0 => job'[c].commit < job'[d].commit
    BY <1>1, <2>1, <2>3, CommitterFacts
  <2>5. ASSUME job'[c].stage \in {"planned", "checked"}
        PROVE  job'[c].source.version < job'[d].commit
    <3>1. /\ Posted(c) /\ Pair(c, d)
          /\ job'[c].source.version = job[c].source.version
          /\ \/ job[c].stage \in {"planned", "checked"}
             \/ ~Superseded(c)
      BY <2>1, <2>3, <2>5 DEF Quiet
    <3>2. Superseded(c)
      BY <3>1 DEF Superseded
    <3> QED  BY <1>1, <2>1, <3>1, <3>2
  <2> QED  BY <2>4, <2>5
<1> QED  BY <1>2, <1>3, <1>4, StepKinds

\* TicksKeepTheirPlace: a TICK that has been overtaken by a later command of
\* its run does not take effect after it, however long it was on its way.
THEOREM TicksStayInPlace == Spec => []TicksKeepTheirPlace
<1>1. Init => CommitsInOrder
  BY DEF Init, CommitsInOrder, Posted
<1>2. IInv /\ CommitsInOrder => TicksKeepTheirPlace
  BY CommitterFacts DEF TicksKeepTheirPlace, CommitsInOrder
<1> QED  BY <1>1, <1>2, OrderKept, Invariant, PTL DEF Spec

-----------------------------------------------------------------------------
(* What a commit needs.                                                    *)

\* While a lease is live only its holder's EVENTs commit.
LEMMA BusyCommit ==
    ASSUME IInv, NEW c \in Commands, Commit(c), Busy(store.queue)
    PROVE  /\ command[c].kind = "EVENT"
           /\ command[c].run = store.queue.lock.run
           /\ command[c].capsule.task = store.queue.lock.task
<1> DEFINE cmd == command[c]
           q == store.queue
<1>1. /\ Command(cmd) /\ PlanOK(cmd, job[c]) /\ job[c].source.queue = q
      /\ Good(q)
  BY CommitFacts, JobFacts
<1>2. cmd.kind \in {"TICK", "EVENT", "OWNER"}
  BY <1>1 DEF Command
<1>3. cmd.kind # "TICK"
  BY <1>1 DEF PlanOK, TickPlan
<1>4. cmd.kind # "OWNER"
  BY <1>1, OwnerPlanIsGood DEF PlanOK
<1>5. cmd.kind = "EVENT" /\ EventPlan(cmd, q, job[c].plan)
  BY <1>1, <1>2, <1>3, <1>4 DEF PlanOK
<1> QED  BY <1>5 DEF EventPlan, Held

\* LiveLeaseIsPrivate: as long as the lease of a Runner lives, nobody else
\* changes the queue, not even by a command decided before it was granted.
THEOREM LiveLeaseIsKept == Spec => LiveLeaseIsPrivate
<1> DEFINE Private ==
             Busy(store.queue) /\ store'.version # store.version =>
               \E c \in Commands :
                 /\ job[c].stage = "checked" /\ job'[c].commit = store'.version
                 /\ command[c].kind = "EVENT"
                 /\ command[c].run = store.queue.lock.run
                 /\ command[c].capsule.task = store.queue.lock.task
<1>1. IInv /\ [Next]_vars => Private
  <2> SUFFICES ASSUME IInv, [Next]_vars, Busy(store.queue),
                      store'.version # store.version
               PROVE  \E c \in Commands :
                        /\ job[c].stage = "checked"
                        /\ job'[c].commit = store'.version
                        /\ command[c].kind = "EVENT"
                        /\ command[c].run = store.queue.lock.run
                        /\ command[c].capsule.task = store.queue.lock.task
    OBVIOUS
  <2>1. ~LeaseExpires
    BY JobFacts DEF LeaseExpires, Store, IInv, TypeOK
  <2>2. PICK c \in Commands : Commit(c)
    BY <2>1, StepKinds
  <2>3. /\ job[c].stage = "checked" /\ store'.version = store.version + 1
        /\ job'[c] = Ended(store.version + 1) /\ store.version + 1 \in Nat
    BY <2>2, CommitFacts, JobFacts DEF IInv, TypeOK
  <2>4. job'[c].commit = store'.version
    BY <2>3, EndedJob
  <2> QED  BY <2>2, <2>3, <2>4, BusyCommit
<1>2. IInv /\ [Next]_vars => [Private]_vars
  BY <1>1
<1> QED  BY <1>2, Invariant, PTL DEF Spec, LiveLeaseIsPrivate

\* DisabledRuntimeStandsStill: the moment private main disables the runtime,
\* every command but the owner's administration of a task is without effect.
THEOREM DisabledStandsStill == Spec => DisabledRuntimeStandsStill
<1> DEFINE Still ==
             ~authority.enabled =>
               \A c \in Commands : job'[c].commit # job[c].commit =>
                 /\ command[c].kind = "OWNER"
                 /\ command[c].operation # "COMPLETE_REVIEW"
<1>1. IInv /\ [Next]_vars => Still
  <2> SUFFICES ASSUME IInv, [Next]_vars, ~authority.enabled,
                      NEW c \in Commands, job'[c].commit # job[c].commit
               PROVE  /\ command[c].kind = "OWNER"
                      /\ command[c].operation # "COMPLETE_REVIEW"
    OBVIOUS
  <2>1. ~LeaseExpires /\ ~Quiet(c)
    BY ExpiryFacts DEF Quiet
  <2>2. PICK d \in Commands : Commit(d)
    BY <2>1, StepKinds
  <2>3. d = c
    BY <2>2, CommitFacts DEF IInv, TypeOK
  <2>4. /\ job[c].main = authority /\ PlanOK(command[c], job[c])
        /\ Command(command[c])
    BY <2>2, <2>3, CommitFacts
  <2>5. command[c].kind = "OWNER"
    BY <2>4 DEF PlanOK
  <2>6. CanOperate(command[c], job[c].source.queue, authority.enabled)
    BY <2>4, <2>5 DEF PlanOK, OwnerPlan
  <2>7. command[c].operation # "COMPLETE_REVIEW"
    BY <2>6 DEF CanOperate
  <2> QED  BY <2>5, <2>7
<1>2. IInv /\ [Next]_vars => [Still]_vars
  BY <1>1
<1> QED  BY <1>2, Invariant, PTL DEF Spec, DisabledRuntimeStandsStill

-----------------------------------------------------------------------------
(* The lease, as an implementation of LeaseLock.                           *)

\* A run that has posted its native TICK posts no other, so a grant to an
\* interactive run is the only one it will ever get.
LEMMA NativeKept ==
    IInv /\ OneNativeTick /\ [Next]_vars => OneNativeTick'
<1> SUFFICES ASSUME IInv, OneNativeTick, [Next]_vars
             PROVE  OneNativeTick'
  OBVIOUS
<1>1. CASE UNCHANGED command
  BY <1>1 DEF OneNativeTick, NativeTick, Posted
<1>2. CASE UNCHANGED vars
  BY <1>1, <1>2 DEF vars
<1>3. ASSUME NEW cmd, Post(cmd),
             cmd.kind = "TICK" /\ cmd.native =>
               \A c \in Commands :
                 ~(Posted(c) /\ command[c].kind = "TICK"
                             /\ command[c].run = cmd.run)
      PROVE  OneNativeTick'
  <2>1. PICK e \in Commands :
          ~Posted(e) /\ command' = [command EXCEPT ![e] = cmd]
    BY <1>3 DEF Post
  <2>2. command'[e] = cmd /\ \A c \in Commands \ {e} : command'[c] = command[c]
    BY <2>1 DEF IInv, TypeOK
  <2>3. ASSUME NEW c \in Commands, NEW d \in Commands,
               NativeTick(c)', NativeTick(d)',
               (command[c].run = command[d].run)'
        PROVE  c = d
    <3>1. CASE c # e /\ d # e
      BY <2>2, <2>3, <3>1 DEF OneNativeTick, NativeTick, Posted
    <3>2. CASE c = e /\ d # e
      BY <1>3, <2>2, <2>3, <3>2 DEF NativeTick, Posted
    <3>3. CASE c # e /\ d = e
      BY <1>3, <2>2, <2>3, <3>3 DEF NativeTick, Posted
    <3> QED  BY <3>1, <3>2, <3>3
  <2> QED  BY <2>3 DEF OneNativeTick
<1>4. CASE PostTick
  <2>1. PICK r \in Runs :
          LET started == \E c \in Commands :
                           Posted(c) /\ command[c].kind = "TICK"
                                     /\ command[c].run = r
          IN  Post([kind |-> "TICK", run |-> r,
                    native |-> r \in InteractiveRuns /\ ~started])
    BY <1>4 DEF PostTick
  <2> DEFINE started == \E c \in Commands :
                          Posted(c) /\ command[c].kind = "TICK"
                                    /\ command[c].run = r
  <2>2. PICK b \in BOOLEAN : b = (r \in InteractiveRuns /\ ~started)
    OBVIOUS
  <2> DEFINE cmd == [kind |-> "TICK", run |-> r, native |-> b]
  <2>3. Post(cmd)
    BY <2>1, <2>2
  <2>4. cmd.kind = "TICK" /\ cmd.native => ~started
    BY <2>2
  <2>5. cmd.run = r
    OBVIOUS
  <2> HIDE DEF cmd
  <2> QED  BY <1>3, <2>3, <2>4, <2>5
<1>5. CASE PostEvent
  <2>1. PICK cmd : Post(cmd) /\ cmd.kind = "EVENT"
    BY <1>5 DEF PostEvent
  <2> QED  BY <1>3, <2>1
<1>6. CASE PostOwner
  <2>1. PICK cmd : Post(cmd) /\ cmd.kind = "OWNER"
    BY <1>6 DEF PostOwner
  <2> QED  BY <1>3, <2>1
<1>7. CASE LeaseExpires \/ Publish
  BY <1>1, <1>7 DEF LeaseExpires, Publish
<1>8. ASSUME NEW c \in Commands,
             Ages(c) \/ Load(c) \/ Decide(c) \/ Recheck(c) \/ Commit(c)
               \/ LoseRace(c)
      PROVE  UNCHANGED command
  BY <1>8 DEF Ages, Load, Decide, Recheck, Commit, LoseRace
<1> QED  BY <1>1, <1>2, <1>4, <1>5, <1>6, <1>7, <1>8 DEF Next, World

LEMMA NativeOverKept ==
    ASSUME IInv, [Next]_vars, NEW c \in Commands, NativeTick(c),
           job[c].stage = "over"
    PROVE  NativeTick(c)' /\ job'[c].stage = "over"
                          /\ command'[c].run = command[c].run
<1>1. CASE LeaseExpires
  BY <1>1, ExpiryFacts DEF NativeTick, Posted
<1>2. ASSUME NEW e \in Commands, Commit(e)
      PROVE  command' = command /\ job'[c].stage = "over"
  <2>1. job[e].stage = "checked" /\ command' = command
        /\ job' = [job EXCEPT ![e] = Ended(store.version + 1)]
    BY <1>2, CommitFacts
  <2>2. c # e
    BY <2>1
  <2> QED  BY <2>1, <2>2 DEF IInv, TypeOK
<1>3. CASE \A x \in Commands : Quiet(x)
  BY <1>3 DEF Quiet, NativeTick, Posted
<1> QED  BY <1>1, <1>2, <1>3, StepKinds DEF NativeTick, Posted

\* A commit that grants is a TICK's: it finds no live lease, takes the lock
\* for its run, and is the native one if the run is interactive.
LEMMA GrantingCommit ==
    ASSUME IInv, NEW c \in Commands, Commit(c), command[c].kind = "TICK",
           store'.queue.lock # None
    PROVE  /\ ~Busy(store.queue)
           /\ command[c].run \in Runs
           /\ command[c].run \in InteractiveRuns => NativeTick(c)
           /\ \E t \in Tasks : store'.queue.lock =
                [task |-> t, run |-> command[c].run, live |-> TRUE]
           /\ grants' = [grants EXCEPT ![command[c].run] = @ + 1]
<1> DEFINE cmd == command[c]
           plan == job[c].plan
<1>1. /\ Command(cmd) /\ PlanOK(cmd, job[c]) /\ Posted(c)
      /\ job[c].source.queue = store.queue /\ Good(store.queue)
      /\ store'.queue = plan.queue
  BY CommitFacts, JobFacts DEF Posted
<1>2. cmd.run \in Runs
  BY <1>1 DEF Command, TickCommand
<1>3. TickPlan(cmd, store.queue, plan)
  BY <1>1 DEF PlanOK
<1>4. plan.queue.lock # None
  BY <1>1
<1>5. grants' = [grants EXCEPT ![cmd.run] = @ + 1]
  BY <1>1 DEF Commit
<1> HIDE DEF cmd, plan
<1>6. \E t \in Tasks : plan.queue.lock =
        [task |-> t, run |-> cmd.run, live |-> TRUE]
  BY <1>1, <1>2, <1>3, <1>4, TickPlanIsGood
<1> QED  BY <1>1, <1>2, <1>3, <1>5, <1>6 DEF TickPlan, NativeTick, cmd

\* Any other commit leaves the lock, or gives it up.
LEMMA OtherCommit ==
    ASSUME IInv, NEW c \in Commands, Commit(c),
           command[c].kind # "TICK" \/ store'.queue.lock = None
    PROVE  /\ grants' = grants
           /\ \/ store'.queue.lock = store.queue.lock
              \/ store'.queue.lock = None
<1> DEFINE cmd == command[c]
           plan == job[c].plan
<1>1. /\ Command(cmd) /\ PlanOK(cmd, job[c])
      /\ job[c].source.queue = store.queue /\ Good(store.queue)
      /\ store'.queue = plan.queue
  BY CommitFacts, JobFacts
<1>2. grants' = grants
  BY <1>1 DEF Commit
<1>3. cmd.kind \in {"TICK", "EVENT", "OWNER"}
  BY <1>1 DEF Command
<1>4. CASE cmd.kind = "EVENT"
  <2>1. EventPlan(cmd, store.queue, plan)
    BY <1>1, <1>4 DEF PlanOK
  <2> QED  BY <1>1, <1>2, <1>4, <2>1, EventPlanIsGood
<1>5. CASE cmd.kind = "OWNER"
  <2>1. OwnerPlan(cmd, store.queue, job[c].main.enabled, plan)
    BY <1>1, <1>5 DEF PlanOK
  <2>2. plan.queue.lock = None
    BY <1>1, <1>5, <2>1, OwnerPlanIsGood
  <2> QED  BY <1>1, <1>2, <2>2
<1> QED  BY <1>2, <1>3, <1>4, <1>5

LEMMA GrantsKept ==
    IInv /\ OneNativeTick /\ GrantsAreNative /\ [Next]_vars
      => GrantsAreNative'
<1> SUFFICES ASSUME IInv, OneNativeTick, GrantsAreNative, [Next]_vars,
                    NEW r \in InteractiveRuns, grants'[r] # 0
             PROVE  \E c \in Commands :
                      NativeTick(c)' /\ command'[c].run = r
                                     /\ job'[c].stage = "over"
  BY DEF GrantsAreNative
<1>1. CASE grants'[r] = grants[r]
  <2>1. PICK c \in Commands :
          NativeTick(c) /\ command[c].run = r /\ job[c].stage = "over"
    BY <1>1 DEF GrantsAreNative
  <2> QED  BY <2>1, NativeOverKept
<1>2. CASE grants'[r] # grants[r]
  <2>1. PICK c \in Commands : Commit(c)
    BY <1>2, StepKinds DEF LeaseExpires
  <2>2. command[c].kind = "TICK" /\ store'.queue.lock # None
    BY <1>2, <2>1, OtherCommit
  <2>3. /\ command[c].run \in Runs
        /\ command[c].run \in InteractiveRuns => NativeTick(c)
        /\ grants' = [grants EXCEPT ![command[c].run] = @ + 1]
    BY <2>1, <2>2, GrantingCommit
  <2>4. command[c].run = r
    BY <1>2, <2>3, JobFacts
  <2>5. /\ job'[c] = Ended(store.version + 1) /\ command' = command
        /\ store.version + 1 \in Nat
    BY <2>1, CommitFacts, JobFacts DEF IInv, TypeOK
  <2>6. job'[c].stage = "over"
    BY <2>5, EndedJob
  <2> QED  BY <2>3, <2>4, <2>5, <2>6 DEF NativeTick, Posted
<1> QED  BY <1>1, <1>2

\* LeaseIsSound: the jobs implement the single lock of LeaseLock: granted
\* free or run out, never prolonged, and once to an interactive run.
THEOREM LeaseIsKept == Spec => LeaseIsSound
<1>1. Init => OneNativeTick /\ GrantsAreNative
  <2> SUFFICES ASSUME Init
               PROVE  OneNativeTick /\ GrantsAreNative
    OBVIOUS
  <2>1. OneNativeTick
    BY DEF Init, OneNativeTick, NativeTick, Posted
  <2>2. GrantsAreNative
    BY QueueAssumption DEF Init, GrantsAreNative
  <2> QED  BY <2>1, <2>2
<1>2. Init => Lease!Init
  BY DEF Init, Lease!Init, InitialQueue
<1>3. IInv /\ OneNativeTick /\ GrantsAreNative /\ [Next]_vars
        => [Lease!Next]_(Lease!lockVars)
  <2> SUFFICES ASSUME IInv, OneNativeTick, GrantsAreNative, [Next]_vars
               PROVE  [Lease!Next]_(Lease!lockVars)
    OBVIOUS
  <2>1. CASE UNCHANGED <<store, grants>>
    BY <2>1 DEF Lease!lockVars
  <2>2. CASE LeaseExpires
    <3> DEFINE q == store.queue
    <3>1. /\ q \in Queue /\ q.lock # None /\ q.lock.live
          /\ store'.queue = RunOut(q) /\ UNCHANGED grants
      <4>1. store \in Store
        BY DEF IInv, TypeOK
      <4> QED  BY <2>2, <4>1 DEF LeaseExpires, Busy, Store
    <3>2. store'.queue.lock = [q.lock EXCEPT !.live = FALSE]
      BY <3>1, RunOutFacts
    <3>3. Lease!RunOut
      BY <3>1, <3>2 DEF Lease!RunOut
    <3> QED  BY <3>3 DEF Lease!Next
  <2>3. ASSUME NEW c \in Commands, Commit(c)
        PROVE  [Lease!Next]_(Lease!lockVars)
    <3>1. CASE command[c].kind = "TICK" /\ store'.queue.lock # None
      <4> DEFINE r == command[c].run
      <4>1. /\ ~Busy(store.queue) /\ r \in Runs
            /\ r \in InteractiveRuns => NativeTick(c)
            /\ \E t \in Tasks : store'.queue.lock =
                 [task |-> t, run |-> r, live |-> TRUE]
            /\ grants' = [grants EXCEPT ![r] = @ + 1]
        BY <2>3, <3>1, GrantingCommit
      <4>2. job[c].stage = "checked"
        BY <2>3, CommitFacts
      <4>3. r \in InteractiveRuns => grants[r] = 0
        BY <4>1, <4>2 DEF OneNativeTick, GrantsAreNative
      <4>4. \E t \in Tasks : Lease!Grant(r, t)
        BY <4>1, <4>3 DEF Lease!Grant, Busy
      <4> QED  BY <4>1, <4>4 DEF Lease!Next
    <3>2. CASE command[c].kind # "TICK" \/ store'.queue.lock = None
      BY <2>3, <3>2, OtherCommit DEF Lease!Next, Lease!GiveUp, Lease!lockVars
    <3> QED  BY <3>1, <3>2
  <2> QED  BY <2>1, <2>2, <2>3, StepKinds
<1> QED
  BY <1>1, <1>2, <1>3, NativeKept, GrantsKept, Invariant, PTL
  DEF Spec, LeaseIsSound, Lease!Spec
-----------------------------------------------------------------------------
(* The commands, as an implementation of TaskLifecycle.  Its operators are  *)
(* those of ControlQueue once more, instantiated: each is the one of this   *)
(* module.                                                                 *)

\* Reading a queue.
LEMMA SameReads ==
    ASSUME NEW q, NEW r, NEW t, NEW task, NEW set
    PROVE  /\ Lifecycle!Tasks = Tasks /\ Lifecycle!Candidate = Candidate
           /\ Lifecycle!InitialQueue = InitialQueue
           /\ Lifecycle!MaxRework = MaxRework
           /\ Lifecycle!Busy(q) <=> Busy(q)
           /\ Lifecycle!Held(q, r, t) <=> Held(q, r, t)
           /\ Lifecycle!InPhase(q, t, set) <=> InPhase(q, t, set)
           /\ Lifecycle!InternalPassed(task) <=> InternalPassed(task)
           /\ Lifecycle!InRepositories(set) = InRepositories(set)
           /\ Lifecycle!ParkedNoProgress(q) = ParkedNoProgress(q)
<1>1. Lifecycle!Tasks = Tasks /\ Lifecycle!Candidate = Candidate
  BY DEF Tasks, Candidate, Lifecycle!Tasks, Lifecycle!Candidate
<1> QED
  BY <1>1
  DEF InitialQueue, Lifecycle!InitialQueue, MaxRework, Lifecycle!MaxRework,
      Busy, Lifecycle!Busy, Held, Lifecycle!Held, InPhase, Lifecycle!InPhase,
      InternalPassed, Lifecycle!InternalPassed,
      InRepositories, Lifecycle!InRepositories,
      ParkedNoProgress, Lifecycle!ParkedNoProgress

\* The selection of a TICK, and what it makes of the queue.
LEMMA SameSelection ==
    ASSUME NEW q, NEW available, NEW t
    PROVE  /\ Lifecycle!SelectionClass(q, available) = SelectionClass(q, available)
           /\ Lifecycle!Selects(q, available, t) <=> Selects(q, available, t)
<1>1. Lifecycle!SelectionClass(q, available) = SelectionClass(q, available)
  BY DEF SelectionClass, Lifecycle!SelectionClass, RetryableExternalWait,
         Lifecycle!RetryableExternalWait
<1> QED
  BY <1>1 DEF Selects, Lifecycle!Selects

LEMMA SameTickImages ==
    ASSUME NEW q, NEW r, NEW t, NEW drifted, NEW blocker
    PROVE  /\ Lifecycle!RecoverExpiredLock(q) = RecoverExpiredLock(q)
           /\ Lifecycle!ResumeDrifted(q, drifted) = ResumeDrifted(q, drifted)
           /\ Lifecycle!AcquireTask(q, t, r) = AcquireTask(q, t, r)
           /\ Lifecycle!ParkTerminalTarget(q, t, blocker) =
                ParkTerminalTarget(q, t, blocker)
<1>1. Lifecycle!RecoverExpiredLock(q) = RecoverExpiredLock(q)
  BY DEF RecoverExpiredLock, Lifecycle!RecoverExpiredLock, Expired,
         Lifecycle!Expired, Release, Lifecycle!Release
<1>2. Lifecycle!ResumeDrifted(q, drifted) = ResumeDrifted(q, drifted)
  BY SameReads DEF ResumeDrifted, Lifecycle!ResumeDrifted, Resume, Lifecycle!Resume
<1>3. Lifecycle!AcquireTask(q, t, r) = AcquireTask(q, t, r)
  BY DEF AcquireTask, Lifecycle!AcquireTask
<1>4. Lifecycle!ParkTerminalTarget(q, t, blocker) = ParkTerminalTarget(q, t, blocker)
  BY DEF ParkTerminalTarget, Lifecycle!ParkTerminalTarget, Park, Lifecycle!Park
<1> QED  BY <1>1, <1>2, <1>3, <1>4

\* What an EVENT makes of its task and of the queue.
LEMMA SameEventImages ==
    ASSUME NEW q, NEW r, NEW t, NEW task, NEW event, NEW cand, NEW ref
    PROVE  /\ Lifecycle!Release(q) = Release(q)
           /\ Lifecycle!AfterEvent(q, r, t, event, task) =
                AfterEvent(q, r, t, event, task)
           /\ Lifecycle!DriftToRepair(task) = DriftToRepair(task)
           /\ Lifecycle!CandidateReady(task, cand) = CandidateReady(task, cand)
           /\ Lifecycle!MarkNoProgress(t, task) = MarkNoProgress(t, task)
           /\ Lifecycle!InternalPass(t, task) = InternalPass(t, task)
           /\ Lifecycle!InternalRepair(task) = InternalRepair(task)
           /\ Lifecycle!ExternalRequested(task, ref) = ExternalRequested(task, ref)
           /\ Lifecycle!ExternalUnavailable(task) = ExternalUnavailable(task)
           /\ Lifecycle!ExternalFinding(task) = ExternalFinding(task)
           /\ Lifecycle!ExternalPass(task) = ExternalPass(task)
<1>1. Lifecycle!AfterEvent(q, r, t, event, task) =
        AfterEvent(q, r, t, event, task)
  BY DEF AfterEvent, Lifecycle!AfterEvent, KeepsHolder, Lifecycle!KeepsHolder,
         ContinuationEvents, Lifecycle!ContinuationEvents
<1>2. \A v : Lifecycle!SetVerdict(task, v) = SetVerdict(task, v)
  BY DEF SetVerdict, Lifecycle!SetVerdict
<1>3. \A x, b : Lifecycle!Park(x, b) = Park(x, b)
  BY DEF Park, Lifecycle!Park
<1>4. Lifecycle!MarkNoProgress(t, task) = MarkNoProgress(t, task)
  BY <1>3 DEF MarkNoProgress, Lifecycle!MarkNoProgress, ExternalFailed,
              Lifecycle!ExternalFailed
<1>5. \A x : Lifecycle!FinishPassedReview(x) = FinishPassedReview(x)
  BY DEF FinishPassedReview, Lifecycle!FinishPassedReview, SetVerdict,
         Lifecycle!SetVerdict
<1>6. Lifecycle!ClearNoProgress(task) = ClearNoProgress(task)
  BY DEF ClearNoProgress, Lifecycle!ClearNoProgress
<1>7. \A x, v : Lifecycle!SetVerdict(x, v) = SetVerdict(x, v)
  BY DEF SetVerdict, Lifecycle!SetVerdict
<1>8. Lifecycle!InternalPass(t, task) = InternalPass(t, task)
  BY <1>5, <1>6, <1>7 DEF InternalPass, Lifecycle!InternalPass
<1>9. Lifecycle!InternalRepair(task) = InternalRepair(task)
  BY <1>2, <1>3 DEF InternalRepair, Lifecycle!InternalRepair
<1>10. \A s, x : Lifecycle!SetExternal(task, s, x) = SetExternal(task, s, x)
  BY DEF SetExternal, Lifecycle!SetExternal
<1>11. Lifecycle!RequestRef(task) = RequestRef(task)
  BY DEF RequestRef, Lifecycle!RequestRef
<1>12. /\ Lifecycle!ExternalRequested(task, ref) = ExternalRequested(task, ref)
       /\ Lifecycle!ExternalUnavailable(task) = ExternalUnavailable(task)
       /\ Lifecycle!ExternalFinding(task) = ExternalFinding(task)
       /\ Lifecycle!ExternalPass(task) = ExternalPass(task)
  BY <1>5, <1>10, <1>11
  DEF ExternalRequested, Lifecycle!ExternalRequested, ExternalUnavailable,
      Lifecycle!ExternalUnavailable, ExternalFinding,
      Lifecycle!ExternalFinding, ExternalPass, Lifecycle!ExternalPass
<1> QED
  BY <1>1, <1>4, <1>8, <1>9, <1>12
  DEF Release, Lifecycle!Release, DriftToRepair, Lifecycle!DriftToRepair,
      CandidateReady, Lifecycle!CandidateReady

\* What the handlers of the external review insist on.
LEMMA SameEventGuards ==
    ASSUME NEW t, NEW task, NEW ref
    PROVE  /\ Lifecycle!CanRequestExternal(t, task, ref) <=>
                CanRequestExternal(t, task, ref)
           /\ Lifecycle!CanReportUnavailable(t, task) <=>
                CanReportUnavailable(t, task)
           /\ Lifecycle!CanPassExternal(t, task) <=> CanPassExternal(t, task)
<1>1. Lifecycle!InternalPassed(task) <=> InternalPassed(task)
  BY SameReads
<1>2. Lifecycle!RequestRef(task) = RequestRef(task)
  BY DEF RequestRef, Lifecycle!RequestRef
<1> QED
  BY <1>1, <1>2
  DEF CanRequestExternal, Lifecycle!CanRequestExternal, CanReportUnavailable,
      Lifecycle!CanReportUnavailable, CanPassExternal,
      Lifecycle!CanPassExternal

\* What the owner and the review completion insist on and write.
LEMMA SameAdministration ==
    ASSUME NEW q, NEW t, NEW task, NEW cand, NEW ref
    PROVE  /\ Lifecycle!CanFinishReview(q, t) <=> CanFinishReview(q, t)
           /\ Lifecycle!CanFinalizeIntegrated(q, t) <=>
                CanFinalizeIntegrated(q, t)
           /\ Lifecycle!CanRebindReady(q, t, cand) <=> CanRebindReady(q, t, cand)
           /\ Lifecycle!CanReconcileIntegrated(q, t, cand) <=>
                CanReconcileIntegrated(q, t, cand)
           /\ Lifecycle!AfterAdministration(q, t, task) =
                AfterAdministration(q, t, task)
           /\ Lifecycle!FinishReview(task) = FinishReview(task)
           /\ Lifecycle!FinalizeIntegrated(task) = FinalizeIntegrated(task)
           /\ Lifecycle!ReconcileIntegrated(t, task, cand, ref) =
                ReconcileIntegrated(t, task, cand, ref)
<1>1. \A pr : Lifecycle!TasksOfPublicPR(q, t, pr) = TasksOfPublicPR(q, t, pr)
  BY SameReads DEF TasksOfPublicPR, Lifecycle!TasksOfPublicPR
<1>2. \A x : Lifecycle!TasksOfCandidate(q, t, x) = TasksOfCandidate(q, t, x)
  BY SameReads DEF TasksOfCandidate, Lifecycle!TasksOfCandidate
<1>3. /\ Lifecycle!InternalPassed(q.tasks[t]) <=> InternalPassed(q.tasks[t])
      /\ Lifecycle!InPhase(q, t, {"REVIEW"}) <=> InPhase(q, t, {"REVIEW"})
      /\ Lifecycle!Expired(q) <=> Expired(q)
  BY SameReads DEF Expired, Lifecycle!Expired
<1>4. Lifecycle!AwaitsReviewCompletion(q, t) <=> AwaitsReviewCompletion(q, t)
  BY <1>3 DEF AwaitsReviewCompletion, Lifecycle!AwaitsReviewCompletion
<1>5. Lifecycle!CanFinishReview(q, t) <=> CanFinishReview(q, t)
  BY <1>1, <1>3, <1>4 DEF CanFinishReview, Lifecycle!CanFinishReview
<1>6. Lifecycle!FinishReview(task) = FinishReview(task)
  BY DEF FinishReview, Lifecycle!FinishReview, SetExternal,
         Lifecycle!SetExternal, RequestRef, Lifecycle!RequestRef
<1>7. Lifecycle!ReconcileIntegrated(t, task, cand, ref) =
        ReconcileIntegrated(t, task, cand, ref)
  BY DEF ReconcileIntegrated, Lifecycle!ReconcileIntegrated
<1>8. /\ Lifecycle!CanFinalizeIntegrated(q, t) <=> CanFinalizeIntegrated(q, t)
      /\ Lifecycle!CanRebindReady(q, t, cand) <=> CanRebindReady(q, t, cand)
      /\ Lifecycle!CanReconcileIntegrated(q, t, cand) <=>
           CanReconcileIntegrated(q, t, cand)
  BY <1>1, <1>2, <1>3
  DEF CanFinalizeIntegrated, Lifecycle!CanFinalizeIntegrated, CanRebindReady,
      Lifecycle!CanRebindReady, CanReconcileIntegrated,
      Lifecycle!CanReconcileIntegrated
<1> QED
  BY <1>5, <1>6, <1>7, <1>8
  DEF AfterAdministration, Lifecycle!AfterAdministration, FinalizeIntegrated,
      Lifecycle!FinalizeIntegrated

\* What a commit writes into the history of findings.
LEMMA ReworkOfCommit ==
    ASSUME IInv, NEW c \in Commands, Commit(c)
    PROVE  /\ job[c].plan.found = {} => rework' =
                [t \in Tasks |-> IF t \in job[c].plan.settled THEN 0
                                 ELSE rework[t]]
           /\ \A t \in Tasks :
                /\ job[c].plan.settled = {t} /\ job[c].plan.found = {} =>
                     Lifecycle!Settled(t)
                /\ job[c].plan.settled = {} /\ job[c].plan.found = {t} =>
                     Lifecycle!NewFinding(t)
           /\ job[c].plan.settled = {} /\ job[c].plan.found = {} =>
                rework' = rework
<1>1. rework' = [t \in Tasks |->
                   IF t \in job[c].plan.settled THEN 0
                   ELSE IF t \in job[c].plan.found /\ rework[t] < MaxRework
                   THEN rework[t] + 1
                   ELSE rework[t]]
  BY DEF Commit
<1>2. rework \in [Tasks -> 0 .. MaxRework]
  BY JobFacts
<1>3. ASSUME NEW t \in Tasks, job[c].plan.settled = {t},
             job[c].plan.found = {}
      PROVE  Lifecycle!Settled(t)
  <2>1. rework' = [rework EXCEPT ![t] = 0]
    BY <1>1, <1>2, <1>3
  <2> QED  BY <2>1 DEF Lifecycle!Settled
<1>4. ASSUME NEW t \in Tasks, job[c].plan.settled = {},
             job[c].plan.found = {t}
      PROVE  Lifecycle!NewFinding(t)
  <2>1. rework' = [rework EXCEPT ![t] =
                     IF rework[t] < MaxRework THEN rework[t] + 1 ELSE rework[t]]
    BY <1>1, <1>2, <1>4
  <2> QED  BY <2>1, SameReads DEF Lifecycle!NewFinding
<1> QED  BY <1>1, <1>2, <1>3, <1>4

\* A TICK that takes effect is a TICK of the lifecycle.
LEMMA TickCommit ==
    ASSUME IInv, NEW c \in Commands, Commit(c), command[c].kind = "TICK"
    PROVE  \E r \in Runs : Lifecycle!Tick(r)
<1> DEFINE cmd == command[c]
           plan == job[c].plan
           q == store.queue
           drifted == plan.settled
           Image == ResumeDrifted(RecoverExpiredLock(q), drifted)
           image == Image
<1>1. /\ Command(cmd) /\ TickPlan(cmd, q, plan) /\ store'.queue = plan.queue
  BY CommitFacts DEF PlanOK
<1>2. cmd \in TickCommand /\ cmd.run \in Runs /\ cmd.native \in BOOLEAN
  BY <1>1 DEF Command, TickCommand, EventCommand, OwnerCommand
<1>3. rework' = [t \in Tasks |-> IF t \in drifted THEN 0 ELSE rework[t]]
  BY <1>1, ReworkOfCommit DEF TickPlan
<1>4. PICK scope \in Scopes(cmd) :
        /\ image.lock = None
        /\ drifted \in SUBSET ParkedNoProgress(q)
        /\ drifted \subseteq scope[1]
        /\ \A t \in drifted : \E rev \in Revs :
             rev # q.tasks[t].candidate.rev
        /\ \/ /\ SelectionClass(image, scope[2]) = {}
              /\ plan.queue = image
           \/ \E t \in Tasks :
                /\ Selects(image, scope[2], t)
                /\ plan.queue = AcquireTask(image, t, cmd.run)
           \/ \E t \in Tasks \ drifted, blocker \in {"INTEGRATED", "CLOSED"} :
                /\ Selects(image, scope[2], t)
                /\ image.tasks[t].candidate # None
                /\ image.tasks[t].status = "ACTIVE"
                /\ plan.queue = ParkTerminalTarget(image, t, blocker)
  BY <1>1 DEF TickPlan
<1>5. image = Lifecycle!ResumeDrifted(Lifecycle!RecoverExpiredLock(q), drifted)
  BY SameTickImages
<1>6. ~Lifecycle!Busy(q)
  BY <1>1, SameReads DEF TickPlan
<1> HIDE DEF image
<1>7. Lifecycle!TickFor(cmd.run, scope[1], scope[2], drifted)
  <2>1. drifted \subseteq Lifecycle!ParkedNoProgress(q) \cap scope[1]
    BY <1>4, SameReads
  <2>2. \A t \in drifted : Lifecycle!LiveDiffers(t)
    BY <1>4 DEF Lifecycle!LiveDiffers
  <2>3. rework' = [t \in Lifecycle!Tasks |->
                     IF t \in drifted THEN 0 ELSE rework[t]]
    BY <1>3, SameReads
  <2>4. \/ /\ Lifecycle!SelectionClass(image, scope[2]) = {}
           /\ store'.queue = image
        \/ \E t \in Lifecycle!Tasks :
             /\ Lifecycle!Selects(image, scope[2], t)
             /\ store'.queue = Lifecycle!AcquireTask(image, t, cmd.run)
        \/ \E t \in Lifecycle!Tasks \ drifted,
              blocker \in {"INTEGRATED", "CLOSED"} :
             /\ Lifecycle!Selects(image, scope[2], t)
             /\ image.tasks[t].candidate # None
             /\ image.tasks[t].status = "ACTIVE"
             /\ store'.queue = Lifecycle!ParkTerminalTarget(image, t, blocker)
    <3>1. CASE /\ SelectionClass(image, scope[2]) = {}
               /\ plan.queue = image
      BY <1>1, <3>1, SameSelection
    <3>2. ASSUME NEW t \in Tasks, Selects(image, scope[2], t),
                 plan.queue = AcquireTask(image, t, cmd.run)
          PROVE  /\ t \in Lifecycle!Tasks
                 /\ Lifecycle!Selects(image, scope[2], t)
                 /\ store'.queue = Lifecycle!AcquireTask(image, t, cmd.run)
      BY <1>1, <3>2, SameSelection, SameTickImages, SameReads
    <3>3. ASSUME NEW t \in Tasks \ drifted,
                 NEW blocker \in {"INTEGRATED", "CLOSED"},
                 Selects(image, scope[2], t), image.tasks[t].candidate # None,
                 image.tasks[t].status = "ACTIVE",
                 plan.queue = ParkTerminalTarget(image, t, blocker)
          PROVE  /\ t \in Lifecycle!Tasks \ drifted
                 /\ Lifecycle!Selects(image, scope[2], t)
                 /\ store'.queue =
                      Lifecycle!ParkTerminalTarget(image, t, blocker)
      BY <1>1, <3>3, SameSelection, SameTickImages, SameReads
    <3> QED  BY <1>4, <3>1, <3>2, <3>3
  <2> HIDE DEF drifted
  <2> QED  BY <1>4, <1>5, <1>6, <2>1, <2>2, <2>3, <2>4 DEF Lifecycle!TickFor
<1>8. drifted \in SUBSET Lifecycle!ParkedNoProgress(q)
  BY <1>4, SameReads
<1>9. CASE cmd.native
  <2>1. PICK repos \in SUBSET Repositories :
          scope = <<Tasks, InRepositories(repos)>>
    BY <1>4, <1>9 DEF Scopes
  <2>2. Lifecycle!TickFor(cmd.run, Lifecycle!Tasks,
                          Lifecycle!InRepositories(repos), drifted)
    BY <1>7, <2>1, SameReads
  <2>3. {} \in SUBSET Lifecycle!Tasks
    OBVIOUS
  <2> HIDE DEF drifted
  <2> QED  BY <1>2, <1>8, <2>2, <2>3 DEF Lifecycle!Tick
<1>10. CASE ~cmd.native
  <2>1. PICK repos \in SUBSET Repositories, yielded \in SUBSET Tasks :
          scope = <<InRepositories(repos), InRepositories(repos) \ yielded>>
    BY <1>4, <1>10 DEF Scopes
  <2>2. /\ Lifecycle!TickFor(cmd.run, Lifecycle!InRepositories(repos),
                             Lifecycle!InRepositories(repos) \ yielded, drifted)
        /\ yielded \in SUBSET Lifecycle!Tasks
    BY <1>7, <2>1, SameReads
  <2> HIDE DEF drifted
  <2> QED  BY <1>2, <1>8, <2>2 DEF Lifecycle!Tick
<1> QED  BY <1>2, <1>9, <1>10

\* An EVENT that takes effect is one of the holder.
LEMMA EventCommit ==
    ASSUME IInv, NEW c \in Commands, Commit(c), command[c].kind = "EVENT"
    PROVE  \E r \in Runs, t \in Lifecycle!Tasks : Lifecycle!Event(r, t)
<1> DEFINE cmd == command[c]
           plan == job[c].plan
           q == store.queue
           r == cmd.run
           t == cmd.capsule.task
           task == q.tasks[t]
           Same == Lifecycle!Event(r, t)
<1>1. /\ Command(cmd) /\ EventPlan(cmd, q, plan) /\ store'.queue = plan.queue
      /\ Good(q)
  BY CommitFacts, JobFacts DEF PlanOK
<1>2. /\ cmd \in EventCommand /\ cmd.event \in Events
      /\ cmd.event = "CANDIDATE_READY" => cmd.new \in Candidate
      /\ cmd.event = "EXTERNAL_REQUESTED" => cmd.ref \in Refs
  BY <1>1 DEF Command, TickCommand, EventCommand, OwnerCommand
<1>3. cmd.event \in {"YIELD", "CANDIDATE_READY", "INTERNAL_PASS",
                     "INTERNAL_REPAIR", "EXTERNAL_REQUESTED",
                     "REVIEW_UNAVAILABLE", "EXTERNAL_FINDING",
                     "EXTERNAL_PASS"}
  BY <1>2, CommandsAssumption
<1>4. /\ q.lock # None /\ q.lock \in Lock /\ q.lock.run = r /\ q.lock.task = t
      /\ t \in Tasks /\ r \in Runs
  BY <1>1, GoodFacts DEF EventPlan, Held, Lock
<1>5. /\ task \in Task /\ TaskDiscipline(t, task, 0) /\ task.status = "ACTIVE"
  BY <1>1, <1>4, GoodFacts DEF Good
<1>6. /\ Lifecycle!Held(q, r, t)
      /\ \A set : Lifecycle!InPhase(q, t, set) <=> task.phase \in set
  BY <1>1, <1>5, SameReads DEF EventPlan, InPhase
<1>7. PICK live \in Candidate :
        \/ /\ Drifted(cmd, task, live)
           /\ live.pr = task.candidate.pr
           /\ DriftPlan(cmd, q, t, plan)
        \/ /\ Accepts(cmd, t, task, live)
           /\ ReportPlan(cmd, q, t, plan)
  BY <1>1 DEF EventPlan
<1>8. task.phase = "REVIEW" /\ task.candidate # None => Lifecycle!Reviewing(r, t)
  BY <1>6 DEF Lifecycle!Reviewing
<1>9. ASSUME Drifted(cmd, task, live), live.pr = task.candidate.pr,
             DriftPlan(cmd, q, t, plan)
      PROVE  Lifecycle!CandidateDrift(r, t)
  <2>1. task.phase = "REVIEW" /\ live # task.candidate
    BY <1>9 DEF Drifted
  <2>2. task.candidate # None /\ task.candidate \in Candidate
    BY <1>5, <2>1 DEF TaskDiscipline, Task
  <2>3. live.rev \in Revs /\ live.rev # task.candidate.rev
    <3>1. ASSUME NEW x \in Candidate, NEW y \in Candidate,
                 x.pr = y.pr, x.rev = y.rev
          PROVE  x = y
      BY <3>1 DEF Candidate
    <3> QED  BY <1>9, <2>1, <2>2, <3>1 DEF Candidate
  <2>4. Lifecycle!LiveDiffers(t)
    BY <2>3 DEF Lifecycle!LiveDiffers
  <2>5. store'.queue = Lifecycle!Release(
                         [q EXCEPT !.tasks[t] = Lifecycle!DriftToRepair(@)])
    BY <1>1, <1>9, SameEventImages DEF DriftPlan
  <2>6. Lifecycle!Settled(t)
    BY <1>4, <1>9, ReworkOfCommit DEF DriftPlan
  <2> QED  BY <1>8, <2>1, <2>2, <2>4, <2>5, <2>6 DEF Lifecycle!CandidateDrift
<1>10. ASSUME Accepts(cmd, t, task, live), ReportPlan(cmd, q, t, plan)
       PROVE  Lifecycle!Event(r, t)
  <2>1. /\ \A x : Effect(cmd, t, task) = x => Lifecycle!Report(r, t, cmd.event, x)
        /\ plan.settled = IF Settles(cmd, task) THEN {t} ELSE {}
        /\ plan.found = IF Finds(cmd) THEN {t} ELSE {}
    <3>1. /\ plan.queue = AfterEvent(q, r, t, cmd.event, Effect(cmd, t, task))
          /\ plan.settled = IF Settles(cmd, task) THEN {t} ELSE {}
          /\ plan.found = IF Finds(cmd) THEN {t} ELSE {}
      BY <1>10 DEF ReportPlan
    <3>2. \A x : Lifecycle!AfterEvent(q, r, t, cmd.event, x) =
                  AfterEvent(q, r, t, cmd.event, x)
      BY SameEventImages
    <3>3. ASSUME NEW x, Effect(cmd, t, task) = x
          PROVE  Lifecycle!Report(r, t, cmd.event, x)
      <4>1. store'.queue = AfterEvent(q, r, t, cmd.event, x)
        BY <1>1, <3>1, <3>3
      <4> QED  BY <3>2, <4>1 DEF Lifecycle!Report
    <3> QED  BY <3>1, <3>3
  <2>2. /\ Settles(cmd, task) /\ ~Finds(cmd) => Lifecycle!Settled(t)
        /\ ~Settles(cmd, task) /\ Finds(cmd) => Lifecycle!NewFinding(t)
        /\ ~Settles(cmd, task) /\ ~Finds(cmd) => rework' = rework
    BY <1>4, <2>1, ReworkOfCommit
  <2>3. cmd.event \notin {"YIELD", "CANDIDATE_READY"} =>
          Lifecycle!Reviewing(r, t)
    BY <1>3, <1>8, <1>10 DEF Accepts
  <2>4. CASE cmd.event = "YIELD"
    <3>1. Effect(cmd, t, task) = task /\ ~Settles(cmd, task) /\ ~Finds(cmd)
      BY <2>4 DEF Effect, Settles, Finds
    <3>2. Lifecycle!Yield(r, t)
      BY <1>6, <2>1, <2>2, <2>4, <3>1 DEF Lifecycle!Yield
    <3> QED  BY <3>2 DEF Lifecycle!Event
  <2>5. CASE cmd.event = "CANDIDATE_READY"
    <3>1. /\ task.phase \in {"BUILD", "REPAIR"} /\ cmd.new \in Candidate
          /\ ~Finds(cmd)
      BY <1>2, <1>10, <2>5 DEF Accepts, Finds
    <3>2. CASE Unchanged(cmd, task)
      <4>1. /\ Effect(cmd, t, task) = Lifecycle!MarkNoProgress(t, task)
            /\ ~Settles(cmd, task) /\ task.phase = "REPAIR"
        BY <2>5, <3>2, SameEventImages DEF Effect, Settles, Unchanged
      <4>2. task.candidate # None
        BY <1>5, <4>1 DEF TaskDiscipline
      <4>3. Lifecycle!UnchangedCandidate(r, t)
        BY <1>6, <2>1, <2>2, <2>5, <3>1, <4>1, <4>2
        DEF Lifecycle!UnchangedCandidate
      <4> QED  BY <4>3 DEF Lifecycle!Event
    <3>3. CASE ~Unchanged(cmd, task)
      <4>1. /\ Effect(cmd, t, task) = Lifecycle!CandidateReady(task, cmd.new)
            /\ Settles(cmd, task)
            /\ task.phase = "BUILD" \/ (task.phase = "REPAIR"
                                        /\ task.candidate # cmd.new)
        BY <2>5, <3>1, <3>3, SameEventImages DEF Effect, Settles, Unchanged
      <4>2. Lifecycle!NewCandidate(r, t, cmd.new)
        BY <1>6, <2>1, <2>2, <2>5, <3>1, <4>1 DEF Lifecycle!NewCandidate
      <4> QED  BY <3>1, <4>2, SameReads DEF Lifecycle!Event
    <3> QED  BY <3>2, <3>3
  <2>6. CASE cmd.event = "INTERNAL_PASS"
    <3>1. /\ Effect(cmd, t, task) = Lifecycle!InternalPass(t, task)
          /\ Settles(cmd, task) /\ ~Finds(cmd)
      BY <2>6, SameEventImages DEF Effect, Settles, Finds
    <3>2. Lifecycle!ReportPass(r, t)
      BY <2>1, <2>2, <2>3, <2>6, <3>1 DEF Lifecycle!ReportPass
    <3> QED  BY <3>2 DEF Lifecycle!Event
  <2>7. CASE cmd.event = "INTERNAL_REPAIR"
    <3>1. /\ Effect(cmd, t, task) = Lifecycle!InternalRepair(task)
          /\ ~Settles(cmd, task) /\ Finds(cmd)
      BY <2>7, SameEventImages DEF Effect, Settles, Finds
    <3>2. Lifecycle!ReportRepair(r, t)
      BY <2>1, <2>2, <2>3, <2>7, <3>1 DEF Lifecycle!ReportRepair
    <3> QED  BY <3>2 DEF Lifecycle!Event
  <2>8. CASE cmd.event = "EXTERNAL_REQUESTED"
    <3>1. /\ Effect(cmd, t, task) = Lifecycle!ExternalRequested(task, cmd.ref)
          /\ ~Settles(cmd, task) /\ ~Finds(cmd)
          /\ Lifecycle!CanRequestExternal(t, task, cmd.ref)
      BY <1>10, <2>8, SameEventImages, SameEventGuards
      DEF Effect, Settles, Finds, Accepts
    <3>2. Lifecycle!ReportRequested(r, t, cmd.ref)
      BY <2>1, <2>2, <2>3, <2>8, <3>1 DEF Lifecycle!ReportRequested
    <3> QED  BY <1>2, <2>8, <3>2 DEF Lifecycle!Event
  <2>9. CASE cmd.event = "REVIEW_UNAVAILABLE"
    <3>1. /\ Effect(cmd, t, task) = Lifecycle!ExternalUnavailable(task)
          /\ ~Settles(cmd, task) /\ ~Finds(cmd)
          /\ Lifecycle!CanReportUnavailable(t, task)
      BY <1>10, <2>9, SameEventImages, SameEventGuards
      DEF Effect, Settles, Finds, Accepts
    <3>2. Lifecycle!ReportUnavailable(r, t)
      BY <2>1, <2>2, <2>3, <2>9, <3>1 DEF Lifecycle!ReportUnavailable
    <3> QED  BY <3>2 DEF Lifecycle!Event
  <2>10. CASE cmd.event = "EXTERNAL_FINDING"
    <3>1. /\ Effect(cmd, t, task) = Lifecycle!ExternalFinding(task)
          /\ ~Settles(cmd, task) /\ Finds(cmd)
          /\ ReviewPolicy[t] = "EXTERNAL"
      BY <1>10, <2>10, SameEventImages DEF Effect, Settles, Finds, Accepts
    <3>2. Lifecycle!ReportFinding(r, t)
      BY <2>1, <2>2, <2>3, <2>10, <3>1 DEF Lifecycle!ReportFinding
    <3> QED  BY <3>2 DEF Lifecycle!Event
  <2>11. CASE cmd.event = "EXTERNAL_PASS"
    <3>1. /\ Effect(cmd, t, task) = Lifecycle!ExternalPass(task)
          /\ Settles(cmd, task) /\ ~Finds(cmd)
          /\ Lifecycle!CanPassExternal(t, task)
      BY <1>10, <2>11, SameEventImages, SameEventGuards
      DEF Effect, Settles, Finds, Accepts
    <3>2. Lifecycle!ReportExternalPass(r, t)
      BY <2>1, <2>2, <2>3, <2>11, <3>1 DEF Lifecycle!ReportExternalPass
    <3> QED  BY <3>2 DEF Lifecycle!Event
  <2> QED
    BY <1>3, <2>4, <2>5, <2>6, <2>7, <2>8, <2>9, <2>10, <2>11
<1>11. Lifecycle!Event(r, t)
  BY <1>7, <1>9, <1>10 DEF Lifecycle!Event
<1> QED  BY <1>4, <1>11, SameReads

\* An operation that takes effect is an administration of its task.
LEMMA OwnerCommit ==
    ASSUME IInv, NEW c \in Commands, Commit(c), command[c].kind = "OWNER"
    PROVE  \E t \in Lifecycle!Tasks : Lifecycle!Administration(t)
<1> DEFINE cmd == command[c]
           plan == job[c].plan
           q == store.queue
           t == cmd.task
           task == q.tasks[t]
           after == Operated(cmd, task)
<1>1. /\ Command(cmd) /\ store'.queue = plan.queue /\ Good(q)
      /\ OwnerPlan(cmd, q, job[c].main.enabled, plan)
  BY CommitFacts, JobFacts DEF PlanOK
<1>2. /\ cmd \in OwnerCommand /\ cmd.operation \in Operations /\ t \in Tasks
      /\ cmd.operation \in {"REBIND_READY_CANDIDATE", "RECONCILE_INTEGRATED"}
           => cmd.new \in Candidate
      /\ cmd.operation = "RECONCILE_INTEGRATED" => cmd.ref \in Refs
  BY <1>1 DEF Command, TickCommand, EventCommand, OwnerCommand
<1>3. cmd.operation \in {"COMPLETE_REVIEW", "FINALIZE_INTEGRATED",
                         "REBIND_READY_CANDIDATE", "RECONCILE_INTEGRATED"}
  BY <1>2, CommandsAssumption
<1>4. /\ CanOperate(cmd, q, job[c].main.enabled)
      /\ \A x : after = x => Lifecycle!Administer(t, x)
  BY <1>1, SameAdministration DEF OwnerPlan, Lifecycle!Administer
<1>5. /\ cmd.operation = "FINALIZE_INTEGRATED" => rework' = rework
      /\ cmd.operation # "FINALIZE_INTEGRATED" => Lifecycle!Settled(t)
  BY <1>1, <1>2, ReworkOfCommit DEF OwnerPlan
<1>6. CASE cmd.operation = "COMPLETE_REVIEW"
  <2>1. /\ after = Lifecycle!FinishReview(task)
        /\ Lifecycle!CanFinishReview(q, t)
    BY <1>4, <1>6, SameAdministration DEF Operated, CanOperate
  <2>2. Lifecycle!CompleteReview(t)
    BY <1>4, <1>5, <1>6, <2>1 DEF Lifecycle!CompleteReview
  <2> QED  BY <1>2, <2>2, SameReads DEF Lifecycle!Administration
<1>7. CASE cmd.operation = "FINALIZE_INTEGRATED"
  <2>1. /\ after = Lifecycle!FinalizeIntegrated(task)
        /\ Lifecycle!CanFinalizeIntegrated(q, t)
    BY <1>4, <1>7, SameAdministration DEF Operated, CanOperate
  <2>2. Lifecycle!Finalize(t)
    BY <1>4, <1>5, <1>7, <2>1 DEF Lifecycle!Finalize
  <2> QED  BY <1>2, <2>2, SameReads DEF Lifecycle!Administration
<1>8. CASE cmd.operation = "REBIND_READY_CANDIDATE"
  <2>1. /\ after = Lifecycle!CandidateReady(task, cmd.new)
        /\ Lifecycle!CanRebindReady(q, t, cmd.new)
    BY <1>4, <1>8, SameAdministration, SameEventImages
    DEF Operated, CanOperate
  <2>2. Lifecycle!Rebind(t, cmd.new)
    BY <1>4, <1>5, <1>8, <2>1 DEF Lifecycle!Rebind
  <2> QED  BY <1>2, <1>8, <2>2, SameReads DEF Lifecycle!Administration
<1>9. CASE cmd.operation = "RECONCILE_INTEGRATED"
  <2>1. /\ after = Lifecycle!ReconcileIntegrated(t, task, cmd.new, cmd.ref)
        /\ Lifecycle!CanReconcileIntegrated(q, t, cmd.new)
    BY <1>4, <1>9, SameAdministration DEF Operated, CanOperate
  <2>2. Lifecycle!Reconcile(t, cmd.new, cmd.ref)
    BY <1>4, <1>5, <1>9, <2>1 DEF Lifecycle!Reconcile
  <2> QED  BY <1>2, <1>9, <2>2, SameReads DEF Lifecycle!Administration
<1> QED  BY <1>3, <1>6, <1>7, <1>8, <1>9

\* Serializable: whatever the jobs read and however late they write, the
\* branch only ever moves as if its commands were handled one at a time.
THEOREM CommandsAreSerial == Spec => Serializable
<1>1. Init => Lifecycle!Init
  BY SameReads DEF Init, Lifecycle!Init
<1>2. IInv /\ [Next]_vars => [Lifecycle!Next]_(Lifecycle!vars)
  <2> SUFFICES ASSUME IInv, [Next]_vars
               PROVE  [Lifecycle!Next]_(Lifecycle!vars)
    OBVIOUS
  <2>1. CASE UNCHANGED <<store, rework>>
    BY <2>1 DEF Lifecycle!vars
  <2>2. CASE LeaseExpires
    <3>1. /\ Busy(store.queue) /\ UNCHANGED rework
          /\ store'.queue = [store.queue EXCEPT !.lock.live = FALSE]
      <4>1. store \in Store
        BY DEF IInv, TypeOK
      <4> QED  BY <2>2, <4>1 DEF LeaseExpires, RunOut, Busy, Store
    <3>2. Lifecycle!LeaseExpires
      BY <3>1, SameReads DEF Lifecycle!LeaseExpires
    <3> QED  BY <3>2 DEF Lifecycle!Next
  <2>3. ASSUME NEW c \in Commands, Commit(c)
        PROVE  Lifecycle!Next
    <3>1. command[c].kind \in {"TICK", "EVENT", "OWNER"}
      BY <2>3, CommitFacts DEF Command
    <3> QED
      BY <2>3, <3>1, TickCommit, EventCommit, OwnerCommit DEF Lifecycle!Next
  <2> QED  BY <2>1, <2>2, <2>3, StepKinds
<1> QED
  BY <1>1, <1>2, Invariant, PTL DEF Spec, Serializable, Lifecycle!Spec

-----------------------------------------------------------------------------
(* What validate_queue_v4 asks, of the concurrent system.                  *)

\* The runtime branch never holds a queue that validate_queue_v4 refuses,
\* and no job ever reads one or is about to write one.
THEOREM BranchStaysValid ==
    Spec => [](/\ ValidQueue(store.queue)
               /\ \A c \in Commands :
                    job[c].stage \in {"planned", "checked"} =>
                      /\ ValidQueue(job[c].source.queue)
                      /\ ValidQueue(job[c].plan.queue))
<1> DEFINE Valid ==
             /\ ValidQueue(store.queue)
             /\ \A c \in Commands :
                  job[c].stage \in {"planned", "checked"} =>
                    /\ ValidQueue(job[c].source.queue)
                    /\ ValidQueue(job[c].plan.queue)
<1>1. ASSUME NEW q, Good(q)
      PROVE  ValidQueue(q)
  BY <1>1 DEF Good, TaskDiscipline, ValidQueue
<1>2. IInv => Valid
  <2> SUFFICES ASSUME IInv
               PROVE  Valid
    OBVIOUS
  <2>1. ValidQueue(store.queue)
    BY <1>1 DEF IInv
  <2>2. ASSUME NEW c \in Commands, job[c].stage \in {"planned", "checked"}
        PROVE  Good(job[c].source.queue) /\ Good(job[c].plan.queue)
    BY <2>2, JobFacts DEF JobOK, Snapshot, PlanOK
  <2> QED  BY <1>1, <2>1, <2>2
<1> QED  BY <1>2, Invariant, PTL
=============================================================================
