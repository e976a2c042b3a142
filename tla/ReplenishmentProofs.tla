------------------------ MODULE ReplenishmentProofs -------------------------
(***************************************************************************)
(* The safety of materialization, for every number of Missions, gaps, runs *)
(* and commands.  One inductive invariant carries it: what a job has read, *)
(* and what it plans to write, is sound under the authority it has read,   *)
(* and the versions tell whether that is still the present one.            *)
(***************************************************************************)
EXTENDS Replenishment, TLAPS

-----------------------------------------------------------------------------
(* What is true of a queue under the Missions it was written for.          *)

\* Evidence comes from an earlier revision.
CarryIsEarlier(missions) ==
    \A task \in missions.carry :
      task.revision < missions.revision[RepositoryOf(task)]

\* A task of the current revision comes after those its gap depends on.
InOrder(tasks, missions) ==
    \A task \in tasks : IdOf(task) = CurrentId(missions, task.gap) =>
      \A d \in DependsOn[task.gap] :
        \/ missions.state[d] = "RETIRED" /\ Carried(missions, d)
        \/ \E t \in tasks : t.status = "DONE" /\ IdOf(t) = CurrentId(missions, d)

\* There is no task of a revision yet to come.
NoneAhead(tasks, missions) ==
    \A task \in tasks : task.revision <= missions.revision[RepositoryOf(task)]

Sound(q, missions) ==
    /\ q \in Queue
    /\ ValidQueue(q)
    /\ NoneAhead(q.tasks, missions)
    /\ InOrder(q.tasks, missions)

\* What NoTaskLost says of a task when "after" replaces "before".
Kept(before, after, missions) ==
    \A task \in before :
      \/ \E next \in after :
           IdOf(next) = IdOf(task) /\ (task.status = "DONE" => next = task)
      \/ /\ task.status # "DONE"
         /\ IdOf(task) # CurrentId(missions, task.gap)
         /\ missions.state[task.gap] = "RETIRED"

\* One task per identity.
OneEach(tasks) == \A s, t \in tasks : IdOf(s) = IdOf(t) => s = t

\* "after" has the tasks of "before" in other statuses, the DONE ones as they
\* are.
Moved(before, after) ==
    /\ after \in SUBSET Task
    /\ OneEach(after)
    /\ \A task \in before : \E next \in after :
         IdOf(next) = IdOf(task) /\ (task.status = "DONE" => next = task)
    /\ \A next \in after : \E task \in before : IdOf(next) = IdOf(task)

-----------------------------------------------------------------------------
(* What is true of one job.                                                *)

\* Its snapshot is sound, and is the present state if its versions are the
\* present ones, but for a lease that has run out since.
Snapshot(j, s, a) ==
    /\ j.source \in Store /\ j.main \in Authority
    /\ CarryIsEarlier(j.main.missions)
    /\ Sound(j.source.queue, j.main.missions)
    /\ j.source.version <= s.version
    /\ j.source.version = s.version =>
         /\ j.source.queue.tasks = s.queue.tasks
         /\ j.source.queue.lock = None => s.queue.lock = None
    /\ j.main.version <= a.version
    /\ j.main.version = a.version => j.main = a

\* Its plan is sound, binds, loses nothing and was made with no lock.
Plan(cmd, j) ==
    /\ Sound(j.plan, j.main.missions)
    /\ BoundQueue(j.plan, j.main.missions)
    /\ Kept(j.source.queue.tasks, j.plan.tasks, j.main.missions)
    /\ j.source.queue.lock = None
    /\ cmd.kind # "ACTIVATE" => j.main.enabled
    /\ IF cmd.kind = "TICK"
       THEN /\ j.result = "ERROR"
            /\ \E id \in TaskId :
                 j.plan.lock = [task |-> id, run |-> cmd.run, live |-> TRUE]
       ELSE j.plan.lock = None

JobOK(cmd, j, s, a) ==
    /\ cmd = None <=> j.stage = "unposted"
    /\ j.stage = "unposted" => j.commit = 0 /\ ~j.made
    /\ j.commit <= s.version
    /\ j.stage = "ticking" => cmd.kind = "START"
    /\ j.stage = "idle" => cmd.kind = "TICK"
    /\ cmd # None /\ cmd.kind = "TICK" /\ j.made =>
         j.stage = "over" /\ j.result # "NO_WORK"
    /\ j.stage \in {"loaded", "planned", "checked"} =>
         /\ Snapshot(j, s, a)
         /\ cmd.kind # "ACTIVATE" =>
              BoundQueue(j.source.queue, j.main.missions)
    /\ j.stage \in {"planned", "checked"} => Plan(cmd, j)

BranchesOK(s, a) ==
    /\ s \in Store /\ a \in Authority
    /\ CarryIsEarlier(a.missions)
    /\ Sound(s.queue, a.missions)

Command == RunCommand \cup ActivateCommand \cup {None}

\* The inductive invariant.
IInv ==
    /\ BranchesOK(store, authority)
    /\ command \in [Commands -> Command]
    /\ job \in [Commands -> Job]
    /\ grants \in [Runs -> Nat]
    /\ \A c \in Commands : JobOK(command[c], job[c], store, authority)

\* Two TICKs of one run in the order of their creation.
Ticks2(c, d) ==
    /\ c < d
    /\ Posted(c) /\ Posted(d)
    /\ command[c].kind = "TICK" /\ command[d].kind = "TICK"
    /\ command[c].run = command[d].run

\* A TICK that has passed its second look saw no later one with a commit: one
\* that has a commit now has made it since.
CommitsInOrder ==
    \A c, d \in Commands : Ticks2(c, d) /\ job[d].commit > 0 =>
      /\ job[c].commit > 0 => job[c].commit < job[d].commit
      /\ job[c].stage = "checked" => job[c].source.version < job[d].commit

-----------------------------------------------------------------------------
(* Operators.                                                              *)

\* What a Mission drops is never of its current revision.
LEMMA SupersededIsNotCurrent ==
    ASSUME NEW m \in Missions, CarryIsEarlier(m), NEW q \in Queue,
           NEW repo \in Repositories,
           NEW task \in SupersededTasks(q, m, repo)
    PROVE  /\ task \in q.tasks /\ task \in Task
           /\ task.status # "DONE"
           /\ IdOf(task) # CurrentId(m, task.gap)
<1>1. /\ task \in q.tasks /\ task.status # "DONE"
      /\ RepositoryOf(task) = repo
      /\ task.revision \in RecognizedRevisions(m, repo)
  BY DEF SupersededTasks
<1>2. task \in Task
  BY <1>1 DEF Queue
<1>3. m.revision[repo] \in Nat
  BY MissionAssumption DEF Missions, Revisions
<1>4. task.revision # m.revision[repo]
  <2>1. CASE task.revision = m.revision[repo] - 1
    BY <2>1, <1>3
  <2>2. ASSUME NEW c \in m.carry, RepositoryOf(c) = repo,
               task.revision = c.revision
        PROVE  task.revision # m.revision[repo]
    <3>1. c.revision < m.revision[repo] /\ c.revision \in Nat
      BY <2>2 DEF CarryIsEarlier, Missions, Task, Revisions
    <3> QED  BY <3>1, <2>2, <1>3
  <2> QED  BY <1>1, <2>1, <2>2 DEF RecognizedRevisions
<1>5. IdOf(task) # CurrentId(m, task.gap)
  BY <1>1, <1>4 DEF IdOf, CurrentId, RepositoryOf
<1> QED  BY <1>1, <1>2, <1>5

\* An eligible gap has no task yet, and its dependencies are satisfied by
\* what remains of the queue.
LEMMA Eligible ==
    ASSUME NEW m \in Missions, CarryIsEarlier(m), NEW q \in Queue,
           NEW repo \in Repositories, NEW g \in EligibleGaps(q, m, repo)
    PROVE  /\ g \in Gaps /\ GapRepository[g] = repo
           /\ q.lock = None
           /\ m.state[g] = "OPEN"
           /\ \A task \in q.tasks : IdOf(task) # CurrentId(m, g)
           /\ BoundQueue(Reconciled(q, m, repo), m)
           /\ Retired(SupersededTasks(q, m, repo), m)
           /\ \A d \in DependsOn[g] :
                \/ m.state[d] = "RETIRED" /\ Carried(m, d)
                \/ \E t \in Reconciled(q, m, repo).tasks :
                     t.status = "DONE" /\ IdOf(t) = CurrentId(m, d)
<1> DEFINE kept == Reconciled(q, m, repo)
<1>1. /\ g \in Gaps /\ GapRepository[g] = repo
      /\ CanReconcile(q, m, repo) /\ m.state[g] = "OPEN"
      /\ ~Materialized(kept, m, g)
      /\ \A d \in DependsOn[g] : DependencyIsSatisfied(kept, m, d)
  BY DEF EligibleGaps, GapsOf
<1>2. /\ q.lock = None /\ BoundQueue(kept, m)
      /\ Retired(SupersededTasks(q, m, repo), m)
  BY <1>1 DEF CanReconcile
<1>3. kept.tasks = q.tasks \ SupersededTasks(q, m, repo)
  BY DEF Reconciled, Queue
<1>4. ASSUME NEW task \in q.tasks, IdOf(task) = CurrentId(m, g)
      PROVE  FALSE
  <2>1. task.gap = g
    BY <1>4 DEF IdOf, CurrentId
  <2>2. task \in kept.tasks
    BY <1>3, <1>4, <2>1, SupersededIsNotCurrent
  <2> QED  BY <1>1, <1>4, <2>2 DEF Materialized
<1>5. \A d \in DependsOn[g] :
        \/ m.state[d] = "RETIRED" /\ Carried(m, d)
        \/ \E t \in kept.tasks :
             t.status = "DONE" /\ IdOf(t) = CurrentId(m, d)
  <2> HIDE DEF kept
  <2> QED  BY <1>1 DEF DependencyIsSatisfied
<1> QED  BY <1>1, <1>2, <1>4, <1>5
-----------------------------------------------------------------------------
(* What the commands do to the tasks of a queue.                           *)

\* Giving some tasks that are not DONE another status moves the queue.
LEMMA RestatusMoves ==
    ASSUME NEW tasks \in SUBSET Task, OneEach(tasks),
           NEW S \in SUBSET tasks, NEW status \in Status,
           \A t \in S : t.status # "DONE"
    PROVE  Moved(tasks, (tasks \ S)
                        \cup {[t EXCEPT !.status = status] : t \in S})
<1> DEFINE new(t) == [t EXCEPT !.status = status]
           after == (tasks \ S) \cup {new(t) : t \in S}
<1>1. ASSUME NEW t \in Task
      PROVE  new(t) \in Task /\ IdOf(new(t)) = IdOf(t)
  BY DEF Task, IdOf
<1>2. after \in SUBSET Task
  BY <1>1
<1>3. ASSUME NEW n \in after
      PROVE  \E t \in tasks : IdOf(n) = IdOf(t) /\ n = (IF t \in S THEN new(t) ELSE t)
  BY <1>1
<1>4. OneEach(after)
  <2>1. ASSUME NEW m \in after, NEW n \in after, IdOf(m) = IdOf(n)
        PROVE  m = n
    BY <2>1, <1>3 DEF OneEach
  <2> QED  BY <2>1 DEF OneEach
<1>5. ASSUME NEW t \in tasks
      PROVE  \E n \in after : IdOf(n) = IdOf(t) /\ (t.status = "DONE" => n = t)
  BY <1>1
<1> HIDE DEF after
<1>6. Moved(tasks, after)
  BY <1>2, <1>3, <1>4, <1>5 DEF Moved
<1> QED  BY <1>6 DEF after

\* A queue whose tasks have moved is as sound, and bound, as it was; its lock
\* is looked at apart.
LEMMA MovedIsSound ==
    ASSUME NEW m \in Missions, NEW q \in Queue, Sound(q, m),
           NEW image \in Queue, Moved(q.tasks, image.tasks),
           image.lock # None => \E t \in image.tasks :
             IdOf(t) = image.lock.task /\ t.status = "ACTIVE"
    PROVE  /\ Sound(image, m)
           /\ BoundQueue(q, m) => BoundQueue(image, m)
           /\ Kept(q.tasks, image.tasks, m)
<1> DEFINE before == q.tasks
           after == image.tasks
<1>1. /\ before \in SUBSET Task /\ after \in SUBSET Task
      /\ OneEach(after)
  BY DEF Queue, Moved
<1>2. ValidQueue(image)
  BY <1>1 DEF ValidQueue, OneEach
<1>3. ASSUME NEW n \in after
      PROVE  \E t \in before : /\ IdOf(n) = IdOf(t)
                               /\ n.gap = t.gap /\ n.revision = t.revision
  <2>1. PICK t \in before : IdOf(n) = IdOf(t)
    BY DEF Moved
  <2> QED  BY <2>1 DEF IdOf
<1>4. ASSUME NEW t \in before, t.status = "DONE"
      PROVE  t \in after
  BY <1>4 DEF Moved
<1>5. NoneAhead(after, m)
  BY <1>3 DEF NoneAhead, RepositoryOf, Sound
<1>6. InOrder(after, m)
  <2> SUFFICES ASSUME NEW n \in after, IdOf(n) = CurrentId(m, n.gap),
                      NEW d \in DependsOn[n.gap]
               PROVE  \/ m.state[d] = "RETIRED" /\ Carried(m, d)
                      \/ \E t \in after :
                           t.status = "DONE" /\ IdOf(t) = CurrentId(m, d)
    BY DEF InOrder
  <2>1. PICK t \in before : IdOf(n) = IdOf(t) /\ n.gap = t.gap
    BY <1>3
  <2>2. IdOf(t) = CurrentId(m, t.gap) /\ d \in DependsOn[t.gap]
    BY <2>1
  <2> QED  BY <2>2, <1>4 DEF InOrder, Sound
<1>7. ASSUME BoundQueue(q, m)
      PROVE  BoundQueue(image, m)
  <2> SUFFICES ASSUME NEW n \in after
               PROVE  BoundTask(n, m)
    BY DEF BoundQueue
  <2>1. PICK t \in before : IdOf(n) = IdOf(t) /\ n.gap = t.gap
    BY <1>3
  <2>2. BoundTask(t, m)
    BY <1>7 DEF BoundQueue
  <2>3. CASE IdOf(n) = CurrentId(m, n.gap)
    BY <2>1, <2>2, <2>3 DEF BoundTask
  <2>4. CASE IdOf(n) # CurrentId(m, n.gap)
    <3>1. t.status = "DONE" /\ t \in m.carry
      BY <2>1, <2>2, <2>4 DEF BoundTask
    <3>2. n = t
      BY <1>1, <1>4, <2>1, <3>1 DEF OneEach
    <3> QED  BY <2>2, <3>2
  <2> QED  BY <2>3, <2>4
<1>8. Kept(before, after, m)
  BY DEF Moved, Kept
<1> QED  BY <1>2, <1>5, <1>6, <1>7, <1>8 DEF Sound

\* Acquiring a task that is not DONE.
LEMMA AcquiredIsSound ==
    ASSUME NEW m \in Missions, NEW q \in Queue, Sound(q, m),
           NEW task \in q.tasks, task.status # "DONE", NEW run \in Runs
    PROVE  /\ Acquired(q, task, run) \in Queue
           /\ Moved(q.tasks, Acquired(q, task, run).tasks)
           /\ Sound(Acquired(q, task, run), m)
           /\ BoundQueue(q, m) => BoundQueue(Acquired(q, task, run), m)
           /\ IdOf(task) \in TaskId
           /\ Acquired(q, task, run).lock =
                [task |-> IdOf(task), run |-> run, live |-> TRUE]
<1> DEFINE active == [task EXCEPT !.status = "ACTIVE"]
           image == Acquired(q, task, run)
<1>1. q.tasks \in SUBSET Task /\ task \in Task /\ OneEach(q.tasks)
  BY DEF Queue, Sound, ValidQueue, OneEach
<1>2. /\ image.tasks = (q.tasks \ {task}) \cup {active}
      /\ image.lock = [task |-> IdOf(task), run |-> run, live |-> TRUE]
      /\ image = [tasks |-> image.tasks, lock |-> image.lock]
  BY DEF Acquired
<1>3. active \in Task /\ IdOf(active) = IdOf(task) /\ active.status = "ACTIVE"
  BY <1>1 DEF Task, Status, IdOf
<1>4. IdOf(task) \in TaskId
  BY <1>1 DEF IdOf, TaskId, Task
<1>5. image.lock \in Lock
  BY <1>2, <1>4 DEF Lock
<1> HIDE DEF active, image
<1>6. Moved(q.tasks, image.tasks)
  <2> DEFINE S == {task}
             after == (q.tasks \ S)
                      \cup {[t EXCEPT !.status = "ACTIVE"] : t \in S}
  <2>1. Moved(q.tasks, after)
    BY <1>1, RestatusMoves DEF Status
  <2>2. after = image.tasks
    BY <1>2 DEF active
  <2> QED  BY <2>1, <2>2
<1>7. image \in Queue
  BY <1>1, <1>2, <1>3, <1>5 DEF Queue
<1>8. \E t \in image.tasks : IdOf(t) = image.lock.task /\ t.status = "ACTIVE"
  BY <1>2, <1>3
<1>9. Sound(image, m) /\ (BoundQueue(q, m) => BoundQueue(image, m))
  BY <1>6, <1>7, <1>8, MovedIsSound
<1> QED  BY <1>2, <1>4, <1>6, <1>7, <1>9 DEF image

\* What the lock leaves behind, parked tasks resumed, is as sound.
LEMMA ResumedIsSound ==
    ASSUME NEW m \in Missions, NEW q \in Queue, Sound(q, m),
           NEW image \in Resumed(q)
    PROVE  /\ image \in Queue /\ image.lock = None
           /\ Moved(q.tasks, image.tasks)
           /\ Sound(image, m)
           /\ BoundQueue(q, m) => BoundQueue(image, m)
<1>1. q.tasks \in SUBSET Task /\ OneEach(q.tasks)
  BY DEF Queue, Sound, ValidQueue, OneEach
<1>2. PICK S \in SUBSET {t \in q.tasks : t.status = "BLOCKED"} :
        image = [tasks |-> (q.tasks \ S)
                           \cup {[t EXCEPT !.status = "ACTIVE"] : t \in S},
                 lock |-> None]
  BY DEF Resumed
<1>3. S \in SUBSET q.tasks /\ \A t \in S : t.status # "DONE"
  BY <1>2
<1>4. Moved(q.tasks, image.tasks)
  BY <1>1, <1>2, <1>3, RestatusMoves DEF Status
<1>5. image \in Queue /\ image.lock = None
  BY <1>2, <1>4 DEF Moved, Queue
<1> QED  BY <1>4, <1>5, MovedIsSound

\* Parking the selected task in such a queue.
LEMMA ParkedIsSound ==
    ASSUME NEW m \in Missions, NEW q \in Queue, Sound(q, m), q.lock = None,
           NEW image \in Parked(q)
    PROVE  /\ image \in Queue /\ image.lock = None
           /\ Moved(q.tasks, image.tasks)
           /\ Sound(image, m)
           /\ BoundQueue(q, m) => BoundQueue(image, m)
<1>1. q.tasks \in SUBSET Task /\ OneEach(q.tasks)
  BY DEF Queue, Sound, ValidQueue, OneEach
<1>2. PICK u \in {t \in q.tasks : t.status = "ACTIVE"} :
        image = [q EXCEPT !.tasks = (q.tasks \ {u})
                                    \cup {[u EXCEPT !.status = "BLOCKED"]}]
  BY DEF Parked
<1> DEFINE S == {u}
           after == (q.tasks \ S)
                    \cup {[t EXCEPT !.status = "BLOCKED"] : t \in S}
<1>3. image.tasks = after /\ image.lock = None
      /\ image = [tasks |-> image.tasks, lock |-> image.lock]
  BY <1>2 DEF Queue
<1>4. S \in SUBSET q.tasks /\ \A t \in S : t.status # "DONE"
  BY <1>2
<1>5. Moved(q.tasks, after)
  BY <1>1, <1>4, RestatusMoves DEF Status
<1> HIDE DEF after
<1>6. image \in Queue
  BY <1>3, <1>5 DEF Moved, Queue
<1> QED  BY <1>3, <1>5, <1>6, MovedIsSound

\* Movements follow each other.
LEMMA MovedTwice ==
    ASSUME NEW first, NEW second, NEW third, NEW m,
           Moved(second, third)
    PROVE  /\ Moved(first, second) => Moved(first, third)
           /\ Kept(first, second, m) => Kept(first, third, m)
<1>1. ASSUME Moved(first, second)
      PROVE  Moved(first, third)
  <2>1. ASSUME NEW t \in first
        PROVE  \E n \in third :
                 IdOf(n) = IdOf(t) /\ (t.status = "DONE" => n = t)
    BY <1>1 DEF Moved
  <2>2. ASSUME NEW n \in third
        PROVE  \E t \in first : IdOf(n) = IdOf(t)
    BY <1>1 DEF Moved
  <2> QED  BY <2>1, <2>2 DEF Moved
<1>2. ASSUME Kept(first, second, m)
      PROVE  Kept(first, third, m)
  <2> SUFFICES ASSUME NEW t \in first,
                      NEW s \in second, IdOf(s) = IdOf(t),
                      t.status = "DONE" => s = t
               PROVE  \E n \in third :
                        IdOf(n) = IdOf(t) /\ (t.status = "DONE" => n = t)
    BY <1>2 DEF Kept
  <2> QED  BY DEF Moved
<1> QED  BY <1>1, <1>2

-----------------------------------------------------------------------------
(* What materializing does to a queue.                                     *)

\* What remains after the owner's reconciliation.
LEMMA ReconciledIsSound ==
    ASSUME NEW m \in Missions, CarryIsEarlier(m), NEW q \in Queue, Sound(q, m),
           NEW repo \in Repositories, q.lock = None,
           Retired(SupersededTasks(q, m, repo), m)
    PROVE  /\ Reconciled(q, m, repo) \in Queue
           /\ Reconciled(q, m, repo).lock = None
           /\ Reconciled(q, m, repo).tasks \in SUBSET q.tasks
           /\ Sound(Reconciled(q, m, repo), m)
           /\ Kept(q.tasks, Reconciled(q, m, repo).tasks, m)
<1> DEFINE rest == Reconciled(q, m, repo)
           dropped == SupersededTasks(q, m, repo)
<1>1. /\ rest.tasks = q.tasks \ dropped /\ rest.lock = None
      /\ rest = [tasks |-> rest.tasks, lock |-> rest.lock]
  BY DEF Reconciled, Queue
<1> HIDE DEF rest
<1>2. \A t \in dropped : /\ t.status # "DONE"
                         /\ IdOf(t) # CurrentId(m, t.gap)
                         /\ m.state[t.gap] = "RETIRED"
  BY SupersededIsNotCurrent DEF Retired
<1> HIDE DEF dropped
<1>3. rest \in Queue
  BY <1>1 DEF Queue
<1>4. ValidQueue(rest)
  BY <1>1 DEF Sound, ValidQueue
<1>5. NoneAhead(rest.tasks, m)
  BY <1>1 DEF Sound, NoneAhead
<1>6. InOrder(rest.tasks, m)
  BY <1>1, <1>2 DEF Sound, InOrder
<1>7. Kept(q.tasks, rest.tasks, m)
  BY <1>1, <1>2 DEF Kept
<1> QED  BY <1>1, <1>3, <1>4, <1>5, <1>6, <1>7 DEF Sound, rest

\* The root task of a gap that has none and whose dependencies are satisfied.
LEMMA RootIsSound ==
    ASSUME NEW m \in Missions, NEW q \in Queue, Sound(q, m), BoundQueue(q, m),
           q.lock = None, NEW g \in Gaps, m.state[g] = "OPEN",
           NEW status \in Status,
           \A t \in q.tasks : IdOf(t) # CurrentId(m, g),
           \A d \in DependsOn[g] :
             \/ m.state[d] = "RETIRED" /\ Carried(m, d)
             \/ \E t \in q.tasks :
                  t.status = "DONE" /\ IdOf(t) = CurrentId(m, d)
    PROVE  /\ RootTask(m, g, status) \in Task
           /\ WithTask(q, RootTask(m, g, status)) \in Queue
           /\ WithTask(q, RootTask(m, g, status)).lock = None
           /\ WithTask(q, RootTask(m, g, status)).tasks =
                q.tasks \cup {RootTask(m, g, status)}
           /\ Sound(WithTask(q, RootTask(m, g, status)), m)
           /\ BoundQueue(WithTask(q, RootTask(m, g, status)), m)
<1> DEFINE root == RootTask(m, g, status)
           image == WithTask(q, root)
<1>1. /\ image.tasks = q.tasks \cup {root} /\ image.lock = None
      /\ image = [tasks |-> image.tasks, lock |-> image.lock]
  BY DEF WithTask, Queue
<1> HIDE DEF image
<1>2. /\ root.gap = g /\ root.revision = m.revision[GapRepository[g]]
      /\ IdOf(root) = CurrentId(m, g)
  BY DEF RootTask, IdOf, CurrentId
<1>3. root \in Task
  <2>1. GapRepository[g] \in Repositories
    BY MissionAssumption
  <2>2. m.revision[GapRepository[g]] \in Revisions
    BY <2>1 DEF Missions
  <2> QED  BY <2>2 DEF RootTask, Task
<1>4. root.revision \in Nat
  BY <1>3 DEF Task, Revisions
<1> HIDE DEF root
<1>5. image \in Queue
  BY <1>1, <1>3 DEF Queue
<1>6. ValidQueue(image)
  BY <1>1, <1>2 DEF Sound, ValidQueue
<1>7. NoneAhead(image.tasks, m)
  BY <1>1, <1>2, <1>4 DEF Sound, NoneAhead, RepositoryOf
<1>8. InOrder(image.tasks, m)
  <2>1. ASSUME NEW t \in image.tasks, IdOf(t) = CurrentId(m, t.gap),
               NEW d \in DependsOn[t.gap]
        PROVE  \/ m.state[d] = "RETIRED" /\ Carried(m, d)
               \/ \E e \in q.tasks :
                    e.status = "DONE" /\ IdOf(e) = CurrentId(m, d)
    <3>1. CASE t \in q.tasks
      BY <2>1, <3>1 DEF Sound, InOrder
    <3>2. CASE t = root
      BY <1>2, <2>1, <3>2
    <3> QED  BY <1>1, <3>1, <3>2
  <2> QED  BY <1>1, <2>1 DEF InOrder
<1>9. BoundQueue(image, m)
  BY <1>1, <1>2 DEF BoundQueue, BoundTask
<1> QED
  BY <1>1, <1>3, <1>5, <1>6, <1>7, <1>8, <1>9 DEF Sound, root, image

-----------------------------------------------------------------------------
(* What a step leaves alone.                                               *)

\* The branch has a new commit, or its lease has run out at most.
StoreAhead(s, next) ==
    \/ next.version = s.version + 1
    \/ /\ next.version = s.version
       /\ next.queue.tasks = s.queue.tasks
       /\ s.queue.lock = None => next.queue.lock = None

AuthorityAhead(a, next) == next = a \/ next.version = a.version + 1

\* Whatever happens to the branches, a job that does not move stays sound.
LEMMA JobStaysOK ==
    ASSUME NEW cmd, NEW j \in Job, NEW s \in Store, NEW s2 \in Store,
           NEW a \in Authority, NEW a2 \in Authority, JobOK(cmd, j, s, a),
           StoreAhead(s, s2), AuthorityAhead(a, a2)
    PROVE  JobOK(cmd, j, s2, a2)
<1>1. /\ s.version \in Nat /\ s2.version \in Nat /\ s.version <= s2.version
      /\ a.version \in Nat /\ a2.version \in Nat /\ a.version <= a2.version
      /\ j.commit \in Nat
  BY DEF Store, Authority, Job, StoreAhead, AuthorityAhead
<1>2. j.commit <= s2.version
  BY <1>1 DEF JobOK
<1>3. ASSUME Snapshot(j, s, a)
      PROVE  Snapshot(j, s2, a2)
  <2>1. /\ j.source \in Store /\ j.source.version \in Nat
        /\ j.main \in Authority /\ j.main.version \in Nat
    BY <1>3 DEF Snapshot, Store, Authority
  <2>2. j.source.version <= s2.version /\ j.main.version <= a2.version
    BY <1>1, <1>3, <2>1 DEF Snapshot
  <2>3. ASSUME j.source.version = s2.version
        PROVE  /\ j.source.queue.tasks = s2.queue.tasks
               /\ j.source.queue.lock = None => s2.queue.lock = None
    BY <1>1, <1>3, <2>1, <2>3 DEF Snapshot, StoreAhead
  <2>4. ASSUME j.main.version = a2.version
        PROVE  j.main = a2
    BY <1>1, <1>3, <2>1, <2>4 DEF Snapshot, AuthorityAhead
  <2> QED  BY <1>3, <2>2, <2>3, <2>4 DEF Snapshot
<1> QED  BY <1>2, <1>3 DEF JobOK

\* A step that moves one job, and the branches with it.
LEMMA OneJobMoves ==
    ASSUME IInv, NEW c \in Commands, UNCHANGED command,
           job' \in [Commands -> Job],
           \A d \in Commands \ {c} : job'[d] = job[d],
           grants' \in [Runs -> Nat],
           BranchesOK(store', authority'),
           StoreAhead(store, store'), AuthorityAhead(authority, authority'),
           JobOK(command[c], job'[c], store', authority')
    PROVE  IInv'
<1>1. /\ store \in Store /\ store' \in Store
      /\ authority \in Authority /\ authority' \in Authority
  BY DEF IInv, BranchesOK
<1>2. ASSUME NEW d \in Commands
      PROVE  JobOK(command'[d], job'[d], store', authority')
  <2>1. CASE d = c
    BY <2>1
  <2>2. CASE d # c
    <3>1. job[d] \in Job /\ JobOK(command[d], job[d], store, authority)
      BY DEF IInv
    <3>2. job'[d] = job[d]
      BY <2>2
    <3> QED  BY <1>1, <3>1, <3>2, JobStaysOK
  <2> QED  BY <2>1, <2>2
<1>3. BranchesOK(store, authority)'
  OBVIOUS
<1> QED  BY <1>2, <1>3 DEF IInv

\* A step of the branches alone.
LEMMA BranchesMove ==
    ASSUME IInv, UNCHANGED <<command, job, grants>>,
           BranchesOK(store', authority'),
           StoreAhead(store, store'), AuthorityAhead(authority, authority')
    PROVE  IInv'
<1>1. /\ store \in Store /\ store' \in Store
      /\ authority \in Authority /\ authority' \in Authority
  BY DEF IInv, BranchesOK
<1>2. ASSUME NEW d \in Commands
      PROVE  JobOK(command'[d], job'[d], store', authority')
  <2>1. job[d] \in Job /\ JobOK(command[d], job[d], store, authority)
    BY DEF IInv
  <2> QED  BY <1>1, <2>1, JobStaysOK
<1> QED  BY <1>2 DEF IInv

\* A commit of a sound image.
LEMMA CommitIsOK ==
    ASSUME NEW s, NEW a, BranchesOK(s, a), NEW image,
           Sound(image, a.missions),
           NEW s2, s2 = [version |-> s.version + 1, queue |-> image]
    PROVE  /\ BranchesOK(s2, a) /\ StoreAhead(s, s2) /\ AuthorityAhead(a, a)
           /\ s.version \in Nat /\ s2.version = s.version + 1
           /\ s2.version # s.version
           /\ s2.queue = image
BY DEF BranchesOK, Store, Sound, StoreAhead, AuthorityAhead

\* No commit at all.
LEMMA NoCommitIsOK ==
    ASSUME NEW s, NEW a
    PROVE  StoreAhead(s, s) /\ AuthorityAhead(a, a)
BY DEF StoreAhead, AuthorityAhead

LEMMA KeptAsTheyAre ==
    ASSUME NEW tasks, NEW m
    PROVE  Kept(tasks, tasks, m)
BY DEF Kept

-----------------------------------------------------------------------------
(* What every step does to the branch: the four properties that are about  *)
(* steps, with what the invariant adds to them.                            *)

Granted(r, id) ==
    /\ store.queue.lock = None \/ ~store.queue.lock.live
    /\ store'.queue.lock = [task |-> id, run |-> r, live |-> TRUE]
    /\ grants' = [grants EXCEPT ![r] = @ + 1]

LockStep ==
    \/ \E r \in Runs, id \in TaskId : Granted(r, id)
    \/ /\ Busy(store.queue)
       /\ store'.queue.lock = [store.queue.lock EXCEPT !.live = FALSE]
       /\ UNCHANGED grants
    \/ store'.queue.lock \in {None, store.queue.lock} /\ UNCHANGED grants

StepOK ==
    /\ store'.version # store.version =>
         BoundQueue(store'.queue, authority.missions)
    /\ Kept(store.queue.tasks, store'.queue.tasks, authority.missions)
    /\ LockStep
    /\ \A c \in Commands : job'[c].made /\ ~job[c].made =>
         command[c].kind = "ACTIVATE" \/ authority.enabled

\* A step that leaves the branch alone and makes nothing.
LEMMA StandsStill ==
    ASSUME UNCHANGED <<store, grants>>,
           \A c \in Commands : job'[c].made => job[c].made
    PROVE  StepOK
BY KeptAsTheyAre DEF StepOK, LockStep

\* What a step does to the commit of a posted TICK, and how one comes to be
\* checked.
CommitOf(c) ==
    /\ \/ job'[c].commit = job[c].commit
       \/ /\ job'[c].commit = store.version + 1
          /\ job'[c].stage # "checked"
          /\ \/ Admitted(c)
             \/ /\ job[c].stage = "checked"
                /\ job[c].source.version = store.version
          /\ \A d \in Commands \ {c} : job'[d] = job[d]
    /\ job'[c].stage = "checked" =>
         /\ job'[c].source = job[c].source
         /\ job[c].stage = "checked" \/ Admitted(c)

CommitStep ==
    /\ \A c \in Commands : Posted(c) => command'[c] = command[c]
    /\ \A c \in Commands : ~Posted(c) =>
         job'[c].commit = 0 /\ job'[c].stage # "checked"
    /\ \A c \in Commands : Posted(c) /\ command[c].kind = "TICK" => CommitOf(c)

LEMMA NoJobCommits ==
    ASSUME IInv, UNCHANGED <<command, job>>
    PROVE  CommitStep
BY DEF IInv, JobOK, CommitStep, CommitOf, Posted

LEMMA OneJobCommits ==
    ASSUME IInv, NEW c \in Commands, UNCHANGED command,
           \A d \in Commands \ {c} : job'[d] = job[d],
           command[c] # None,
           command[c].kind = "TICK" => CommitOf(c)
    PROVE  CommitStep
<1>1. ASSUME NEW d \in Commands, command[d] = None
      PROVE  job'[d].commit = 0 /\ job'[d].stage # "checked"
  <2>1. JobOK(command[d], job[d], store, authority) /\ job'[d] = job[d]
    BY <1>1 DEF IInv
  <2> QED  BY <1>1, <2>1 DEF JobOK
<1>2. ASSUME NEW d \in Commands, Posted(d), command[d].kind = "TICK"
      PROVE  CommitOf(d)
  <2>1. CASE d = c
    BY <1>2, <2>1
  <2>2. CASE d # c
    <3>1. job'[d] = job[d]
      BY <2>2
    <3> QED  BY <3>1 DEF CommitOf
  <2> QED  BY <2>1, <2>2
<1> QED  BY <1>1, <1>2 DEF CommitStep, Posted

\* A job that moves with its commit as it was.
LEMMA OneJobKeepsItsCommit ==
    ASSUME IInv, NEW c \in Commands, UNCHANGED command,
           \A d \in Commands \ {c} : job'[d] = job[d],
           command[c] # None,
           job'[c].commit = job[c].commit, job'[c].stage # "checked"
    PROVE  CommitStep
BY OneJobCommits DEF CommitOf

\* A command has a job that is posted.
LEMMA StagedIsPosted ==
    ASSUME IInv, NEW c \in Commands, job[c].stage # "unposted"
    PROVE  command[c] # None
BY DEF IInv, JobOK

-----------------------------------------------------------------------------
(* The world around the jobs.                                              *)

LEMMA PostSteps ==
    ASSUME IInv, NEW cmd \in RunCommand \cup ActivateCommand, Post(cmd)
    PROVE  IInv' /\ StepOK /\ CommitStep
<1>1. PICK c \in Commands :
        /\ ~Posted(c)
        /\ command' = [command EXCEPT ![c] = cmd]
        /\ job' = [job EXCEPT ![c].stage = "posted"]
        /\ UNCHANGED <<store, authority, grants>>
  BY DEF Post
<1>2. /\ command \in [Commands -> Command] /\ job \in [Commands -> Job]
      /\ cmd # None /\ cmd \in Command
  BY NoneIsNoCommand DEF IInv, Command
<1>3. /\ command' \in [Commands -> Command]
      /\ command'[c] = cmd
      /\ \A d \in Commands \ {c} : command'[d] = command[d]
  BY <1>1, <1>2
<1>4. job[c] \in Job
  BY <1>2
<1>5. [job[c] EXCEPT !.stage = "posted"] \in Job
  BY <1>4 DEF Job, Stage
<1>6. /\ job' \in [Commands -> Job]
      /\ job'[c] = [job[c] EXCEPT !.stage = "posted"]
      /\ \A d \in Commands \ {c} : job'[d] = job[d]
  BY <1>1, <1>2, <1>5
<1>7. /\ job'[c].stage = "posted" /\ job'[c].commit = job[c].commit
      /\ job'[c].made = job[c].made
  BY <1>4, <1>6 DEF Job
<1>8. ASSUME NEW d \in Commands
      PROVE  JobOK(command'[d], job'[d], store', authority')
  <2>1. JobOK(command[d], job[d], store, authority)
    BY DEF IInv
  <2>2. CASE d # c
    BY <1>1, <1>3, <1>6, <2>1, <2>2
  <2>3. CASE d = c
    <3>1. job[c].stage = "unposted"
      BY <1>1, <2>1, <2>3 DEF JobOK, Posted
    <3>2. job'[c].commit = 0 /\ ~job'[c].made
      BY <1>7, <2>1, <2>3, <3>1 DEF JobOK
    <3>3. 0 <= store'.version
      BY <1>1 DEF IInv, BranchesOK, Store
    <3> QED  BY <1>2, <1>3, <1>7, <2>3, <3>2, <3>3 DEF JobOK
  <2> QED  BY <2>2, <2>3
<1>9. IInv'
  BY <1>1, <1>3, <1>6, <1>8 DEF IInv
<1>10. StepOK
  BY <1>1, <1>6, <1>7, StandsStill
<1>11. CommitStep
  <2>1. job[c].stage = "unposted" /\ job[c].commit = 0 /\ command[c] = None
    BY <1>1 DEF IInv, JobOK, Posted
  <2>2. ASSUME NEW d \in Commands, command[d] = None
        PROVE  job'[d].commit = 0 /\ job'[d].stage # "checked"
    <3>1. JobOK(command[d], job[d], store, authority)
      BY DEF IInv
    <3> QED  BY <1>6, <1>7, <2>1, <2>2, <3>1 DEF JobOK
  <2>3. ASSUME NEW d \in Commands, command[d] # None
        PROVE  command'[d] = command[d] /\ CommitOf(d)
    <3>1. command'[d] = command[d] /\ job'[d] = job[d]
      BY <1>3, <1>6, <2>1, <2>3
    <3> QED  BY <3>1 DEF CommitOf
  <2> QED  BY <2>2, <2>3 DEF CommitStep, Posted
<1> QED  BY <1>9, <1>10, <1>11

LEMMA AgesSteps ==
    ASSUME IInv, NEW c \in Commands, Ages(c)
    PROVE  IInv' /\ StepOK /\ CommitStep
<1>1. job \in [Commands -> Job] /\ job[c] \in Job
  BY DEF IInv
<1>2. [job[c] EXCEPT !.fresh = FALSE] \in Job
  BY <1>1 DEF Job
<1>3. /\ job' \in [Commands -> Job]
      /\ job'[c] = [job[c] EXCEPT !.fresh = FALSE]
      /\ \A d \in Commands \ {c} : job'[d] = job[d]
  BY <1>1, <1>2 DEF Ages
<1>4. /\ job'[c].stage = job[c].stage /\ job'[c].commit = job[c].commit
      /\ job'[c].made = job[c].made /\ job'[c].result = job[c].result
      /\ job'[c].source = job[c].source /\ job'[c].main = job[c].main
      /\ job'[c].plan = job[c].plan
  BY <1>1, <1>3 DEF Job
<1>5. UNCHANGED <<store, authority, command, grants>>
  BY DEF Ages
<1>6. JobOK(command[c], job'[c], store, authority)
  BY <1>4 DEF IInv, JobOK, Snapshot, Plan
<1>7. IInv'
  BY <1>3, <1>5, <1>6, OneJobMoves, NoCommitIsOK DEF IInv
<1>8. StepOK
  BY <1>3, <1>4, <1>5, StandsStill
<1>9. command[c] # None
  BY DEF Ages, OfRun, Posted
<1>10. CommitStep
  BY <1>3, <1>4, <1>5, <1>9, OneJobCommits DEF CommitOf
<1> QED  BY <1>7, <1>8, <1>10

LEMMA LeaseExpiresSteps ==
    ASSUME IInv, LeaseExpires
    PROVE  IInv' /\ StepOK /\ CommitStep
<1> DEFINE q == store.queue
           lock == [q.lock EXCEPT !.live = FALSE]
<1>1. /\ store \in Store /\ q \in Queue /\ q.lock \in Lock
      /\ Sound(q, authority.missions)
  BY DEF IInv, BranchesOK, Store, Queue, LeaseExpires, Busy
<1>2. /\ store' = [store EXCEPT !.queue.lock.live = FALSE]
      /\ UNCHANGED <<authority, command, job, grants>>
      /\ Busy(store.queue)
  BY DEF LeaseExpires
<1>3. store' = [version |-> store.version,
                queue |-> [tasks |-> q.tasks, lock |-> lock]]
  BY <1>1, <1>2 DEF Store, Queue
<1>4. lock \in Lock /\ lock.task = q.lock.task
  BY <1>1 DEF Lock
<1> HIDE DEF lock
<1>5. /\ store'.version = store.version /\ store'.queue.tasks = q.tasks
      /\ store'.queue.lock = lock
  BY <1>3
<1>6. store' \in Store /\ store'.queue \in Queue
  BY <1>1, <1>3, <1>4 DEF Store, Queue
<1>7. Sound(store'.queue, authority.missions)
  BY <1>1, <1>2, <1>4, <1>5, <1>6 DEF Sound, ValidQueue, Busy
<1>8. BranchesOK(store', authority')
  BY <1>2, <1>6, <1>7 DEF IInv, BranchesOK
<1>9. StoreAhead(store, store') /\ AuthorityAhead(authority, authority')
  BY <1>2, <1>5 DEF StoreAhead, AuthorityAhead, Busy
<1>10. IInv'
  BY <1>2, <1>8, <1>9, BranchesMove
<1>11. LockStep
  BY <1>2, <1>5 DEF LockStep, lock
<1>12. StepOK
  BY <1>2, <1>5, <1>11, KeptAsTheyAre DEF StepOK
<1> QED  BY <1>2, <1>10, <1>12, NoJobCommits

LEMMA SwitchSteps ==
    ASSUME IInv, Switch
    PROVE  IInv' /\ StepOK /\ CommitStep
<1>1. /\ authority \in Authority
      /\ authority' = [authority EXCEPT !.version = @ + 1, !.enabled = ~@]
      /\ UNCHANGED <<store, command, job, grants>>
  BY DEF Switch, IInv, BranchesOK
<1>2. /\ authority'.version = authority.version + 1
      /\ authority'.missions = authority.missions
      /\ authority' \in Authority
  <2>1. authority' = [version |-> authority.version + 1,
                      enabled |-> ~authority.enabled,
                      missions |-> authority.missions]
    BY <1>1 DEF Authority
  <2>2. authority.version + 1 \in Nat /\ authority.missions \in Missions
    BY <1>1 DEF Authority
  <2>3. PICK enabled \in BOOLEAN : enabled = ~authority.enabled
    OBVIOUS
  <2> QED  BY <2>1, <2>2, <2>3 DEF Authority
<1>3. BranchesOK(store', authority')
  BY <1>1, <1>2 DEF IInv, BranchesOK
<1>4. StoreAhead(store, store') /\ AuthorityAhead(authority, authority')
  BY <1>1, <1>2, NoCommitIsOK DEF AuthorityAhead
<1>5. IInv'
  BY <1>1, <1>3, <1>4, BranchesMove
<1> QED  BY <1>1, <1>5, StandsStill, NoJobCommits

\* The next revision of a Mission has none of the tasks there are; those of
\* the other Missions are where they were.
LEMMA PublishSteps ==
    ASSUME IInv, NEW repo \in Repositories, Publish(repo)
    PROVE  IInv' /\ StepOK /\ CommitStep
<1> DEFINE old == authority.missions
<1>1. PICK state \in [GapsOf(repo) -> {"OPEN", "RETIRED"}],
           carry \in SUBSET {t \in store.queue.tasks :
                               RepositoryOf(t) = repo /\ t.status = "DONE"} :
         LET new == [revision |-> [old.revision EXCEPT ![repo] = @ + 1],
                     state |-> [g \in Gaps |-> IF g \in GapsOf(repo)
                                               THEN state[g]
                                               ELSE old.state[g]],
                     carry |-> carry \cup
                               {t \in old.carry : RepositoryOf(t) # repo}]
         IN  /\ ValidMission(new, repo)
             /\ authority' = [authority EXCEPT !.version = @ + 1,
                                               !.missions = new]
  BY DEF Publish
<1> DEFINE new == [revision |-> [old.revision EXCEPT ![repo] = @ + 1],
                   state |-> [g \in Gaps |-> IF g \in GapsOf(repo)
                                             THEN state[g]
                                             ELSE old.state[g]],
                   carry |-> carry \cup
                             {t \in old.carry : RepositoryOf(t) # repo}]
<1>2. /\ authority \in Authority /\ old \in Missions
      /\ store \in Store /\ store.queue \in Queue
      /\ Sound(store.queue, old) /\ CarryIsEarlier(old)
      /\ store.queue.tasks \in SUBSET Task
  BY DEF IInv, BranchesOK, Authority, Store, Queue
<1>3. /\ UNCHANGED <<store, command, job, grants>>
      /\ old.revision[repo] < MaxRevision
  BY DEF Publish
<1>4. /\ old.revision \in [Repositories -> Revisions]
      /\ old.state \in [Gaps -> {"OPEN", "RETIRED"}]
      /\ old.carry \in SUBSET Task
  BY <1>2 DEF Missions
<1>5. old.revision[repo] + 1 \in Revisions
  BY <1>3, <1>4, MissionAssumption DEF Revisions
<1>6. new.revision \in [Repositories -> Revisions]
  BY <1>4, <1>5
<1>7. new.state \in [Gaps -> {"OPEN", "RETIRED"}]
  BY <1>4
<1>8. new.carry \in SUBSET Task
  BY <1>2, <1>4
<1>9. new \in Missions
  BY <1>6, <1>7, <1>8 DEF Missions
<1>10. /\ new.revision[repo] = old.revision[repo] + 1
       /\ \A r \in Repositories \ {repo} : new.revision[r] = old.revision[r]
       /\ \A g \in Gaps \ GapsOf(repo) : new.state[g] = old.state[g]
       /\ \A t \in old.carry : RepositoryOf(t) # repo => t \in new.carry
       /\ \A t \in new.carry : RepositoryOf(t) # repo => t \in old.carry
  BY <1>4
<1>11. /\ ValidMission(new, repo)
       /\ authority' = [authority EXCEPT !.version = @ + 1, !.missions = new]
  BY <1>1
<1> HIDE DEF new
<1>12. /\ authority'.version = authority.version + 1
       /\ authority'.missions = new
       /\ authority' \in Authority
  <2>1. authority' = [version |-> authority.version + 1,
                      enabled |-> authority.enabled, missions |-> new]
    BY <1>2, <1>11 DEF Authority
  <2>2. authority.version + 1 \in Nat /\ authority.enabled \in BOOLEAN
    BY <1>2 DEF Authority
  <2> QED  BY <1>9, <2>1, <2>2 DEF Authority
<1>13. \A r \in Repositories : /\ old.revision[r] \in Nat
                               /\ old.revision[r] <= new.revision[r]
  BY <1>4, <1>10, MissionAssumption DEF Revisions
<1>14. CarryIsEarlier(new)
  <2>1. ASSUME NEW t \in new.carry
        PROVE  t.revision < new.revision[RepositoryOf(t)]
    <3>1. CASE RepositoryOf(t) = repo
      BY <1>11, <3>1 DEF ValidMission
    <3>2. CASE RepositoryOf(t) # repo
      <4>1. t \in old.carry /\ RepositoryOf(t) \in Repositories
        BY <1>10, <3>2, <1>4, MissionAssumption DEF RepositoryOf, Task
      <4> QED  BY <1>2, <1>10, <3>2, <4>1 DEF CarryIsEarlier
    <3> QED  BY <3>1, <3>2
  <2> QED  BY <2>1 DEF CarryIsEarlier
<1>15. ASSUME NEW t \in store.queue.tasks
       PROVE  /\ t \in Task /\ t.gap \in Gaps
              /\ RepositoryOf(t) \in Repositories
              /\ t.revision \in Nat
              /\ t.revision <= old.revision[RepositoryOf(t)]
  BY <1>2, MissionAssumption
     DEF Sound, NoneAhead, Task, RepositoryOf, Revisions
<1>16. NoneAhead(store.queue.tasks, new)
  BY <1>13, <1>15, <1>6 DEF NoneAhead, Revisions
<1>17. InOrder(store.queue.tasks, new)
  <2> SUFFICES ASSUME NEW t \in store.queue.tasks,
                      IdOf(t) = CurrentId(new, t.gap),
                      NEW d \in DependsOn[t.gap]
               PROVE  \/ new.state[d] = "RETIRED" /\ Carried(new, d)
                      \/ \E e \in store.queue.tasks :
                           e.status = "DONE" /\ IdOf(e) = CurrentId(new, d)
    BY DEF InOrder
  <2>1. t.revision = new.revision[RepositoryOf(t)]
    BY DEF IdOf, CurrentId, RepositoryOf
  <2>2. RepositoryOf(t) # repo
    BY <2>1, <1>10, <1>13, <1>15
  <2>3. d \in Gaps /\ GapRepository[d] = RepositoryOf(t)
    BY <1>15, MissionAssumption DEF RepositoryOf
  <2>4. IdOf(t) = CurrentId(old, t.gap) /\ CurrentId(old, d) = CurrentId(new, d)
    BY <1>10, <1>15, <2>2, <2>3 DEF CurrentId, RepositoryOf
  <2>5. new.state[d] = old.state[d]
    BY <1>10, <2>2, <2>3 DEF GapsOf
  <2>6. Carried(old, d) => Carried(new, d)
    BY <1>10, <2>2, <2>3 DEF Carried, RepositoryOf
  <2> QED  BY <1>2, <2>4, <2>5, <2>6 DEF Sound, InOrder
<1>18. BranchesOK(store', authority')
  BY <1>2, <1>3, <1>12, <1>14, <1>16, <1>17 DEF BranchesOK, Sound
<1>19. StoreAhead(store, store') /\ AuthorityAhead(authority, authority')
  BY <1>3, <1>12, NoCommitIsOK DEF AuthorityAhead
<1>20. IInv'
  BY <1>3, <1>18, <1>19, BranchesMove
<1> QED  BY <1>3, <1>20, StandsStill, NoJobCommits

LEMMA ProgressSteps ==
    ASSUME IInv, Progress
    PROVE  IInv' /\ StepOK /\ CommitStep
<1> DEFINE q == store.queue
           m == authority.missions
<1>1. /\ BranchesOK(store, authority) /\ q \in Queue /\ m \in Missions
      /\ Sound(q, m) /\ q.tasks \in SUBSET Task /\ OneEach(q.tasks)
  BY DEF IInv, BranchesOK, Store, Queue, Authority, Sound, ValidQueue, OneEach
<1>2. PICK task \in q.tasks, status \in Status :
        /\ <<task.status, status>> \in Moves
        /\ store' = [version |-> store.version + 1,
                     queue |-> [tasks |-> (q.tasks \ {task}) \cup
                                          {[task EXCEPT !.status = status]},
                                lock |-> None]]
  BY DEF Progress
<1>3. BoundQueue(q, m) /\ UNCHANGED <<authority, command, job, grants>>
  BY DEF Progress
<1> DEFINE image == store'.queue
           S == {task}
           after == (q.tasks \ S) \cup {[t EXCEPT !.status = status] : t \in S}
<1>4. image.tasks = after /\ image.lock = None
      /\ image = [tasks |-> image.tasks, lock |-> None]
  BY <1>2
<1>5. task.status # "DONE"
  BY <1>2 DEF Moves
<1>6. Moved(q.tasks, after)
  BY <1>1, <1>5, RestatusMoves
<1> HIDE DEF after
<1>7. image \in Queue
  BY <1>4, <1>6 DEF Moved, Queue
<1>8. /\ Sound(image, m) /\ BoundQueue(image, m)
      /\ Kept(q.tasks, image.tasks, m)
  BY <1>1, <1>3, <1>4, <1>6, <1>7, MovedIsSound
<1>9. store' = [version |-> store.version + 1, queue |-> image]
  BY <1>2
<1> HIDE DEF image, q, m
<1>10. BranchesOK(store', authority) /\ StoreAhead(store, store')
       /\ AuthorityAhead(authority, authority)
  BY <1>1, <1>8, <1>9, CommitIsOK DEF m
<1>11. IInv'
  BY <1>3, <1>10, BranchesMove
<1>12. StepOK
  BY <1>3, <1>4, <1>8 DEF StepOK, LockStep, image, q, m
<1> QED  BY <1>3, <1>11, <1>12, NoJobCommits

-----------------------------------------------------------------------------
(* The carrier's step of a TICK.                                           *)

\* The run of a command the carrier works on.
LEMMA TicksIsOfRun ==
    ASSUME IInv, NEW c \in Commands, Ticks(c)
    PROVE  /\ command[c] \in RunCommand /\ command[c].run \in Runs
           /\ command[c].kind \in {"START", "TICK"}
           /\ command[c].kind = "TICK" => ~job[c].made
           /\ command[c] # None
<1>1. JobOK(command[c], job[c], store, authority) /\ command[c] \in Command
  BY DEF IInv
<1>2. command[c] # None
  BY <1>1 DEF Ticks, JobOK
<1>3. command[c].kind \in {"START", "TICK"}
  BY <1>1 DEF Ticks, JobOK
<1>4. command[c] \in RunCommand
  BY <1>1, <1>2, <1>3 DEF Command, ActivateCommand
<1>5. command[c].run \in Runs
  BY <1>4 DEF RunCommand
<1>6. command[c].kind = "TICK" => ~job[c].made
  BY <1>1, <1>2 DEF Ticks, JobOK
<1> QED  BY <1>2, <1>3, <1>4, <1>5, <1>6

\* A job that has ended.
LEMMA EndedIsJob ==
    ASSUME IInv, NEW c \in Commands,
           NEW result \in {"NO_WORK", "WORK", "ERROR", None}
    PROVE  /\ Ended(c, result) \in Job
           /\ Ended(c, result).stage = "over"
           /\ Ended(c, result).result = result
           /\ Ended(c, result).commit = job[c].commit
           /\ Ended(c, result).made = job[c].made
<1>1. job[c].commit \in Nat /\ job[c].made \in BOOLEAN
  BY DEF IInv, Job
<1> DEFINE j1 == [UnpostedJob EXCEPT !.stage = "over"]
           j2 == [j1 EXCEPT !.result = result]
           j3 == [j2 EXCEPT !.commit = job[c].commit]
           ended == Ended(c, result)
<1>2. UnpostedJob \in Job
  BY DEF UnpostedJob, Job, Stage
<1>3. j1 \in Job /\ j1.stage = "over"
  BY <1>2 DEF Job, Stage
<1> HIDE DEF j1
<1>4. j2 \in Job /\ j2.stage = "over" /\ j2.result = result
  BY <1>3 DEF Job
<1> HIDE DEF j2
<1>5. /\ j3 \in Job /\ j3.stage = "over" /\ j3.result = result
      /\ j3.commit = job[c].commit
  BY <1>1, <1>4 DEF Job
<1> HIDE DEF j3
<1>6. ended = [j3 EXCEPT !.made = job[c].made]
  BY DEF Ended, j1, j2, j3
<1>7. /\ ended \in Job /\ ended.stage = "over" /\ ended.result = result
      /\ ended.commit = job[c].commit /\ ended.made = job[c].made
  BY <1>1, <1>5, <1>6 DEF Job
<1> QED  BY <1>7

\* A job that has ended with a commit.
LEMMA EndedWithCommit ==
    ASSUME IInv, NEW c \in Commands,
           NEW result \in {"NO_WORK", "WORK", "ERROR", None}, NEW commit \in Nat
    PROVE  LET over == [Ended(c, result) EXCEPT !.commit = commit]
           IN  /\ over \in Job /\ over.stage = "over"
               /\ over.result = result /\ over.commit = commit
               /\ over.made = job[c].made
<1> DEFINE ended == Ended(c, result)
<1>1. /\ ended \in Job /\ ended.stage = "over" /\ ended.result = result
      /\ ended.made = job[c].made
  BY EndedIsJob
<1> HIDE DEF ended
<1>2. /\ [ended EXCEPT !.commit = commit] \in Job
      /\ [ended EXCEPT !.commit = commit].stage = "over"
      /\ [ended EXCEPT !.commit = commit].result = result
      /\ [ended EXCEPT !.commit = commit].commit = commit
      /\ [ended EXCEPT !.commit = commit].made = job[c].made
  BY <1>1 DEF Job
<1> QED  BY <1>2 DEF ended

LEMMA CarrierAcquiresSteps ==
    ASSUME IInv, NEW c \in Commands, CarrierAcquires(c)
    PROVE  IInv' /\ StepOK /\ CommitStep
<1> DEFINE q == store.queue
           m == authority.missions
           r == command[c].run
<1>1. /\ BranchesOK(store, authority) /\ q \in Queue /\ m \in Missions
      /\ Sound(q, m) /\ BoundQueue(q, m) /\ store.version \in Nat
  BY DEF IInv, BranchesOK, Store, Authority, CarrierAcquires
<1>2. PICK image \in Resumed(q), result \in {"WORK", "ERROR"} :
        \E task \in image.tasks :
           /\ task.status \in {"QUEUED", "ACTIVE"}
           /\ store' = [version |-> store.version + 1,
                        queue |-> Acquired(image, task, r)]
           /\ job' = [job EXCEPT
                        ![c] = [Ended(c, result) EXCEPT
                                  !.commit = store.version + 1]]
  BY DEF CarrierAcquires
<1>3. PICK task \in image.tasks :
           /\ task.status \in {"QUEUED", "ACTIVE"}
           /\ store' = [version |-> store.version + 1,
                        queue |-> Acquired(image, task, r)]
           /\ job' = [job EXCEPT
                        ![c] = [Ended(c, result) EXCEPT
                                  !.commit = store.version + 1]]
  BY <1>2
<1>4. /\ ~Busy(q) /\ UNCHANGED <<authority, command>>
      /\ grants' = [grants EXCEPT ![r] = @ + 1] /\ Ticks(c)
  BY DEF CarrierAcquires
<1> DEFINE next == Acquired(image, task, r)
           over == [Ended(c, result) EXCEPT !.commit = store.version + 1]
<1>5. /\ command[c] # None /\ r \in Runs
  BY <1>4, TicksIsOfRun
<1>6. /\ image \in Queue /\ Moved(q.tasks, image.tasks)
      /\ Sound(image, m) /\ BoundQueue(image, m)
  BY <1>1, ResumedIsSound
<1>7. /\ Moved(image.tasks, next.tasks) /\ Sound(next, m)
      /\ BoundQueue(next, m) /\ IdOf(task) \in TaskId
      /\ next.lock = [task |-> IdOf(task), run |-> r, live |-> TRUE]
  BY <1>1, <1>3, <1>5, <1>6, AcquiredIsSound
<1>8. /\ over \in Job /\ over.stage = "over" /\ over.result = result
      /\ over.commit = store.version + 1 /\ over.made = job[c].made
  <2>1. /\ store.version + 1 \in Nat
        /\ result \in {"NO_WORK", "WORK", "ERROR", None}
    BY <1>1
  <2> QED  BY <2>1, EndedWithCommit
<1> HIDE DEF next, over
<1>9. Kept(q.tasks, next.tasks, m)
  <2>1. Moved(q.tasks, next.tasks)
    BY <1>6, <1>7, MovedTwice
  <2> QED  BY <2>1 DEF Moved, Kept
<1>10. job' = [job EXCEPT ![c] = over]
  BY <1>3 DEF over
<1>11. /\ job' \in [Commands -> Job] /\ job'[c] = over
       /\ \A d \in Commands \ {c} : job'[d] = job[d]
  BY <1>8, <1>10 DEF IInv
<1>12. store' = [version |-> store.version + 1, queue |-> next]
  BY <1>3 DEF next
<1>13. /\ BranchesOK(store', authority) /\ StoreAhead(store, store')
       /\ AuthorityAhead(authority, authority)
       /\ store'.version = store.version + 1 /\ store'.queue = next
  BY <1>1, <1>7, <1>12, CommitIsOK
<1>14. JobOK(command[c], over, store', authority)
  BY <1>1, <1>2, <1>5, <1>8, <1>13 DEF JobOK
<1>15. grants' \in [Runs -> Nat]
  BY <1>4, <1>5 DEF IInv
<1>16. IInv'
  BY <1>4, <1>11, <1>13, <1>14, <1>15, OneJobMoves
<1>17. Granted(r, IdOf(task))
  BY <1>4, <1>7, <1>13 DEF Granted, Busy
<1>18. \A d \in Commands : job'[d].made => job[d].made
  BY <1>8, <1>11
<1>19. CommitStep
  <2>1. Admitted(c)
    BY DEF CarrierAcquires
  <2>2. CommitOf(c)
    BY <1>8, <1>11, <2>1 DEF CommitOf
  <2> QED  BY <1>4, <1>5, <1>11, <2>2, OneJobCommits
<1> QED
  BY <1>5, <1>7, <1>9, <1>13, <1>16, <1>17, <1>18, <1>19 DEF StepOK, LockStep

\* What the carrier leaves in the queue when it selects nothing.
LEMMA LeftBehindIsSound ==
    ASSUME NEW m \in Missions, NEW q \in Queue, Sound(q, m), BoundQueue(q, m),
           NEW image \in LeftBehind(q)
    PROVE  /\ image.lock = None /\ Sound(image, m) /\ BoundQueue(image, m)
           /\ Kept(q.tasks, image.tasks, m)
<1>1. CASE image \in Resumed(q)
  BY <1>1, ResumedIsSound DEF Moved, Kept
<1>2. ASSUME NEW first \in Resumed(q), image \in Parked(first)
      PROVE  /\ image.lock = None /\ Sound(image, m) /\ BoundQueue(image, m)
             /\ Kept(q.tasks, image.tasks, m)
  <2>1. /\ first \in Queue /\ first.lock = None /\ Sound(first, m)
        /\ BoundQueue(first, m) /\ Moved(q.tasks, first.tasks)
    BY ResumedIsSound
  <2>2. /\ image.lock = None /\ Sound(image, m) /\ BoundQueue(image, m)
        /\ Moved(first.tasks, image.tasks)
    BY <1>2, <2>1, ParkedIsSound
  <2>3. Moved(q.tasks, image.tasks)
    BY <2>1, <2>2, MovedTwice
  <2> QED  BY <2>2, <2>3 DEF Moved, Kept
<1> QED  BY <1>1, <1>2 DEF LeftBehind

LEMMA CarrierFindsNothingSteps ==
    ASSUME IInv, NEW c \in Commands, CarrierFindsNothing(c)
    PROVE  IInv' /\ StepOK /\ CommitStep
<1> DEFINE q == store.queue
           m == authority.missions
           version == store.version + 1
           left == IF command[c].kind = "TICK" THEN "idle" ELSE "over"
<1>1. /\ BranchesOK(store, authority) /\ q \in Queue /\ m \in Missions
      /\ Sound(q, m) /\ BoundQueue(q, m) /\ store.version \in Nat
  BY DEF IInv, BranchesOK, Store, Authority, CarrierFindsNothing
<1>2. PICK image \in IF authority.enabled THEN LeftBehind(q) ELSE {q} :
        /\ store' = IF image # q THEN [version |-> version, queue |-> image]
                    ELSE store
        /\ \/ job' = [job EXCEPT ![c].stage = left, ![c].result = "NO_WORK",
                                 ![c].commit = IF image # q THEN version ELSE @]
           \/ /\ image # q
              /\ job' = [job EXCEPT
                           ![c] = [Ended(c, "ERROR") EXCEPT !.commit = version]]
  BY DEF CarrierFindsNothing
<1>3. UNCHANGED <<authority, command, grants>> /\ Ticks(c)
  BY DEF CarrierFindsNothing
<1>4. /\ command[c] # None
      /\ command[c].kind = "TICK" => ~job[c].made
      /\ command[c].kind \in {"START", "TICK"}
  BY <1>3, TicksIsOfRun
<1>5. ASSUME image # q
      PROVE  /\ image.lock = None /\ Sound(image, m) /\ BoundQueue(image, m)
             /\ Kept(q.tasks, image.tasks, m)
  BY <1>1, <1>2, <1>5, LeftBehindIsSound
<1> DEFINE commit == IF image # q THEN version ELSE job[c].commit
<1>6. /\ BranchesOK(store', authority) /\ StoreAhead(store, store')
      /\ AuthorityAhead(authority, authority)
      /\ commit \in Nat /\ commit <= store'.version
      /\ \/ store' = store
         \/ /\ store'.queue.lock = None /\ BoundQueue(store'.queue, m)
            /\ Kept(q.tasks, store'.queue.tasks, m)
  <2>1. CASE image = q
    BY <1>1, <1>2, <2>1, NoCommitIsOK DEF IInv, JobOK, Job
  <2>2. CASE image # q
    BY <1>1, <1>2, <1>5, <2>2, CommitIsOK
  <2> QED  BY <2>1, <2>2
<1>7. /\ job' \in [Commands -> Job]
      /\ job'[c].stage \in {left, "over"} /\ job'[c].commit = commit
      /\ job'[c].result = "NO_WORK" \/ job'[c].stage = "over"
      /\ job'[c].made = job[c].made
      /\ \A d \in Commands \ {c} : job'[d] = job[d]
  <2>1. job \in [Commands -> Job] /\ job[c] \in Job
    BY DEF IInv
  <2>2. ASSUME job' = [job EXCEPT ![c].stage = left, ![c].result = "NO_WORK",
                                  ![c].commit = commit]
        PROVE  <1>7!:
    <3> DEFINE new == [job[c] EXCEPT !.stage = left, !.result = "NO_WORK",
                                     !.commit = commit]
    <3>1. left \in Stage
      BY DEF Stage
    <3> HIDE DEF left, commit
    <3>2. /\ new \in Job /\ new.stage = left /\ new.result = "NO_WORK"
          /\ new.commit = commit /\ new.made = job[c].made
      BY <1>6, <2>1, <3>1 DEF Job
    <3>3. job' = [job EXCEPT ![c] = new]
      BY <2>1, <2>2
    <3> HIDE DEF new
    <3> QED  BY <2>1, <3>2, <3>3
  <2>3. ASSUME image # q,
               job' = [job EXCEPT
                         ![c] = [Ended(c, "ERROR") EXCEPT !.commit = version]]
        PROVE  <1>7!:
    <3> DEFINE over == [Ended(c, "ERROR") EXCEPT !.commit = version]
    <3>1. /\ over \in Job /\ over.stage = "over" /\ over.commit = version
          /\ over.made = job[c].made
      BY <1>1, EndedWithCommit
    <3>2. job' = [job EXCEPT ![c] = over]
      BY <2>3
    <3> HIDE DEF over
    <3> QED  BY <2>1, <2>3, <3>1, <3>2
  <2> QED  BY <1>2, <2>2, <2>3
<1>8. JobOK(command[c], job'[c], store', authority)
  <2>1. /\ job'[c].stage \in {"idle", "over"}
        /\ job'[c].stage = "idle" => command[c].kind = "TICK"
    BY <1>7
  <2>2. ~(command[c].kind = "TICK" /\ job'[c].made)
    BY <1>4, <1>7
  <2>3. job'[c].commit <= store'.version
    BY <1>6, <1>7
  <2> HIDE DEF commit, left
  <2> QED  BY <1>4, <2>1, <2>2, <2>3 DEF JobOK
<1>9. IInv'
  BY <1>3, <1>6, <1>7, <1>8, OneJobMoves DEF IInv
<1>10. StepOK
  BY <1>3, <1>6, <1>7, KeptAsTheyAre DEF StepOK, LockStep
<1>11. CommitStep
  <2>1. Admitted(c)
    BY DEF CarrierFindsNothing
  <2>2. CommitOf(c)
    BY <1>7, <2>1 DEF CommitOf
  <2> QED  BY <1>3, <1>4, <1>7, <2>2, OneJobCommits
<1> QED  BY <1>9, <1>10, <1>11

-----------------------------------------------------------------------------
(* The jobs that materialize a task.                                       *)

LEMMA LoadSteps ==
    ASSUME IInv, NEW c \in Commands, Load(c)
    PROVE  IInv' /\ StepOK /\ CommitStep
<1> DEFINE j == job'[c]
<1>1. /\ job \in [Commands -> Job] /\ job[c] \in Job
      /\ store \in Store /\ authority \in Authority
      /\ JobOK(command[c], job[c], store, authority)
  BY DEF IInv, BranchesOK
<1>2. /\ command[c] # None
      /\ command[c].kind # "ACTIVATE" =>
           BoundQueue(store.queue, authority.missions)
      /\ job[c].stage \in {"idle", "posted"}
      /\ UNCHANGED <<store, authority, command, grants>>
  BY DEF Load, Posted
<1>3. /\ job' \in [Commands -> Job] /\ j.stage = "loaded"
      /\ j.source = store /\ j.main = authority
      /\ j.commit = job[c].commit /\ j.made = job[c].made
      /\ \A d \in Commands \ {c} : job'[d] = job[d]
  <2> DEFINE j1 == [job[c] EXCEPT !.stage = "loaded"]
             j2 == [j1 EXCEPT !.source = store]
             j3 == [j2 EXCEPT !.main = authority]
  <2>1. /\ j1 \in Job /\ j1.stage = "loaded"
        /\ j1.commit = job[c].commit /\ j1.made = job[c].made
    BY <1>1 DEF Job, Stage
  <2>2. job' = [job EXCEPT ![c] = j3]
    BY <1>1 DEF Load
  <2> HIDE DEF j1
  <2>3. /\ j2 \in Job /\ j2.stage = "loaded" /\ j2.source = store
        /\ j2.commit = job[c].commit /\ j2.made = job[c].made
    BY <1>1, <2>1 DEF Job
  <2> HIDE DEF j2
  <2>4. /\ j3 \in Job /\ j3.stage = "loaded" /\ j3.source = store
        /\ j3.main = authority
        /\ j3.commit = job[c].commit /\ j3.made = job[c].made
    BY <1>1, <2>3 DEF Job
  <2> HIDE DEF j3
  <2> QED  BY <1>1, <2>2, <2>4
<1> HIDE DEF j
<1>4. Snapshot(j, store, authority)
  BY <1>1, <1>3 DEF Snapshot, IInv, BranchesOK, Store, Authority
<1>5. JobOK(command[c], j, store, authority)
  BY <1>1, <1>2, <1>3, <1>4 DEF JobOK
<1>6. IInv'
  BY <1>2, <1>3, <1>5, OneJobMoves, NoCommitIsOK DEF IInv, j
<1>7. StepOK
  BY <1>2, <1>3, StandsStill DEF j
<1>8. CommitStep
  BY <1>2, <1>3, OneJobKeepsItsCommit DEF j
<1> QED  BY <1>6, <1>7, <1>8

LEMMA StopsSteps ==
    ASSUME IInv, NEW c \in Commands, Stops(c)
    PROVE  IInv' /\ StepOK /\ CommitStep
<1> DEFINE over == Ended(c, job[c].result)
<1>1. /\ job \in [Commands -> Job] /\ job[c] \in Job
      /\ JobOK(command[c], job[c], store, authority)
  BY DEF IInv
<1>2. /\ job[c].stage \notin {"unposted", "over"}
      /\ job' = [job EXCEPT ![c] = over]
      /\ UNCHANGED <<store, authority, command, grants>>
  BY DEF Stops
<1>3. /\ over \in Job /\ over.stage = "over"
      /\ over.commit = job[c].commit /\ over.made = job[c].made
  <2>1. job[c].result \in {"NO_WORK", "WORK", "ERROR", None}
    BY <1>1 DEF Job
  <2> QED  BY <2>1, EndedIsJob
<1> HIDE DEF over
<1>4. /\ job' \in [Commands -> Job] /\ job'[c] = over
      /\ \A d \in Commands \ {c} : job'[d] = job[d]
  BY <1>1, <1>2, <1>3
<1>5. JobOK(command[c], over, store, authority)
  BY <1>1, <1>2, <1>3 DEF JobOK
<1>6. IInv'
  BY <1>2, <1>4, <1>5, OneJobMoves, NoCommitIsOK DEF IInv
<1>7. StepOK
  BY <1>2, <1>3, <1>4, StandsStill
<1>8. CommitStep
  BY <1>2, <1>3, <1>4, StagedIsPosted, OneJobKeepsItsCommit
<1> QED  BY <1>6, <1>7, <1>8

LEMMA SkipStartSteps ==
    ASSUME IInv, NEW c \in Commands, SkipStart(c)
    PROVE  IInv' /\ StepOK /\ CommitStep
<1> DEFINE ticking == [UnpostedJob EXCEPT !.stage = "ticking"]
<1>1. /\ job \in [Commands -> Job] /\ job[c] \in Job
      /\ JobOK(command[c], job[c], store, authority)
      /\ 0 <= store.version
  BY DEF IInv, BranchesOK, Store
<1>2. /\ job[c].stage = "loaded" /\ command[c].kind = "START"
      /\ job' = [job EXCEPT ![c] = ticking]
      /\ UNCHANGED <<store, authority, command, grants>>
  BY DEF SkipStart
<1>3. /\ ticking \in Job /\ ticking.stage = "ticking"
      /\ ticking.commit = 0 /\ ~ticking.made
  <2>1. UnpostedJob \in Job /\ UnpostedJob.commit = 0 /\ ~UnpostedJob.made
    BY DEF UnpostedJob, Job, Stage
  <2> QED  BY <2>1 DEF Job, Stage
<1> HIDE DEF ticking
<1>4. /\ job' \in [Commands -> Job] /\ job'[c] = ticking
      /\ \A d \in Commands \ {c} : job'[d] = job[d]
  BY <1>1, <1>2, <1>3
<1>5. JobOK(command[c], ticking, store, authority)
  BY <1>1, <1>2, <1>3 DEF JobOK
<1>6. IInv'
  BY <1>2, <1>4, <1>5, OneJobMoves, NoCommitIsOK DEF IInv
<1>7. StepOK
  BY <1>2, <1>3, <1>4, StandsStill
<1>8. CommitStep
  BY <1>2, <1>4, StagedIsPosted, OneJobCommits
<1> QED  BY <1>6, <1>7, <1>8

LEMMA RecheckSteps ==
    ASSUME IInv, NEW c \in Commands, Recheck(c)
    PROVE  IInv' /\ StepOK /\ CommitStep
<1>1. /\ job \in [Commands -> Job] /\ job[c] \in Job
      /\ JobOK(command[c], job[c], store, authority)
  BY DEF IInv
<1>2. /\ job[c].stage = "planned"
      /\ job' = [job EXCEPT ![c].stage = "checked"]
      /\ UNCHANGED <<store, authority, command, grants>>
  BY DEF Recheck
<1>3. [job[c] EXCEPT !.stage = "checked"] \in Job
  BY <1>1 DEF Job, Stage
<1>4. /\ job' \in [Commands -> Job]
      /\ job'[c] = [job[c] EXCEPT !.stage = "checked"]
      /\ \A d \in Commands \ {c} : job'[d] = job[d]
  BY <1>1, <1>2, <1>3
<1>5. /\ job'[c].stage = "checked" /\ job'[c].commit = job[c].commit
      /\ job'[c].made = job[c].made /\ job'[c].result = job[c].result
      /\ job'[c].source = job[c].source /\ job'[c].main = job[c].main
      /\ job'[c].plan = job[c].plan
  BY <1>1, <1>4 DEF Job
<1>6. JobOK(command[c], job'[c], store, authority)
  BY <1>1, <1>2, <1>5 DEF JobOK, Snapshot, Plan
<1>7. IInv'
  BY <1>2, <1>4, <1>6, OneJobMoves, NoCommitIsOK DEF IInv
<1>8. StepOK
  BY <1>2, <1>4, <1>5, StandsStill
<1>9. command[c].kind = "TICK" => CommitOf(c)
  <2>1. command[c].kind = "TICK" => Admitted(c)
    BY DEF Recheck
  <2> QED  BY <1>5, <2>1 DEF CommitOf
<1>10. CommitStep
  BY <1>2, <1>4, <1>9, StagedIsPosted, OneJobCommits
<1> QED  BY <1>7, <1>8, <1>10

\* A plan for a loaded snapshot.
LEMMA PlannedSteps ==
    ASSUME IInv, NEW c \in Commands, job[c].stage = "loaded",
           NEW queue \in Queue,
           NEW result \in {"NO_WORK", "WORK", "ERROR", None},
           Planned(c, queue, result),
           Sound(queue, job[c].main.missions),
           BoundQueue(queue, job[c].main.missions),
           Kept(job[c].source.queue.tasks, queue.tasks,
                job[c].main.missions),
           job[c].source.queue.lock = None,
           command[c].kind # "ACTIVATE" => job[c].main.enabled,
           IF command[c].kind = "TICK"
           THEN /\ result = "ERROR"
                /\ \E id \in TaskId : queue.lock =
                     [task |-> id, run |-> command[c].run, live |-> TRUE]
           ELSE queue.lock = None
    PROVE  IInv' /\ StepOK /\ CommitStep
<1> DEFINE j == job'[c]
<1>1. /\ job \in [Commands -> Job] /\ job[c] \in Job
      /\ JobOK(command[c], job[c], store, authority)
  BY DEF IInv
<1>2. UNCHANGED <<store, authority, command, grants>>
  BY DEF Planned
<1>3. /\ job' \in [Commands -> Job] /\ j.stage = "planned"
      /\ j.plan = queue /\ j.result = result
      /\ j.source = job[c].source /\ j.main = job[c].main
      /\ j.commit = job[c].commit /\ j.made = job[c].made
      /\ \A d \in Commands \ {c} : job'[d] = job[d]
  <2> DEFINE j1 == [job[c] EXCEPT !.stage = "planned"]
             j2 == [j1 EXCEPT !.plan = queue]
             j3 == [j2 EXCEPT !.result = result]
  <2>1. /\ j1 \in Job /\ j1.stage = "planned"
        /\ j1.source = job[c].source /\ j1.main = job[c].main
        /\ j1.commit = job[c].commit /\ j1.made = job[c].made
    BY <1>1 DEF Job, Stage
  <2>2. job' = [job EXCEPT ![c] = j3]
    BY <1>1 DEF Planned
  <2> HIDE DEF j1
  <2>3. /\ j2 \in Job /\ j2.stage = "planned" /\ j2.plan = queue
        /\ j2.source = job[c].source /\ j2.main = job[c].main
        /\ j2.commit = job[c].commit /\ j2.made = job[c].made
    BY <1>1, <2>1 DEF Job
  <2> HIDE DEF j2
  <2>4. /\ j3 \in Job /\ j3.stage = "planned" /\ j3.plan = queue
        /\ j3.result = result
        /\ j3.source = job[c].source /\ j3.main = job[c].main
        /\ j3.commit = job[c].commit /\ j3.made = job[c].made
    BY <1>1, <2>3 DEF Job
  <2> HIDE DEF j3
  <2> QED  BY <1>1, <2>2, <2>4
<1> HIDE DEF j
<1>4. Plan(command[c], j)
  BY <1>3 DEF Plan
<1>5. Snapshot(j, store, authority)
  BY <1>1, <1>3 DEF JobOK, Snapshot
<1>6. JobOK(command[c], j, store, authority)
  BY <1>1, <1>3, <1>4, <1>5 DEF JobOK
<1>7. IInv'
  BY <1>2, <1>3, <1>6, OneJobMoves, NoCommitIsOK DEF IInv, j
<1>8. StepOK
  BY <1>2, <1>3, StandsStill DEF j
<1>9. CommitStep
  BY <1>2, <1>3, StagedIsPosted, OneJobKeepsItsCommit DEF j
<1> QED  BY <1>7, <1>8, <1>9

\* What a loaded job has read.
LEMMA LoadedIsSound ==
    ASSUME IInv, NEW c \in Commands,
           job[c].stage \in {"loaded", "planned", "checked"}
    PROVE  /\ command[c] \in RunCommand \cup ActivateCommand
           /\ job[c].source.queue \in Queue
           /\ job[c].main.missions \in Missions
           /\ CarryIsEarlier(job[c].main.missions)
           /\ Sound(job[c].source.queue, job[c].main.missions)
           /\ command[c].kind # "ACTIVATE" =>
                BoundQueue(job[c].source.queue, job[c].main.missions)
<1>1. /\ JobOK(command[c], job[c], store, authority)
      /\ command[c] \in Command
  BY DEF IInv
<1>2. command[c] # None
  BY <1>1 DEF JobOK
<1> QED  BY <1>1, <1>2 DEF JobOK, Snapshot, Command, Store, Authority

\* A root task for an eligible gap of a bound snapshot.
LEMMA EligibleRoot ==
    ASSUME NEW m \in Missions, CarryIsEarlier(m), NEW q \in Queue, Sound(q, m),
           NEW repo \in Repositories, NEW g \in EligibleGaps(q, m, repo),
           BoundQueue(q, m), NEW status \in Status
    PROVE  /\ q.lock = None
           /\ RootTask(m, g, status) \in Task
           /\ RootTask(m, g, status).status = status
           /\ WithTask(q, RootTask(m, g, status)) \in Queue
           /\ WithTask(q, RootTask(m, g, status)).lock = None
           /\ RootTask(m, g, status)
                \in WithTask(q, RootTask(m, g, status)).tasks
           /\ Sound(WithTask(q, RootTask(m, g, status)), m)
           /\ BoundQueue(WithTask(q, RootTask(m, g, status)), m)
           /\ Kept(q.tasks, WithTask(q, RootTask(m, g, status)).tasks, m)
<1>1. /\ g \in Gaps /\ q.lock = None /\ m.state[g] = "OPEN"
      /\ \A task \in q.tasks : IdOf(task) # CurrentId(m, g)
      /\ Retired(SupersededTasks(q, m, repo), m)
  BY Eligible
<1>2. \A d \in DependsOn[g] :
        \/ m.state[d] = "RETIRED" /\ Carried(m, d)
        \/ \E t \in q.tasks : t.status = "DONE" /\ IdOf(t) = CurrentId(m, d)
  <2>1. Reconciled(q, m, repo).tasks \in SUBSET q.tasks
    BY <1>1, ReconciledIsSound
  <2>2. \A d \in DependsOn[g] :
          \/ m.state[d] = "RETIRED" /\ Carried(m, d)
          \/ \E t \in Reconciled(q, m, repo).tasks :
               t.status = "DONE" /\ IdOf(t) = CurrentId(m, d)
    BY Eligible
  <2> QED  BY <2>1, <2>2
<1> DEFINE root == RootTask(m, g, status)
           with == WithTask(q, root)
<1>3. root.status = status
  BY DEF RootTask
<1>4. /\ root \in Task /\ with \in Queue /\ with.lock = None
      /\ with.tasks = q.tasks \cup {root}
      /\ Sound(with, m) /\ BoundQueue(with, m)
  BY <1>1, <1>2, RootIsSound
<1> HIDE DEF with, root
<1>5. root \in with.tasks /\ Kept(q.tasks, with.tasks, m)
  BY <1>4 DEF Kept
<1> QED  BY <1>1, <1>3, <1>4, <1>5 DEF root, with

LEMMA PlanTickSteps ==
    ASSUME IInv, NEW c \in Commands, PlanTick(c)
    PROVE  IInv' /\ StepOK /\ CommitStep
<1> DEFINE q == job[c].source.queue
           m == job[c].main.missions
<1>1. /\ job[c].stage = "loaded" /\ command[c].kind = "TICK"
      /\ job[c].main.enabled
  BY DEF PlanTick, MayMaterialize
<1>2. PICK repo \in Repositories : \E g \in EligibleGaps(q, m, repo) :
        LET task == RootTask(m, g, "ACTIVE")
        IN  Planned(c, Acquired(WithTask(q, task), task, command[c].run),
                    "ERROR")
  BY DEF PlanTick, PreSeeded
<1>3. PICK g \in EligibleGaps(q, m, repo) :
        LET task == RootTask(m, g, "ACTIVE")
        IN  Planned(c, Acquired(WithTask(q, task), task, command[c].run),
                    "ERROR")
  BY <1>2
<1> DEFINE task == RootTask(m, g, "ACTIVE")
           with == WithTask(q, task)
           image == Acquired(with, task, command[c].run)
<1>4. /\ q \in Queue /\ m \in Missions /\ CarryIsEarlier(m)
      /\ Sound(q, m) /\ BoundQueue(q, m)
      /\ command[c] \in RunCommand \cup ActivateCommand
  BY <1>1, LoadedIsSound
<1>5. command[c].run \in Runs
  BY <1>1, <1>4 DEF RunCommand, ActivateCommand
<1>6. /\ q.lock = None /\ task.status = "ACTIVE" /\ with \in Queue
      /\ task \in with.tasks /\ Sound(with, m) /\ BoundQueue(with, m)
      /\ Kept(q.tasks, with.tasks, m)
  BY <1>4, EligibleRoot DEF Status
<1>7. Planned(c, image, "ERROR")
  BY <1>3
<1> HIDE DEF task, with
<1>8. /\ image \in Queue /\ Moved(with.tasks, image.tasks)
      /\ Sound(image, m) /\ BoundQueue(image, m)
      /\ IdOf(task) \in TaskId
      /\ image.lock =
           [task |-> IdOf(task), run |-> command[c].run, live |-> TRUE]
  BY <1>4, <1>5, <1>6, AcquiredIsSound
<1> HIDE DEF image
<1>9. Kept(q.tasks, image.tasks, m)
  BY <1>6, <1>8, MovedTwice
<1> QED  BY <1>1, <1>6, <1>7, <1>8, <1>9, PlannedSteps

LEMMA PlanStartSteps ==
    ASSUME IInv, NEW c \in Commands, PlanStart(c)
    PROVE  IInv' /\ StepOK /\ CommitStep
<1> DEFINE q == job[c].source.queue
           m == job[c].main.missions
<1>1. /\ job[c].stage = "loaded" /\ command[c].kind = "START"
      /\ job[c].main.enabled
  BY DEF PlanStart, MayMaterialize
<1>2. PICK scope \in SUBSET Repositories :
        \E g \in UNION {EligibleGaps(q, m, repo) : repo \in scope} :
          Planned(c, WithTask(q, RootTask(m, g, "QUEUED")), None)
  BY DEF PlanStart
<1>3. PICK repo \in Repositories : \E g \in EligibleGaps(q, m, repo) :
        Planned(c, WithTask(q, RootTask(m, g, "QUEUED")), None)
  BY <1>2
<1> PICK g \in EligibleGaps(q, m, repo) :
        Planned(c, WithTask(q, RootTask(m, g, "QUEUED")), None)
  BY <1>3
<1>4. /\ q \in Queue /\ m \in Missions /\ CarryIsEarlier(m)
      /\ Sound(q, m) /\ BoundQueue(q, m)
  BY <1>1, LoadedIsSound
<1> DEFINE with == WithTask(q, RootTask(m, g, "QUEUED"))
<1>5. /\ q.lock = None /\ with \in Queue /\ with.lock = None
      /\ Sound(with, m) /\ BoundQueue(with, m)
      /\ Kept(q.tasks, with.tasks, m)
  BY <1>4, EligibleRoot DEF Status
<1>6. Planned(c, with, None)
  BY <1>3
<1> HIDE DEF with
<1> QED  BY <1>1, <1>5, <1>6, PlannedSteps

LEMMA PlanActivateSteps ==
    ASSUME IInv, NEW c \in Commands, PlanActivate(c)
    PROVE  IInv' /\ StepOK /\ CommitStep
<1> DEFINE q == job[c].source.queue
           m == job[c].main.missions
           g == command[c].task.gap
           repo == GapRepository[g]
           rest == Reconciled(q, m, repo)
           with == WithTask(rest, RootTask(m, g, "ACTIVE"))
<1>1. /\ job[c].stage = "loaded" /\ command[c].kind = "ACTIVATE"
      /\ g \in EligibleGaps(q, m, repo)
      /\ Planned(c, with, None)
  BY DEF PlanActivate
<1>2. /\ q \in Queue /\ m \in Missions /\ CarryIsEarlier(m) /\ Sound(q, m)
  BY <1>1, LoadedIsSound
<1>3. repo \in Repositories
  <2>1. g \in Gaps
    BY <1>1 DEF EligibleGaps, GapsOf
  <2> QED  BY <2>1, MissionAssumption
<1> HIDE DEF g, repo
<1>4. /\ g \in Gaps /\ q.lock = None /\ m.state[g] = "OPEN"
      /\ \A task \in q.tasks : IdOf(task) # CurrentId(m, g)
      /\ BoundQueue(rest, m)
      /\ Retired(SupersededTasks(q, m, repo), m)
      /\ \A d \in DependsOn[g] :
           \/ m.state[d] = "RETIRED" /\ Carried(m, d)
           \/ \E t \in rest.tasks :
                t.status = "DONE" /\ IdOf(t) = CurrentId(m, d)
  BY <1>1, <1>2, <1>3, Eligible
<1>5. /\ rest \in Queue /\ rest.lock = None /\ rest.tasks \in SUBSET q.tasks
      /\ Sound(rest, m) /\ Kept(q.tasks, rest.tasks, m)
  BY <1>2, <1>3, <1>4, ReconciledIsSound
<1> HIDE DEF rest
<1>6. /\ with \in Queue /\ with.lock = None /\ Sound(with, m)
      /\ BoundQueue(with, m)
      /\ with.tasks = rest.tasks \cup {RootTask(m, g, "ACTIVE")}
  <2>1. /\ "ACTIVE" \in Status
        /\ \A t \in rest.tasks : IdOf(t) # CurrentId(m, g)
    BY <1>4, <1>5 DEF Status
  <2> QED  BY <1>2, <1>4, <1>5, <2>1, RootIsSound
<1> HIDE DEF with
<1>7. Kept(q.tasks, with.tasks, m)
  BY <1>5, <1>6 DEF Kept
<1> QED  BY <1>1, <1>4, <1>6, <1>7, PlannedSteps

LEMMA CommitSteps ==
    ASSUME IInv, NEW c \in Commands, Commit(c)
    PROVE  IInv' /\ StepOK /\ CommitStep
<1> DEFINE m == authority.missions
           version == store.version + 1
           after == [[Ended(c, job[c].result) EXCEPT !.commit = version]
                       EXCEPT !.made = TRUE]
<1>1. /\ BranchesOK(store, authority) /\ store.version \in Nat
      /\ job \in [Commands -> Job] /\ job[c] \in Job
      /\ JobOK(command[c], job[c], store, authority)
      /\ command[c] \in RunCommand \cup ActivateCommand
      /\ grants \in [Runs -> Nat]
  BY LoadedIsSound DEF IInv, BranchesOK, Store, Commit
<1>2. /\ job[c].stage = "checked" /\ Unmoved(c)
      /\ store' = [version |-> version, queue |-> job[c].plan]
      /\ grants' = IF command[c].kind = "TICK"
                   THEN [grants EXCEPT ![command[c].run] = @ + 1]
                   ELSE grants
      /\ UNCHANGED <<authority, command>>
  BY DEF Commit
<1>3. Snapshot(job[c], store, authority) /\ Plan(command[c], job[c])
  BY <1>1, <1>2 DEF JobOK
<1>4. /\ job[c].main = authority
      /\ job[c].source.queue.tasks = store.queue.tasks
      /\ store.queue.lock = None
      /\ Sound(job[c].plan, m) /\ BoundQueue(job[c].plan, m)
      /\ Kept(store.queue.tasks, job[c].plan.tasks, m)
      /\ command[c].kind # "ACTIVATE" => authority.enabled
  BY <1>2, <1>3 DEF Unmoved, Snapshot, Plan
<1>5. /\ BranchesOK(store', authority) /\ StoreAhead(store, store')
      /\ AuthorityAhead(authority, authority)
      /\ store'.version = version /\ store'.queue = job[c].plan
  BY <1>1, <1>2, <1>4, CommitIsOK
<1>6. /\ after \in Job /\ after.stage = "over" /\ after.commit = version
      /\ after.result = job[c].result
  <2> DEFINE over == [Ended(c, job[c].result) EXCEPT !.commit = version]
  <2>1. /\ over \in Job /\ over.stage = "over" /\ over.commit = version
        /\ over.result = job[c].result
    <3>1. /\ version \in Nat
          /\ job[c].result \in {"NO_WORK", "WORK", "ERROR", None}
      BY <1>1 DEF Job
    <3> QED  BY <3>1, EndedWithCommit
  <2> HIDE DEF over
  <2>2. after = [over EXCEPT !.made = TRUE]
    BY DEF over
  <2> QED  BY <2>1, <2>2 DEF Job
<1>7. \/ job' = [job EXCEPT ![c] = after]
      \/ /\ command[c].kind = "TICK"
         /\ job' = [job EXCEPT ![c] = [after EXCEPT !.result = "WORK"]]
      \/ /\ command[c].kind = "START"
         /\ job' = [job EXCEPT ![c] = [after EXCEPT !.stage = "ticking"]]
  BY DEF Commit
<1> HIDE DEF after
<1>8. /\ job' \in [Commands -> Job]
      /\ \/ job'[c].stage = "over"
         \/ job'[c].stage = "ticking" /\ command[c].kind = "START"
      /\ job'[c].result \in {"WORK", job[c].result}
      /\ job'[c].commit = version
      /\ \A d \in Commands \ {c} : job'[d] = job[d]
  <2>1. CASE job' = [job EXCEPT ![c] = after]
    BY <1>1, <1>6, <2>1
  <2>2. CASE /\ command[c].kind = "TICK"
             /\ job' = [job EXCEPT ![c] = [after EXCEPT !.result = "WORK"]]
    <3> DEFINE new == [after EXCEPT !.result = "WORK"]
    <3>1. /\ new \in Job /\ new.stage = "over" /\ new.result = "WORK"
          /\ new.commit = version
      BY <1>6 DEF Job
    <3> HIDE DEF new
    <3>2. job' = [job EXCEPT ![c] = new]
      BY <2>2 DEF new
    <3> QED  BY <1>1, <3>1, <3>2
  <2>3. CASE /\ command[c].kind = "START"
             /\ job' = [job EXCEPT ![c] = [after EXCEPT !.stage = "ticking"]]
    <3> DEFINE new == [after EXCEPT !.stage = "ticking"]
    <3>1. /\ new \in Job /\ new.stage = "ticking"
          /\ new.result = job[c].result /\ new.commit = version
      BY <1>6 DEF Job, Stage
    <3> HIDE DEF new
    <3>2. job' = [job EXCEPT ![c] = new]
      BY <2>3 DEF new
    <3> QED  BY <1>1, <2>3, <3>1, <3>2
  <2> QED  BY <1>7, <2>1, <2>2, <2>3
<1>9. JobOK(command[c], job'[c], store', authority)
  <2>1. command[c] # None
    BY <1>1, NoneIsNoCommand
  <2>2. command[c].kind = "TICK" =>
          job'[c].stage = "over" /\ job'[c].result # "NO_WORK"
    BY <1>3, <1>8 DEF Plan
  <2>3. job'[c].commit <= store'.version
    BY <1>1, <1>5, <1>8
  <2> QED  BY <1>8, <2>1, <2>2, <2>3 DEF JobOK
<1>10. /\ grants' \in [Runs -> Nat]
       /\ LockStep
  <2>1. CASE command[c].kind = "TICK"
    <3>1. command[c].run \in Runs
      BY <1>1, <2>1 DEF RunCommand, ActivateCommand
    <3>2. PICK id \in TaskId : job[c].plan.lock =
                 [task |-> id, run |-> command[c].run, live |-> TRUE]
      BY <1>3, <2>1 DEF Plan
    <3>3. Granted(command[c].run, id)
      BY <1>2, <1>4, <1>5, <2>1, <3>2 DEF Granted
    <3> QED  BY <1>1, <1>2, <2>1, <3>1, <3>3 DEF LockStep
  <2>2. CASE command[c].kind # "TICK"
    BY <1>1, <1>2, <1>3, <1>5, <2>2 DEF Plan, LockStep
  <2> QED  BY <2>1, <2>2
<1>11. IInv'
  BY <1>2, <1>5, <1>8, <1>9, <1>10, OneJobMoves
<1>12. \A d \in Commands : job'[d].made /\ ~job[d].made =>
         command[d].kind = "ACTIVATE" \/ authority.enabled
  BY <1>4, <1>8
<1>13. StepOK
  BY <1>4, <1>5, <1>10, <1>12 DEF StepOK
<1>14. CommitStep
  <2>1. command[c].kind = "TICK" => CommitOf(c)
    BY <1>2, <1>8 DEF CommitOf, Unmoved
  <2> QED  BY <1>2, <1>8, <2>1, StagedIsPosted, OneJobCommits
<1> QED  BY <1>11, <1>13, <1>14

-----------------------------------------------------------------------------
(* All steps together.                                                     *)

LEMMA NextSteps ==
    ASSUME IInv, [Next]_vars
    PROVE  IInv' /\ StepOK /\ CommitStep
<1>1. CASE PostRunCommand
  <2>1. PICK r \in Runs :
          Post([kind |-> IF r \in InteractiveRuns
                            /\ ~\E c \in Commands : OfRun(c, r)
                         THEN "START" ELSE "TICK",
                run |-> r])
    BY <1>1 DEF PostRunCommand
  <2>2. PICK kind \in {"START", "TICK"} : Post([kind |-> kind, run |-> r])
    BY <2>1
  <2>3. [kind |-> kind, run |-> r] \in RunCommand
    BY DEF RunCommand
  <2> QED  BY <2>2, <2>3, PostSteps
<1>2. CASE PostActivate
  <2>1. PICK id \in TaskId : Post([kind |-> "ACTIVATE", task |-> id])
    BY <1>2 DEF PostActivate
  <2>2. [kind |-> "ACTIVATE", task |-> id] \in ActivateCommand
    BY DEF ActivateCommand
  <2> QED  BY <2>1, <2>2, PostSteps
<1>3. ASSUME NEW c \in Commands, Ages(c)
      PROVE  IInv' /\ StepOK /\ CommitStep
  BY <1>3, AgesSteps
<1>4. CASE LeaseExpires \/ Switch \/ Progress
  BY <1>4, LeaseExpiresSteps, SwitchSteps, ProgressSteps
<1>5. ASSUME NEW repo \in Repositories, Publish(repo)
      PROVE  IInv' /\ StepOK /\ CommitStep
  BY <1>5, PublishSteps
<1>6. ASSUME NEW c \in Commands, CarrierAcquires(c) \/ CarrierFindsNothing(c)
      PROVE  IInv' /\ StepOK /\ CommitStep
  BY <1>6, CarrierAcquiresSteps, CarrierFindsNothingSteps
<1>7. ASSUME NEW c \in Commands,
             \/ Load(c) \/ Recheck(c) \/ Stops(c) \/ SkipStart(c)
      PROVE  IInv' /\ StepOK /\ CommitStep
  BY <1>7, LoadSteps, RecheckSteps, StopsSteps, SkipStartSteps
<1>8. ASSUME NEW c \in Commands,
             PlanTick(c) \/ PlanStart(c) \/ PlanActivate(c)
      PROVE  IInv' /\ StepOK /\ CommitStep
  BY <1>8, PlanTickSteps, PlanStartSteps, PlanActivateSteps
<1>9. ASSUME NEW c \in Commands, Commit(c)
      PROVE  IInv' /\ StepOK /\ CommitStep
  BY <1>9, CommitSteps
<1>10. CASE UNCHANGED vars
  <2>1. UNCHANGED <<store, authority, command, job, grants>>
    BY <1>10 DEF vars
  <2>2. IInv'
    BY <2>1 DEF IInv
  <2> QED  BY <2>1, <2>2, StandsStill, NoJobCommits
<1> QED
  BY <1>1, <1>2, <1>3, <1>4, <1>5, <1>6, <1>7, <1>8, <1>9, <1>10
     DEF Next, World

LEMMA InitIsOK ==
    ASSUME Init
    PROVE  IInv /\ CommitsInOrder
<1> DEFINE m == authority.missions
           q == store.queue
<1>1. /\ store.version = 1 /\ q.tasks = InitialTasks /\ q.lock = None
      /\ store = [version |-> store.version, queue |-> q]
      /\ q = [tasks |-> q.tasks, lock |-> q.lock]
  BY DEF Init
<1>2. /\ authority.version = 1 /\ authority.enabled = TRUE
      /\ m.revision = [repo \in Repositories |-> 1]
      /\ m.state = [g \in Gaps |-> "OPEN"] /\ m.carry = {}
      /\ m = [revision |-> m.revision, state |-> m.state, carry |-> m.carry]
      /\ authority = [version |-> 1, enabled |-> TRUE, missions |-> m]
  BY DEF Init
<1>3. 1 \in Revisions
  BY MissionAssumption DEF Revisions
<1>4. m \in Missions
  BY <1>2, <1>3 DEF Missions
<1> HIDE DEF m
<1>5. authority \in Authority
  BY <1>2, <1>4 DEF Authority
<1>6. /\ InitialTasks \in SUBSET Task
      /\ \A t \in InitialTasks : t.revision = 1
  BY ReplenishmentAssumption
<1> HIDE DEF q
<1>7. q \in Queue
  BY <1>1, <1>6 DEF Queue
<1>8. store \in Store
  BY <1>1, <1>7 DEF Store
<1>9. CarryIsEarlier(m)
  BY <1>2 DEF CarryIsEarlier
<1>10. ASSUME NEW g \in Gaps
       PROVE  CurrentId(m, g) = [gap |-> g, revision |-> 1]
  BY <1>2, <1>10, MissionAssumption DEF CurrentId
<1>11. ValidQueue(q)
  BY <1>1, <1>6, ReplenishmentAssumption DEF ValidQueue, IdOf
<1>12. NoneAhead(q.tasks, m)
  <2>1. \A t \in InitialTasks : RepositoryOf(t) \in Repositories
    BY <1>6, MissionAssumption DEF RepositoryOf, Task
  <2> QED  BY <1>1, <1>2, <1>6, <2>1 DEF NoneAhead
<1>13. InOrder(q.tasks, m)
  <2> SUFFICES ASSUME NEW t \in InitialTasks, NEW d \in DependsOn[t.gap]
               PROVE  \E e \in InitialTasks :
                        e.status = "DONE" /\ IdOf(e) = CurrentId(m, d)
    BY <1>1 DEF InOrder
  <2>1. d \in Gaps
    BY <1>6, MissionAssumption DEF Task
  <2>2. [gap |-> d, revision |-> 1, status |-> "DONE"] \in InitialTasks
    BY ReplenishmentAssumption
  <2> QED  BY <2>1, <2>2, <1>10 DEF IdOf
<1>14. BranchesOK(store, authority)
  BY <1>5, <1>7, <1>8, <1>9, <1>11, <1>12, <1>13 DEF BranchesOK, Sound, m, q
<1>15. UnpostedJob \in Job
  BY DEF UnpostedJob, Job, Stage
<1>16. /\ command = [c \in Commands |-> None] /\ job = [c \in Commands |-> UnpostedJob]
       /\ grants = [r \in Runs |-> 0]
  BY DEF Init
<1>17. \A c \in Commands : JobOK(command[c], job[c], store, authority)
  BY <1>1, <1>16 DEF JobOK, UnpostedJob
<1>18. /\ command \in [Commands -> Command] /\ job \in [Commands -> Job]
       /\ grants \in [Runs -> Nat]
  BY <1>15, <1>16 DEF Command
<1>19. CommitsInOrder
  BY <1>16 DEF CommitsInOrder, UnpostedJob
<1> QED  BY <1>14, <1>17, <1>18, <1>19 DEF IInv

LEMMA CommitsStayInOrder ==
    ASSUME IInv, CommitsInOrder, CommitStep
    PROVE  CommitsInOrder'
<1> SUFFICES ASSUME NEW c \in Commands, NEW d \in Commands,
                    Ticks2(c, d)', job'[d].commit > 0
             PROVE  /\ job'[c].commit > 0 => job'[c].commit < job'[d].commit
                    /\ job'[c].stage = "checked" =>
                         job'[c].source.version < job'[d].commit
  BY DEF CommitsInOrder
<1>1. CASE ~Posted(c) \/ ~Posted(d)
  BY <1>1 DEF CommitStep
<1>2. CASE Posted(c) /\ Posted(d)
  <2>1. Ticks2(c, d)
    BY <1>2 DEF CommitStep, Ticks2
  <2>2. /\ CommitOf(c) /\ CommitOf(d) /\ c # d
        /\ JobOK(command[c], job[c], store, authority)
        /\ JobOK(command[d], job[d], store, authority)
        /\ store.version \in Nat /\ job[c].commit \in Nat
        /\ job[d].commit \in Nat
    BY <1>2, <2>1 DEF CommitStep, Ticks2, IInv, Commands, Job, BranchesOK, Store
  <2>3. ~Admitted(c)
    BY <2>1 DEF Admitted, Superseded, OfRun, Ticks2, Posted
  <2>4. /\ job[c].commit <= store.version /\ job[d].commit <= store.version
        /\ job[c].stage = "checked" => /\ job[c].source.version <= store.version
                                       /\ job[c].source.version \in Nat
    BY <2>2 DEF JobOK, Snapshot, Store
  <2>5. CASE job'[d].commit = job[d].commit
    <3>1. /\ job[c].commit > 0 => job[c].commit < job[d].commit
          /\ job[c].stage = "checked" => job[c].source.version < job[d].commit
      BY <2>1, <2>5 DEF CommitsInOrder
    <3>2. job'[c].commit = job[c].commit
      BY <2>2, <2>3, <2>4, <3>1 DEF CommitOf
    <3>3. job'[c].stage = "checked" =>
            job[c].stage = "checked" /\ job'[c].source = job[c].source
      BY <2>2, <2>3 DEF CommitOf
    <3> QED  BY <2>5, <3>1, <3>2, <3>3
  <2>6. CASE /\ job'[d].commit = store.version + 1
             /\ \A e \in Commands \ {d} : job'[e] = job[e]
    BY <2>2, <2>4, <2>6
  <2> QED  BY <2>2, <2>5, <2>6 DEF CommitOf
<1> QED  BY <1>1, <1>2

\* The inductive invariant of the specification.
THEOREM Invariant == Spec => [](IInv /\ CommitsInOrder)
<1>1. Init => IInv /\ CommitsInOrder
  BY InitIsOK
<1>2. IInv /\ CommitsInOrder /\ [Next]_vars => (IInv /\ CommitsInOrder)'
  BY NextSteps, CommitsStayInOrder
<1> QED  BY <1>1, <1>2, PTL DEF Spec

-----------------------------------------------------------------------------
(* The properties of Replenishment.                                        *)

\* The branches, the snapshots and the plans of the jobs are well formed.
THEOREM Typed == Spec => []TypeOK
<1>1. IInv => TypeOK
  BY DEF IInv, TypeOK, BranchesOK, Sound, Command
<1> QED  BY <1>1, Invariant, PTL

\* Nothing is materialized before what it depends on, whatever the owner
\* publishes between the plan of a job and its commit.
THEOREM DependenciesComeFirst == Spec => []DependenciesFirst
<1>1. IInv => DependenciesFirst
  BY DEF IInv, BranchesOK, Sound, InOrder, DependenciesFirst
<1> QED  BY <1>1, Invariant, PTL

\* A job that materialized a task has taken its NO_WORK back before.
THEOREM NoWorkIsNone == Spec => []NoWorkMeansNone
<1>1. IInv => NoWorkMeansNone
  BY DEF IInv, JobOK, NoWorkMeansNone
<1> QED  BY <1>1, Invariant, PTL

\* TICKs take effect in their order, although a second look at the comments
\* and the commit are two steps.
THEOREM TicksStayInPlace == Spec => []TicksKeepTheirPlace
<1>1. IInv /\ CommitsInOrder => TicksKeepTheirPlace
  <2> SUFFICES ASSUME IInv, CommitsInOrder,
                      NEW c \in Commands, NEW d \in Commands, c < d,
                      job[c].commit > 0, job[d].commit > 0,
                      command[c].kind = "TICK", command[d].kind = "TICK",
                      command[c].run = command[d].run
               PROVE  job[c].commit < job[d].commit
    BY DEF TicksKeepTheirPlace
  <2>1. Posted(c) /\ Posted(d)
    <3>1. ASSUME NEW e \in Commands, job[e].commit > 0
          PROVE  Posted(e)
      BY <3>1 DEF IInv, JobOK, Posted
    <3> QED  BY <3>1
  <2> QED  BY <2>1 DEF CommitsInOrder, Ticks2
<1> QED  BY <1>1, Invariant, PTL

\* Every commit leaves a queue the next command can load.
THEOREM CommitsBind == Spec => EveryCommitBinds
<1>1. IInv /\ [Next]_vars =>
        (store'.version # store.version =>
           BoundQueue(store'.queue, authority.missions))
  BY NextSteps DEF StepOK
<1> QED  BY <1>1, Invariant, PTL DEF Spec, EveryCommitBinds

\* No commit loses a task of current authority, or evidence of any.
THEOREM NoTaskIsLost == Spec => NoTaskLost
<1>1. ASSUME IInv, [Next]_vars
      PROVE  \A task \in store.queue.tasks :
               \/ \E next \in store'.queue.tasks :
                    IdOf(next) = IdOf(task)
                    /\ (task.status = "DONE" => next = task)
               \/ /\ task.status # "DONE"
                  /\ IdOf(task) # CurrentId(authority.missions, task.gap)
                  /\ authority.missions.state[task.gap] = "RETIRED"
  BY <1>1, NextSteps DEF StepOK, Kept
<1> QED  BY <1>1, Invariant, PTL DEF Spec, NoTaskLost

\* The switch as the job has read it is the switch when it commits.
THEOREM DisabledMakesNothing == Spec => DisabledMaterializesNothing
<1>1. ASSUME IInv, [Next]_vars, ~authority.enabled
      PROVE  \A c \in Commands :
               job'[c].made /\ ~job[c].made => command[c].kind = "ACTIVATE"
  BY <1>1, NextSteps DEF StepOK
<1> QED  BY <1>1, Invariant, PTL DEF Spec, DisabledMaterializesNothing

\* The carrier's step and the materializing jobs implement the lock: each of
\* their steps grants it when it is free or has run out, gives it up, or
\* leaves it alone.
THEOREM LeaseIsKept == Spec => LeaseIsExclusive
<1>1. Init => Free!Init
  BY DEF Init, Free!Init
<1>2. ASSUME IInv, [Next]_vars
      PROVE  [Free!Next]_<<store.queue.lock, grants>>
  <2>1. LockStep
    BY <1>2, NextSteps DEF StepOK
  <2>2. ASSUME NEW r \in Runs, NEW id \in TaskId, Granted(r, id)
        PROVE  Free!Next
    BY <2>2 DEF Granted, Free!Next, Free!Grant
  <2>3. ASSUME Busy(store.queue),
               store'.queue.lock = [store.queue.lock EXCEPT !.live = FALSE],
               UNCHANGED grants
        PROVE  Free!Next
    BY <2>3 DEF Busy, Free!Next, Free!RunOut
  <2>4. ASSUME store'.queue.lock \in {None, store.queue.lock},
               UNCHANGED grants
        PROVE  [Free!Next]_<<store.queue.lock, grants>>
    BY <2>4 DEF Free!Next, Free!GiveUp
  <2> QED  BY <2>1, <2>2, <2>3, <2>4 DEF LockStep
<1>3. IInv /\ [Next]_vars => [Free!Next]_(Free!lockVars)
  BY <1>2 DEF Free!lockVars
<1> QED
  BY <1>1, <1>3, Invariant, PTL DEF Spec, LeaseIsExclusive, Free!Spec
=============================================================================
