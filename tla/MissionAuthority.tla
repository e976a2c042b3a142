-------------------------- MODULE MissionAuthority --------------------------
(***************************************************************************)
(* The Missions of private main and how a queue is bound to them: which    *)
(* tasks current authority still backs, which historical tasks the owner's *)
(* reconciliation drops, and which gaps may become tasks.                  *)
(*                                                                         *)
(* Each repository has one Mission.  Gaps are numbered through all         *)
(* Missions: repositories in sorted order, the gaps of one in list order.  *)
(*                                                                         *)
(* Abstractions.  A Mission revision is a number and stands for the blob   *)
(* of the Mission and of the repository authority as well; a publication   *)
(* supersedes the number before.  A gap keeps its dependencies and its     *)
(* policies.  A task is its gap, its revision and its status, which is     *)
(* also all its digest can tell apart; evidence carried forward for a gap  *)
(* comes from a task of that gap (V4_DONE), never from a migration fact.   *)
(***************************************************************************)
EXTENDS Naturals, FiniteSets

CONSTANTS
    Repositories,     \* repositories with a Mission
    NumGaps,          \* gaps of all Missions
    GapRepository,    \* gap -> its repository
    DependsOn,        \* gap -> the gaps it depends on
    MaxRevision,      \* bound: revisions of a Mission
    Runs,             \* run identities
    None              \* JSON null

Gaps == 1 .. NumGaps
Revisions == 1 .. MaxRevision

ASSUME MissionAssumption ==
    /\ NumGaps \in Nat
    /\ MaxRevision \in Nat \ {0}
    /\ GapRepository \in [Gaps -> Repositories]
    /\ DependsOn \in [Gaps -> SUBSET Gaps]
    /\ \A g \in Gaps : \A d \in DependsOn[g] :
         GapRepository[d] = GapRepository[g]
    /\ \E rank \in [Gaps -> Gaps] :                    \* no cycles
         \A g \in Gaps : \A d \in DependsOn[g] : rank[d] < rank[g]

Status == {"QUEUED", "ACTIVE", "READY", "BLOCKED", "DONE"}
TaskId == [gap : Gaps, revision : Revisions]
Task == [gap : Gaps, revision : Revisions, status : Status]
Lock == [task : TaskId, run : Runs, live : BOOLEAN]
Queue == [tasks : SUBSET Task, lock : Lock \cup {None}]

\* revision and state of every Mission, and the DONE tasks they carry forward.
Missions == [revision : [Repositories -> Revisions],
             state : [Gaps -> {"OPEN", "RETIRED"}],
             carry : SUBSET Task]

IdOf(task) == [gap |-> task.gap, revision |-> task.revision]
RepositoryOf(task) == GapRepository[task.gap]
GapsOf(repo) == {g \in Gaps : GapRepository[g] = repo}

-----------------------------------------------------------------------------
(* Missions. *)

\* v4_root_task_id under the current revision of the gap's Mission.
CurrentId(missions, g) ==
    [gap |-> g, revision |-> missions.revision[GapRepository[g]]]

Carried(missions, g) == \E task \in missions.carry : task.gap = g

\* validate_mission_v4: only a RETIRED gap is carried forward, once, from an
\* earlier revision; an OPEN gap depends on a RETIRED one only if that is.
ValidMission(missions, repo) ==
    /\ \A task \in missions.carry : RepositoryOf(task) = repo =>
         /\ missions.state[task.gap] = "RETIRED"
         /\ task.revision < missions.revision[repo]
         /\ \A other \in missions.carry :
              other.gap = task.gap => other = task
    /\ \A g \in GapsOf(repo) : missions.state[g] = "OPEN" =>
         \A d \in DependsOn[g] :
           missions.state[d] = "RETIRED" => Carried(missions, d)

-----------------------------------------------------------------------------
(* The binding of a queue. *)

\* A task of the current revision has an OPEN gap; one of an earlier revision
\* is DONE and carried forward exactly as it is.
BoundTask(task, missions) ==
    IF IdOf(task) = CurrentId(missions, task.gap)
    THEN missions.state[task.gap] = "OPEN"
    ELSE task.status = "DONE" /\ task \in missions.carry

\* assert_v4_queue_bound_to_authority
BoundQueue(q, missions) ==
    \A task \in q.tasks : BoundTask(task, missions)

\* The revisions whose unfinished tasks a Mission may drop.
RecognizedRevisions(missions, repo) ==
    {missions.revision[repo] - 1} \cup
    {task.revision : task \in {c \in missions.carry : RepositoryOf(c) = repo}}

\* What a Mission drops.
SupersededTasks(q, missions, repo) ==
    {task \in q.tasks :
       /\ RepositoryOf(task) = repo
       /\ task.revision \in RecognizedRevisions(missions, repo)
       /\ task.status # "DONE"}

\* Mutant: unfinished tasks go whatever their gap.
RetiredMutant(tasks, missions) == TRUE

Retired(tasks, missions) ==
    \A task \in tasks : missions.state[task.gap] = "RETIRED"

\* _replenishment_queue_v4: the queue without them, if it has no lock and if
\* that binds it again.
Reconciled(q, missions, repo) ==
    [q EXCEPT !.tasks = @ \ SupersededTasks(q, missions, repo)]

CanReconcile(q, missions, repo) ==
    /\ q.lock = None
    /\ Retired(SupersededTasks(q, missions, repo), missions)
    /\ BoundQueue(Reconciled(q, missions, repo), missions)

-----------------------------------------------------------------------------
(* Which gaps may become tasks. *)

Materialized(q, missions, g) ==
    \E task \in q.tasks : IdOf(task) = CurrentId(missions, g)

\* Mutant: a dependency with a task will do.
DependencyIsSatisfiedMutant(q, missions, d) ==
    IF missions.state[d] = "RETIRED" THEN Carried(missions, d)
    ELSE Materialized(q, missions, d)

DependencyIsSatisfied(q, missions, d) ==
    IF missions.state[d] = "RETIRED"
    THEN Carried(missions, d)
    ELSE \E task \in q.tasks : /\ IdOf(task) = CurrentId(missions, d)
                               /\ task.status = "DONE"

\* The evidence of what the Mission carries forward is still in the queue.
Evidenced(q, missions, repo) ==
    \A task \in missions.carry : RepositoryOf(task) = repo => task \in q.tasks

\* eligible_unmaterialized_gaps_v4; it raises on a queue that cannot be
\* reconciled or misses evidence, and then nothing is materialized.
EligibleGaps(q, missions, repo) ==
    LET current == Reconciled(q, missions, repo)
    IN  {g \in GapsOf(repo) :
           /\ CanReconcile(q, missions, repo)
           /\ Evidenced(current, missions, repo)
           /\ missions.state[g] = "OPEN"
           /\ ~Materialized(current, missions, g)
           /\ \A d \in DependsOn[g] :
                DependencyIsSatisfied(current, missions, d)}

\* The root task of a gap under its current revision.
RootTask(missions, g, status) ==
    [gap |-> g, revision |-> missions.revision[GapRepository[g]],
     status |-> status]

WithTask(q, task) == [q EXCEPT !.tasks = @ \cup {task}]

\* Mutant: the task is not made ACTIVE.
AcquiredMutant(q, task, run) ==
    [q EXCEPT !.lock = [task |-> IdOf(task), run |-> run, live |-> TRUE]]

\* acquire_task_v4: the task is ACTIVE under a new lease.
Acquired(q, task, run) ==
    [tasks |-> (q.tasks \ {task}) \cup {[task EXCEPT !.status = "ACTIVE"]},
     lock |-> [task |-> IdOf(task), run |-> run, live |-> TRUE]]

\* validate_queue_v4: one task per identity, and the holder is ACTIVE.
ValidQueue(q) ==
    /\ \A s, t \in q.tasks : IdOf(s) = IdOf(t) => s = t
    /\ q.lock # None =>
         \E t \in q.tasks : IdOf(t) = q.lock.task /\ t.status = "ACTIVE"
=============================================================================
