--------------------------- MODULE RuntimeCarrier ---------------------------
(***************************************************************************)
(* Concurrent jobs of scripts/control_v4_runtime_carrier.py, the owner     *)
(* administration and the review completion on one private control plane.  *)
(*                                                                         *)
(* Every posted command is executed by a job of its own and no concurrency *)
(* group orders the jobs.  A job loads the private main and runtime        *)
(* branches, decides what to do on that snapshot, checks once more that    *)
(* the command is still good, and asks GitHub to move the runtime branch   *)
(* if both branches are where it found them.  The answer may be lost after *)
(* the branch has moved.  A job that dies takes no further step.  Commands *)
(* are numbered in creation order.                                         *)
(*                                                                         *)
(* Time is a set of bits: fresh of a TICK while it is at most 120 seconds  *)
(* old, live of a lock.  A snapshot is the same lock as the original, so   *)
(* when the lease runs out it does so in every copy.                       *)
(***************************************************************************)
EXTENDS ControlQueue

CONSTANTS
    MaxCommands,       \* bound: commands posted
    MaxPublications,   \* bound: changes of private main
    Events,            \* events the Runner reports, of the eight
    Operations         \* operations of the owner and the review completion

Commands == 1 .. MaxCommands

VARIABLES
    store,      \* the runtime branch: its commit and the queue
    authority,  \* private main: its commit and control_runtime_enabled
    command,    \* the posted commands
    job,        \* what became of the job of each command
    work,       \* the WORK capsules handed to Runners
    grants,     \* history: acquisitions of each run
    rework      \* history: see TaskLifecycle

vars == <<store, authority, command, job, work, grants, rework>>

\* rework saturates here, beyond what NoProgressBrake allows.
MaxRework == 3

-----------------------------------------------------------------------------
(* Commands. *)

\* The identity of a piece of WORK, to which an EVENT is bound.
Capsule == [run : Runs, task : Tasks,
            action : {"BUILD", "REPAIR", "REVIEW_INTERNAL",
                      "REQUEST_EXTERNAL_REVIEW", "RECONCILE_EXTERNAL_REVIEW"},
            candidate : Candidate \cup {None}]

CapsuleOf(q, r, t) ==
    [run |-> r, task |-> t, action |-> WorkAction(t, q.tasks[t]),
     candidate |-> q.tasks[t].candidate]

\* native: sent by the workflow_dispatch job that is the run itself.
TickCommand == [kind : {"TICK"}, run : Runs, native : BOOLEAN]
EventCommand == [kind : {"EVENT"}, run : Runs, capsule : Capsule,
                 event : Events, new : Candidate \cup {None},
                 ref : Refs \cup {None}]
OwnerCommand == [kind : {"OWNER"}, task : Tasks, operation : Operations,
                 new : Candidate \cup {None}, ref : Refs \cup {None}]

ASSUME CommandsAssumption ==
    /\ MaxCommands \in Nat
    /\ Events \subseteq {"YIELD", "CANDIDATE_READY", "INTERNAL_PASS",
                         "INTERNAL_REPAIR", "EXTERNAL_REQUESTED",
                         "REVIEW_UNAVAILABLE", "EXTERNAL_FINDING",
                         "EXTERNAL_PASS"}
    /\ Operations \subseteq {"COMPLETE_REVIEW", "FINALIZE_INTEGRATED",
                             "REBIND_READY_CANDIDATE", "RECONCILE_INTEGRATED"}

Store == [version : Nat, queue : Queue]
Authority == [version : Nat, enabled : BOOLEAN]

\* What a job wants to write: the queue, and for the history which tasks'
\* findings it settles and which get one more.
Plan == [queue : Queue, settled : SUBSET Tasks, found : SUBSET Tasks]

ASSUME NoneIsNoRecord ==
    /\ None \notin TickCommand \cup EventCommand \cup OwnerCommand
    /\ None \notin Store
    /\ None \notin Plan

Stage == {"unposted", "posted", "loaded", "planned", "checked", "over"}

Job == [stage : Stage,
        fresh : BOOLEAN,
        source : Store \cup {None},        \* the snapshot: runtime
        main : Authority \cup {None},      \* and main
        plan : Plan \cup {None},
        commit : Nat]                      \* its commit, 0 if it made none

UnpostedJob == [stage |-> "unposted", fresh |-> TRUE, source |-> None,
                main |-> None, plan |-> None, commit |-> 0]

TypeOK ==
    /\ store \in Store
    /\ authority \in Authority
    /\ command \in [Commands -> TickCommand \cup EventCommand
                                  \cup OwnerCommand \cup {None}]
    /\ job \in [Commands -> Job]
    /\ work \subseteq Capsule
    /\ grants \in [Runs -> Nat]
    /\ rework \in [Tasks -> 0 .. MaxRework]

Init ==
    /\ store = [version |-> 1, queue |-> InitialQueue]
    /\ authority = [version |-> 1, enabled |-> TRUE]
    /\ command = [c \in Commands |-> None]
    /\ job = [c \in Commands |-> UnpostedJob]
    /\ work = {}
    /\ grants = [r \in Runs |-> 0]
    /\ rework = [t \in Tasks |-> 0]

-----------------------------------------------------------------------------
(* The world around the jobs. *)

Posted(c) == command[c] # None

Post(cmd) ==
    \E c \in Commands :
      /\ ~Posted(c)
      /\ \A d \in 1 .. c - 1 : Posted(d)
      /\ command' = [command EXCEPT ![c] = cmd]
      /\ job' = [job EXCEPT ![c].stage = "posted"]
      /\ UNCHANGED <<store, authority, work, grants, rework>>

\* A run of control-go begins with its native TICK, its only one: the job
\* insists on run_attempt 1.  Any other TICK is an issue comment.
PostTick ==
    \E r \in Runs :
      LET started == \E c \in Commands :
                       Posted(c) /\ command[c].kind = "TICK"
                                 /\ command[c].run = r
      IN  Post([kind |-> "TICK", run |-> r,
                native |-> r \in InteractiveRuns /\ ~started])

\* A Runner reports on WORK it was handed, at any time and any number of times.
PostEvent ==
    \E capsule \in work, event \in Events :
      \E new \in IF event = "CANDIDATE_READY" THEN Candidate ELSE {None},
         ref \in IF event = "EXTERNAL_REQUESTED" THEN Refs ELSE {None} :
        Post([kind |-> "EVENT", run |-> capsule.run, capsule |-> capsule,
              event |-> event, new |-> new, ref |-> ref])

PostOwner ==
    \E t \in Tasks, operation \in Operations :
      \E new \in IF operation \in {"REBIND_READY_CANDIDATE",
                                  "RECONCILE_INTEGRATED"}
                 THEN Candidate ELSE {None},
         ref \in IF operation = "RECONCILE_INTEGRATED" THEN Refs ELSE {None} :
        Post([kind |-> "OWNER", task |-> t, operation |-> operation,
              new |-> new, ref |-> ref])

Awaited(c) == Posted(c) /\ command[c].kind = "TICK" /\ job[c].stage # "over"

\* A TICK turns 120 seconds old, the older ones first.
Ages(c) ==
    /\ Awaited(c)
    /\ job[c].fresh
    /\ \A d \in 1 .. c - 1 : Awaited(d) => ~job[d].fresh
    /\ job' = [job EXCEPT ![c].fresh = FALSE]
    /\ UNCHANGED <<store, authority, command, work, grants, rework>>

RunOut(q) == IF q.lock = None THEN q ELSE [q EXCEPT !.lock.live = FALSE]

\* The same in what a job holds: its snapshot, or its plan.
RunOutIn(held) ==
    IF held = None THEN None ELSE [held EXCEPT !.queue = RunOut(@)]

\* The lease runs out, in the runtime branch, in every snapshot and in every
\* image that retains the snapshot's lock.  (The lease a TICK is about to
\* acquire is a younger one.)
LeaseExpires ==
    /\ Busy(store.queue)
    /\ store' = [store EXCEPT !.queue = RunOut(@)]
    /\ job' = [c \in Commands |->
                 [job[c] EXCEPT
                    !.source = RunOutIn(job[c].source),
                    !.plan = IF Posted(c) /\ command[c].kind = "EVENT"
                             THEN RunOutIn(job[c].plan)
                             ELSE job[c].plan]]
    /\ UNCHANGED <<authority, command, work, grants, rework>>

\* The owner publishes on private main.
Publish ==
    /\ authority.version <= MaxPublications
    /\ \E enabled \in BOOLEAN :
         authority' = [version |-> authority.version + 1, enabled |-> enabled]
    /\ UNCHANGED <<store, command, job, work, grants, rework>>

-----------------------------------------------------------------------------
(* What a TICK decides on its snapshot. *)

\* Mutant: the TICK does not look for later commands.
SupersededMutant(c) == FALSE

\* A later command of the same run exists: the TICK is out of date.
Superseded(c) ==
    \E d \in Commands : /\ d > c
                        /\ Posted(d)
                        /\ command[d].kind \in {"TICK", "EVENT"}
                        /\ command[d].run = command[c].run

\* Mutant: any TICK may acquire.
MayTickMutant(cmd, q) == TRUE

\* A comment on behalf of an interactive run continues its own live lock.
MayTick(cmd, q) ==
    \/ cmd.run \notin InteractiveRuns
    \/ cmd.native
    \/ Busy(q) /\ q.lock.run = cmd.run

InRepositories(repos) == {t \in Tasks : Repository[t] \in repos}

\* The tasks a TICK may resume and those it may select, for every answer to
\* "which repositories may be read".  Only a comment may list tasks it yields:
\* the workflow writes the native TICK itself, with nothing but its run.
Scopes(cmd) ==
    IF cmd.native
    THEN {<<Tasks, InRepositories(repos)>> : repos \in SUBSET Repositories}
    ELSE {<<InRepositories(repos), InRepositories(repos) \ yielded>> :
            repos \in SUBSET Repositories, yielded \in SUBSET Tasks}

\* The job ends, having moved the branch to the given commit, or not (0).
Ended(commit) == [UnpostedJob EXCEPT !.stage = "over", !.commit = commit]
Over(c) == job' = [job EXCEPT ![c] = Ended(0)]

Planned(c, queue, settled, found) ==
    job' = [job EXCEPT ![c].stage = "planned",
                       ![c].plan = [queue |-> queue, settled |-> settled,
                                    found |-> found]]

\* A TICK that writes nothing: REJECTED, NO_WORK, BUSY, or WORK for the run
\* that has the live lock already.  (One that cannot read its target ends like
\* a job that dies.)
AnswerTick(c) ==
    LET cmd == command[c]
        q == job[c].source.queue
        continues == MayTick(cmd, q) /\ Busy(q) /\ q.lock.run = cmd.run
        good == ~Superseded(c) /\ job[c].fresh
    IN  /\ \/ ~good
           \/ ~job[c].main.enabled
           \/ ~MayTick(cmd, q)
           \/ Busy(q)
           \/ /\ q.lock = None
              /\ \E scope \in Scopes(cmd) : SelectionClass(q, scope[2]) = {}
        /\ Over(c)
        /\ work' = IF good /\ job[c].main.enabled /\ continues
                   THEN work \cup {CapsuleOf(q, cmd.run, q.lock.task)}
                   ELSE work

\* A TICK that recovers, resumes, parks or acquires.
PlanTick(c) ==
    LET cmd == command[c]
        q == job[c].source.queue
    IN  /\ ~Superseded(c)
        /\ job[c].fresh
        /\ job[c].main.enabled
        /\ MayTick(cmd, q)
        /\ ~Busy(q)
        /\ \E scope \in Scopes(cmd), drifted \in SUBSET ParkedNoProgress(q) :
             LET image == ResumeDrifted(RecoverExpiredLock(q), drifted)
             IN  /\ image.lock = None
                 /\ drifted \subseteq scope[1]
                 /\ \A t \in drifted : \E rev \in Revs :
                      rev # q.tasks[t].candidate.rev
                 /\ \/ /\ SelectionClass(image, scope[2]) = {}
                       /\ image # q
                       /\ Planned(c, image, drifted, {})
                    \/ \E t \in Tasks :
                         /\ Selects(image, scope[2], t)
                         /\ Planned(c, AcquireTask(image, t, cmd.run),
                                    drifted, {})
                    \/ \E t \in Tasks \ drifted,
                          blocker \in {"INTEGRATED", "CLOSED"} :
                         /\ Selects(image, scope[2], t)
                         /\ image.tasks[t].candidate # None
                         /\ image.tasks[t].status = "ACTIVE"
                         /\ Planned(c, ParkTerminalTarget(image, t, blocker),
                                    drifted, {})
        /\ UNCHANGED work

-----------------------------------------------------------------------------
(* What an EVENT decides on its snapshot. *)

\* Mutant: the capsule is compared, the holder is not.
BoundMutant(cmd, q) == cmd.capsule = CapsuleOf(q, cmd.run, cmd.capsule.task)

Bound(cmd, q) ==
    /\ cmd.capsule = CapsuleOf(q, cmd.run, cmd.capsule.task)
    /\ HolderOf(q, cmd.run, cmd.capsule.task)

\* Its pull request is no longer the candidate under review.
Drifted(cmd, task, live) ==
    /\ cmd.event # "YIELD"
    /\ task.phase = "REVIEW"
    /\ live # task.candidate

\* The event handlers on the bound task: whether they accept the event, ...
Accepts(cmd, t, task, live) ==
    LET reviewing == task.phase = "REVIEW" /\ task.candidate # None
    IN  CASE cmd.event = "YIELD" -> TRUE
          [] cmd.event = "CANDIDATE_READY" ->
               task.phase \in {"BUILD", "REPAIR"} /\ live = cmd.new
          [] cmd.event \in {"INTERNAL_PASS", "INTERNAL_REPAIR"} -> reviewing
          [] cmd.event = "EXTERNAL_REQUESTED" ->
               reviewing /\ CanRequestExternal(t, task, cmd.ref)
          [] cmd.event = "REVIEW_UNAVAILABLE" ->
               reviewing /\ CanReportUnavailable(t, task)
          [] cmd.event = "EXTERNAL_FINDING" ->
               reviewing /\ ReviewPolicy[t] = "EXTERNAL"
          [] cmd.event = "EXTERNAL_PASS" ->
               reviewing /\ CanPassExternal(t, task)

\* REPAIR hands back the candidate it was given.
Unchanged(cmd, task) ==
    cmd.event = "CANDIDATE_READY" /\ task.phase = "REPAIR"
                                  /\ cmd.new = task.candidate

\* ... and what they make of the task.
Effect(cmd, t, task) ==
    CASE cmd.event = "YIELD" -> task
      [] cmd.event = "CANDIDATE_READY" ->
           IF Unchanged(cmd, task) THEN MarkNoProgress(t, task)
           ELSE CandidateReady(task, cmd.new)
      [] cmd.event = "INTERNAL_PASS" -> InternalPass(t, task)
      [] cmd.event = "INTERNAL_REPAIR" -> InternalRepair(task)
      [] cmd.event = "EXTERNAL_REQUESTED" -> ExternalRequested(task, cmd.ref)
      [] cmd.event = "REVIEW_UNAVAILABLE" -> ExternalUnavailable(task)
      [] cmd.event = "EXTERNAL_FINDING" -> ExternalFinding(task)
      [] cmd.event = "EXTERNAL_PASS" -> ExternalPass(task)

\* History: a PASS or another candidate settles the findings of the task.
Settles(cmd, task) ==
    \/ cmd.event \in {"INTERNAL_PASS", "EXTERNAL_PASS"}
    \/ cmd.event = "CANDIDATE_READY" /\ ~Unchanged(cmd, task)

Finds(cmd) == cmd.event \in {"INTERNAL_REPAIR", "EXTERNAL_FINDING"}

PlanEvent(c) ==
    LET cmd == command[c]
        q == job[c].source.queue
        t == cmd.capsule.task
        task == q.tasks[t]
    IN  /\ job[c].main.enabled
        /\ Bound(cmd, q)
        /\ \E live \in Candidate :
             \/ /\ Drifted(cmd, task, live)
                /\ live.pr = task.candidate.pr
                /\ Planned(c, Release([q EXCEPT
                                         !.tasks[t] = DriftToRepair(@)]),
                           {t}, {})
             \/ /\ ~Drifted(cmd, task, live)
                /\ Accepts(cmd, t, task, live)
                /\ Planned(c, AfterEvent(q, cmd.run, t, cmd.event,
                                         Effect(cmd, t, task)),
                           IF Settles(cmd, task) THEN {t} ELSE {},
                           IF Finds(cmd) THEN {t} ELSE {})
        /\ UNCHANGED work

\* Rejected; or, as every event but YIELD needs its pull request, ended by a
\* failed read of it or by a check of the handler.
RefuseEvent(c) ==
    LET cmd == command[c]
    IN  /\ \/ ~job[c].main.enabled
           \/ ~Bound(cmd, job[c].source.queue)
           \/ cmd.event # "YIELD"
        /\ Over(c)
        /\ UNCHANGED work

-----------------------------------------------------------------------------
(* What the owner administration and the review completion decide. *)

\* Mutant: nobody asks whether the runtime is enabled.
CanOperateMutant(cmd, q, enabled) ==
    CASE cmd.operation = "COMPLETE_REVIEW" -> CanFinishReview(q, cmd.task)
      [] cmd.operation = "FINALIZE_INTEGRATED" ->
           CanFinalizeIntegrated(q, cmd.task)
      [] cmd.operation = "REBIND_READY_CANDIDATE" ->
           CanRebindReady(q, cmd.task, cmd.new)
      [] cmd.operation = "RECONCILE_INTEGRATED" ->
           CanReconcileIntegrated(q, cmd.task, cmd.new)

\* Only the review completion asks whether the runtime is enabled.
CanOperate(cmd, q, enabled) ==
    CASE cmd.operation = "COMPLETE_REVIEW" ->
           enabled /\ CanFinishReview(q, cmd.task)
      [] cmd.operation = "FINALIZE_INTEGRATED" ->
           CanFinalizeIntegrated(q, cmd.task)
      [] cmd.operation = "REBIND_READY_CANDIDATE" ->
           CanRebindReady(q, cmd.task, cmd.new)
      [] cmd.operation = "RECONCILE_INTEGRATED" ->
           CanReconcileIntegrated(q, cmd.task, cmd.new)

Operated(cmd, task) ==
    CASE cmd.operation = "COMPLETE_REVIEW" -> FinishReview(task)
      [] cmd.operation = "FINALIZE_INTEGRATED" -> FinalizeIntegrated(task)
      [] cmd.operation = "REBIND_READY_CANDIDATE" ->
           CandidateReady(task, cmd.new)
      [] cmd.operation = "RECONCILE_INTEGRATED" ->
           ReconcileIntegrated(cmd.task, task, cmd.new, cmd.ref)

PlanOwner(c) ==
    LET cmd == command[c]
        q == job[c].source.queue
    IN  /\ CanOperate(cmd, q, job[c].main.enabled)
        /\ Planned(c, AfterAdministration(q, cmd.task,
                                          Operated(cmd, q.tasks[cmd.task])),
                   IF cmd.operation = "FINALIZE_INTEGRATED" THEN {}
                   ELSE {cmd.task},
                   {})
        /\ UNCHANGED work

RefuseOwner(c) ==
    /\ ~CanOperate(command[c], job[c].source.queue, job[c].main.enabled)
    /\ Over(c)
    /\ UNCHANGED work

-----------------------------------------------------------------------------
(* The steps of a job. *)

Load(c) ==
    /\ job[c].stage = "posted"
    /\ job' = [job EXCEPT ![c].stage = "loaded", ![c].source = store,
                          ![c].main = authority]
    /\ UNCHANGED <<store, authority, command, work, grants, rework>>

Decide(c) ==
    /\ job[c].stage = "loaded"
    /\ \/ command[c].kind = "TICK" /\ (AnswerTick(c) \/ PlanTick(c))
       \/ command[c].kind = "EVENT" /\ (PlanEvent(c) \/ RefuseEvent(c))
       \/ command[c].kind = "OWNER" /\ (PlanOwner(c) \/ RefuseOwner(c))
    /\ UNCHANGED <<store, authority, command, grants, rework>>

\* Immediately before the compare-and-swap: the TICK is at most 120 seconds
\* old, the EVENT has the unexpired lock of its source.
StillGood(c) ==
    CASE command[c].kind = "TICK" -> job[c].fresh
      [] command[c].kind = "EVENT" -> Bound(command[c], job[c].source.queue)
      [] command[c].kind = "OWNER" -> TRUE

Recheck(c) ==
    /\ job[c].stage = "planned"
    /\ IF StillGood(c) THEN job' = [job EXCEPT ![c].stage = "checked"]
       ELSE Over(c)
    /\ UNCHANGED <<store, authority, command, work, grants, rework>>

\* Mutants: an updateRefs that compares only one of the two branches.
UnmovedRuntimeMutant(c) == job[c].main.version = authority.version
UnmovedMainMutant(c) == job[c].source.version = store.version

\* updateRefs moves the runtime branch only if it and main are where the job
\* found them.
Unmoved(c) ==
    /\ job[c].source.version = store.version
    /\ job[c].main.version = authority.version

\* The branch moves.  A job that gets the response hands out the WORK its
\* lock stands for, if it has one; without the response it reports ERROR.
Commit(c) ==
    LET cmd == command[c]
        plan == job[c].plan
        q == plan.queue
        version == store.version + 1
    IN  /\ job[c].stage = "checked"
        /\ Unmoved(c)
        /\ store' = [version |-> version, queue |-> q]
        /\ job' = [job EXCEPT ![c] = Ended(version)]
        /\ \/ UNCHANGED work
           \/ /\ q.lock # None
              /\ work' = work \cup {CapsuleOf(q, q.lock.run, q.lock.task)}
        /\ grants' = IF cmd.kind = "TICK" /\ q.lock # None
                     THEN [grants EXCEPT ![cmd.run] = @ + 1]
                     ELSE grants
        /\ rework' = [t \in Tasks |->
                        IF t \in plan.settled THEN 0
                        ELSE IF t \in plan.found /\ rework[t] < MaxRework
                        THEN rework[t] + 1
                        ELSE rework[t]]
        /\ UNCHANGED <<authority, command>>

\* StaleWriteError: RETRY.
LoseRace(c) ==
    /\ job[c].stage = "checked"
    /\ ~Unmoved(c)
    /\ Over(c)
    /\ UNCHANGED <<store, authority, command, work, grants, rework>>

World ==
    \/ PostTick
    \/ PostEvent
    \/ PostOwner
    \/ \E c \in Commands : Ages(c)
    \/ LeaseExpires
    \/ Publish

Next ==
    \/ World
    \/ \E c \in Commands : \/ Load(c)
                           \/ Decide(c)
                           \/ Recheck(c)
                           \/ Commit(c)
                           \/ LoseRace(c)

Spec == Init /\ [][Next]_vars

-----------------------------------------------------------------------------
(* The abstract specifications the jobs together implement. *)

Lease == INSTANCE LeaseLock WITH holder <- store.queue.lock,
                                 OneShot <- InteractiveRuns

\* One lock: granted free or expired, never prolonged, once to a native run.
LeaseIsSound == Lease!Spec

Lifecycle == INSTANCE TaskLifecycle WITH queue <- store.queue

\* Every commit is an accepted command executed atomically on the queue of the
\* moment, whatever the other jobs do: nothing is lost and nothing is decided
\* on a queue that is gone.
Serializable == Lifecycle!Spec

-----------------------------------------------------------------------------
(* Safety. *)

\* While a lease is live, every change of the queue is an EVENT of its holder.
LiveLeaseIsPrivate ==
    [][Busy(store.queue) /\ store'.version # store.version =>
         \E c \in Commands :
           /\ job[c].stage = "checked" /\ job'[c].commit = store'.version
           /\ command[c].kind = "EVENT"
           /\ command[c].run = store.queue.lock.run
           /\ command[c].capsule.task = store.queue.lock.task]_vars

\* A TICK never takes effect after a later command of its run has.
TicksKeepTheirPlace ==
    \A c, d \in Commands :
      /\ c < d
      /\ job[c].commit > 0 /\ job[d].commit > 0
      /\ command[c].kind = "TICK"
      /\ command[d].kind \in {"TICK", "EVENT"}
      /\ command[c].run = command[d].run
      => job[c].commit < job[d].commit

\* Once private main disables the runtime, no TICK, EVENT or review completion
\* takes effect, even one decided before; the owner may still administer.
DisabledRuntimeStandsStill ==
    [][~authority.enabled =>
         \A c \in Commands : job'[c].commit # job[c].commit =>
           /\ command[c].kind = "OWNER"
           /\ command[c].operation # "COMPLETE_REVIEW"]_vars
=============================================================================
