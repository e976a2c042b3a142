---------------------------- MODULE Replenishment ----------------------------
(***************************************************************************)
(* How OPEN gaps of the Missions become tasks while the control plane      *)
(* runs: the first step of a native start queues one, a comment TICK that  *)
(* found no work materializes and acquires one in the same job, and the    *)
(* owner activates one by name.  Each is a job that loads private main and *)
(* runtime, plans, checks again and asks GitHub to move the runtime branch *)
(* if neither branch has moved.                                            *)
(*                                                                         *)
(* The carrier's own step of a TICK is one atomic step here, which is what *)
(* RuntimeCarrier establishes.  The other commands on existing tasks are   *)
(* the action Progress.  Commands are numbered in creation order.          *)
(***************************************************************************)
EXTENDS MissionAuthority

CONSTANTS
    InteractiveRuns,   \* runs of the workflow "control-go"
    InitialTasks,      \* tasks there are to begin with
    MaxCommands,       \* bound: commands posted
    MaxPublications,   \* bound: changes of private main
    MaxVersion         \* bound: commits after which tasks progress no more

Commands == 1 .. MaxCommands

\* The initial tasks are a queue some earlier run has left: one task per gap,
\* of the first revision, and none before those its gap depends on are DONE.
ASSUME ReplenishmentAssumption ==
    /\ MaxCommands \in Nat
    /\ InitialTasks \in SUBSET {t \in Task : t.revision = 1}
    /\ \A s, t \in InitialTasks : s.gap = t.gap => s = t
    /\ \A t \in InitialTasks : \A d \in DependsOn[t.gap] :
         [gap |-> d, revision |-> 1, status |-> "DONE"] \in InitialTasks

VARIABLES
    store,      \* the runtime branch: its commit and the queue
    authority,  \* private main: its commit, its switch and its Missions
    command,    \* the posted commands
    job,        \* what became of the job of each command
    grants      \* history: acquisitions of each run

vars == <<store, authority, command, job, grants>>

-----------------------------------------------------------------------------
(* Commands and jobs. *)

\* START is the native job of a run, TICK a comment on behalf of one.
RunCommand == [kind : {"START", "TICK"}, run : Runs]
ActivateCommand == [kind : {"ACTIVATE"}, task : TaskId]

ASSUME NoneIsNoCommand == None \notin RunCommand \cup ActivateCommand

Store == [version : Nat, queue : Queue]
Authority == [version : Nat, enabled : BOOLEAN, missions : Missions]

\* "ticking" is a START after its first step, "idle" a TICK after NO_WORK.
Stage == {"unposted", "posted", "ticking", "idle", "loaded", "planned",
          "checked", "over"}

Job == [stage : Stage,
        fresh : BOOLEAN,                   \* the TICK is at most 120 s old
        source : Store \cup {None},        \* the snapshot: runtime
        main : Authority \cup {None},      \* and main
        plan : Queue \cup {None},
        result : {"NO_WORK", "WORK", "ERROR", None},  \* None: any other
        commit : Nat,                      \* its last commit, 0 if none
        made : BOOLEAN]                    \* it has materialized a task

UnpostedJob == [stage |-> "unposted", fresh |-> TRUE, source |-> None,
                main |-> None, plan |-> None, result |-> None,
                commit |-> 0, made |-> FALSE]

TypeOK ==
    /\ store \in Store
    /\ ValidQueue(store.queue)
    /\ authority \in Authority
    /\ command \in [Commands -> RunCommand \cup ActivateCommand \cup {None}]
    /\ job \in [Commands -> Job]
    /\ grants \in [Runs -> Nat]

Init ==
    /\ store = [version |-> 1,
                queue |-> [tasks |-> InitialTasks, lock |-> None]]
    /\ authority = [version |-> 1, enabled |-> TRUE,
                    missions |-> [revision |-> [repo \in Repositories |-> 1],
                                  state |-> [g \in Gaps |-> "OPEN"],
                                  carry |-> {}]]
    /\ command = [c \in Commands |-> None]
    /\ job = [c \in Commands |-> UnpostedJob]
    /\ grants = [r \in Runs |-> 0]

-----------------------------------------------------------------------------
(* The world around the jobs. *)

Posted(c) == command[c] # None

OfRun(c, r) == /\ Posted(c)
               /\ command[c].kind \in {"START", "TICK"}
               /\ command[c].run = r

Post(cmd) ==
    \E c \in Commands :
      /\ ~Posted(c)
      /\ \A d \in 1 .. c - 1 : Posted(d)
      /\ command' = [command EXCEPT ![c] = cmd]
      /\ job' = [job EXCEPT ![c].stage = "posted"]
      /\ UNCHANGED <<store, authority, grants>>

\* A run of control-go is started once and comments afterwards.
PostRunCommand ==
    \E r \in Runs :
      Post([kind |-> IF r \in InteractiveRuns
                        /\ ~\E c \in Commands : OfRun(c, r)
                     THEN "START" ELSE "TICK",
            run |-> r])

PostActivate ==
    \E id \in TaskId : Post([kind |-> "ACTIVATE", task |-> id])

Ages(c) ==
    /\ \E r \in Runs : OfRun(c, r)
    /\ job[c].stage # "over"
    /\ job[c].fresh
    /\ job' = [job EXCEPT ![c].fresh = FALSE]
    /\ UNCHANGED <<store, authority, command, grants>>

Busy(q) == q.lock # None /\ q.lock.live

\* A snapshot with a lock is good for nothing here, whether it has run out or
\* not, and the lease a job is about to acquire is a younger one.
LeaseExpires ==
    /\ Busy(store.queue)
    /\ store' = [store EXCEPT !.queue.lock.live = FALSE]
    /\ UNCHANGED <<authority, command, job, grants>>

\* The owner throws the switch of the runtime, ...
Switch ==
    /\ authority.version <= MaxPublications
    /\ authority' = [authority EXCEPT !.version = @ + 1, !.enabled = ~@]
    /\ UNCHANGED <<store, command, job, grants>>

\* ... or publishes the next revision of a Mission, which supersedes the
\* present one and carries forward what is DONE at that moment.
Publish(repo) ==
    /\ authority.version <= MaxPublications
    /\ authority.missions.revision[repo] < MaxRevision
    /\ \E state \in [GapsOf(repo) -> {"OPEN", "RETIRED"}],
          carry \in SUBSET {t \in store.queue.tasks :
                              RepositoryOf(t) = repo /\ t.status = "DONE"} :
         LET old == authority.missions
             new == [revision |-> [old.revision EXCEPT ![repo] = @ + 1],
                     state |-> [g \in Gaps |-> IF g \in GapsOf(repo)
                                               THEN state[g]
                                               ELSE old.state[g]],
                     carry |-> carry \cup
                               {t \in old.carry : RepositoryOf(t) # repo}]
         IN  /\ ValidMission(new, repo)
             /\ authority' = [authority EXCEPT !.version = @ + 1,
                                               !.missions = new]
    /\ UNCHANGED <<store, command, job, grants>>

\* What EVENTs, the review completion and the owner make of a task.
Moves == {<<"ACTIVE", "ACTIVE">>, <<"ACTIVE", "READY">>,
          <<"ACTIVE", "BLOCKED">>, <<"ACTIVE", "DONE">>,
          <<"READY", "ACTIVE">>, <<"READY", "DONE">>,
          <<"BLOCKED", "ACTIVE">>, <<"BLOCKED", "DONE">>}

\* One of them takes effect, on the task that has the lock or with no lock (of
\* which only the owner's do not need the runtime enabled); it too has loaded a
\* queue that binds.
Progress ==
    LET q == store.queue
    IN  /\ store.version <= MaxVersion
        /\ BoundQueue(q, authority.missions)
        /\ \E task \in q.tasks, status \in Status :
             LET image == [tasks |-> (q.tasks \ {task}) \cup
                                     {[task EXCEPT !.status = status]},
                           lock |-> None]
             IN  /\ <<task.status, status>> \in Moves
                 /\ q.lock # None => authority.enabled /\ q.lock.task = IdOf(task)
                 /\ image # q
                 /\ store' = [version |-> store.version + 1, queue |-> image]
        /\ UNCHANGED <<authority, command, job, grants>>

-----------------------------------------------------------------------------
(* The carrier's step of a TICK. *)

\* Mutant: nobody looks for later commands.
SupersededMutant(c) == FALSE

\* A later TICK of the same run has been posted.
Superseded(c) == \E d \in Commands : d > c /\ OfRun(d, command[c].run)

Admitted(c) == job[c].fresh /\ ~Superseded(c)

\* A comment of an interactive run continues its live lock, which leads to
\* WORK without a write.
MayAcquire(c) == command[c].kind = "START"
                 \/ command[c].run \notin InteractiveRuns

Ticks(c) ==
    \/ job[c].stage = "ticking"
    \/ job[c].stage = "posted" /\ command[c].kind = "TICK"

\* The job ends, having published the given result.
Ended(c, result) ==
    [UnpostedJob EXCEPT !.stage = "over", !.result = result,
                        !.commit = job[c].commit, !.made = job[c].made]

\* The lock is dropped if it has run out; tasks parked for no progress resume.
Resumed(q) ==
    {[tasks |-> (q.tasks \ parked)
                \cup {[t EXCEPT !.status = "ACTIVE"] : t \in parked},
      lock |-> None] : parked \in SUBSET {t \in q.tasks : t.status = "BLOCKED"}}

\* The pull request of the selected task is merged or closed.
Parked(q) ==
    {[q EXCEPT !.tasks = (@ \ {t}) \cup {[t EXCEPT !.status = "BLOCKED"]}] :
        t \in {u \in q.tasks : u.status = "ACTIVE"}}

\* Which task it selects depends on what it may read and on YIELDs.
CarrierAcquires(c) ==
    /\ Ticks(c)
    /\ BoundQueue(store.queue, authority.missions)
    /\ Admitted(c)
    /\ authority.enabled
    /\ MayAcquire(c)
    /\ ~Busy(store.queue)
    /\ \E image \in Resumed(store.queue), result \in {"WORK", "ERROR"} :
         \E task \in image.tasks :
           /\ task.status \in {"QUEUED", "ACTIVE"}
           /\ store' = [version |-> store.version + 1,
                        queue |-> Acquired(image, task, command[c].run)]
           /\ job' = [job EXCEPT
                        ![c] = [Ended(c, result) EXCEPT
                                  !.commit = store.version + 1]]
    /\ grants' = [grants EXCEPT ![command[c].run] = @ + 1]
    /\ UNCHANGED <<authority, command>>

LeftBehind(q) == Resumed(q) \cup UNION {Parked(image) : image \in Resumed(q)}

\* NO_WORK.  The switch comes before the question who the run is; if there is
\* something to write, the response may be lost.
CarrierFindsNothing(c) ==
    /\ Ticks(c)
    /\ BoundQueue(store.queue, authority.missions)
    /\ Admitted(c)
    /\ \E image \in IF authority.enabled THEN LeftBehind(store.queue)
                    ELSE {store.queue} :
         LET written == image # store.queue
             version == store.version + 1
         IN  /\ authority.enabled => MayAcquire(c) /\ ~Busy(store.queue)
             /\ store' = IF written THEN [version |-> version, queue |-> image]
                         ELSE store
             /\ \/ job' = [job EXCEPT
                             ![c].stage = IF command[c].kind = "TICK"
                                          THEN "idle" ELSE "over",
                             ![c].result = "NO_WORK",
                             ![c].commit = IF written THEN version ELSE @]
                \/ /\ written
                   /\ job' = [job EXCEPT
                                ![c] = [Ended(c, "ERROR") EXCEPT
                                          !.commit = version]]
    /\ UNCHANGED <<authority, command, grants>>

-----------------------------------------------------------------------------
(* The jobs that materialize a task. *)

Load(c) ==
    /\ Posted(c)
    /\ job[c].stage = IF command[c].kind = "TICK" THEN "idle" ELSE "posted"
    /\ command[c].kind # "ACTIVATE" =>
         BoundQueue(store.queue, authority.missions)
    /\ job' = [job EXCEPT ![c].stage = "loaded", ![c].source = store,
                          ![c].main = authority]
    /\ UNCHANGED <<store, authority, command, grants>>

\* The job ends at any point: it is refused, has nothing to do, finds no
\* candidate, cannot read its target, loses the race for the branch or dies.
\* The result is the one its steps have left to be published.
Stops(c) ==
    /\ job[c].stage \notin {"unposted", "over"}
    /\ job' = [job EXCEPT ![c] = Ended(c, job[c].result)]
    /\ UNCHANGED <<store, authority, command, grants>>

\* Mutant: the switch is left to the carrier's step.
MayMaterializeMutant(main, q) == q.lock = None

MayMaterialize(main, q) == main.enabled /\ q.lock = None

\* Mutant: the NO_WORK of the carrier's step stays the result.
PreSeededMutant(result) == result

\* Before it writes, a TICK takes back the NO_WORK.
PreSeeded(result) == "ERROR"

Planned(c, queue, result) ==
    /\ job' = [job EXCEPT ![c].stage = "planned", ![c].plan = queue,
                          ![c].result = result]
    /\ UNCHANGED <<store, authority, command, grants>>

\* A new task with a pull request, materialized and acquired in one image.
PlanTick(c) ==
    LET q == job[c].source.queue
        missions == job[c].main.missions
    IN  /\ job[c].stage = "loaded"
        /\ command[c].kind = "TICK"
        /\ MayMaterialize(job[c].main, q)
        /\ \E repo \in Repositories : \E g \in EligibleGaps(q, missions, repo) :
             LET task == RootTask(missions, g, "ACTIVE")
             IN  Planned(c, Acquired(WithTask(q, task), task, command[c].run),
                         PreSeeded(job[c].result))

\* The first eligible gap in scope is queued to be built.
PlanStart(c) ==
    LET q == job[c].source.queue
        missions == job[c].main.missions
    IN  /\ job[c].stage = "loaded"
        /\ command[c].kind = "START"
        /\ MayMaterialize(job[c].main, q)
        /\ \E scope \in SUBSET Repositories :
             LET eligible == UNION {EligibleGaps(q, missions, repo) :
                                      repo \in scope}
             IN  \E g \in eligible :
                   /\ \A h \in eligible : g <= h
                   /\ Planned(c, WithTask(q, RootTask(missions, g, "QUEUED")),
                              None)

\* There is a lock, or no eligible gap in scope: on to the TICK.
SkipStart(c) ==
    /\ job[c].stage = "loaded"
    /\ command[c].kind = "START"
    /\ job[c].main.enabled
    /\ job' = [job EXCEPT ![c] = [UnpostedJob EXCEPT !.stage = "ticking"]]
    /\ UNCHANGED <<store, authority, command, grants>>

\* The gap the owner named, if the approval is of the present revision.
PlanActivate(c) ==
    LET q == job[c].source.queue
        missions == job[c].main.missions
    IN  /\ job[c].stage = "loaded"
        /\ command[c].kind = "ACTIVATE"
        /\ LET g == command[c].task.gap
               repo == GapRepository[g]
           IN  /\ command[c].task = CurrentId(missions, g)
               /\ g \in EligibleGaps(q, missions, repo)
               /\ Planned(c, WithTask(Reconciled(q, missions, repo),
                                      RootTask(missions, g, "ACTIVE")), None)

\* A TICK is still admitted; a START is still fresh.
Recheck(c) ==
    /\ job[c].stage = "planned"
    /\ command[c].kind = "TICK" => Admitted(c)
    /\ command[c].kind = "START" => job[c].fresh
    /\ job' = [job EXCEPT ![c].stage = "checked"]
    /\ UNCHANGED <<store, authority, command, grants>>

\* Mutants: an updateRefs that compares only one of the two branches.
UnmovedRuntimeMutant(c) == job[c].main.version = authority.version
UnmovedMainMutant(c) == job[c].source.version = store.version

Unmoved(c) ==
    /\ job[c].source.version = store.version
    /\ job[c].main.version = authority.version

\* The branch moves.  With the response a TICK publishes WORK and a START goes
\* on to its TICK, made fresh; without it the job ends.
Commit(c) ==
    LET version == store.version + 1
        after == [Ended(c, job[c].result) EXCEPT !.commit = version,
                                                 !.made = TRUE]
    IN  /\ job[c].stage = "checked"
        /\ Unmoved(c)
        /\ store' = [version |-> version, queue |-> job[c].plan]
        /\ \/ job' = [job EXCEPT ![c] = after]
           \/ /\ command[c].kind = "TICK"
              /\ job' = [job EXCEPT ![c] = [after EXCEPT !.result = "WORK"]]
           \/ /\ command[c].kind = "START"
              /\ job' = [job EXCEPT ![c] = [after EXCEPT !.stage = "ticking"]]
        /\ grants' = IF command[c].kind = "TICK"
                     THEN [grants EXCEPT ![command[c].run] = @ + 1]
                     ELSE grants
        /\ UNCHANGED <<authority, command>>

World ==
    \/ PostRunCommand
    \/ PostActivate
    \/ \E c \in Commands : Ages(c)
    \/ LeaseExpires
    \/ Switch
    \/ \E repo \in Repositories : Publish(repo)
    \/ Progress

Next ==
    \/ World
    \/ \E c \in Commands : \/ CarrierAcquires(c)
                           \/ CarrierFindsNothing(c)
                           \/ Load(c)
                           \/ PlanTick(c)
                           \/ PlanStart(c)
                           \/ SkipStart(c)
                           \/ PlanActivate(c)
                           \/ Recheck(c)
                           \/ Commit(c)
                           \/ Stops(c)

Spec == Init /\ [][Next]_vars

-----------------------------------------------------------------------------
(* Safety. *)

\* A task of the current revision exists only if every gap its gap depends on
\* is DONE: in the queue, or carried forward by the Mission.
DependenciesFirst ==
    LET missions == authority.missions
        done == {t \in store.queue.tasks : t.status = "DONE"}
    IN  \A task \in store.queue.tasks :
          IdOf(task) = CurrentId(missions, task.gap) =>
            \A d \in DependsOn[task.gap] :
              \/ missions.state[d] = "RETIRED" /\ Carried(missions, d)
              \/ \E t \in done : IdOf(t) = CurrentId(missions, d)

\* Every commit leaves a queue that binds to private main as it is at that
\* moment, so that the next command can load it.
EveryCommitBinds ==
    [][store'.version # store.version =>
         BoundQueue(store'.queue, authority.missions)]_vars

\* No commit loses a task.  One leaves the queue only if it is unfinished, of
\* a superseded revision, and the owner has RETIRED its gap; a DONE one, which
\* is evidence, stays as it is.
NoTaskLost ==
    [][\A task \in store.queue.tasks :
         \/ \E next \in store'.queue.tasks :
              IdOf(next) = IdOf(task)
              /\ (task.status = "DONE" => next = task)
         \/ /\ task.status # "DONE"
            /\ IdOf(task) # CurrentId(authority.missions, task.gap)
            /\ authority.missions.state[task.gap] = "RETIRED"]_vars

\* A job that has materialized a task never publishes NO_WORK, not even when
\* it does not know that it has.
NoWorkMeansNone ==
    \A c \in Commands :
      command[c] # None /\ command[c].kind = "TICK" /\ job[c].made
        => job[c].result # "NO_WORK"

\* With the runtime disabled only the owner's activation materializes a task.
DisabledMaterializesNothing ==
    [][~authority.enabled =>
         \A c \in Commands :
           job'[c].made /\ ~job[c].made => command[c].kind = "ACTIVATE"]_vars

\* Of two TICKs of a run the later one has the later commit, materializing
\* commits included.
TicksKeepTheirPlace ==
    \A c, d \in Commands :
      /\ c < d
      /\ job[c].commit > 0 /\ job[d].commit > 0
      /\ command[c].kind = "TICK" /\ command[d].kind = "TICK"
      /\ command[c].run = command[d].run
      => job[c].commit < job[d].commit

Free == INSTANCE LeaseLock WITH Tasks <- TaskId, OneShot <- {},
                                holder <- store.queue.lock

\* Materializing is no way around the lock: whoever is granted it, it was free
\* or had run out.
LeaseIsExclusive == Free!Spec

-----------------------------------------------------------------------------
(* What comments and documents say and the code does not do. *)

Lease == INSTANCE LeaseLock WITH Tasks <- TaskId, OneShot <- InteractiveRuns,
                                 holder <- store.queue.lock

\* "Native workflow_dispatch authorizes one acquisition": a comment of the run
\* sent while the runtime is disabled acquires another if it is enabled before
\* the job comes to materialize.
OneAcquisitionPerNativeRun == Lease!Spec

\* "Terminal published NO_WORK remains mutation-free": the carrier drops a lock
\* that has run out, resumes and parks tasks, and then publishes NO_WORK.
NoWorkIsMutationFree ==
    \A c \in Commands :
      job[c].stage = "over" /\ job[c].result = "NO_WORK" => job[c].commit = 0
=============================================================================
