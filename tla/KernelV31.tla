----------------------------- MODULE KernelV31 -----------------------------
(***************************************************************************)
(* Concurrent invocations of scripts/control_kernel_v31.py, the writer of  *)
(* Control Autonomy V3.1: claim, release, record and tick.                 *)
(*                                                                         *)
(* Each loads main once.  Then, up to MAX_CAS_ATTEMPTS times, it fetches   *)
(* the runtime branch, computes what to write and pushes it; the push      *)
(* fails if the branch has moved since the fetch.  A pushed write can look *)
(* like a failed one.  A tick may also move the base branch of the target  *)
(* repository, under a lease on the frozen base, before it knows whether   *)
(* its own write will succeed.                                             *)
(*                                                                         *)
(* A job that fetched the branch is current until somebody writes.  While  *)
(* it is, the queue is the one it fetched, so only its choices are kept.   *)
(* Jobs are reused: there is no bound on the number of invocations.        *)
(***************************************************************************)
EXTENDS LegacyMigration, SequencesExt

CONSTANTS
    Jobs,              \* how many invocations overlap
    MaxRuns,           \* bound: claims
    MaxChanges,        \* bound: changes of main, commits on a base by somebody
                       \* else and pull requests closed or moved on
    MaxDepth           \* bound: tasks of a gap one after the other

VARIABLES
    main,      \* private main: the switches and the Missions
    queue,     \* the runtime branch: the tasks of DISPATCH_QUEUE.json,
    facts,     \*                     its migration facts, None in version 1.0,
    results,   \*                     and the result files
    runs,      \* the number of claims so far; a run id is its number
    late,      \* runs of claims in the queue whose lease has expired
    told,      \* the claims whose worker got the answer
    job,       \* the invocations
    current,   \* the jobs whose fetched runtime commit is the newest
    trunk,     \* the base branch of each target repository
    pulls,     \* what has become of the pull requests
    changes    \* bound: how many of those there were

vars == <<main, queue, facts, results, runs, late, told, job, current, trunk, pulls,
          changes>>
target == <<trunk, pulls>>
runtime == <<queue, facts, results, runs, told>>

Main == [enabled : BOOLEAN, integration : BOOLEAN,
         auto : [Repositories -> BOOLEAN],
         revision : [Repositories -> Nat], open : SUBSET Gaps,
         depends : {DependsOn}]

ResultFile == [task : TaskId, run : Nat, result : Result]

\* plan: the task a tick was planned for, or the one the job writes about;
\* effect: what the job is going to write.
Job == [pc : {"planned", "loaded", "landing", "decided"},
        command : {"CLAIM", "RELEASE", "RECORD", "TICK"},
        main : Main \cup {None},
        worker : Workers \cup {None},
        plan : TaskId \cup {None},
        run : Nat \cup {None},
        result : Result \cup {None},
        late : SUBSET Nat,
        effect : {"NONE", "CLAIM", "RELEASE", "RECORD",
                  "MERGED", "HOLD", "BASE_DRIFT"}]

TypeOK ==
    /\ main \in Main
    /\ DOMAIN queue \subseteq TaskId
    /\ \A id \in DOMAIN queue : queue[id] \in Task
    /\ facts # None => facts \subseteq Root
    /\ results \subseteq ResultFile
    /\ runs \in Nat
    /\ late \subseteq 1 .. runs
    /\ told \subseteq TaskId \X (1 .. runs)
    /\ job \in [Jobs -> Job \cup {None}]
    /\ current \subseteq Jobs
    /\ trunk \in [Repositories -> Commit]
    /\ pulls \in [Shas -> {"open", "merged", "gone"}]
    /\ changes \in Nat

Init ==
    /\ main = [enabled |-> TRUE, integration |-> TRUE,
               auto |-> [r \in Repositories |-> TRUE],
               revision |-> [r \in Repositories |-> 1], open |-> Gaps,
               depends |-> DependsOn]
    /\ queue = <<>>
    /\ facts = None
    /\ results = {}
    /\ runs = 0
    /\ late = {}
    /\ told = {}
    /\ job = [j \in Jobs |-> None]
    /\ current = {}
    /\ trunk = [r \in Repositories |-> <<>>]
    /\ pulls = [s \in Shas |-> "open"]
    /\ changes = 0

-----------------------------------------------------------------------------
(* The world around the kernel. *)

Expire(run) ==
    /\ \E id \in Executing(queue) : queue[id].run = run
    /\ run \notin late
    /\ late' = late \cup {run}
    /\ UNCHANGED <<main, runtime, job, current, target, changes>>

Publish(new) ==
    /\ changes < MaxChanges
    /\ changes' = changes + 1
    /\ main' = new
    /\ UNCHANGED <<runtime, late, job, current, target>>

\* The validator accepts a changed Mission only with a later revision.
PublishRevision ==
    \E r \in Repositories :
      \E open \in SUBSET {g \in Gaps : GapRepository[g] = r} :
        Publish([main EXCEPT
                   !.revision[r] = @ + 1,
                   !.open = {g \in @ : GapRepository[g] # r} \cup open])

FlipSwitch ==
    \/ Publish([main EXCEPT !.enabled = ~@])
    \/ Publish([main EXCEPT !.integration = ~@])
    \/ \E r \in Repositories : Publish([main EXCEPT !.auto[r] = ~@])

\* A candidate's pull request is known once a worker has reported it.
Reported(r, sha) ==
    \E id \in DOMAIN queue : /\ Repository(id) = r
                             /\ queue[id].candidate # None
                             /\ queue[id].candidate.sha = sha

OutsideCommit(r) ==
    /\ changes < MaxChanges
    /\ changes' = changes + 1
    /\ trunk' = [trunk EXCEPT ![r] = Append(@, Outside)]
    /\ UNCHANGED <<main, runtime, late, job, current, pulls>>

\* Somebody merges a candidate onto whatever the base is now.
OutsideMerge(r, sha) ==
    /\ Reported(r, sha)
    /\ pulls[sha] = "open"
    /\ sha \notin {trunk[r][i] : i \in DOMAIN trunk[r]}
    /\ trunk' = [trunk EXCEPT ![r] = Append(@, sha)]
    /\ pulls' = [pulls EXCEPT ![sha] = "merged"]
    /\ UNCHANGED <<main, runtime, late, job, current, changes>>

\* GitHub notices that an open pull request is contained in its base.
NoticeMerge(r, sha) ==
    /\ pulls[sha] = "open"
    /\ sha \in {trunk[r][i] : i \in DOMAIN trunk[r]}
    /\ pulls' = [pulls EXCEPT ![sha] = "merged"]
    /\ UNCHANGED <<main, runtime, late, job, current, trunk, changes>>

\* A pull request is closed, or its head moves on.
Abandon(r, sha) ==
    /\ changes < MaxChanges
    /\ Reported(r, sha)
    /\ pulls[sha] = "open"
    /\ changes' = changes + 1
    /\ pulls' = [pulls EXCEPT ![sha] = "gone"]
    /\ UNCHANGED <<main, runtime, late, job, current, trunk>>

-----------------------------------------------------------------------------
(* Invocations. *)

\* One moment of the job's life is over; the world has not changed.
Step(j, state) ==
    /\ job' = [job EXCEPT ![j] = state]
    /\ UNCHANGED <<main, runtime, late, current, target, changes>>

NewJob(command) ==
    [pc |-> "loaded", command |-> command, main |-> main, worker |-> None,
     plan |-> None, run |-> None, result |-> None, late |-> {},
     effect |-> "NONE"]

StartClaim(j, worker) ==
    /\ job[j] = None
    /\ runs < MaxRuns
    /\ Step(j, [NewJob("CLAIM") EXCEPT !.worker = worker])

StartRelease(j) ==
    /\ job[j] = None
    /\ told # {}
    /\ Step(j, NewJob("RELEASE"))

StartRecord(j) ==
    /\ job[j] = None
    /\ told # {}
    /\ Step(j, NewJob("RECORD"))

FrozenAuthorized(id) == Gap(id) \notin HoldGaps /\ queue[id].frozen

IntegrationAuthorized(id, authority) ==
    /\ FrozenAuthorized(id)
    /\ authority.auto[Repository(id)]

\* plan-tick, an earlier step of the workflow, finds the repository to ask a
\* token for.  New merges are preferred to lost ones.
PlanTick(j) ==
    LET able == {id \in Pending(queue) : FrozenAuthorized(id)}
        live == {id \in able : /\ LiveAuthority(main, id)
                               /\ IntegrationAuthorized(id, main)}
        planned == IF ~(main.enabled /\ main.integration) \/ able = {}
                   THEN {None}
                   ELSE IF live # {} THEN live ELSE able
    IN  /\ job[j] = None
        /\ \E id \in planned :
             Step(j, [NewJob("TICK") EXCEPT !.pc = "planned", !.main = None,
                                            !.plan = id])

LoadTick(j) ==
    /\ job[j] # None
    /\ job[j].pc = "planned"
    /\ Step(j, [job[j] EXCEPT !.pc = "loaded", !.main = main])

\* An error, or the end of the runner.
Die(j) ==
    /\ job[j] # None
    /\ job' = [job EXCEPT ![j] = None]
    /\ current' = current \ {j}
    /\ UNCHANGED <<main, runtime, late, target, changes>>

-----------------------------------------------------------------------------
(* Fetch the runtime branch and decide: the function mutate.               *)

\* Only a tick accepts a queue of version 1.0.
Loaded(j, command) ==
    /\ job[j] # None
    /\ job[j].pc = "loaded"
    /\ job[j].command = command
    /\ command # "TICK" => facts # None

Fetch(j, state) ==
    /\ job' = [job EXCEPT ![j] = state]
    /\ current' = current \cup {j}
    /\ UNCHANGED <<main, runtime, late, target, changes>>

Decide(j, effect) ==
    Fetch(j, [job[j] EXCEPT !.pc = "decided", !.effect = effect,
                            !.late = late])

\* The worker's task is AUTO, or one it names.
DecideClaim(j) ==
    LET authority == job[j].main
        q == Reconciled(queue, authority, late)
    IN  /\ Loaded(j, "CLAIM")
        /\ authority.enabled
        /\ \/ /\ Selectable(q, job[j].worker) = {}
              /\ Decide(j, "NONE")
           \/ \E id \in Selectable(q, job[j].worker) :
                /\ CanClaim(q, id)
                /\ Fetch(j, [job[j] EXCEPT !.pc = "decided", !.plan = id,
                                           !.effect = "CLAIM", !.late = late])

\* A worker names the task and the run it was told, however long ago.  Which
\* claim, and which result, is settled here for an invocation that is then
\* current: of all it could have been started with, the others are refused.
DecideRelease(j) ==
    /\ Loaded(j, "RELEASE")
    /\ \E claim \in told :
         /\ LiveAuthority(job[j].main, claim[1])
         /\ CurrentClaim(queue, claim[1], claim[2], late)
         /\ Fetch(j, [job[j] EXCEPT !.pc = "decided", !.effect = "RELEASE",
                                    !.plan = claim[1], !.run = claim[2]])

\* The base a candidate names is a commit the branch has been at.
Reports(id) ==
    LET base == trunk[Repository(id)] IN
    IF Operation(id) = "ASSURANCE"
    THEN [outcome : Outcomes(id), candidate : {queue[id].candidate}]
    ELSE [outcome : {"BLOCKED"}, candidate : {None}]
           \cup [outcome : {"COMPLETED"},
                 candidate : [sha : {s \in Shas : pulls[s] = "open"},
                              base : {SubSeq(base, 1, n) :
                                        n \in 0 .. Len(base)}]]

MayRecord(j, id) ==
    /\ Loaded(j, "RECORD")
    /\ job[j].main.enabled
    /\ LiveAuthority(job[j].main, id)

HasResult(id, run) == \E f \in results : f.task = id /\ f.run = run

DecideRecord(j) ==
    \E claim \in told :
      /\ MayRecord(j, claim[1])
      /\ ~HasResult(claim[1], claim[2])
      /\ CurrentClaim(queue, claim[1], claim[2], late)
      /\ \E result \in Reports(claim[1]) :
           /\ CanRecord(queue, claim[1], result)
           /\ \/ Len(claim[1]) < MaxDepth
              \/ SuccessorOf(claim[1], result) = None
           /\ Fetch(j, [job[j] EXCEPT !.pc = "decided", !.effect = "RECORD",
                                      !.plan = claim[1], !.run = claim[2],
                                      !.result = result])

\* The same result was recorded before: nothing to write.  (A different one
\* is an error.)
RecordAgain(j) ==
    /\ \E claim \in told : /\ MayRecord(j, claim[1])
                           /\ HasResult(claim[1], claim[2])
    /\ Step(j, None)

\* No token, integration disabled, or the target is not pending any more.
DecideTick(j) ==
    /\ Loaded(j, "TICK")
    /\ \/ job[j].plan = None
       \/ ~(job[j].main.enabled /\ job[j].main.integration)
       \/ job[j].plan \notin Pending(queue)
    /\ Decide(j, "NONE")

\* The tick looks at the target repository.  A pull request that is closed,
\* moved or merged onto another base is an error.
Integrating(j, state) ==
    /\ Loaded(j, "TICK")
    /\ job[j].plan \in Pending(queue)
    /\ job[j].main.enabled /\ job[j].main.integration
    /\ pulls[queue[job[j].plan].candidate.sha] = state

\* The merge commit of the candidate is in the history of the base.
ProvenMerged(id) ==
    IsPrefix(MergeCommit(queue[id].candidate), trunk[Repository(id)])

\* Mutant: any merge of the candidate counts.
ReconcileAnyMerge(j) ==
    /\ Integrating(j, "merged")
    /\ FrozenAuthorized(job[j].plan)
    /\ Decide(j, "MERGED")

\* GitHub says the pull request is merged, or has not noticed it yet while
\* the base is exactly the merge commit.
ReconcileMerged(j) ==
    LET id == job[j].plan IN
    /\ \/ /\ Integrating(j, "merged")
          /\ FrozenAuthorized(id)
          /\ ProvenMerged(id)
       \/ /\ Integrating(j, "open")
          /\ trunk[Repository(id)] = MergeCommit(queue[id].candidate)
    /\ Decide(j, "MERGED")

StillOpen(j) ==
    /\ Integrating(j, "open")
    /\ trunk[Repository(job[j].plan)] # MergeCommit(queue[job[j].plan].candidate)

MayIntegrate(j) ==
    /\ LiveAuthority(job[j].main, job[j].plan)
    /\ IntegrationAuthorized(job[j].plan, job[j].main)

DecideHold(j) ==
    /\ StillOpen(j)
    /\ ~MayIntegrate(j)
    /\ Decide(j, "HOLD")

OnFrozenBase(id) == trunk[Repository(id)] = queue[id].candidate.base

DecideBaseDrift(j) ==
    /\ StillOpen(j)
    /\ MayIntegrate(j)
    /\ ~OnFrozenBase(job[j].plan)
    /\ Len(job[j].plan) < MaxDepth
    /\ Decide(j, "BASE_DRIFT")

\* The required checks are green and GitHub has a synthetic merge of exactly
\* the two parents, or the checks are awaited and the tick does its other work.
DecideLanding(j) ==
    /\ StillOpen(j)
    /\ MayIntegrate(j)
    /\ OnFrozenBase(job[j].plan)
    /\ \/ Decide(j, "NONE")
       \/ Fetch(j, [job[j] EXCEPT !.pc = "landing", !.late = late])

-----------------------------------------------------------------------------
(* Move the base branch: git push --force-with-lease.                      *)

\* A terminal task's candidate never changes, so the queue still has it.
Landing(j) == job[j] # None /\ job[j].pc = "landing"

\* Mutant: --force instead of --force-with-lease.
LeasedNever(id) == TRUE

Leased(id) == OnFrozenBase(id)

\* Or the push worked but looks like one that was refused.
Land(j) ==
    LET id == job[j].plan IN
    /\ Landing(j)
    /\ Leased(id)
    /\ trunk' = [trunk EXCEPT ![Repository(id)] = MergeCommit(queue[id].candidate)]
    /\ \/ job' = [job EXCEPT ![j] = [@ EXCEPT !.pc = "decided",
                                              !.effect = "MERGED"]]
       \/ job' = job
    /\ UNCHANGED <<main, runtime, late, current, pulls, changes>>

\* The push failed because the base is the merge commit already, or has moved.
\* If GitHub has computed another synthetic merge meanwhile there is no push,
\* and a base that has moved counts as drift wherever it is now.
LandRefused(j) ==
    LET id == job[j].plan IN
    /\ Landing(j)
    /\ ~OnFrozenBase(id)
    /\ \/ /\ trunk[Repository(id)] = MergeCommit(queue[id].candidate)
          /\ Step(j, [job[j] EXCEPT !.pc = "decided", !.effect = "MERGED"])
       \/ /\ Len(id) < MaxDepth
          /\ Step(j, [job[j] EXCEPT !.pc = "decided", !.effect = "BASE_DRIFT"])

-----------------------------------------------------------------------------
(* Push the runtime branch: compare-and-swap.                              *)

Decided(j) == job[j] # None /\ job[j].pc = "decided"

Retry(j) ==
    [job[j] EXCEPT !.pc = "loaded", !.effect = "NONE", !.late = {},
                   !.run = None, !.result = None,
                   !.plan = IF job[j].command = "TICK" THEN @ ELSE None]

NewFacts(j) == IF facts = None THEN Facts(job[j].main) ELSE facts

\* The queue a tick writes.
Ticked(j) ==
    LET id == job[j].plan
        q == Reconciled(queue, job[j].main, job[j].late)
        integrated == CASE job[j].effect = "MERGED" -> MarkedMerged(q, id)
                        [] job[j].effect = "HOLD" -> Held(q, id)
                        [] job[j].effect = "BASE_DRIFT" -> BaseDrifted(q, id)
                        [] OTHER -> q
    IN  IF job[j].main.enabled THEN Fed(integrated, NewFacts(j), job[j].main)
        ELSE integrated

Written(j) ==
    LET id == job[j].plan IN
    CASE job[j].command = "TICK" -> Ticked(j)
      [] job[j].effect = "RELEASE" -> Released(queue, id)
      [] job[j].effect = "RECORD" ->
           Recorded(queue, id, job[j].run, job[j].result)
      [] job[j].effect = "CLAIM" ->
           Claimed(Reconciled(queue, job[j].main, job[j].late), id, runs + 1)
      [] OTHER -> Reconciled(queue, job[j].main, job[j].late)

\* Identical files are no commit.
Unwritten(j) == Written(j) = queue /\ facts # None

\* Mutant: the runtime branch is pushed whatever happened since the fetch.
MayPushBlindly(j) == TRUE

MayPush(j) == j \in current

\* The answer reaches the job and its worker, or the push looks like a
\* failed one and is tried again.
Push(j) ==
    LET claims == job[j].effect = "CLAIM"
    IN  /\ Decided(j)
        /\ MayPush(j)
        /\ claims => runs < MaxRuns
        /\ queue' = Written(j)
        /\ facts' = NewFacts(j)
        /\ current' = IF Unwritten(j) THEN current \ {j} ELSE {}
        /\ runs' = IF claims THEN runs + 1 ELSE runs
        /\ results' =
             IF job[j].effect # "RECORD" THEN results
             ELSE results \cup {[task |-> job[j].plan, run |-> job[j].run,
                                 result |-> job[j].result]}
        /\ \/ /\ job' = [job EXCEPT ![j] = None]
              /\ told' = IF claims THEN told \cup {<<job[j].plan, runs + 1>>}
                         ELSE told
           \/ /\ ~Unwritten(j)
              /\ job' = [job EXCEPT ![j] = Retry(j)]
              /\ told' = told
        /\ late' = {run \in late : \E id \in Executing(queue') :
                                     queue'[id].run = run}
        /\ UNCHANGED <<main, target, changes>>

Conflict(j) ==
    /\ Decided(j)
    /\ j \notin current
    /\ Step(j, Retry(j))

Next ==
    \/ \E run \in 1 .. runs : Expire(run)
    \/ PublishRevision
    \/ FlipSwitch
    \/ \E r \in Repositories :
         \/ OutsideCommit(r)
         \/ \E sha \in Shas : OutsideMerge(r, sha) \/ NoticeMerge(r, sha)
                                \/ Abandon(r, sha)
    \/ \E j \in Jobs :
         \/ \E worker \in Workers : StartClaim(j, worker)
         \/ StartRelease(j) \/ StartRecord(j) \/ PlanTick(j)
         \/ LoadTick(j) \/ Die(j)
         \/ DecideClaim(j) \/ DecideRelease(j) \/ DecideRecord(j)
         \/ RecordAgain(j) \/ DecideTick(j) \/ ReconcileMerged(j)
         \/ DecideHold(j) \/ DecideBaseDrift(j) \/ DecideLanding(j)
         \/ Land(j) \/ LandRefused(j) \/ Push(j) \/ Conflict(j)

Spec == Init /\ [][Next]_vars

-----------------------------------------------------------------------------
(* Properties. *)

\* What validate() says of the claims together, in every state the branch
\* ever has: a worker has one claim, a repository one, and a run is of one
\* task.
CapacityHolds == ValidQueue(queue)

\* The queue says MERGED only of a candidate whose exact merge commit is in
\* the history of the base branch, whoever moved it: _integrate_one.
MergedIsLanded ==
    \A id \in DOMAIN queue :
      queue[id].integration = "MERGED" =>
        IsPrefix(MergeCommit(queue[id].candidate), trunk[Repository(id)])

\* How a link of a chain hands its work to the next one.
HandsOn(task) == \/ task.outcome \in {"COMPLETED", "FAIL"}
                 \/ task.integration = "BASE_DRIFT"

\* The tasks of a gap in a revision are one chain: each has the one it
\* followed from, none has two successors, and work is handed on exactly
\* where a task ended in a candidate, a FAIL or a base drift.
ChainIsLinear ==
    \A x \in DOMAIN queue :
      /\ Len(x) > 1 => Front(x) \in DOMAIN queue
      /\ HandsOn(queue[x]) <=> (\E y \in DOMAIN queue : Len(y) > 1 /\ Front(y) = x)
      /\ \A y \in DOMAIN queue :
           /\ Revision(y) = Revision(x)
           /\ Gap(y) = Gap(x)
           => IsPrefix(x, y) \/ IsPrefix(y, x)

\* Every terminal task has exactly one result file, of the run that ended it
\* and of its outcome, and no other task has one: record() is atomic.
ResultsMatch ==
    /\ \A f \in results :
         /\ f.task \in DOMAIN queue
         /\ queue[f.task].status = "TERMINAL"
         /\ queue[f.task].run = f.run
         /\ queue[f.task].outcome = f.result.outcome
    /\ \A id \in DOMAIN queue :
         queue[id].status = "TERMINAL" =>
           Cardinality({f \in results : f.task = id}) = 1

\* Work on a gap starts when what it depends on is in the base branch, or
\* was integrated under V1.
DependenciesLanded ==
    \A id \in DOMAIN queue : \A d \in DependsOn[Gap(id)] :
      \/ [revision |-> Revision(id), gap |-> d] \in facts
      \/ \E x \in DOMAIN queue : /\ Revision(x) = Revision(id)
                                 /\ Gap(x) = d
                                 /\ queue[x].outcome = "PASS"
                                 /\ IsPrefix(MergeCommit(queue[x].candidate),
                                             trunk[Repository(x)])

\* Work integrated under V1 is not done again in its revision.
FactsStand ==
    \A id \in DOMAIN queue :
      [revision |-> Revision(id), gap |-> Gap(id)] \notin facts

\* A result, a superseded task and the end of an integration are final,
\* whatever jobs with older views still write.
SettledStands == [][Settled(queue, queue')]_queue

\* A claim ends by the result of its own run, by a release its own worker
\* asked for, because its lease expired, or because the task is obsolete to
\* some invocation; a worker that was replaced has no say any more.
ClaimsFenced ==
    [][\A id \in Executing(queue) :
         \/ queue'[id].run = queue[id].run
         \/ queue[id].run \in late
         \/ /\ queue'[id].status = "QUEUED"
            /\ \E j \in Jobs : /\ Decided(j)
                               /\ job[j].effect = "RELEASE"
                               /\ job[j].run = queue[id].run
         \/ /\ queue'[id].status = "SUPERSEDED"
            /\ \E j \in Jobs : /\ Decided(j)
                               /\ ~LiveAuthority(job[j].main, id)]_queue

\* The base branch of a target is only ever extended: a merge computed on an
\* older base does not overwrite what others have committed since.
BaseNeverRewound ==
    [][\A r \in Repositories : IsPrefix(trunk[r], trunk'[r])]_trunk

-----------------------------------------------------------------------------
(* The inductive invariant behind TypeOK, CapacityHolds and MergedIsLanded. *)

\* A tick that is landing or has landed its plan, or holds or repairs it.
Integrates(state) ==
    \/ state.pc = "landing"
    \/ state.effect \in {"MERGED", "HOLD", "BASE_DRIFT"}

\* What an invocation is about to write fits the queue q, after so many claims
\* and with the target branches base, for as long as q is the newest and the
\* one it fetched; that its candidate has landed stays true for ever.
Fits(state, newest, q, count, base) ==
    /\ IF state.pc = "planned" THEN state.effect = "NONE"
       ELSE state.main \in Main
    /\ Integrates(state) =>
         /\ state.command = "TICK"
         /\ state.plan \in DOMAIN q
         /\ q[state.plan].status = "TERMINAL"
         /\ Operation(state.plan) = "ASSURANCE"
         /\ newest => state.plan \in Pending(q)
         /\ state.effect = "MERGED" =>
              IsPrefix(MergeCommit(q[state.plan].candidate),
                       base[Repository(state.plan)])
    /\ state.effect = "CLAIM" =>
         /\ state.command = "CLAIM"
         /\ state.plan \in TaskId
         /\ newest =>
              CanClaim(Reconciled(q, state.main, state.late), state.plan)
    /\ state.effect = "RELEASE" =>
         /\ state.command = "RELEASE"
         /\ newest => state.plan \in Executing(q)
    /\ state.effect = "RECORD" =>
         /\ state.command = "RECORD"
         /\ state.plan \in TaskId
         /\ state.run \in 1 .. count
         /\ state.result \in Result
         /\ newest => /\ state.plan \in Executing(q)
                      /\ CanRecord(q, state.plan, state.result)

JobFits(j) ==
    job[j] # None => Fits(job[j], j \in current, queue, runs, trunk)

IInv ==
    /\ TypeOK
    /\ WellFormed(queue, runs)
    /\ \A j \in Jobs : JobFits(j)
    /\ CapacityHolds
    /\ MergedIsLanded

\* And behind FactsStand and DependenciesLanded: a queue of version 1.0 has no
\* tasks of V3.1, and only a tick writes over one; what the queue itself says
\* of the gaps a task depends on.
DependenciesMerged ==
    \A id \in DOMAIN queue : \A d \in DependsOn[Gap(id)] :
      GapSatisfied(queue, facts, Revision(id), d)

FactsFit ==
    /\ facts = None => DOMAIN queue = {}
    /\ FactsStand
    /\ DependenciesMerged
    /\ \A j \in Jobs : Decided(j) /\ job[j].command # "TICK" => facts # None

\* And behind ClaimsFenced: for as long as a job's queue is the newest, the
\* claim it ends is of the run it names, and the leases it saw expired still
\* are.
ClaimFits(j) ==
    job[j] # None =>
      /\ job[j].pc \in {"planned", "loaded"} => job[j].late = {}
      /\ j \in current =>
           /\ job[j].effect \in {"RELEASE", "RECORD"} =>
                queue[job[j].plan].run = job[j].run
           /\ \A id \in Executing(queue) :
                queue[id].run \in job[j].late => queue[id].run \in late

ClaimsFit == \A j \in Jobs : ClaimFits(j)
=============================================================================
