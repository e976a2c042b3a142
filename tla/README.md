# Verification of the control engine

TLA+ models, TLC runs and TLAPS proofs for the control engine: the Python
package `src/control_engine`, the scripts in `src/scripts` and the GitHub
workflows that run them. V4 is the control plane that runs; V3.1, its
predecessor, is kept in the repository for the rollback and is modelled for
what the two hand to each other. Paths below are relative to the repository's root.

The engine hands work on pull requests of target repositories to Runners, one
task at a time. Its durable state is one JSON file, the dispatch queue, on the
`runtime` branch of a private repository; what may be worked on at all is
decided by files on that repository's `main` branch. Commands arrive as issue
comments or `workflow_dispatch`, each is executed by a workflow job of its own,
and the jobs run concurrently. All coordination is done by the content of the
queue (an execution lock with a 5400 second lease) and by a compare-and-swap on
the two branches.

## 1. Inventory

| Component | State | Operations | Source |
| --- | --- | --- | --- |
| Dispatch queue and its transitions | tasks (status, phase, blocker, candidate, internal review, external review), the lock | select, acquire, release, recover an expired lock, the eight EVENT handlers, drift to REPAIR, park and resume | `control_engine/v4_contracts.py`, `v4_runtime_protocol.py`, `v4_safety.py` |
| Runtime carrier | one job per command; snapshot of `main` and `runtime` | admission, TICK, EVENT, recheck, `updateRefs` | `scripts/control_v4_runtime_carrier.py` |
| Owner administration of tasks | none of its own | FINALIZE_INTEGRATED, REBIND_READY_CANDIDATE, RECONCILE_INTEGRATED | `scripts/control_v4_owner_admin.py` |
| Review completion | none of its own | hourly: turn a finished external review into READY | `scripts/control_v4_review_resume.py` |
| Replenishment and activation | none of its own | native start queues a gap; a comment TICK without work materializes and acquires one; the owner activates one by name | `scripts/control_v4_queue_open_gap.py`, `control_v4_auto_replenish.py`, `control_v4_owner_admin.py`, `control_v4_replenishment_snapshot.py` |
| Authority and Mission binding | Missions on `main`: revision, gaps, dependencies, DONE evidence carried forward; the switch `control_runtime_enabled` | validate, bind a queue, reconcile superseded tasks, find eligible gaps | `control_engine/v4_authority_io.py`, `v4_contracts.py` |
| Target access and scope | none | which repositories a TICK may read, for which a token is minted | `scripts/control_v4_target_access.py`, `control_v4_target_scope.py` |
| Private control validators | none | validate the files at one commit, and how Missions may change from one commit to the next | `scripts/validate_private_control_v4.py`, `validate_private_control_v31.py` |
| V3.1 kernel | the V3.1 queue (tasks, claims with a lease, integration states) and one result file per finished task, on `runtime` | CLAIM, RELEASE, RECORD, PLAN-TICK, TICK (reconcile, integrate one PASS, feed) | `control_engine/kernel_v31.py`, `scripts/control_kernel_v31.py` |
| Migration V1 to V3.1 to V4 and back | none of its own | facts of a V1 queue; the fenced cutover to V4; the rollback to V3.1 | `control_engine/migration_v31.py`, `v4_contracts.py`, `v4_authority_io.py` |
| Engine bundle and timeline | none | hash files; render historical events | `control_engine/bundle.py`, `timeline.py` |
| Workflows | GitHub's run identities and attempts | which job a command starts, no concurrency group | `.github/workflows/*.yml` |

`PROJECT.json` lists the same components with the source files and with what is
left out of each.

### How they interact

* Every writer (carrier, owner, review completion, replenishment) reads `main`
  and `runtime`, computes a new queue from that snapshot, and calls the GraphQL
  mutation `updateRefs` (`control_v4_runtime_carrier.py`, `_update_refs_exact`),
  which moves `runtime` only if both branches still are where the writer found
  them. There is no other communication between jobs.
* The carrier's TICK and the replenishment step of a comment are two steps of
  one job: the second starts from the first one's published `NO_WORK` and loads
  both branches again.
* The native start is a job of the run itself; its queueing step comes before
  its TICK.
* A Runner gets WORK as a capsule bound to run, task, action and candidate, and
  reports with an EVENT that must match the lock and the capsule.
* An invocation of the V3.1 kernel loads `main` once, then fetches `runtime`,
  computes and pushes, up to `MAX_CAS_ATTEMPTS` times. A tick also pushes to the
  base branch of a target repository, with a lease on the base the candidate was
  assured on, before its own push to `runtime`.
* The cutover turns the V3.1 queue into a V4 queue once no claim is live; the
  rollback derives V3.1 Missions and a queue from the frozen ones and from what
  V4 has DONE. Nothing else passes between the two.
* The owner publishes on `main` at any time: the switch, or a new Mission
  revision, which can leave tasks of the queue without authority.

### What is hard here

Concurrency: jobs without a concurrency group decide on snapshots; the lease
runs out between the last check and the compare-and-swap; a TICK ages while it
is processed; a later command of the same run overtakes it; `main` moves under
a decision. Failure: the response of `updateRefs` is lost after the branch has
moved; a job dies anywhere; a Runner dies with the lock; comments are posted
twice or reported late. Long histories: repair loops on an unchanged candidate,
external verdicts after one another, a Mission that supersedes its predecessor
while its tasks run. Two systems written one after the other: a merge that
landed on a target whose record on `runtime` was lost; a cutover and a rollback
that have to agree on what is finished. `PROJECT.json` lists each of these as a hazard at the line
where it bites, with the property that covers it or the reason why none does.

### What makes each part correct

* Queue: whatever sequence of commands is accepted, the queue validates; the
  no-progress brake holds; an external FAIL is not replaced; an expired lock
  goes; work that only waits does not starve queued work.
* Carrier, owner, review completion: together they are *serializable* (each
  commit is one accepted command on the queue of the moment), the lock is
  granted only when free or expired, is never prolonged, is granted once to a
  native run, and nobody but the holder changes the queue under a live lease.
* Replenishment: dependencies first, every commit binds to the authority of
  that moment, no task is lost, no way around the lock.
* V3.1 kernel: one claim per worker, repository and run; a claim is ended only
  by its own run, its lease or its authority; results are final and each has its
  file; a gap's tasks are one chain; MERGED means that the exact assured merge is
  in the base branch, whose history is never rewound.
* Cutover and rollback: queued work is continued or proved done; results and
  facts survive; what is finished is not done again; what is unfinished comes
  back and waits for nothing that is closed; dependencies hold across all three.

## 2. Modules

```
 ControlQueue          the queue as a value; each transition as an operator
   |      \
 TaskLifecycle   RuntimeCarrier ---- INSTANCE ----> TaskLifecycle, LeaseLock
   |
 RunnerInvocation      the Runner's side of the commands

 MissionAuthority      Missions, binding, eligibility as operators
   |
 Replenishment ---- INSTANCE ----> LeaseLock

 ReviewRotation        which review is examined when (with its theorems)

 KernelQueue           the V3.1 queue as a value
   |
 LegacyMigration       the facts a V1 queue leaves
   |      \
 KernelV31   Cutover                 (Cutover: V3.1, V4 and back)

 Proofs: what the operators of a queue do is proved once and used twice
   ControlQueueProofs      <-- TaskLifecycleProofs, RuntimeCarrierProofs
   KernelQueueProofs       <-- KernelV31Proofs, CutoverProofs
   ReplenishmentProofs

 MCTaskLifecycle, MCRunnerInvocation, MCRuntimeCarrier, MCReplenishment,
 MCReviewRotation, MCKernelV31, MCCutover              (instances for TLC)
```

### ControlQueue

The records `Task`, `Lock` and `Queue` are `CONTROL_DISPATCH_QUEUE_V4` reduced
to what the transitions read. `Tasks` is `1 .. NumTasks` in list order because
selection prefers the first. A candidate is a pull request and a revision; two
candidates differ in the code iff they differ here. `ValidTask` and
`ValidQueue` are `validate_queue_v4`; `WorkAction`, `SelectionClass`,
`AcquireTask`, `RecoverExpiredLock`, `ResumeDrifted`, `ParkTerminalTarget`,
`CandidateReady`, `InternalPass`, `InternalRepair`, `ExternalRequested`,
`ExternalUnavailable`, `ExternalFinding`, `ExternalPass`, `MarkNoProgress`,
`DriftToRepair`, `FinishReview`, `FinalizeIntegrated` and `ReconcileIntegrated`
are the functions of nearly the same name. Where the code raises, there is a
`Can...` guard.

### TaskLifecycle

The queue when commands are executed one at a time: one action per TICK
outcome, EVENT, owner operation and review completion, and `LeaseExpires`. It
is both the object of the lifecycle properties and the *abstract specification*
that the concurrent jobs have to implement. GitHub's answers, the Runner's
verdicts and which targets are readable are nondeterministic. The history
variable `rework` counts findings on a candidate nobody changed and no check
passed in between.

### RunnerInvocation

What sends the commands. An invocation of the Scheduled Runner keeps the WORK it
has, the tokens of what it has closed as waiting, and how often it was given
work; `SendTick`, `CloseWaiting` and `CloseProgress` are its TICKs and EVENTs, whose
effect is that of the actions of `TaskLifecycle`, and `GoesOn` is the mandatory
continuation. The prompt itself is a text; that it says this is what
`scripts/validate_private_control_v4.py:132-144` demands of it. An invocation may
break off at any step, with the lock held or not.

### LeaseLock

The abstract lock: granted when free or expired, to a run of `OneShot` once,
never prolonged, given up at any time.

### RuntimeCarrier

Jobs `posted -> loaded -> planned -> checked -> over`. `Load` is
`_load_current`; `AnswerTick` and `PlanTick` are `_tick`; `PlanEvent`
and `RefuseEvent` are `_event`; `PlanOwner` and `RefuseOwner` the owner's and the
review completion's decisions; `Recheck` is the check immediately before the
write (age of a TICK, binding of an EVENT to an unexpired lock); `Commit` and
`LoseRace` are `updateRefs`, with the response or without. A job that dies
takes no further step, so no action is needed for it. Posting the same command
again is a new command, which also covers a re-run of an old job. `main` and
`runtime` are read by two requests in the code and in one step here; since the
compare-and-swap compares both, a mixed snapshot can never be committed.

### MissionAuthority and Replenishment

One Mission per repository with numbered gaps. A revision number stands for
the Mission's blob and the repository authority's. A task is its gap, revision
and status, which is all the binding and the digests can tell apart.
`BoundQueue` is `assert_v4_queue_bound_to_authority`, `Reconciled` and
`CanReconcile` are `_replenishment_queue_v4`, `EligibleGaps` is
`eligible_unmaterialized_gaps_v4`.

`Replenishment` runs the native START, the comment TICK and the owner's ACTIVATE
as concurrent jobs. The carrier's own step of a TICK is one atomic action here
(`CarrierAcquires`, `CarrierFindsNothing`), which is what `Serializable` of
`RuntimeCarrier` establishes; the materializing step has all its stages. Other
commands on tasks are the action `Progress`.

### ReviewRotation

The review job has no cursor. Its first step (`Scope`, `control_v4_target_scope.py`
in mode `review`) picks the repository a read token is minted for, its second
step (`Review`, `control_v4_review_resume.py`) the batch, each from its own look
at the queue and the clock. The actions of the second step are the results it
prints. Whether a task waits for an answer, and the lock, change freely in
between (`Others`; `RuntimeCarrier` has how). The clock counts hours modulo
`Period`, of which every rotation is a divisor, so nothing is lost by the
modulus.

### KernelQueue and LegacyMigration

A V3.1 task's identity is its Mission, revision and gap, extended for each
successor by the operation and the candidate; here it is that path, and the
queue is a function from identities to tasks. So "the same identity is never
created twice" is a question of the domain, and the chain of a gap's tasks can
be read off the identities. `Claimed`, `CurrentClaim`, `Released`, `Reconciled`,
`Recorded`, `Held`, `MarkedMerged`, `BaseDrifted`, `GapSatisfied` and `Fed` are the
functions of `kernel_v31.py` of nearly the same name; `ValidQueue` is what
`validate` says of several tasks together. A commit on a base branch is the
sequence of what was merged up to it, so the exact merge of a candidate is
`Append(base, sha)` and "is in the history" is `IsPrefix`.

`Facts` is `migrate`: a completed V1 integration counts for a gap if metadata, of
the task or of its nearest predecessor that has any, names a gap that `main`
holds open now.

### KernelV31

An invocation is a job `loaded -> decided -> gone`, a tick
`planned -> loaded -> (landing ->) decided -> gone`. `Decide...` is the fetch of
`runtime` and the function `mutate`; `Push` is `_persist_runtime`, with the answer
or without; `Conflict` the next attempt. `Land` and `LandRefused` are
`_fast_forward_branch_ref`. A job that fetched the newest runtime commit is in
`current` until somebody writes. While it is, the queue is the one it fetched, so
what it is going to write is computed from the queue when it pushes, and a job
need not carry a copy. Jobs are reused, so the number of invocations is not
bounded, and a job may die between any two steps, in particular between the
landing and the push. The number of attempts is not bounded either, which
allows more retries than the code. What others do on GitHub (commit on the base,
merge or close the pull request, notice a merge late) is `OutsideCommit`,
`OutsideMerge`, `Abandon`, `NoticeMerge`. A later revision opens and closes gaps; what
a gap depends on is kept the same in all of them, so that `DependenciesLanded` can
say it of a task of any revision.

### Cutover

`forward_transform_v31_to_v4` is `CutOver`, `derive_rollback_v31` with the Missions
it derives is `RollBack`. Before, after and in between each command is one step:
what overlapping does is the business of `KernelV31`, `RuntimeCarrier` and
`Replenishment`. Of V4 the tasks' existence, DONE and the lock are kept, which
is all that the rollback reads. The V4 Missions and the evidence carried forward
are any that `validate_mission_v4` and `validate_carry_forward_evidence` accept.

## 3. Runs

The bounds are chosen so that every transition fires (the whole next-state
relation of each module is covered by the passing runs) and so that each
hazard can happen; each property is broken by a plausible bug in the code
(listed under "mutants" in `PROJECT.json`) inside the same bounds.

### lifecycle_safety (`MCTaskLifecycle.cfg`)

`QueueStaysValid`, `NoProgressBrake`, `ExternalFailStands`, `TypeOK` over every
sequence of commands. Two tasks of one repository, the first EXTERNAL and held
after PASS, the second INTERNAL; two pull requests with two revisions each, two
external references, a legacy and a native run; symmetric in revisions and
references. There is no bound on the number of commands: the state space is
finite. Two tasks are enough for what relates tasks (one lock, two tasks bound
to one pull request, the order of selection), two revisions for every
comparison of a candidate with another. The theorems remove these bounds.

### runner_invocations (`MCRunnerInvocation.cfg`)

`ExpiredLockRecovered`: a lock that has run out is dropped or replaced.
`WaitingStarvesNobody`: work that is only ever closed as waiting does not keep
other work QUEUED for ever. Three tasks, the first EXTERNAL, and a Runner that is
given work twice per invocation: with fewer tasks than that plus one, nothing
can be starved.

Fairness (`RunnerFairness`): weak fairness of `Expiry`, because the lease is
bounded by the clock; weak fairness of the Runner's next step. The second says
that invocations go on being started, that WORK is closed, and that the next TICK
is sent, which the contract calls mandatory
(`scripts/validate_private_control_v4.py:132-144`). It obliges the Runner to no
report: it may close with YIELD all it is given, for ever, and a review whose
answer never comes need never be reported unavailable. YIELD is always possible
to a live holder, so the fairness is never about something the Runner cannot do.
What then starts QUEUED work is that an invocation skips what it has closed as
waiting (`select_task_id_v4`, `v4_runtime_protocol.py:462`); the mutant ignores
the tokens and the property fails.

What the property does not promise is part of its statement:

* `Crowded`: if as many ACTIVE tasks as an invocation may be given work (8 in the
  contract, 2 in this instance) are not reported unavailable, they may use up
  every invocation. The tokens are not carried over, so eight tasks that are
  yielded for ever starve the ninth; nothing in the repository promises otherwise.
  A review reported unavailable does not count, since it comes after QUEUED work.
* Progress, commands of the owner and the review completion, invocations that
  break off and leases that run out: if one of these happens for ever, the queue
  keeps moving for another reason than waiting, or the contract is not kept.

The Scheduled Runner is disabled at present (`README.md:13`), while its contract
stays bound and validated (`README.md:62`, `:193`): the two properties are about the
times it runs. Without TICKs nothing moves and nothing is promised. Native runs
are not in this instance: a native run acquires once, which is `MaxAcquisitions` = 1
without tokens, and one met by the Runner is an answer BUSY. Every target is
readable to the Runner; if one stays unreadable every TICK ends before its write,
and neither property holds or is promised then. All candidates are of one
revision, so a candidate that moves is left to `lifecycle_safety`.

### lifecycle_tick_drift (`MCTaskLifecycleDrift.cfg`, violated)

`DriftDecidedByEvents`. `docs/PUBLIC_PRIVATE_BOUNDARY_V4.md:92` says that
candidate-drift decisions do not occur on a TICK; the code resumes a parked
task whose pull request moved, on a TICK, without a holder
(`control_v4_runtime_carrier.py:762`).

### carrier_races (`MCRuntimeCarrier.cfg`)

`LeaseIsSound`, `Serializable`, `TicksKeepTheirPlace`, `TypeOK`. One INTERNAL
task, two revisions, a legacy and a native run, three concurrent commands, one
publication on `main`, events YIELD, CANDIDATE_READY and INTERNAL_PASS. Three
commands are the smallest number at which a run is overtaken by itself while
another recovers its lock; every pair of jobs can interleave at every stage.

### carrier_external (`MCRuntimeCarrierExternal.cfg`)

`Serializable`, `LiveLeaseIsPrivate`, `DisabledRuntimeStandsStill` for an EXTERNAL
task with its internal PASS: the external review is requested, found
unavailable, answered with a finding or a PASS, reported twice or late, while the
owner's three operations, the review completion and a publication on `main` come
in between. Three concurrent commands, two revisions.

### replenishment (`MCReplenishment.cfg`)

`DependenciesFirst`, `EveryCommitBinds`, `NoTaskLost`, `NoWorkMeansNone`,
`DisabledMaterializesNothing`, `LeaseIsExclusive`, `TicksKeepTheirPlace`,
`TypeOK`. Two Missions with
three gaps, the second depending on the first; gap 1 is ACTIVE, gap 3 DONE; two
commands of a native and a legacy run and the owner; one publication (a new
revision, or the switch) at any moment; tasks progress during the first three
commits. Two revisions show everything "earlier revision" can mean except a
chain of supersessions.

### native_acquires_twice (`MCReplenishmentNative.cfg`, violated)

`OneAcquisitionPerNativeRun`. The comment at
`control_v4_runtime_carrier.py:702-703` says that a native run acquires once.
The carrier answers NO_WORK for a disabled runtime before it asks whether a
comment may act for a native run, and the replenishment step of the same job
does not ask it at all; enabled in between, it acquires a second lease for
the run. The history TLC finds: the run's own TICK acquires gap 1; a comment TICK
of the run finds the runtime disabled; it is enabled again and gap 1 is
finished; the comment's job goes on and acquires gap 2.

### no_work_writes (`MCReplenishmentNoWork.cfg`, violated)

`NoWorkIsMutationFree`. `docs/CONTROL_V4_REPLENISHMENT_DISCOVERY.md:96` and
`control_v4_auto_replenish.py:11` call a published NO_WORK mutation-free; a TICK
that parks the task of a merged or closed pull request, drops an expired lock
or resumes a parked task writes the queue and publishes NO_WORK.

### rotation (`MCReviewRotation.cfg`)

`NoBatchStarves`: with a job in every hour, a review that waits while the waiting
ones do not change, without a lock and without jobs being refused for ever, is
examined again and again. `TokenCoversReads`: a job reads only the repository
its token is for, though the queue and the lock change between its steps (the
theorem of section 4 adds the change of the hour). Three tasks in one repository
and one in another, batches of two (eight in the code): a repository with more
tasks than a batch, and a batch that wraps around. Tasks come and go, so all
counts up to these occur. `PunctualSpec`: the clock goes on (strong fairness,
since jobs run in between), the steps of a job are taken, and an hour passes
only after a job has ended in it.

### rotation_dropped (`MCReviewRotationDropped.cfg`, violated)

`DroppedRunsAreRetried`: the same as `NoBatchStarves` when hours may pass
without a job, though another job always comes (`DroppingSpec`).
`docs/PUBLIC_PRIVATE_BOUNDARY_V4.md:70` has dropped runs retried by later reads
and `README.md:51-53` of the repository needs no cursor. With two repositories
and jobs at even hours only, one of them never has its turn; a daily run by hand
is such a schedule.

### kernel_v31 (`MCKernelV31.cfg`)

`CapacityHolds`, `MergedIsLanded`, `ChainIsLinear`, `ResultsMatch`,
`DependenciesLanded`, `FactsStand`, `SettledStands`, `ClaimsFenced`,
`BaseNeverRewound`, `TypeOK`, and freedom from deadlock. One repository with three
gaps, the third depending on both others; the first was integrated under V1 and
is a HOLD gap when it is done again. Two jobs overlap (every property relates at
most two writers), any number follow each other; two claims; one change by
somebody else (a later revision, a switch, a commit on the base, a pull request
closed), and merges by somebody else at any time; two candidates; up to three
tasks of a gap one after the other (implementation, assurance, repair). One
claim is not enough (a stale worker needs a successor), two are. About 1.2
million states.

### cutover (`MCCutover.cfg`)

`WorkFollowsDependencies`, `FinishedStaysFinished`, `UnfinishedComesBack`,
`QueuedWorkSurvives`, `ResultsSurvive`, `TypeOK`. A chain of three gaps in one
repository: the first was integrated under V1, so there is a fact to carry
forward; the third is new in V4. Up to one more revision of the V3.1 Mission
before the cutover, any V4 Missions and evidence at the cutover, work in all
three phases. The chain of three is what distinguishes a dependency that is
carried, DONE in V4, or still open when the rollback normalises it.

Deadlock is checked in the lifecycle runs and in kernel_v31. It is not checked
where commands are bounded (after the last job the system stops), nor in
cutover: V4 stops for good when all its tasks are DONE and one of them has no
gap in V3.1, because then no rollback is possible (`v4_contracts.py:623`).

## 4. Proofs

Each theorem holds for every value of the constants that satisfies the named
assumptions: every number of tasks, runs, jobs, commands, gaps and repositories,
so the bounds of section 3 do not matter to it. Every safety invariant, action
property and refinement that a passing run checks is the statement of a theorem.

| Property | Theorem | Module |
| --- | --- | --- |
| `TypeOK`, `QueueStaysValid`, `NoProgressBrake`, `ExternalFailStands` | `TypeCorrect`, `QueueAlwaysValid`, `BrakeHolds`, `FailStands` | `TaskLifecycleProofs` |
| `TypeOK`, `TicksKeepTheirPlace`, `LiveLeaseIsPrivate`, `DisabledRuntimeStandsStill` | `Typed`, `TicksStayInPlace`, `LiveLeaseIsKept`, `DisabledStandsStill` | `RuntimeCarrierProofs` |
| `LeaseIsSound`, `Serializable` (refinements of `LeaseLock`, `TaskLifecycle`) | `LeaseIsKept`, `CommandsAreSerial` | `RuntimeCarrierProofs` |
| `TypeOK`, `DependenciesFirst`, `NoWorkMeansNone`, `TicksKeepTheirPlace`, `EveryCommitBinds`, `NoTaskLost`, `DisabledMaterializesNothing` | `Typed`, `DependenciesComeFirst`, `NoWorkIsNone`, `TicksStayInPlace`, `CommitsBind`, `NoTaskIsLost`, `DisabledMakesNothing` | `ReplenishmentProofs` |
| `LeaseIsExclusive` (refinement of `LeaseLock`) | `LeaseIsKept` | `ReplenishmentProofs` |
| `TypeOK`, `TokenCoversReads` | `Typed`, `ReadsAreCovered` | `ReviewRotation` |
| `TypeOK`, `CapacityHolds`, `MergedIsLanded`, `SettledStands`, `BaseNeverRewound` | `TypeCorrect`, `CapacityAlwaysHolds`, `MergedIsAlwaysLanded`, `SettledAlwaysStands`, `BaseIsNeverRewound` | `KernelV31Proofs` |
| `DependenciesLanded`, `FactsStand`, `ResultsMatch`, `ClaimsFenced`, `ChainIsLinear` | `DependenciesAlwaysLanded`, `FactsAlwaysStand`, `ResultsAlwaysMatch`, `ClaimsAlwaysFenced`, `ChainIsAlwaysLinear` | `KernelV31Proofs` |
| `TypeOK`, `WorkFollowsDependencies`, `FinishedStaysFinished`, `UnfinishedComesBack`, `QueuedWorkSurvives`, `ResultsSurvive` | `Typed`, `WorkFollows`, `NothingIsRedone`, `UnfinishedIsOpen`, `QueuedWorkIsKept`, `ResultsAreKept` | `CutoverProofs` |

`Discipline`, `KernelInvariant` and each module's `Invariant` are the inductive
invariants; `BranchStaysValid` states of the concurrent jobs what no run asks:
the runtime branch never holds a queue `validate_queue_v4` refuses, and no job
that has decided has read or is about to write one.

### TaskLifecycleProofs

Assumptions: `QueueAssumption` (the policies and the initial tasks are functions
of the right type, None differs from every record) and `InitialAssumption` (each
initial task is valid, has a candidate if it is in review or repair, and its
external FAIL, if any, is being repaired or is parked). TLC evaluates both in
the lifecycle and carrier runs.

Neither `QueueStaysValid` nor `NoProgressBrake` is inductive. A valid queue
allows a task in REVIEW without a candidate, which the next verdict could not be
bound to; and from "two findings and parked" alone it does not follow that the
task cannot be resumed into another review of the same candidate. `IInv` is
therefore `TypeOK`, an ACTIVE holder, and `TaskDiscipline` for each task with its
count of findings: a candidate wherever one is judged or repaired; an external
FAIL only in REPAIR or parked; one finding only in REPAIR, parked, or in the
one recheck after NO_PROGRESS; two only parked, or in REPAIR after an external
finding.

The argument: `ReplaceTask` and `OneTask` say that a step which replaces one task
by a disciplined one, and leaves the lock free or with an ACTIVE holder,
preserves `IInv`. `ControlQueueProofs` has one lemma per task transition
(`CandidateReadyTask`, `MarkNoProgressTask`, `DriftToRepairTask`,
`InternalPassTask`, `ExternalFindingTask`, ...): it leaves a disciplined task
disciplined, with the new count. The step lemmas combine the two, one step per
action; a TICK may resume several tasks and acquire one, so its lemma first
shows the resumed image disciplined. `FailStands` uses the invariant on the side
of the earlier state: an external FAIL is in REPAIR or parked, where no handler
of a verdict applies.

### RuntimeCarrierProofs

Assumptions: the two above; `CommandsAssumption` (the events and operations are
those there are) and `NoneIsNoRecord`.

None of the properties is inductive: what a commit does was decided from a
snapshot. `IInv` says of every job that its snapshot (`Snapshot`) is a queue of
disciplined tasks and *is the present state if its commit numbers are the
present ones*; and of a job that has decided (`PlanOK`), that what it plans to
write is exactly what a TICK, the EVENT of its holder, or an accepted operation
makes of its snapshot (`TickPlan`, `EventPlan`, `OwnerPlan`). The compare-and-swap
turns the first into "the snapshot is the present state" at the moment of a
commit (`CommitFacts`), and the second into what the commit does. A lease that
runs out changes the store without a commit; it runs out in every snapshot too,
and `EventPlanRunsOut` shows that a plan made before is the plan one would make
after.

* `LiveLeaseIsKept`, `DisabledStandsStill`: only an EVENT's plan starts from a
  busy queue, and it is one of the holder; a job that writes under an enabled
  authority read the authority that is still there.
* `TicksStayInPlace` needs `CommitsInOrder`: a TICK that has a plan saw no later
  command of its run with a commit, so one that has a commit now has made it
  after the snapshot, and the compare-and-swap will fail.
* `LeaseIsKept` maps a commit to Grant, Return or a stutter of `LeaseLock`. That a
  native run is granted once needs two more invariants: a native run posts one
  native TICK (`OneNativeTick`), and has a grant only when that one is over
  (`GrantsAreNative`).
* `CommandsAreSerial` maps a commit of each of the three kinds to its action of
  `TaskLifecycle`, with the resumed and parked tasks, the released lock and the
  history `rework` as they are there, and every other step to a stutter or to
  `LeaseExpires`.

The proof of `CommandsAreSerial` found a flaw of the model, since corrected: a
TICK with a native run was given a yielded task of any repository, whereas the
code passes one for comments only (`.github/workflows/control-v4-runtime-carrier.yml:392`). With three
tasks in two repositories such a TICK wrote what no single command does; the
instances were too small to show it.

### ReplenishmentProofs

Assumptions: `MissionAssumption` (typing, dependencies within a repository and
without a cycle), `ReplenishmentAssumption` (the initial tasks are of the first
revision, one per gap, after what they depend on) and `NoneIsNoCommand`.

`IInv` is the same idea for a queue bound to Missions. `Sound` says of a queue
*under given Missions* that it is valid, has no task of a revision to come, and
that a task of the current revision comes after what its gap depends on. It
holds of the branches, of every job's snapshot and of its plan, each under the
Missions it was read or made with; versions tell whether those are the present
ones. A new revision keeps `Sound` because no task is of it yet, except those
carried forward with their evidence. `Kept` says what `NoTaskLost` says, of a
plan and its snapshot. That a plan is made only from a queue without a lock, for
which the present one then has none, gives `LeaseIsKept`. One lemma per operator
of `MissionAuthority` (`AcquiredIsSound`, `ReconciledIsSound`, `RootIsSound`,
`EligibleRoot`, ...) keeps the three.

### ReviewRotation

Assumption: `RotationAssumption` (each task has a repository, None is none, the
batch and the period are positive, and every rotation divides the period). `ReadsAreCovered` needs no invariant:
every end of a job examines a part of its batch, and a batch is filtered by the
chosen repository whatever the queue has become; so it holds also when the hour
changes between the two steps. `Typed` needs that the rotation always finds a
repository to choose: positions are the numbers of smaller elements, and
`EveryPosition` shows, by counting, that each number below the cardinality is the
position of one (the induction over a sorted list, which these provers cannot
do, is replaced by an injection between finite sets of one size).

### KernelQueueProofs and KernelV31Proofs

Assumptions: `GapsAssumption` (the gaps' repositories and dependencies are
functions of the right type, None differs from everything else),
`NoneIsNoTask`, and `LegacyAssumption` (the V1 queue is finite and well typed, and
a set of facts is not None). The bound `MaxDepth` plays no part.

None of the properties is inductive, because a job writes what it decided
earlier. A claim decided on an idle worker breaks `CapacityHolds` if the worker
is busy when it is written; a tick that writes MERGED needs its merge to be
there still. `IInv` therefore adds `WellFormed` (runs are of past claims, a
follow-up has a candidate, only a finished assurance is integrated) and, for
every job, `Fits`: what it is going to write fits the queue *as long as the job
is current*, and of a landed candidate it says without that condition that its
merge is in the history of the base. The argument: a step of the world that does
not write `runtime` keeps `Fits` because it does not touch the queue
(`FitsGrown`: histories only grow); a write makes every other job not current,
and of those `Fits` says only what a write keeps (`FitsWritten`, `FitsStale`: a
finished task keeps its status and candidate). `KernelQueueProofs` has one lemma
per function of `KernelQueue` (`ReconciledBecomes`, `ClaimedBecomes`,
`RecordedBecomes`, `FedBecomes`, ...) on what becomes of each task, from which
`WrittenBecomes` gives the queue of any push; `SettledAlwaysStands` uses the same
lemma, with `Fits` for the integration that is still PENDING when it is decided.
`BaseIsNeverRewound` follows from the lease: it is compared with the base at the
moment of the push.

`DependenciesAlwaysLanded`, `FactsAlwaysStand` and `ClaimsAlwaysFenced` need a
second invariant, `Past`, on top of `IInv`. `FactsFit` says that a queue of version
1.0 holds no V3.1 task and that a job which is not a tick decides only on a
later version, so that the facts are written once, by a tick, before there are
tasks; and `DependenciesMerged`, that what a task's gap depends on is a fact or
MERGED *in the queue*, which `MergedIsLanded` turns into the statement about the
base branch. Which identities a push adds (`WrittenAdds`) is enough for both: a
follow-up of a task that is there, or a gap that `Feedable` let through.
`ClaimsFit` says of a current job that the claim it is going to end is of the run
it names, and that every lease of a claim in the queue that it saw expired has
expired; a job that has not fetched has seen none. `WrittenFenced` derives from
it, for each of the five writes, how a claim may be missing from the written
queue. For the results, `WrittenTerminal` says that only a record makes a task
TERMINAL, and a task that was executing, which had no result file. `ResultsFit`
is `ResultsMatch` with the file set written as a singleton in place of its
cardinality.

`ChainIsAlwaysLinear` needs `Chained` in place of `ChainIsLinear`: the queue holds
every beginning of an identity it holds, not only the last but one, and a task
has an outcome only when it is TERMINAL, so that one that is recorded or drifts
has handed nothing on before. Three lemmas on any two queues carry it:
`ChainKept` (nothing is handed on), `ChainGrows` (one task hands on to a new one:
what begins with it would begin with a task that follows it, and there was none)
and `ChainStarts` (roots of gaps nobody has worked on in their revision).

### CutoverProofs

Assumptions: those of the kernel and `NewGapsAssumption` (no old gap depends on
one that V4 adds). `IInv` adds to `TypeOK`, `WorkFollowsDependencies` and
`FinishedStaysFinished` what they rest on: `QueueFits` (the V3.1 queue is well
formed and within its capacity, each claim is of the one run its worker has in
this model, and there is no task of a revision to come, so that the revision of
the rollback is new) and `MissionsFit` (in V4 the V3.1 files are the frozen
ones; after the rollback the open gaps are `Reopened` and what they depend on is
`Normalized`). The steps of V3.1, before and after, use the lemmas of
`KernelQueueProofs` and, for what a queue keeps of its finished tasks,
`Evolves`. `UnfinishedIsOpen` follows from the derived Missions alone:
`Normalized` keeps of a gap's dependencies the reopened ones.

### Only model-checked

Liveness: `ExpiredLockRecovered`, `WaitingStarvesNobody` and
`NoBatchStarves`, with their fairness, are beyond this prover. The properties of the
violated runs do not hold.

## 5. Findings

| Run | What the code does | What is said |
| --- | --- | --- |
| `lifecycle_tick_drift` | a TICK decides candidate drift of a parked task | `docs/PUBLIC_PRIVATE_BOUNDARY_V4.md:92,235`: drift is decided at EVENT only |
| `native_acquires_twice` | a comment TICK of a native run can acquire again by materializing a gap | comment at `control_v4_runtime_carrier.py:702-703`: one acquisition |
| `rotation_dropped` | the hour alone decides which repository's reviews are examined | `docs/PUBLIC_PRIVATE_BOUNDARY_V4.md:70`, `README.md:51-53`: dropped runs are retried, no cursor needed |
| `no_work_writes` | a TICK that answers NO_WORK may have moved the runtime branch | `docs/CONTROL_V4_REPLENISHMENT_DISCOVERY.md:96`: mutation-free |

## 6. What is not modelled, and why

* Phases INTEGRATE and CONVERGE and candidate-less PENDING drift: the carrier
  refuses to run with integration enabled, so no reachable queue has them.
* Parsing and formatting of commands, queue and authority files; HTTP failures
  other than a lost response (a failed read ends the job, like its death).
* The `review_observation` of a WORK capsule: advisory data no decision reads.
* The proof of external review and CI (which comments and checks count): a
  nondeterministic answer, given only when the private part of the evidence is
  there.
* Which repositories a TICK may read and the minting of a token for one: a
  nondeterministic subset. For a native run this allows more scopes than the
  code, which can only add behaviours.
* Historical `v41:gh:` runs: treated as native for the acquisition rule, but no
  workflow starts one any more, so the instances have none.
* In `Replenishment`, migration facts as evidence carried forward (they are in
  `Cutover`) and the opaque keys of an approval: what they decide is the
  nondeterministic refusal `Stops`.
* In `Replenishment`, the commands on existing tasks are abstracted to
  `Progress`: they change a status and release the lock as `TaskLifecycle` allows.
* In `KernelV31`, several Missions in one repository, and a Mission that keeps its
  revision but changes its content, which the validator forbids; wording and
  formats of results; which checks are green. In `Cutover`, what the owner may
  do by hand on `main` after the rollback.
* The validators of private files except how Missions may evolve: they read the
  files at one commit. Bundle and timeline: no control state.
* Progress of the V3.1 kernel: it is retired (`docs/PUBLIC_PRIVATE_BOUNDARY_V3_1.md`),
  nothing invokes it, so no fairness can be justified.

Some things the V3.1 models show are not stated as properties, because they do
not hold and nothing promises that they do, or a document promises less than a
reader might think: a landed merge whose record is lost is recovered only while
its PASS stays pending, and another tick may hold it first; an invocation with an
old `main` can use up the identity of a gap in a new revision; the rollback opens
gaps again that V3.1 itself had merged, and drops unfinished work on gaps that
only V4 has. `PROJECT.json` lists them as hazards with the reason.

Bounds: `MaxCommands`, `MaxPublications`, `MaxRevision`, `MaxVersion`, `MaxRuns`,
`MaxChanges` and `MaxDepth` are in the
guards of the actions that would exceed them; `MaxAcquisitions` is the
contract's own; `MaxRework` saturates a history
counter beyond the value the property forbids.

## 7. Plan

Written, in this order: `ControlQueue`, `TaskLifecycle`, `RunnerInvocation`,
`LeaseLock`, `RuntimeCarrier`, `MissionAuthority`, `Replenishment`, `ReviewRotation`,
`KernelQueue`, `LegacyMigration`, `KernelV31`, `Cutover`, each with its runs; then
the proofs of section 4, which now state every safety invariant, action property
and refinement that a run checks.

Next, most important first:

1. Target scope: `control_v4_target_scope.py` chooses the one repository a token
   is minted for, from an older queue than the carrier's; property: the choice
   never lets a job write about another repository than the one it may read.
2. The owner's approval: ACTIVATE with its exact keys, in place of the present
   nondeterministic refusal.
3. The carrier's step inside `Replenishment` (`CarrierAcquires`,
   `CarrierFindsNothing`) as an instance of `RuntimeCarrier`, in place of the
   argument by `Serializable`.

Runs planned for them stay small: for the scope, one repository more than the
token covers.
