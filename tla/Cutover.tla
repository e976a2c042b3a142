------------------------------ MODULE Cutover ------------------------------
(***************************************************************************)
(* The way from V3.1 to V4 and back: control_engine/v4_contracts.py,       *)
(* forward_transform_v31_to_v4 and derive_rollback_v31, between the        *)
(* commands of the V3.1 kernel before and after, and of V4 in between.     *)
(*                                                                         *)
(* Each command is one step here; how the commands of the V3.1 kernel      *)
(* overlap is in KernelV31, those of V4 in RuntimeCarrier and              *)
(* Replenishment.  Of V4 only which tasks there are, and which are DONE,   *)
(* is kept.  The Missions of V4 stay what they are until the rollback,     *)
(* which _require_frozen_v4_mission_set refuses otherwise.                 *)
(***************************************************************************)
EXTENDS LegacyMigration

CONSTANTS
    NewGaps,           \* gaps that only the V4 Missions have
    MaxRevision,       \* bound: revisions of the V3.1 Missions
    MaxDepth           \* bound: tasks of a gap one after the other

ASSUME NewGapsAssumption ==
    /\ NewGaps \subseteq Gaps
    /\ \A g \in Gaps \ NewGaps : DependsOn[g] \cap NewGaps = {}

OldGaps == Gaps \ NewGaps

VARIABLES
    phase,     \* which control plane the branch belongs to
    main,      \* the V3.1 Missions
    queue,     \* the V3.1 queue; while V4 runs, the last one
    facts,     \* its migration facts, None before the first TICK
    frozen,    \* the V3.1 Missions and queue of the cutover
    v4         \* the V4 Missions and queue; after the rollback, the last one

vars == <<phase, main, queue, facts, frozen, v4>>

V31Missions == [revision : [Repositories -> Nat], open : SUBSET Gaps,
                depends : [Gaps -> SUBSET Gaps],
                auto : [Repositories -> BOOLEAN]]

V4Status == {"QUEUED", "ACTIVE", "DONE"}

TypeOK ==
    /\ phase \in {"V31", "V4", "ROLLED"}
    /\ main \in V31Missions
    /\ DOMAIN queue \subseteq TaskId
    /\ \A id \in DOMAIN queue : queue[id] \in Task
    /\ facts # None => facts \subseteq Root
    /\ phase = "V31" => frozen = None /\ v4 = None
    /\ phase # "V31" =>
         /\ facts # None
         /\ frozen.main \in V31Missions
         /\ v4 = [open |-> v4.open, carry |-> v4.carry,
                  tasks |-> v4.tasks, lock |-> v4.lock]
         /\ v4.open \subseteq Gaps
         /\ DOMAIN v4.carry \subseteq Gaps \ v4.open
         /\ DOMAIN v4.tasks \subseteq v4.open
         /\ \A g \in DOMAIN v4.tasks : v4.tasks[g] \in V4Status
         /\ v4.lock # None => /\ v4.lock \in DOMAIN v4.tasks
                              /\ v4.tasks[v4.lock] = "ACTIVE"

Init ==
    /\ phase = "V31"
    /\ main = [revision |-> [r \in Repositories |-> 1], open |-> OldGaps,
               depends |-> DependsOn, auto |-> [r \in Repositories |-> TRUE]]
    /\ queue = <<>>
    /\ facts = None
    /\ frozen = None
    /\ v4 = None

-----------------------------------------------------------------------------
(* The V3.1 kernel, one command a step. *)

V31Runs ==
    /\ phase \in {"V31", "ROLLED"}
    /\ UNCHANGED <<phase, frozen, v4>>

Works == V31Runs /\ facts # None /\ UNCHANGED <<main, facts>>

\* The queue a tick integrates into: nothing is pending or landed, or a
\* candidate is on its base, its authority has changed, or the base has moved.
Integrated(q) ==
    {q} \cup {MarkedMerged(q, id) : id \in Pending(q)}
        \cup {Held(q, id) : id \in {x \in Pending(q) : ~LiveAuthority(main, x)}}
        \cup {BaseDrifted(q, id) :
                id \in {x \in Pending(q) : /\ LiveAuthority(main, x)
                                           /\ Len(x) < MaxDepth}}

Tick ==
    /\ V31Runs
    /\ facts' = IF facts = None THEN Facts(main) ELSE facts
    /\ \E q \in Integrated(Reconciled(queue, main, {})) :
         queue' = Fed(q, facts', main)
    /\ UNCHANGED main

\* The run of a worker.  There is one at a time.
RunOf(id) == IF Worker(id) = "A1" THEN 1 ELSE 2

Claim(id) ==
    LET q == Reconciled(queue, main, {}) IN
    /\ Works
    /\ id \in DOMAIN q
    /\ CanClaim(q, id)
    /\ queue' = Claimed(q, id, RunOf(id))

\* The worker gives its task back, or its lease ends.
Release(id) ==
    /\ Works
    /\ id \in Executing(queue)
    /\ queue' = Released(queue, id)

Reports(id) ==
    IF Operation(id) = "ASSURANCE"
    THEN [outcome : Outcomes(id), candidate : {queue[id].candidate}]
    ELSE [outcome : {"BLOCKED"}, candidate : {None}]
           \cup [outcome : {"COMPLETED"},
                 candidate : [sha : Shas, base : {<<>>}]]

Record(id) ==
    /\ Works
    /\ id \in Executing(queue)
    /\ LiveAuthority(main, id)
    /\ \E result \in Reports(id) :
         /\ CanRecord(queue, id, result)
         /\ Len(id) < MaxDepth \/ SuccessorOf(id, result) = None
         /\ queue' = Recorded(queue, id, queue[id].run, result)

\* The owner publishes a later revision of a Mission.
Publish(r) ==
    /\ phase = "V31"
    /\ main.revision[r] < MaxRevision
    /\ \E open \in SUBSET {g \in OldGaps : GapRepository[g] = r} :
         main' = [main EXCEPT
                    !.revision[r] = @ + 1,
                    !.open = {g \in @ : GapRepository[g] # r} \cup open]
    /\ UNCHANGED <<phase, queue, facts, frozen, v4>>

-----------------------------------------------------------------------------
(* The cutover. *)

QueuedGaps(q) == {Gap(id) : id \in {x \in DOMAIN q : q[x].status = "QUEUED"}}

\* No claim is live and only root tasks wait.
CutoverShape(q) ==
    /\ Executing(q) = {}
    /\ \A id \in DOMAIN q :
         q[id].status = "QUEUED" => Operation(id) = "IMPLEMENTATION"

\* The Missions of V4 succeed those of V3.1.
V4Revision(r) == main.revision[r] + 1

\* A RETIRED gap may be carried forward on a fact about some gap of its
\* repository under an earlier revision.
CarryForwards(open) ==
    LET evidence(g) == {root \in facts :
                          /\ GapRepository[root.gap] = GapRepository[g]
                          /\ root.revision < V4Revision(GapRepository[g])}
    IN  UNION {{carry \in [targets -> facts] :
                  \A g \in targets : carry[g] \in evidence(g)} :
                 targets \in SUBSET (Gaps \ open)}

\* validate_mission_v4: what an OPEN gap depends on is OPEN or carried.
ValidMissions(open, carry) ==
    \A g \in open : DependsOn[g] \subseteq open \cup DOMAIN carry

\* Mutant: a RETIRED gap is skipped, carried forward or not.
AccountedForSkipped(gaps, open, carry) == TRUE

\* Queued work does not vanish into a RETIRED gap without evidence.
AccountedFor(gaps, open, carry) == gaps \subseteq open \cup DOMAIN carry

\* Mutant: a task keeps its V3.1 operation for a status.
TransformedOperation(q, open) ==
    [g \in QueuedGaps(q) \cap open |-> "IMPLEMENTATION"]

\* The V4 tasks of the queued ones.
Transformed(q, open) == [g \in QueuedGaps(q) \cap open |-> "QUEUED"]

CutOver ==
    /\ phase = "V31"
    /\ facts # None
    /\ CutoverShape(queue)
    /\ \E open \in SUBSET Gaps : \E carry \in CarryForwards(open) :
         /\ ValidMissions(open, carry)
         /\ AccountedFor(QueuedGaps(queue), open, carry)
         /\ v4' = [open |-> open, carry |-> carry,
                   tasks |-> Transformed(queue, open), lock |-> None]
    /\ frozen' = [main |-> main, queue |-> queue]
    /\ phase' = "V4"
    /\ UNCHANGED <<main, queue, facts>>

-----------------------------------------------------------------------------
(* V4. *)

V4Step(new) ==
    /\ v4' = new
    /\ UNCHANGED <<phase, main, queue, facts, frozen>>

Done == {g \in DOMAIN v4.tasks : v4.tasks[g] = "DONE"}

Acquire(g) ==
    /\ phase = "V4"
    /\ g \in DOMAIN v4.tasks \ Done
    /\ v4.lock = None
    /\ V4Step([v4 EXCEPT !.tasks[g] = "ACTIVE", !.lock = g])

Yield ==
    /\ phase = "V4"
    /\ v4.lock # None
    /\ V4Step([v4 EXCEPT !.lock = None])

\* Worked on, reviewed, merged and closed by the owner.
Finish(g) ==
    /\ phase = "V4"
    /\ g \in DOMAIN v4.tasks
    /\ v4.tasks[g] = "ACTIVE"
    /\ v4.lock = None
    /\ V4Step([v4 EXCEPT !.tasks[g] = "DONE"])

\* eligible_unmaterialized_gaps_v4 with _dependency_is_satisfied.
Materialize(g) ==
    /\ phase = "V4"
    /\ g \in v4.open \ DOMAIN v4.tasks
    /\ DependsOn[g] \subseteq Done \cup DOMAIN v4.carry
    /\ V4Step([v4 EXCEPT !.tasks =
                 [h \in DOMAIN @ \cup {g} |-> IF h = g THEN "QUEUED" ELSE @[h]]])

-----------------------------------------------------------------------------
(* The rollback. *)

FrozenRoot(g) ==
    [revision |-> frozen.main.revision[GapRepository[g]], gap |-> g]

\* Mutant: any V4 task is enough.
SatisfiedByTask(g) == FrozenRoot(g) \in facts \/ g \in DOMAIN v4.tasks

\* _derive_satisfied_gap_keys: a fact about exactly the frozen revision, or a
\* DONE task of V4.
Satisfied(g) == FrozenRoot(g) \in facts \/ g \in Done

\* Mutant: the frozen states of the gaps stay.
ReopenedAsFrozen == frozen.main.open

Reopened == {g \in OldGaps : ~Satisfied(g)}

\* Mutant: the dependencies stay, satisfied or not.
NormalizedNever(g) == DependsOn[g]

Normalized(g) == {d \in DependsOn[g] : ~Satisfied(d)}

\* Mutant: only what was integrated is kept.
PreservedMerged(q) == {id \in DOMAIN q : q[id].integration = "MERGED"}

Preserved(q) == {id \in DOMAIN q : q[id].status = "TERMINAL"}

\* derive_rollback_missions_v31 and build_rollback_v31_queue.
RollBack ==
    /\ phase = "V4"
    /\ v4.lock = None
    /\ Done \subseteq OldGaps
    /\ main' = [frozen.main EXCEPT
                  !.revision = [r \in Repositories |-> @[r] + 1],
                  !.open = Reopened,
                  !.depends = [g \in Gaps |->
                                 IF g \in Reopened THEN Normalized(g) ELSE @[g]]]
    /\ queue' = [id \in Preserved(frozen.queue) |-> frozen.queue[id]]
    /\ phase' = "ROLLED"
    /\ UNCHANGED <<facts, frozen, v4>>

Next ==
    \/ Tick
    \/ \E id \in DOMAIN queue : Claim(id) \/ Release(id) \/ Record(id)
    \/ \E r \in Repositories : Publish(r)
    \/ CutOver
    \/ \E g \in Gaps : Acquire(g) \/ Finish(g) \/ Materialize(g)
    \/ Yield
    \/ RollBack

Spec == Init /\ [][Next]_vars

-----------------------------------------------------------------------------
(* Properties. *)

DoneInV4(g) == phase # "V31" /\ g \in Done

\* There is evidence, of whichever control plane, that a gap was finished.
Completed(g) ==
    \/ \E root \in facts : root.gap = g
    \/ \E id \in DOMAIN queue : Gap(id) = g /\ queue[id].integration = "MERGED"
    \/ DoneInV4(g)
    \/ phase # "V31" /\ g \in DOMAIN v4.carry

\* Through the cutover and the rollback, a gap is worked on only when what it
\* depends on is finished: V4 takes queued tasks over without looking at
\* dependencies, and the rollback removes dependencies from the Missions.
WorkFollowsDependencies ==
    /\ \A id \in DOMAIN queue : \A d \in DependsOn[Gap(id)] : Completed(d)
    /\ phase = "V4" =>
         \A g \in DOMAIN v4.tasks : \A d \in DependsOn[g] : Completed(d)

\* What V4 finished, and what V1 integrated under the frozen revision, is not
\* done again after the rollback.
FinishedStaysFinished ==
    phase = "ROLLED" =>
      \A id \in DOMAIN queue :
        Revision(id) > frozen.main.revision[Repository(id)] =>
          ~(FrozenRoot(Gap(id)) \in facts \/ DoneInV4(Gap(id)))

\* build_rollback_v31_queue drops unfinished tasks because FEED brings them
\* back: an unfinished gap that V3.1 knows is open again after the rollback,
\* and everything it waits for is open too, so that nothing waits for ever on
\* a gap that is never fed.
UnfinishedComesBack ==
    phase = "ROLLED" =>
      /\ \A g \in OldGaps :
           \/ g \in QueuedGaps(frozen.queue) /\ g \notin DOMAIN v4.tasks
           \/ g \in DOMAIN v4.tasks /\ g \notin Done
           => g \in main.open \/ FrozenRoot(g) \in facts
      /\ \A g \in main.open : main.depends[g] \subseteq main.open

\* Queued V3.1 work goes on as a V4 task, or a fact that is still in the queue
\* says why it need not.
QueuedWorkSurvives ==
    [][phase = "V31" /\ phase' = "V4" =>
         \A g \in QueuedGaps(queue) :
           \/ g \in DOMAIN v4'.tasks
           \/ g \in DOMAIN v4'.carry /\ v4'.carry[g] \in facts']_vars

\* Results and facts of V3.1 are never lost or changed, whichever way the
\* control plane goes.
ResultsSurvive ==
    [][/\ facts # None => facts' = facts
       /\ \A id \in DOMAIN queue :
            queue[id].status = "TERMINAL" =>
              /\ id \in DOMAIN queue'
              /\ queue'[id].outcome = queue[id].outcome
              /\ queue'[id].candidate = queue[id].candidate]_vars

-----------------------------------------------------------------------------
(* The inductive invariant behind them. *)

\* What the V3.1 kernel keeps of its queue: each claim is of the one run of
\* its worker, and no task is of a revision to come.
QueueFits ==
    /\ WellFormed(queue, 2)
    /\ ValidQueue(queue)
    /\ \A id \in Executing(queue) : queue[id].run = RunOf(id)
    /\ facts = None => DOMAIN queue = {}
    /\ \A id \in DOMAIN queue : Revision(id) <= main.revision[Repository(id)]

\* What the way back has made of the Missions, and what it starts from.
MissionsFit ==
    /\ phase # "ROLLED" => main.depends = DependsOn
    /\ phase = "V4" => frozen.main = main /\ frozen.queue = queue
    /\ phase = "ROLLED" =>
         /\ main.open = Reopened
         /\ \A g \in Reopened : main.depends[g] = Normalized(g)

IInv ==
    /\ TypeOK
    /\ QueueFits
    /\ MissionsFit
    /\ WorkFollowsDependencies
    /\ FinishedStaysFinished
=============================================================================
