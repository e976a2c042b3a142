---------------------------- MODULE CutoverProofs ----------------------------
(***************************************************************************)
(* The cutover to V4 and the rollback, for every set of gaps, every order  *)
(* of their dependencies, every V1 queue and every Missions of V4, and as  *)
(* long as one likes.                                                      *)
(***************************************************************************)
EXTENDS Cutover, KernelQueueProofs

-----------------------------------------------------------------------------
(* Claims.  SameClaims: r has no claim that q does not have. *)

SameClaims(q, r) ==
    \A id \in Executing(r) : id \in Executing(q) /\ r[id].run = q[id].run

LEMMA ReconciledClaims ==
    ASSUME NEW q, NEW authority, WellFormed(q, 2)
    PROVE  SameClaims(q, Reconciled(q, authority, {}))
<1> DEFINE r == Reconciled(q, authority, {})
<1>1. /\ DOMAIN r = DOMAIN q
      /\ \A id \in DOMAIN q :
           r[id] = q[id]
             \/ r[id] = [q[id] EXCEPT !.status = "SUPERSEDED", !.run = None]
  BY DEF Reconciled
<1> HIDE DEF r
<1>2. ASSUME NEW id \in Executing(r)
      PROVE  id \in Executing(q) /\ r[id].run = q[id].run
  <2>1. id \in DOMAIN q /\ q[id] \in Task /\ r[id].status = "EXECUTING"
    BY <1>1 DEF Executing, WellFormed
  <2>2. r[id] = q[id]
    <3>1. [q[id] EXCEPT !.status = "SUPERSEDED", !.run = None].status
            = "SUPERSEDED"
      BY <2>1 DEF Task
    <3> QED
      BY <1>1, <2>1, <3>1
  <2> QED
    BY <2>1, <2>2 DEF Executing
<1> QED
  BY <1>2 DEF SameClaims, r

LEMMA ReleasedClaims ==
    ASSUME NEW q, NEW id \in Executing(q), WellFormed(q, 2)
    PROVE  SameClaims(q, Released(q, id))
<1>1. id \in DOMAIN q /\ q[id] \in Task
  BY DEF Executing, WellFormed
<1>2. Released(q, id)[id].status = "QUEUED"
  BY <1>1 DEF Released, Task
<1>3. /\ DOMAIN Released(q, id) = DOMAIN q
      /\ \A x \in DOMAIN q : x # id => Released(q, id)[x] = q[x]
  BY <1>1 DEF Released
<1> QED
  BY <1>2, <1>3 DEF SameClaims, Executing

LEMMA AddedClaims ==
    ASSUME NEW q, NEW new, NEW candidate, NEW frozenIn
    PROVE  SameClaims(q, Added(q, new, NewTask(candidate, frozenIn)))
<1>1. NewTask(candidate, frozenIn).status = "QUEUED"
  BY DEF NewTask
<1> QED
  BY <1>1 DEF SameClaims, Executing, Added

LEMMA ClaimsTransitive ==
    ASSUME NEW q, NEW r, NEW s, SameClaims(q, r), SameClaims(r, s)
    PROVE  SameClaims(q, s)
BY DEF SameClaims

LEMMA RecordedClaims ==
    ASSUME NEW q, NEW id \in Executing(q), NEW run, NEW result,
           WellFormed(q, 2)
    PROVE  SameClaims(q, Recorded(q, id, run, result))
<1> DEFINE candidate == IF result.outcome = "COMPLETED"
                        THEN result.candidate ELSE q[id].candidate
           integration == IF result.outcome # "PASS" THEN q[id].integration
                          ELSE IF Gap(id) \in HoldGaps THEN "HOLD"
                          ELSE "PENDING"
           ended == [q[id] EXCEPT !.status = "TERMINAL", !.run = run,
                                  !.outcome = result.outcome,
                                  !.candidate = candidate,
                                  !.integration = integration]
           r == [q EXCEPT ![id] = ended]
           s == Added(r, SuccessorOf(id, result),
                      NewTask(result.candidate, q[id].frozen))
<1>1. id \in DOMAIN q /\ q[id] \in Task
  BY DEF Executing, WellFormed
<1>2. ended.status = "TERMINAL"
  <2> HIDE DEF candidate, integration
  <2> QED
    BY <1>1 DEF Task
<1>3. /\ DOMAIN r = DOMAIN q
      /\ \A x \in DOMAIN q : x # id => r[x] = q[x]
      /\ r[id] = ended
  BY <1>1
<1>4. Recorded(q, id, run, result) = r \/ Recorded(q, id, run, result) = s
  BY DEF Recorded
<1> HIDE DEF ended, r
<1>5. SameClaims(q, r)
  BY <1>2, <1>3 DEF SameClaims, Executing
<1>6. SameClaims(q, s)
  BY <1>5, AddedClaims, ClaimsTransitive
<1> QED
  BY <1>4, <1>5, <1>6

LEMMA MarkedClaims ==
    ASSUME NEW q, NEW id \in Pending(q), NEW mark, WellFormed(q, 2)
    PROVE  SameClaims(q, [q EXCEPT ![id] = [@ EXCEPT !.integration = mark]])
<1> DEFINE r == [q EXCEPT ![id] = [@ EXCEPT !.integration = mark]]
<1>1. id \in DOMAIN q /\ q[id] \in Task /\ q[id].status = "TERMINAL"
  BY DEF Pending, WellFormed
<1>2. /\ DOMAIN r = DOMAIN q
      /\ \A x \in DOMAIN q : x # id => r[x] = q[x]
      /\ r[id].status = "TERMINAL"
  BY <1>1 DEF Task
<1> HIDE DEF r
<1>3. SameClaims(q, r)
  BY <1>2 DEF SameClaims, Executing
<1> QED
  BY <1>3 DEF r

LEMMA FedClaims ==
    ASSUME NEW q, NEW known, NEW authority
    PROVE  SameClaims(q, Fed(q, known, authority))
<1>1. \A candidate, frozenIn : NewTask(candidate, frozenIn).status = "QUEUED"
  BY DEF NewTask
<1> QED
  BY <1>1 DEF SameClaims, Executing, Fed

-----------------------------------------------------------------------------
(* What a command of the V3.1 kernel makes of the queue. *)

\* r is a later queue than q: nothing settled is lost, no claim and no work is
\* new.
Evolves(q, r) ==
    /\ WellFormed(r, 2)
    /\ ValidQueue(r)
    /\ Settled(q, r)
    /\ SameClaims(q, r)
    /\ \A x \in DOMAIN r :
         x \in DOMAIN q \/ \E y \in DOMAIN q : Work(x) = Work(y)

LEMMA EvolvesTransitive ==
    ASSUME NEW q, NEW r, NEW s, WellFormed(q, 2), Evolves(q, r), Evolves(r, s)
    PROVE  Evolves(q, s)
<1>1. /\ Becomes(q, 2, r, 2, MergedTasks(r))
      /\ Becomes(r, 2, s, 2, MergedTasks(s))
  BY DEF Evolves, Becomes
<1>2. Becomes(q, 2, s, 2, MergedTasks(r) \cup MergedTasks(s))
  BY <1>1, BecomesTransitive
<1>3. SameClaims(q, s)
  BY ClaimsTransitive DEF Evolves
<1> QED
  BY <1>2, <1>3 DEF Evolves, Becomes

LEMMA EvolvesItself ==
    ASSUME NEW q, WellFormed(q, 2), ValidQueue(q)
    PROVE  Evolves(q, q)
BY DEF Evolves, Settled, SameClaims

LEMMA ReconciledEvolves ==
    ASSUME NEW q, NEW authority, WellFormed(q, 2), ValidQueue(q)
    PROVE  /\ Evolves(q, Reconciled(q, authority, {}))
           /\ DOMAIN Reconciled(q, authority, {}) = DOMAIN q
<1>1. /\ Becomes(q, 2, Reconciled(q, authority, {}), 2, {})
      /\ DOMAIN Reconciled(q, authority, {}) = DOMAIN q
  BY ReconciledBecomes
<1> QED
  BY <1>1, ReconciledClaims DEF Evolves, Becomes

LEMMA MarkedEvolves ==
    ASSUME NEW q, NEW id \in Pending(q),
           NEW mark \in {"HOLD", "MERGED", "BASE_DRIFT"},
           WellFormed(q, 2), ValidQueue(q)
    PROVE  Evolves(q, [q EXCEPT ![id] = [@ EXCEPT !.integration = mark]])
<1>1. Becomes(q, 2, [q EXCEPT ![id] = [@ EXCEPT !.integration = mark]], 2,
              {x \in {id} : mark = "MERGED"})
  BY IntegratedBecomes
<1> QED
  BY <1>1, MarkedClaims DEF Evolves, Becomes

LEMMA DriftedEvolves ==
    ASSUME NEW q, NEW id \in Pending(q), WellFormed(q, 2), ValidQueue(q)
    PROVE  Evolves(q, BaseDrifted(q, id))
<1> DEFINE r == [q EXCEPT ![id] = [@ EXCEPT !.integration = "BASE_DRIFT"]]
<1>1. Becomes(q, 2, BaseDrifted(q, id), 2, {})
  BY BaseDriftedBecomes
<1>2. SameClaims(q, r)
  BY MarkedClaims
<1>3. BaseDrifted(q, id)
        = Added(r, DriftRepair(q, id), NewTask(q[id].candidate, q[id].frozen))
  BY DEF BaseDrifted
<1> HIDE DEF r
<1>4. SameClaims(q, BaseDrifted(q, id))
  BY <1>2, <1>3, AddedClaims, ClaimsTransitive
<1>5. \A x \in DOMAIN BaseDrifted(q, id) :
        x \in DOMAIN q \/ Work(x) = Work(id)
  BY PendingTask, DriftedIdentities
<1>6. id \in DOMAIN q
  BY DEF Pending
<1> QED
  BY <1>1, <1>4, <1>5, <1>6 DEF Evolves, Becomes

LEMMA IntegratedEvolves ==
    ASSUME NEW q, NEW r \in Integrated(q), WellFormed(q, 2), ValidQueue(q)
    PROVE  Evolves(q, r)
<1>1. CASE r = q
  BY <1>1, EvolvesItself
<1>2. ASSUME NEW id \in Pending(q), r = MarkedMerged(q, id)
      PROVE  Evolves(q, r)
  BY <1>2, MarkedEvolves DEF MarkedMerged
<1>3. ASSUME NEW id \in Pending(q), r = Held(q, id)
      PROVE  Evolves(q, r)
  BY <1>3, MarkedEvolves DEF Held
<1>4. ASSUME NEW id \in Pending(q), r = BaseDrifted(q, id)
      PROVE  Evolves(q, r)
  BY <1>4, DriftedEvolves
<1> QED
  BY <1>1, <1>2, <1>3, <1>4 DEF Integrated

LEMMA RecordedEvolves ==
    ASSUME NEW q, NEW id \in Executing(q), NEW run \in 1 .. 2,
           NEW result \in Result,
           WellFormed(q, 2), ValidQueue(q), CanRecord(q, id, result)
    PROVE  Evolves(q, Recorded(q, id, run, result))
<1> DEFINE r == Recorded(q, id, run, result)
<1>1. Becomes(q, 2, r, 2, {})
  BY RecordedBecomes
<1>2. SameClaims(q, r)
  BY RecordedClaims
<1>3. id \in DOMAIN q /\ id \in TaskId
  BY DEF Executing, WellFormed
<1>4. \A x \in DOMAIN r : x \in DOMAIN q \/ Work(x) = Work(id)
  BY <1>3, RecordedIdentities
<1> HIDE DEF r
<1>5. Evolves(q, r)
  BY <1>1, <1>2, <1>3, <1>4 DEF Evolves, Becomes
<1> QED
  BY <1>5 DEF r

LEMMA ReleasedEvolves ==
    ASSUME NEW q, NEW id \in Executing(q), WellFormed(q, 2), ValidQueue(q)
    PROVE  Evolves(q, Released(q, id))
<1>1. Becomes(q, 2, Released(q, id), 2, {})
  BY ReleasedBecomes
<1>2. DOMAIN Released(q, id) = DOMAIN q
  BY DEF Released
<1> QED
  BY <1>1, <1>2, ReleasedClaims DEF Evolves, Becomes
-----------------------------------------------------------------------------
(* What is finished stays finished. *)

LEMMA CompletedStands ==
    ASSUME IInv, NEW d, Completed(d), facts # None, facts' = facts,
           WellFormed(queue', 2), Settled(queue, queue'),
           UNCHANGED <<phase, v4>>
    PROVE  Completed(d)'
<1>1. CASE \E root \in facts : root.gap = d
  BY <1>1 DEF Completed
<1>2. ASSUME NEW id \in DOMAIN queue,
             Gap(id) = d, queue[id].integration = "MERGED"
      PROVE  Completed(d)'
  <2>1. queue[id].status = "TERMINAL"
    BY <1>2, GapsAssumption DEF IInv, QueueFits, WellFormed, TaskOK
  <2>2. id \in DOMAIN queue' /\ queue'[id].integration = "MERGED"
    BY <1>2, <2>1 DEF Settled
  <2> QED
    BY <1>2, <2>2 DEF Completed, Gap
<1>3. CASE DoneInV4(d) \/ (phase # "V31" /\ d \in DOMAIN v4.carry)
  BY <1>3 DEF Completed, DoneInV4, Done
<1> QED
  BY <1>1, <1>2, <1>3 DEF Completed

\* The root x may become a task: its gap is open, and what the Missions say it
\* depends on is satisfied.
Ready(q, known, x) ==
    /\ Gap(x) \in main.open
    /\ Revision(x) = main.revision[Repository(x)]
    /\ \A d \in main.depends[Gap(x)] : GapSatisfied(q, known, Revision(x), d)

LEMMA SatisfiedIsCompleted ==
    ASSUME NEW revision, NEW d, GapSatisfied(queue', facts', revision, d)
    PROVE  Completed(d)'
<1>1. CASE [revision |-> revision, gap |-> d] \in facts'
  BY <1>1 DEF Completed
<1>2. ASSUME NEW id \in DOMAIN queue',
             Gap(id) = d, queue'[id].integration = "MERGED"
      PROVE  Completed(d)'
  BY <1>2 DEF Completed, Gap
<1> QED
  BY <1>1, <1>2 DEF GapSatisfied

\* Also after the rollback, which has taken dependencies away.
LEMMA ReadyIsCompleted ==
    ASSUME IInv, NEW x, Ready(queue', facts', x),
           NEW d \in DependsOn[Gap(x)],
           phase \in {"V31", "ROLLED"}, UNCHANGED <<phase, v4>>,
           facts # None => facts' = facts
    PROVE  Completed(d)'
<1>1. CASE d \in main.depends[Gap(x)]
  BY <1>1, SatisfiedIsCompleted DEF Ready
<1>2. CASE d \notin main.depends[Gap(x)]
  <2>1. phase = "ROLLED"
    BY <1>2 DEF IInv, MissionsFit
  <2>2. main.depends[Gap(x)] = Normalized(Gap(x))
    BY <2>1 DEF IInv, MissionsFit, Ready
  <2>3. Satisfied(d)
    BY <1>2, <2>2 DEF Normalized
  <2>4. facts' = facts
    BY <2>1 DEF IInv, TypeOK
  <2>5. CASE FrozenRoot(d) \in facts
    BY <2>4, <2>5 DEF FrozenRoot, Completed
  <2>6. CASE d \in Done
    BY <2>1, <2>6 DEF Completed, DoneInV4, Done
  <2> QED
    BY <2>3, <2>5, <2>6 DEF Satisfied
<1> QED
  BY <1>1, <1>2

LEMMA WorkRepository ==
    ASSUME NEW x, NEW y, Work(x) = Work(y)
    PROVE  /\ Revision(x) = Revision(y)
           /\ Gap(x) = Gap(y)
           /\ Repository(x) = Repository(y)
BY DEF Work, Repository

\* A command of the V3.1 kernel, before the cutover or after the rollback.
LEMMA QueueStep ==
    ASSUME IInv, phase \in {"V31", "ROLLED"},
           UNCHANGED <<phase, main, frozen, v4>>,
           facts' # None, facts' \subseteq Root,
           facts # None => facts' = facts,
           WellFormed(queue', 2), ValidQueue(queue'), Settled(queue, queue'),
           \A id \in Executing(queue') : queue'[id].run = RunOf(id),
           \A x \in DOMAIN queue' :
             \/ x \in DOMAIN queue
             \/ \E y \in DOMAIN queue : Work(x) = Work(y)
             \/ Ready(queue', facts', x)
    PROVE  IInv'
<1>1. TypeOK'
  BY DEF IInv, TypeOK, WellFormed
<1>2. ASSUME NEW x \in DOMAIN queue'
      PROVE  \/ \E y \in DOMAIN queue : /\ Revision(x) = Revision(y)
                                        /\ Gap(x) = Gap(y)
                                        /\ Repository(x) = Repository(y)
             \/ Ready(queue', facts', x)
  BY WorkRepository
<1>3. main \in V31Missions
  BY DEF IInv, TypeOK
<1>4. QueueFits'
  <2>1. ASSUME NEW x \in DOMAIN queue'
        PROVE  Revision(x) <= main.revision[Repository(x)]
    <3>1. CASE \E y \in DOMAIN queue : /\ Revision(x) = Revision(y)
                                       /\ Repository(x) = Repository(y)
      BY <3>1 DEF IInv, QueueFits
    <3>2. CASE Ready(queue', facts', x)
      <4>1. x \in TaskId
        BY DEF WellFormed
      <4>2. main.revision[Repository(x)] \in Nat
        BY <1>3, <4>1, TaskRepository DEF V31Missions
      <4> QED
        BY <3>2, <4>2 DEF Ready
    <3> QED
      BY <1>2, <3>1, <3>2
  <2>2. \A id \in Executing(queue') : queue'[id].run = RunOf(id)
    OBVIOUS
  <2> QED
    BY <2>1, <2>2 DEF QueueFits, Revision, Repository, Gap, RunOf, Worker,
                      Operation
<1>5. phase = "ROLLED" => facts' = facts
  BY DEF IInv, TypeOK
<1>6. MissionsFit'
  BY <1>5 DEF IInv, MissionsFit, Reopened, Normalized, Satisfied, FrozenRoot,
              Done
<1>7. WorkFollowsDependencies'
  <2>1. ASSUME NEW x \in DOMAIN queue', NEW d \in DependsOn[Gap(x)]
        PROVE  Completed(d)'
    <3>1. ASSUME NEW y \in DOMAIN queue, Gap(x) = Gap(y)
          PROVE  Completed(d)'
      <4>1. Completed(d)
        BY <2>1, <3>1 DEF IInv, WorkFollowsDependencies
      <4>2. facts # None
        BY <3>1 DEF IInv, QueueFits
      <4> QED
        BY <4>1, <4>2, CompletedStands
    <3>2. CASE Ready(queue', facts', x)
      BY <3>2, ReadyIsCompleted
    <3> QED
      BY <1>2, <3>1, <3>2
  <2>2. phase' # "V4"
    OBVIOUS
  <2> QED
    BY <2>1, <2>2 DEF WorkFollowsDependencies, Gap
<1>8. FinishedStaysFinished'
  <2> SUFFICES ASSUME phase = "ROLLED", NEW x \in DOMAIN queue',
                      Revision(x) > frozen.main.revision[Repository(x)]
               PROVE  ~(FrozenRoot(Gap(x)) \in facts \/ DoneInV4(Gap(x)))
    BY <1>5 DEF FinishedStaysFinished, Revision, Repository, Gap, FrozenRoot,
                DoneInV4, Done
  <2>1. ASSUME NEW y \in DOMAIN queue, Revision(x) = Revision(y),
               Gap(x) = Gap(y), Repository(x) = Repository(y)
        PROVE  ~(FrozenRoot(Gap(x)) \in facts \/ DoneInV4(Gap(x)))
    BY <2>1 DEF IInv, FinishedStaysFinished
  <2>2. CASE Ready(queue', facts', x)
    <3>1. Gap(x) \in Reopened
      BY <2>2 DEF Ready, IInv, MissionsFit
    <3> QED
      BY <3>1 DEF Reopened, Satisfied, DoneInV4
  <2> QED
    BY <1>2, <2>1, <2>2
<1> QED
  BY <1>1, <1>4, <1>6, <1>7, <1>8 DEF IInv
-----------------------------------------------------------------------------
(* The commands of the V3.1 kernel. *)

LEMMA FactsTyped ==
    ASSUME NEW authority
    PROVE  Facts(authority) # None /\ Facts(authority) \subseteq Root
<1>1. Facts(authority) \in SUBSET {Legacy[t].names : t \in DOMAIN Legacy}
  BY DEF Facts
<1>2. \A t \in DOMAIN Legacy : Legacy[t].names \in Root \cup {None}
  BY LegacyAssumption DEF LegacyTask
<1>3. Facts(authority) \subseteq Root
  BY <1>2 DEF Facts
<1> QED
  BY <1>1, <1>3, LegacyAssumption

LEMMA TickStep ==
    ASSUME IInv, Tick
    PROVE  IInv' /\ Settled(queue, queue')
<1> DEFINE q == Reconciled(queue, main, {})
<1>1. /\ WellFormed(queue, 2) /\ ValidQueue(queue)
      /\ \A id \in Executing(queue) : queue[id].run = RunOf(id)
      /\ main \in V31Missions
  BY DEF IInv, QueueFits, TypeOK
<1>2. /\ phase \in {"V31", "ROLLED"}
      /\ UNCHANGED <<phase, main, frozen, v4>>
      /\ facts' = IF facts = None THEN Facts(main) ELSE facts
  BY DEF Tick, V31Runs
<1>3. facts' # None /\ facts' \subseteq Root /\ (facts # None => facts' = facts)
  BY <1>2, FactsTyped DEF IInv, TypeOK
<1>4. PICK r \in Integrated(q) : queue' = Fed(r, facts', main)
  BY DEF Tick
<1>5. Evolves(queue, r)
  <2>1. Evolves(queue, q)
    BY <1>1, ReconciledEvolves
  <2> HIDE DEF q
  <2>2. Evolves(q, r)
    BY <2>1, IntegratedEvolves DEF Evolves
  <2> QED
    BY <1>1, <2>1, <2>2, EvolvesTransitive
<1> HIDE DEF q
<1>6. Becomes(r, 2, queue', 2, {}) /\ SameClaims(r, queue')
  <2>1. /\ main.revision \in [Repositories -> Nat]
        /\ main.auto \in [Repositories -> BOOLEAN]
    BY <1>1 DEF V31Missions
  <2> QED
    BY <1>4, <1>5, <2>1, FedBecomes, FedClaims DEF Evolves
<1>7. WellFormed(queue', 2) /\ ValidQueue(queue') /\ Settled(queue, queue')
  <2>1. Becomes(queue, 2, r, 2, MergedTasks(r))
    BY <1>5 DEF Evolves, Becomes
  <2>2. Becomes(queue, 2, queue', 2, MergedTasks(r) \cup {})
    BY <1>1, <1>6, <2>1, BecomesTransitive
  <2> QED
    BY <2>2 DEF Becomes
<1>8. \A id \in Executing(queue') : queue'[id].run = RunOf(id)
  <2>1. SameClaims(queue, queue')
    BY <1>5, <1>6, ClaimsTransitive DEF Evolves
  <2> QED
    BY <1>1, <2>1 DEF SameClaims
<1>9. ASSUME NEW x \in DOMAIN queue', x \notin DOMAIN r
      PROVE  Ready(queue', facts', x)
  <2>1. /\ Revision(x) = main.revision[Repository(x)]
        /\ Gap(x) \in Feedable(r, facts', main, Repository(x))
    BY <1>4, <1>9, FedIsFeedable
  <2>2. /\ DOMAIN r \subseteq DOMAIN queue'
        /\ \A y \in DOMAIN r : queue'[y] = r[y]
    BY <1>4 DEF Fed
  <2>3. ASSUME NEW d \in main.depends[Gap(x)]
        PROVE  GapSatisfied(queue', facts', Revision(x), d)
    <3>1. GapSatisfied(r, facts', Revision(x), d)
      BY <2>1, <2>3 DEF Feedable
    <3> QED
      BY <2>2, <3>1 DEF GapSatisfied
  <2> QED
    BY <2>1, <2>3 DEF Ready, Feedable
<1>10. \A x \in DOMAIN queue' :
         \/ x \in DOMAIN queue
         \/ \E y \in DOMAIN queue : Work(x) = Work(y)
         \/ Ready(queue', facts', x)
  BY <1>5, <1>9 DEF Evolves
<1> QED
  BY <1>2, <1>3, <1>7, <1>8, <1>10, QueueStep

\* The commands of the workers, which find facts.
LEMMA WorkerStep ==
    ASSUME IInv, Works, WellFormed(queue', 2), ValidQueue(queue'),
           Settled(queue, queue'),
           \A id \in Executing(queue') : queue'[id].run = RunOf(id),
           \A x \in DOMAIN queue' :
             x \in DOMAIN queue \/ \E y \in DOMAIN queue : Work(x) = Work(y)
    PROVE  IInv'
<1>1. /\ phase \in {"V31", "ROLLED"}
      /\ UNCHANGED <<phase, main, facts, frozen, v4>>
      /\ facts # None
  BY DEF Works, V31Runs
<1>2. facts' # None /\ facts' \subseteq Root /\ (facts # None => facts' = facts)
  BY <1>1 DEF IInv, TypeOK
<1> QED
  BY <1>1, <1>2, QueueStep

LEMMA ClaimStep ==
    ASSUME IInv, NEW id, Claim(id)
    PROVE  IInv' /\ Settled(queue, queue')
<1> DEFINE q == Reconciled(queue, main, {})
           run == RunOf(id)
<1>1. /\ WellFormed(queue, 2) /\ ValidQueue(queue)
      /\ \A x \in Executing(queue) : queue[x].run = RunOf(x)
  BY DEF IInv, QueueFits
<1>2. Works /\ CanClaim(q, id) /\ queue' = Claimed(q, id, run)
  BY DEF Claim
<1>3. Evolves(queue, q) /\ DOMAIN q = DOMAIN queue
  BY <1>1, ReconciledEvolves
<1> HIDE DEF q
<1>4. run \in 1 .. 2
  BY DEF RunOf
<1>5. ASSUME NEW x \in Executing(q)
      PROVE  q[x].run = RunOf(x) /\ q[x].run # run
  <2>1. q[x].run = RunOf(x)
    BY <1>1, <1>3 DEF Evolves, SameClaims
  <2>2. Worker(x) # Worker(id)
    BY <1>2 DEF CanClaim
  <2>3. RunOf(x) # RunOf(id)
    BY <2>2 DEF RunOf, Worker
  <2> QED
    BY <2>1, <2>3
<1>6. id \in DOMAIN q /\ q[id] \in Task
  BY <1>2, <1>3 DEF CanClaim, Selectable, Evolves, WellFormed
<1>7. /\ DOMAIN queue' = DOMAIN q
      /\ \A x \in DOMAIN q : x # id => queue'[x] = q[x]
      /\ queue'[id].run = run
  BY <1>2, <1>6 DEF Claimed, Task
<1> HIDE DEF run
<1>8. WellFormed(queue', 2) /\ ValidQueue(queue') /\ Settled(queue, queue')
  <2>1. Becomes(q, 2, queue', 2, {})
    <3>1. WellFormed(q, 2) /\ ValidQueue(q)
      BY <1>3 DEF Evolves
    <3> QED
      BY <1>2, <1>4, <1>5, <3>1, ClaimedBecomes
  <2>2. Becomes(queue, 2, q, 2, MergedTasks(q))
    BY <1>3 DEF Evolves, Becomes
  <2>3. Becomes(queue, 2, queue', 2, MergedTasks(q) \cup {})
    BY <1>1, <2>1, <2>2, BecomesTransitive
  <2> QED
    BY <2>3 DEF Becomes
<1>9. \A x \in Executing(queue') : queue'[x].run = RunOf(x)
  BY <1>5, <1>7 DEF Executing, run
<1> QED
  BY <1>2, <1>3, <1>7, <1>8, <1>9, WorkerStep

LEMMA ReleaseStep ==
    ASSUME IInv, NEW id, Release(id)
    PROVE  IInv' /\ Settled(queue, queue')
<1>1. /\ WellFormed(queue, 2) /\ ValidQueue(queue)
      /\ \A x \in Executing(queue) : queue[x].run = RunOf(x)
  BY DEF IInv, QueueFits
<1>2. Works /\ id \in Executing(queue) /\ queue' = Released(queue, id)
  BY DEF Release
<1>3. Evolves(queue, queue')
  BY <1>1, <1>2, ReleasedEvolves
<1>4. \A x \in Executing(queue') : queue'[x].run = RunOf(x)
  BY <1>1, <1>3 DEF Evolves, SameClaims
<1> QED
  BY <1>2, <1>3, <1>4, WorkerStep DEF Evolves

LEMMA ReportTyped ==
    ASSUME IInv, NEW id \in Executing(queue), NEW result \in Reports(id)
    PROVE  result \in Result
<1>1. queue[id] \in Task
  BY DEF IInv, TypeOK, Executing
<1>2. <<>> \in Commit
  BY DEF Commit
<1>3. [sha : Shas, base : {<<>>}] \subseteq Candidate
  BY <1>2 DEF Candidate
<1>4. CASE Operation(id) = "ASSURANCE"
  BY <1>1, <1>4 DEF Reports, Outcomes, Result, Task
<1>5. CASE Operation(id) # "ASSURANCE"
  BY <1>3, <1>5 DEF Reports, Result
<1> QED
  BY <1>4, <1>5

LEMMA RecordStep ==
    ASSUME IInv, NEW id, Record(id)
    PROVE  IInv' /\ Settled(queue, queue')
<1>1. /\ WellFormed(queue, 2) /\ ValidQueue(queue)
      /\ \A x \in Executing(queue) : queue[x].run = RunOf(x)
  BY DEF IInv, QueueFits
<1>2. Works /\ id \in Executing(queue)
  BY DEF Record
<1>3. PICK result \in Reports(id) :
        /\ CanRecord(queue, id, result)
        /\ queue' = Recorded(queue, id, queue[id].run, result)
  BY DEF Record
<1>4. result \in Result /\ queue[id].run \in 1 .. 2
  BY <1>1, <1>2, ReportTyped DEF RunOf
<1>5. Evolves(queue, queue')
  BY <1>1, <1>2, <1>3, <1>4, RecordedEvolves
<1>6. \A x \in Executing(queue') : queue'[x].run = RunOf(x)
  BY <1>1, <1>5 DEF Evolves, SameClaims
<1> QED
  BY <1>2, <1>5, <1>6, WorkerStep DEF Evolves
-----------------------------------------------------------------------------
(* The owner, and the cutover. *)

LEMMA PublishStep ==
    ASSUME IInv, NEW r \in Repositories, Publish(r)
    PROVE  IInv'
<1>1. PICK open \in SUBSET {g \in OldGaps : GapRepository[g] = r} :
        main' = [main EXCEPT
                   !.revision[r] = @ + 1,
                   !.open = {g \in @ : GapRepository[g] # r} \cup open]
  BY DEF Publish
<1>2. phase = "V31" /\ UNCHANGED <<phase, queue, facts, frozen, v4>>
  BY DEF Publish
<1>3. main \in V31Missions
  BY DEF IInv, TypeOK
<1> DEFINE still == {g \in main.open : GapRepository[g] # r} \cup open
           later == [main.revision EXCEPT ![r] = main.revision[r] + 1]
<1>4. /\ main'.revision = later /\ main'.open = still
      /\ main'.depends = main.depends /\ main'.auto = main.auto
      /\ main' = [revision |-> later, open |-> still,
                  depends |-> main.depends, auto |-> main.auto]
  BY <1>1, <1>3 DEF V31Missions
<1>5. /\ later \in [Repositories -> Nat]
      /\ \A s \in Repositories : main.revision[s] <= later[s]
  BY <1>3 DEF V31Missions
<1>6. still \in SUBSET Gaps
  BY <1>3 DEF V31Missions, OldGaps
<1> HIDE DEF still, later
<1>7. main' \in V31Missions
  BY <1>3, <1>4, <1>5, <1>6 DEF V31Missions
<1>8. TypeOK'
  BY <1>2, <1>7 DEF IInv, TypeOK
<1>9. QueueFits'
  <2>1. ASSUME NEW id \in DOMAIN queue
        PROVE  Revision(id) <= later[Repository(id)]
    <3>1. id \in TaskId /\ Repository(id) \in Repositories
      BY TaskRepository DEF IInv, TypeOK
    <3>2. Revision(id) <= main.revision[Repository(id)]
      BY DEF IInv, QueueFits
    <3>3. Revision(id) \in Nat
      BY <3>1 DEF TaskId, Root, Revision
    <3>4. main.revision[Repository(id)] \in Nat /\ later[Repository(id)] \in Nat
      BY <1>3, <1>5, <3>1 DEF V31Missions
    <3> QED
      BY <1>5, <3>1, <3>2, <3>3, <3>4
  <2> QED
    BY <1>2, <1>4, <2>1 DEF IInv, QueueFits, Revision, Repository, Gap, RunOf,
                            Worker, Operation
<1>10. MissionsFit'
  BY <1>2, <1>4 DEF IInv, MissionsFit
<1>11. WorkFollowsDependencies'
  BY <1>2 DEF IInv, WorkFollowsDependencies, Completed, DoneInV4, Gap
<1> QED
  BY <1>2, <1>8, <1>9, <1>10, <1>11 DEF IInv, FinishedStaysFinished

\* The branch V4 starts with.
LEMMA CutOverBranch ==
    ASSUME IInv, NEW open \in SUBSET Gaps, NEW carry \in CarryForwards(open),
           v4' = [open |-> open, carry |-> carry,
                  tasks |-> Transformed(queue, open), lock |-> None]
    PROVE  /\ v4' = [open |-> v4'.open, carry |-> v4'.carry,
                     tasks |-> v4'.tasks, lock |-> v4'.lock]
           /\ v4'.open \subseteq Gaps
           /\ DOMAIN v4'.carry \subseteq Gaps \ v4'.open
           /\ \A g \in DOMAIN v4'.carry : v4'.carry[g] \in facts
           /\ DOMAIN v4'.tasks = QueuedGaps(queue) \cap v4'.open
           /\ \A g \in DOMAIN v4'.tasks : v4'.tasks[g] = "QUEUED"
           /\ v4'.lock = None
<1>1. /\ v4'.open = open /\ v4'.carry = carry
      /\ v4'.tasks = Transformed(queue, open) /\ v4'.lock = None
  OBVIOUS
<1>2. PICK targets \in SUBSET (Gaps \ open) : carry \in [targets -> facts]
  BY DEF CarryForwards
<1> QED
  BY <1>1, <1>2 DEF Transformed

LEMMA CutOverStep ==
    ASSUME IInv, CutOver
    PROVE  IInv'
<1>1. PICK open \in SUBSET Gaps : \E carry \in CarryForwards(open) :
        v4' = [open |-> open, carry |-> carry,
               tasks |-> Transformed(queue, open), lock |-> None]
  BY DEF CutOver
<1>2. /\ phase = "V31" /\ phase' = "V4" /\ facts # None
      /\ frozen' = [main |-> main, queue |-> queue]
      /\ UNCHANGED <<main, queue, facts>>
  BY DEF CutOver
<1>3. /\ v4' = [open |-> v4'.open, carry |-> v4'.carry,
                tasks |-> v4'.tasks, lock |-> v4'.lock]
      /\ v4'.open \subseteq Gaps
      /\ DOMAIN v4'.carry \subseteq Gaps \ v4'.open
      /\ DOMAIN v4'.tasks = QueuedGaps(queue) \cap v4'.open
      /\ \A g \in DOMAIN v4'.tasks : v4'.tasks[g] = "QUEUED"
      /\ v4'.lock = None
  BY <1>1, CutOverBranch
<1>4. TypeOK'
  BY <1>2, <1>3 DEF IInv, TypeOK, V4Status
<1>5. QueueFits'
  BY <1>2 DEF IInv, QueueFits, Revision, Repository, Gap, RunOf, Worker,
              Operation
<1>6. MissionsFit'
  BY <1>2 DEF IInv, MissionsFit
<1>7. WorkFollowsDependencies'
  <2>1. ASSUME NEW id \in DOMAIN queue, NEW d \in DependsOn[Gap(id)]
        PROVE  Completed(d)'
    <3>1. Completed(d)
      BY DEF IInv, WorkFollowsDependencies
    <3> QED
      BY <1>2, <3>1 DEF Completed, DoneInV4, Gap
  <2>2. ASSUME NEW g \in DOMAIN v4'.tasks, NEW d \in DependsOn[g]
        PROVE  Completed(d)'
    <3>1. PICK id \in DOMAIN queue : Gap(id) = g
      BY <1>3 DEF QueuedGaps
    <3> QED
      BY <2>1, <3>1
  <2> QED
    BY <1>2, <2>1, <2>2 DEF WorkFollowsDependencies, Gap
<1> QED
  BY <1>2, <1>4, <1>5, <1>6, <1>7 DEF IInv, FinishedStaysFinished

-----------------------------------------------------------------------------
(* V4. *)

LEMMA V4BranchStep ==
    ASSUME IInv, phase = "V4", UNCHANGED <<phase, main, queue, facts, frozen>>,
           v4' = [open |-> v4.open, carry |-> v4.carry,
                  tasks |-> v4'.tasks, lock |-> v4'.lock],
           DOMAIN v4'.tasks \subseteq v4.open,
           \A g \in DOMAIN v4'.tasks : v4'.tasks[g] \in V4Status,
           v4'.lock # None => /\ v4'.lock \in DOMAIN v4'.tasks
                              /\ v4'.tasks[v4'.lock] = "ACTIVE",
           \A g \in Done : g \in DOMAIN v4'.tasks /\ v4'.tasks[g] = "DONE",
           \A g \in DOMAIN v4'.tasks :
             \/ g \in DOMAIN v4.tasks
             \/ DependsOn[g] \subseteq Done \cup DOMAIN v4.carry
    PROVE  IInv'
<1>1. v4'.open = v4.open /\ v4'.carry = v4.carry
  OBVIOUS
<1>2. TypeOK'
  BY <1>1 DEF IInv, TypeOK
<1>3. QueueFits'
  BY DEF IInv, QueueFits, Revision, Repository, Gap, RunOf, Worker, Operation
<1>4. MissionsFit'
  BY DEF IInv, MissionsFit
<1>5. ASSUME NEW d, Completed(d)
      PROVE  Completed(d)'
  BY <1>1, <1>5 DEF Completed, DoneInV4, Done, Gap
<1>6. ASSUME NEW d \in Done \cup DOMAIN v4.carry
      PROVE  Completed(d)
  BY DEF Completed, DoneInV4
<1>7. WorkFollowsDependencies'
  BY <1>5, <1>6 DEF IInv, WorkFollowsDependencies, Gap
<1> QED
  BY <1>2, <1>3, <1>4, <1>7 DEF IInv, FinishedStaysFinished

LEMMA V4Steps ==
    ASSUME IInv, NEW g \in Gaps,
           Acquire(g) \/ Finish(g) \/ Materialize(g) \/ Yield
    PROVE  IInv'
<1>1. /\ phase = "V4"
      /\ UNCHANGED <<phase, main, queue, facts, frozen>>
  BY DEF Acquire, Finish, Materialize, Yield, V4Step
<1>2. /\ v4 = [open |-> v4.open, carry |-> v4.carry,
               tasks |-> v4.tasks, lock |-> v4.lock]
      /\ DOMAIN v4.tasks \subseteq v4.open
      /\ \A h \in DOMAIN v4.tasks : v4.tasks[h] \in V4Status
      /\ v4.lock # None => /\ v4.lock \in DOMAIN v4.tasks
                           /\ v4.tasks[v4.lock] = "ACTIVE"
  BY <1>1 DEF IInv, TypeOK
<1>3. CASE Acquire(g)
  <2> DEFINE held == [v4.tasks EXCEPT ![g] = "ACTIVE"]
  <2>1. v4' = [open |-> v4.open, carry |-> v4.carry,
               tasks |-> held, lock |-> g]
    BY <1>2, <1>3 DEF Acquire, V4Step
  <2>2. g \in DOMAIN v4.tasks /\ g \notin Done
    BY <1>3 DEF Acquire
  <2>3. /\ DOMAIN held = DOMAIN v4.tasks
        /\ held[g] = "ACTIVE"
        /\ \A h \in DOMAIN v4.tasks : h # g => held[h] = v4.tasks[h]
    BY <2>2
  <2> HIDE DEF held
  <2>4. v4'.tasks = held /\ v4'.lock = g
    BY <2>1
  <2> QED
    BY <1>1, <1>2, <2>1, <2>2, <2>3, <2>4, V4BranchStep DEF Done, V4Status
<1>4. CASE Finish(g)
  <2> DEFINE held == [v4.tasks EXCEPT ![g] = "DONE"]
  <2>1. v4' = [open |-> v4.open, carry |-> v4.carry,
               tasks |-> held, lock |-> v4.lock]
    BY <1>2, <1>4 DEF Finish, V4Step
  <2>2. g \in DOMAIN v4.tasks /\ v4.lock = None
    BY <1>4 DEF Finish
  <2>3. /\ DOMAIN held = DOMAIN v4.tasks
        /\ held[g] = "DONE"
        /\ \A h \in DOMAIN v4.tasks : h # g => held[h] = v4.tasks[h]
    BY <2>2
  <2> HIDE DEF held
  <2>4. v4'.tasks = held /\ v4'.lock = None
    BY <2>1, <2>2
  <2> QED
    BY <1>1, <1>2, <2>1, <2>2, <2>3, <2>4, V4BranchStep DEF Done, V4Status
<1>5. CASE Materialize(g)
  <2> DEFINE held == [h \in DOMAIN v4.tasks \cup {g} |->
                        IF h = g THEN "QUEUED" ELSE v4.tasks[h]]
  <2>1. v4' = [open |-> v4.open, carry |-> v4.carry,
               tasks |-> held, lock |-> v4.lock]
    BY <1>2, <1>5 DEF Materialize, V4Step
  <2>2. /\ g \in v4.open /\ g \notin DOMAIN v4.tasks
        /\ DependsOn[g] \subseteq Done \cup DOMAIN v4.carry
    BY <1>5 DEF Materialize
  <2>3. /\ DOMAIN held = DOMAIN v4.tasks \cup {g}
        /\ held[g] = "QUEUED"
        /\ \A h \in DOMAIN v4.tasks : held[h] = v4.tasks[h]
    BY <2>2
  <2> HIDE DEF held
  <2>4. v4'.tasks = held /\ v4'.lock = v4.lock
    BY <2>1
  <2> QED
    BY <1>1, <1>2, <2>1, <2>2, <2>3, <2>4, V4BranchStep DEF Done, V4Status
<1>6. CASE Yield
  <2>1. v4' = [open |-> v4.open, carry |-> v4.carry,
               tasks |-> v4.tasks, lock |-> None]
    BY <1>2, <1>6 DEF Yield, V4Step
  <2>2. v4'.tasks = v4.tasks /\ v4'.lock = None
    BY <2>1
  <2> QED
    BY <1>1, <1>2, <2>1, <2>2, V4BranchStep DEF Done
<1> QED
  BY <1>3, <1>4, <1>5, <1>6
-----------------------------------------------------------------------------
(* The rollback. *)

\* The Missions it writes.
LEMMA RolledMissions ==
    ASSUME IInv, RollBack
    PROVE  /\ main' \in V31Missions
           /\ \A r \in Repositories :
                main'.revision[r] = frozen.main.revision[r] + 1
           /\ main'.open = Reopened
           /\ \A g \in Reopened : main'.depends[g] = Normalized(g)
<1> DEFINE before == frozen.main
           later == [r \in Repositories |-> before.revision[r] + 1]
           normal == [g \in Gaps |-> IF g \in Reopened THEN Normalized(g)
                                     ELSE before.depends[g]]
<1>1. before \in V31Missions
  BY DEF RollBack, IInv, TypeOK
<1>2. main' = [before EXCEPT
                 !.revision = [r \in Repositories |-> @[r] + 1],
                 !.open = Reopened,
                 !.depends = [g \in Gaps |->
                                IF g \in Reopened THEN Normalized(g) ELSE @[g]]]
  BY DEF RollBack
<1> HIDE DEF before
<1>3. main' = [before EXCEPT !.revision = later, !.open = Reopened,
                             !.depends = normal]
  BY <1>2
<1>4. later \in [Repositories -> Nat]
  BY <1>1 DEF V31Missions
<1>5. Reopened \in SUBSET Gaps
  BY DEF Reopened, OldGaps
<1>6. normal \in [Gaps -> SUBSET Gaps]
  <2>1. \A g \in Gaps : Normalized(g) \in SUBSET Gaps
    BY GapsAssumption DEF Normalized
  <2>2. \A g \in Gaps : before.depends[g] \in SUBSET Gaps
    BY <1>1 DEF V31Missions
  <2> QED
    BY <2>1, <2>2
<1>7. \A g \in Reopened : normal[g] = Normalized(g)
  BY <1>5
<1>8. \A r \in Repositories : later[r] = before.revision[r] + 1
  OBVIOUS
<1> HIDE DEF later, normal
<1>9. /\ main' \in V31Missions /\ main'.revision = later
      /\ main'.open = Reopened /\ main'.depends = normal
  BY <1>1, <1>3, <1>4, <1>5, <1>6 DEF V31Missions
<1> QED
  BY <1>7, <1>8, <1>9 DEF before

LEMMA RollBackStep ==
    ASSUME IInv, RollBack
    PROVE  IInv'
<1>1. /\ phase = "V4" /\ phase' = "ROLLED"
      /\ UNCHANGED <<facts, frozen, v4>>
      /\ facts # None
      /\ frozen.main = main /\ frozen.queue = queue
      /\ main \in V31Missions
  BY DEF RollBack, IInv, TypeOK, MissionsFit
<1>2. /\ main' \in V31Missions
      /\ \A r \in Repositories : main'.revision[r] = frozen.main.revision[r] + 1
      /\ main'.open = Reopened
      /\ \A g \in Reopened : main'.depends[g] = Normalized(g)
  BY RolledMissions
<1>3. /\ DOMAIN queue' \subseteq DOMAIN queue
      /\ \A id \in DOMAIN queue' : /\ queue'[id] = queue[id]
                                   /\ queue[id].status = "TERMINAL"
      /\ \A id \in DOMAIN queue :
           queue[id].status = "TERMINAL" => id \in DOMAIN queue'
  BY <1>1 DEF RollBack, Preserved
<1>4. TypeOK'
  BY <1>1, <1>2, <1>3 DEF IInv, TypeOK
<1>5. \A id \in DOMAIN queue :
        /\ id \in TaskId
        /\ Revision(id) \in Nat
        /\ main.revision[Repository(id)] \in Nat
        /\ Revision(id) <= main.revision[Repository(id)]
        /\ main'.revision[Repository(id)] = main.revision[Repository(id)] + 1
  BY <1>1, <1>2, TaskRepository DEF IInv, TypeOK, QueueFits, V31Missions,
                                    TaskId, Root, Revision
<1>6. QueueFits'
  <2>1. Executing(queue') = {}
    BY <1>3 DEF Executing
  <2>2. WellFormed(queue', 2)
    BY <1>3 DEF IInv, QueueFits, WellFormed
  <2>3. ValidQueue(queue')
    BY <2>1 DEF ValidQueue
  <2>4. \A id \in DOMAIN queue' : Revision(id) <= main'.revision[Repository(id)]
    BY <1>3, <1>5
  <2>5. facts' # None
    BY <1>1
  <2> QED
    BY <2>1, <2>2, <2>3, <2>4, <2>5 DEF QueueFits, Revision, Repository, Gap
<1>7. MissionsFit'
  <2>1. Reopened' = Reopened
    BY <1>1 DEF Reopened, Satisfied, FrozenRoot, Done
  <2>2. \A g \in Gaps : Normalized(g)' = Normalized(g)
    BY <1>1 DEF Normalized, Satisfied, FrozenRoot, Done
  <2>3. Reopened \subseteq Gaps
    BY DEF Reopened, OldGaps
  <2>4. /\ main'.open = Reopened'
        /\ \A g \in Reopened' : main'.depends[g] = Normalized(g)'
    BY <1>2, <2>1, <2>2, <2>3
  <2> QED
    BY <1>1, <2>4 DEF MissionsFit
<1>8. WorkFollowsDependencies'
  <2>1. ASSUME NEW d, Completed(d)
        PROVE  Completed(d)'
    <3>1. CASE \/ \E root \in facts : root.gap = d
               \/ DoneInV4(d)
               \/ phase # "V31" /\ d \in DOMAIN v4.carry
      BY <1>1, <3>1 DEF Completed, DoneInV4, Done
    <3>2. ASSUME NEW id \in DOMAIN queue,
                 Gap(id) = d, queue[id].integration = "MERGED"
          PROVE  Completed(d)'
      <4>1. queue[id].status = "TERMINAL"
        BY <3>2, GapsAssumption DEF IInv, QueueFits, WellFormed, TaskOK
      <4>2. id \in DOMAIN queue' /\ queue'[id].integration = "MERGED"
        BY <1>3, <3>2, <4>1
      <4> QED
        BY <3>2, <4>2 DEF Completed, Gap
    <3> QED
      BY <2>1, <3>1, <3>2 DEF Completed
  <2>2. \A id \in DOMAIN queue' : \A d \in DependsOn[Gap(id)] : Completed(d)'
    BY <1>3, <2>1 DEF IInv, WorkFollowsDependencies
  <2> QED
    BY <1>1, <2>2 DEF WorkFollowsDependencies, Gap
<1>9. FinishedStaysFinished'
  <2>1. \A id \in DOMAIN queue' :
          ~(Revision(id) > frozen'.main.revision[Repository(id)])
    BY <1>1, <1>3, <1>5
  <2> QED
    BY <2>1 DEF FinishedStaysFinished, Revision, Repository, Gap
<1> QED
  BY <1>4, <1>6, <1>7, <1>8, <1>9 DEF IInv

-----------------------------------------------------------------------------
(* Every step. *)

LEMMA Begins ==
    ASSUME Init
    PROVE  IInv
<1>1. DOMAIN queue = {}
  BY DEF Init
<1>2. main \in V31Missions
  <2>1. [r \in Repositories |-> 1] \in [Repositories -> Nat]
    OBVIOUS
  <2>2. DependsOn \in [Gaps -> SUBSET Gaps]
    BY GapsAssumption
  <2>3. OldGaps \in SUBSET Gaps
    BY DEF OldGaps
  <2> QED
    BY <2>1, <2>2, <2>3 DEF Init, V31Missions
<1>3. main.depends = DependsOn
  BY DEF Init
<1> QED
  BY <1>1, <1>2, <1>3
  DEF Init, IInv, TypeOK, QueueFits, WellFormed, ValidQueue, Executing,
      MissionsFit, WorkFollowsDependencies, FinishedStaysFinished

LEMMA KernelStep ==
    ASSUME IInv,
           Tick \/ \E id \in DOMAIN queue : Claim(id) \/ Release(id) \/ Record(id)
    PROVE  IInv' /\ Settled(queue, queue')
BY TickStep, ClaimStep, ReleaseStep, RecordStep

LEMMA Invariance ==
    ASSUME IInv, [Next]_vars
    PROVE  IInv'
<1>1. CASE Tick \/ \E id \in DOMAIN queue :
                     Claim(id) \/ Release(id) \/ Record(id)
  BY <1>1, KernelStep
<1>2. CASE \E r \in Repositories : Publish(r)
  BY <1>2, PublishStep
<1>3. CASE CutOver
  BY <1>3, CutOverStep
<1>4. CASE \E g \in Gaps : Acquire(g) \/ Finish(g) \/ Materialize(g)
  BY <1>4, V4Steps
<1>5. CASE Yield
  <2>1. v4.lock \in Gaps
    BY <1>5 DEF Yield, IInv, TypeOK
  <2> QED
    BY <1>5, <2>1, V4Steps
<1>6. CASE RollBack
  BY <1>6, RollBackStep
<1>7. CASE UNCHANGED vars
  BY <1>7 DEF vars, IInv, TypeOK, QueueFits, MissionsFit,
              WorkFollowsDependencies, FinishedStaysFinished, Revision,
              Repository, Gap, RunOf, Worker, Operation, Reopened, Normalized,
              Satisfied, FrozenRoot, Done, DoneInV4, Completed
<1> QED
  BY <1>1, <1>2, <1>3, <1>4, <1>5, <1>6, <1>7 DEF Next

THEOREM Invariant == Spec => []IInv
<1>1. Init => IInv
  BY Begins
<1>2. IInv /\ [Next]_vars => IInv'
  BY Invariance
<1> QED
  BY <1>1, <1>2, PTL DEF Spec

\* What V3.1, V4 and the rollback leave in the branches has the right form.
THEOREM Typed == Spec => []TypeOK
<1>1. IInv => TypeOK
  BY DEF IInv
<1> QED
  BY <1>1, Invariant, PTL

\* A gap is worked on only when what it depends on is finished, whichever
\* control plane took it up.
THEOREM WorkFollows == Spec => []WorkFollowsDependencies
<1>1. IInv => WorkFollowsDependencies
  BY DEF IInv
<1> QED
  BY <1>1, Invariant, PTL

\* What is finished is not fed again after the rollback.
THEOREM NothingIsRedone == Spec => []FinishedStaysFinished
<1>1. IInv => FinishedStaysFinished
  BY DEF IInv
<1> QED
  BY <1>1, Invariant, PTL

\* What the cutover took out of the V3.1 queue, or V4 left unfinished, is open
\* again after the rollback, and so is all it waits for.
THEOREM UnfinishedIsOpen == Spec => []UnfinishedComesBack
<1>1. IInv => UnfinishedComesBack
  <2> SUFFICES ASSUME IInv, phase = "ROLLED"
               PROVE  /\ \A g \in OldGaps :
                           \/ g \in QueuedGaps(frozen.queue)
                                /\ g \notin DOMAIN v4.tasks
                           \/ g \in DOMAIN v4.tasks /\ g \notin Done
                           => g \in main.open \/ FrozenRoot(g) \in facts
                      /\ \A g \in main.open : main.depends[g] \subseteq main.open
    BY DEF UnfinishedComesBack
  <2>1. /\ main.open = Reopened
        /\ \A g \in Reopened : main.depends[g] = Normalized(g)
    BY DEF IInv, MissionsFit
  <2>2. ASSUME NEW g \in OldGaps, g \notin Done
        PROVE  g \in main.open \/ FrozenRoot(g) \in facts
    BY <2>1, <2>2 DEF Reopened, Satisfied
  <2>3. ASSUME NEW g \in Reopened
        PROVE  Normalized(g) \subseteq Reopened
    <3>1. DependsOn[g] \subseteq OldGaps
      BY GapsAssumption, NewGapsAssumption DEF Reopened, OldGaps
    <3> QED
      BY <3>1 DEF Normalized, Reopened
  <2> QED
    BY <2>1, <2>2, <2>3 DEF Done
<1> QED
  BY <1>1, Invariant, PTL

-----------------------------------------------------------------------------
(* Steps. *)

\* The cutover drops no queued work without a fact that accounts for it.
THEOREM QueuedWorkIsKept == Spec => QueuedWorkSurvives
<1>1. ASSUME IInv, [Next]_vars, phase = "V31", phase' = "V4",
             NEW g \in QueuedGaps(queue)
      PROVE  \/ g \in DOMAIN v4'.tasks
             \/ g \in DOMAIN v4'.carry /\ v4'.carry[g] \in facts'
  <2>1. CutOver
    BY <1>1 DEF Next, vars, Tick, Claim, Release, Record, Works, V31Runs,
                Publish, Acquire, Finish, Materialize, Yield, V4Step, RollBack
  <2>2. facts' = facts
    BY <2>1 DEF CutOver
  <2>3. PICK open \in SUBSET Gaps : \E carry \in CarryForwards(open) :
          /\ AccountedFor(QueuedGaps(queue), open, carry)
          /\ v4' = [open |-> open, carry |-> carry,
                    tasks |-> Transformed(queue, open), lock |-> None]
    BY <2>1 DEF CutOver
  <2>4. PICK carry \in CarryForwards(open) :
          /\ AccountedFor(QueuedGaps(queue), open, carry)
          /\ v4' = [open |-> open, carry |-> carry,
                    tasks |-> Transformed(queue, open), lock |-> None]
    BY <2>3
  <2>5. /\ v4'.open = open /\ v4'.carry = carry
        /\ \A h \in DOMAIN v4'.carry : v4'.carry[h] \in facts
        /\ DOMAIN v4'.tasks = QueuedGaps(queue) \cap v4'.open
    BY <1>1, <2>4, CutOverBranch
  <2>6. g \in open \/ g \in DOMAIN carry
    BY <2>4 DEF AccountedFor
  <2> QED
    BY <2>2, <2>5, <2>6
<1>2. ASSUME IInv, [Next]_vars
      PROVE  phase = "V31" /\ phase' = "V4" =>
               \A g \in QueuedGaps(queue) :
                 \/ g \in DOMAIN v4'.tasks
                 \/ g \in DOMAIN v4'.carry /\ v4'.carry[g] \in facts'
  BY <1>1, <1>2
<1> QED
  BY <1>2, Invariant, PTL DEF Spec, QueuedWorkSurvives

\* A settled result is the same after a command of the kernel.
LEMMA SettledResult ==
    ASSUME IInv, IInv', Settled(queue, queue'), NEW id \in DOMAIN queue,
           queue[id].status = "TERMINAL"
    PROVE  /\ id \in DOMAIN queue'
           /\ queue'[id].outcome = queue[id].outcome
           /\ queue'[id].candidate = queue[id].candidate
<1>1. /\ id \in DOMAIN queue'
      /\ queue[id] \in Task /\ queue'[id] \in Task
      /\ [queue'[id] EXCEPT !.integration = None]
           = [queue[id] EXCEPT !.integration = None]
  BY DEF Settled, IInv, TypeOK
<1> QED
  BY <1>1 DEF Task

\* No command of either control plane, nor the way between them, loses or
\* changes a result or a fact of V3.1.
THEOREM ResultsAreKept == Spec => ResultsSurvive
<1>1. ASSUME IInv, IInv', [Next]_vars
      PROVE  /\ facts # None => facts' = facts
             /\ \A id \in DOMAIN queue :
                  queue[id].status = "TERMINAL" =>
                    /\ id \in DOMAIN queue'
                    /\ queue'[id].outcome = queue[id].outcome
                    /\ queue'[id].candidate = queue[id].candidate
  <2>1. facts # None => facts' = facts
    BY <1>1 DEF Next, vars, Tick, Claim, Release, Record, Works, V31Runs,
                Publish, CutOver, Acquire, Finish, Materialize, Yield, V4Step,
                RollBack
  <2>2. CASE Tick \/ \E id \in DOMAIN queue :
                       Claim(id) \/ Release(id) \/ Record(id)
    BY <1>1, <2>1, <2>2, KernelStep, SettledResult
  <2>3. CASE RollBack
    <3>1. frozen.queue = queue
      BY <1>1, <2>3 DEF RollBack, IInv, MissionsFit
    <3>2. \A id \in DOMAIN queue :
            queue[id].status = "TERMINAL" =>
              id \in DOMAIN queue' /\ queue'[id] = queue[id]
      BY <2>3, <3>1 DEF RollBack, Preserved
    <3> QED
      BY <2>1, <3>2
  <2>4. CASE queue' = queue
    BY <2>1, <2>4
  <2> QED
    BY <1>1, <2>2, <2>3, <2>4
    DEF Next, vars, Publish, CutOver, Acquire, Finish, Materialize, Yield,
        V4Step
<1> QED
  BY <1>1, Invariant, PTL DEF Spec, ResultsSurvive
=============================================================================
