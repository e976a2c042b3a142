--------------------------- MODULE ReviewRotation ---------------------------
(***************************************************************************)
(* The job of scripts/control_v4_review_resume.py, which looks for pending *)
(* external reviews that have been answered.  It has no cursor: which      *)
(* repository it reads and which batch of its tasks follow from the hour.  *)
(*                                                                         *)
(* The job has two steps.  The first picks the repository the read token   *)
(* is minted for; the second, with a later look at the queue and at the    *)
(* clock, picks the batch and examines it in order.  Jobs do not overlap   *)
(* (the workflow has a concurrency group for them).  Meanwhile the other   *)
(* jobs change the queue.                                                  *)
(*                                                                         *)
(* Tasks are numbered in list order, repositories in sorted order.  The    *)
(* clock counts hours modulo Period, of which every rotation is a divisor. *)
(***************************************************************************)
EXTENDS Naturals, FiniteSets, FiniteSetTheorems, TLAPS

CONSTANTS
    NumTasks,          \* tasks of the queue
    NumRepositories,   \* their repositories
    Repository,        \* task -> its repository
    BatchSize,         \* tasks examined by one job
    Period,            \* bound: hours after which everything repeats
    None               \* no lock, or no repository

Tasks == 1 .. NumTasks
Repositories == 1 .. NumRepositories

ASSUME RotationAssumption ==
    /\ NumTasks \in Nat
    /\ NumRepositories \in Nat
    /\ Repository \in [Tasks -> Repositories]
    /\ BatchSize \in Nat \ {0}
    /\ Period \in Nat \ {0}
    /\ \A r, m \in Repositories :
         \A n \in 1 .. Cardinality({t \in Tasks : Repository[t] = r}) :
           Period % (m * n) = 0
    /\ None \notin Repositories

VARIABLES
    hour,       \* the clock
    eligible,   \* tasks that wait for the answer to an external review
    lock,       \* the execution lock
    stage,      \* of the job
    chosen,     \* the repository picked by the job
    examined,   \* tasks examined by the last job
    result,     \* what the last job published
    done        \* whether a job has ended in this hour

vars == <<hour, eligible, lock, stage, chosen, examined, result, done>>

Lock == [task : Tasks, live : BOOLEAN]

TypeOK ==
    /\ hour \in 0 .. Period - 1
    /\ eligible \subseteq Tasks
    /\ lock \in Lock \cup {None}
    /\ stage \in {"idle", "scoped"}
    /\ chosen \in Repositories \cup {None}
    /\ examined \subseteq Tasks
    /\ result \in {"BUSY", "READY", "PENDING", "NO_WORK", "REJECTED"}
    /\ done \in BOOLEAN

Init ==
    /\ hour = 0
    /\ eligible = {}
    /\ lock = None
    /\ stage = "idle"
    /\ chosen = None
    /\ examined = {}
    /\ result = "NO_WORK"
    /\ done = FALSE

-----------------------------------------------------------------------------
(* The rotation. *)

\* Another task is held, or the holder is alive.
Busy == lock # None /\ (lock.task \notin eligible \/ lock.live)

\* With a lock that has run out, its task only.
Pending == IF lock = None THEN eligible ELSE {lock.task}

RepositoriesOf(tasks) == {Repository[t] : t \in tasks}

\* The position of x in the sorted list of a set.
Position(x, S) == Cardinality({y \in S : y < x})

\* Mutant: the place in the list is taken for the repository.
SelectedRepositoryMutant ==
    hour % Cardinality(RepositoriesOf(Pending))

SelectedRepository ==
    LET waiting == RepositoriesOf(Pending)
    IN  CHOOSE r \in waiting :
          Position(r, waiting) = hour % Cardinality(waiting)

\* Mutant: every batch starts with the first task.
CycleMutant(repositories) == 0

\* The rounds of all repositories so far.
Cycle(repositories) == hour \div repositories

\* Mutant: without a scope every repository is read.
InScopeMutant(tasks, repo) ==
    IF repo = None THEN tasks ELSE {t \in tasks : Repository[t] = repo}

InScope(tasks, repo) == {t \in tasks : Repository[t] = repo}

\* The place of each task of a repository in the round: the batch is those
\* with a place below BatchSize.
Place(t, tasks, cycle) ==
    LET n == Cardinality(tasks)
        offset == (cycle * BatchSize) % n
    IN  (Position(t, tasks) + n - offset) % n

Batch ==
    LET tasks == InScope(Pending, chosen)
        cycle == Cycle(Cardinality(RepositoriesOf(Pending)))
    IN  {t \in tasks : Place(t, tasks, cycle) < BatchSize}

\* The tasks of the batch up to t.
BatchUpTo(t) ==
    LET tasks == InScope(Pending, chosen)
        cycle == Cycle(Cardinality(RepositoriesOf(Pending)))
    IN  {u \in Batch : Place(u, tasks, cycle) <= Place(t, tasks, cycle)}

-----------------------------------------------------------------------------
(* The job. *)

Scope ==
    /\ stage = "idle"
    /\ stage' = "scoped"
    /\ chosen' = IF Busy \/ Pending = {} THEN None ELSE SelectedRepository
    /\ UNCHANGED <<hour, eligible, lock, examined, result, done>>

Ends(outcome, tasks) ==
    /\ stage = "scoped"
    /\ stage' = "idle"
    /\ chosen' = None
    /\ examined' = tasks
    /\ result' = outcome
    /\ done' = TRUE
    /\ UNCHANGED hour

\* Nothing of the batch has been answered with a PASS.
FindsNoPass ==
    /\ ~Busy
    /\ Ends(IF Batch = {} THEN "NO_WORK" ELSE "PENDING", Batch)
    /\ UNCHANGED <<eligible, lock>>

\* The first task that can be finished is, in the write that drops its lock.
Completes(t) ==
    /\ ~Busy
    /\ t \in Batch
    /\ Ends("READY", BatchUpTo(t))
    /\ eligible' = eligible \ {t}
    /\ lock' = None

\* The write that would finish t loses the race for the branches.
LosesRace(t) ==
    /\ ~Busy
    /\ t \in Batch
    /\ Ends("REJECTED", BatchUpTo(t))
    /\ UNCHANGED <<eligible, lock>>

FindsBusy ==
    /\ Busy
    /\ Ends("BUSY", {})
    /\ UNCHANGED <<eligible, lock>>

\* The runtime is disabled, or its state cannot be loaded.
IsRefused ==
    /\ Ends("REJECTED", {})
    /\ UNCHANGED <<eligible, lock>>

Review ==
    \/ FindsNoPass
    \/ \E t \in Tasks : Completes(t) \/ LosesRace(t)
    \/ FindsBusy
    \/ IsRefused

-----------------------------------------------------------------------------
(* The world around the job. *)

\* A task comes to wait for an answer, or no longer does.
TaskChanges(t) ==
    /\ eligible' = IF t \in eligible THEN eligible \ {t} ELSE eligible \cup {t}
    /\ UNCHANGED <<hour, lock, stage, chosen, examined, result, done>>

\* The lock is acquired, runs out, or is released.
LockChanges ==
    /\ lock' \in Lock \cup {None}
    /\ lock' # lock
    /\ UNCHANGED <<hour, eligible, stage, chosen, examined, result, done>>

HourPasses ==
    /\ hour' = (hour + 1) % Period
    /\ done' = FALSE
    /\ UNCHANGED <<eligible, lock, stage, chosen, examined, result>>

Others == LockChanges \/ \E t \in Tasks : TaskChanges(t)

Next == Scope \/ Review \/ Others \/ HourPasses

Spec == Init /\ [][Next]_vars

\* A job ends within the hour in which it has begun ...
InTime == HourPasses /\ stage = "idle"

\* ... and there is one in every hour, ...
PunctualSpec ==
    /\ Init
    /\ [][Scope \/ Review \/ Others \/ (InTime /\ done)]_vars
    /\ SF_vars(InTime /\ done) /\ WF_vars(Scope) /\ WF_vars(Review)

\* ... or jobs are dropped, or started by hand, but there always is another.
DroppingSpec ==
    /\ Init
    /\ [][Scope \/ Review \/ Others \/ InTime]_vars
    /\ SF_vars(InTime) /\ SF_vars(Scope) /\ WF_vars(Review)

-----------------------------------------------------------------------------
(* Properties. *)

\* Whatever happens to the queue between its steps, a job examines only tasks
\* of the repository its token was minted for, and none if there was none: an
\* empty scope is not the local invocation without one.
TokenCoversReads ==
    [][stage = "scoped" /\ stage' = "idle" =>
         \A t \in examined' : Repository[t] = chosen]_vars

\* A review task t that waits while the waiting ones do not change, no holder
\* keeps the job out and it is not always turned away, is examined for ever.
Visited(t) ==
    \/ []<>(t \in examined)
    \/ []<>(t \notin eligible)
    \/ []<>(lock # None)
    \/ []<>(result = "REJECTED")
    \/ []<><<eligible' # eligible>>_vars

\* The README: "Repository rotation therefore cannot permanently starve later
\* batches; no persistent cursor is required."  With a job in every hour.
NoBatchStarves == \A t \in Tasks : Visited(t)

\* PUBLIC_PRIVATE_BOUNDARY_V4: "Cron delays/dropped runs are retried by
\* ordinary later state reads".  If the same hours are dropped again and again
\* some repository never has its turn.
DroppedRunsAreRetried == \A t \in Tasks : Visited(t)
-----------------------------------------------------------------------------
(* For every queue, every number of repositories and every batch size, and *)
(* whatever happens between the two steps of the review job.               *)

\* In a finite set of numbers every position is taken, by one member: the
\* rotation always finds its repository.
LEMMA EveryPosition ==
    ASSUME NEW S \in SUBSET Nat, IsFiniteSet(S),
           NEW k \in 0 .. Cardinality(S) - 1
    PROVE  \E x \in S : Position(x, S) = k
<1> DEFINE below(x) == {y \in S : y < x}
           places == 0 .. Cardinality(S) - 1
           f == [x \in S |-> Position(x, S)]
<1>1. Cardinality(S) \in Nat
  BY FS_CardinalityType
<1>2. ASSUME NEW x \in S
      PROVE  /\ IsFiniteSet(below(x))
             /\ Position(x, S) = Cardinality(below(x))
             /\ Position(x, S) \in places
  <2>1. below(x) \in SUBSET S /\ below(x) # S
    OBVIOUS
  <2>2. /\ IsFiniteSet(below(x))
        /\ Cardinality(below(x)) <= Cardinality(S)
        /\ Cardinality(S) # Cardinality(below(x))
    BY <2>1, FS_Subset
  <2>3. Cardinality(below(x)) \in Nat
    BY <2>2, FS_CardinalityType
  <2>4. Position(x, S) = Cardinality(below(x))
    BY DEF Position
  <2> HIDE DEF below
  <2> QED
    BY <1>1, <2>2, <2>3, <2>4
<1>3. ASSUME NEW x \in S, NEW y \in S, x < y
      PROVE  Position(x, S) # Position(y, S)
  <2>1. below(x) \in SUBSET below(y)
    <3>1. \A z \in S : z < x => z < y
      BY <1>3
    <3> QED
      BY <3>1
  <2>2. x \in below(y) /\ x \notin below(x)
    BY <1>3
  <2>3. Cardinality(below(x)) # Cardinality(below(y))
    BY <1>2, <2>1, <2>2, FS_Subset
  <2> QED
    BY <1>2, <2>3
<1>4. \A x, y \in S : x # y => Position(x, S) # Position(y, S)
  <2>1. ASSUME NEW x \in S, NEW y \in S, x # y
        PROVE  x < y \/ y < x
    BY <2>1
  <2> QED
    BY <1>3, <2>1
<1>5. f \in Injection(S, places)
  BY <1>2, <1>4 DEF Injection, IsInjective
<1>6. IsFiniteSet(places) /\ Cardinality(places) = Cardinality(S)
  BY <1>1, FS_Interval
<1>7. f \in Surjection(S, places)
  BY <1>5, <1>6, FS_Injection
<1> QED
  BY <1>7 DEF Surjection

\* The tasks that count, and their repositories, of which one is selected.
LEMMA SelectedIsWaiting ==
    ASSUME TypeOK
    PROVE  /\ Pending \in SUBSET Tasks
           /\ Pending # {} => SelectedRepository \in Repositories
<1> DEFINE waiting == RepositoriesOf(Pending)
<1>1. Pending \in SUBSET Tasks
  BY DEF TypeOK, Pending, Lock
<1>2. waiting \in SUBSET Repositories
  BY <1>1, RotationAssumption DEF RepositoriesOf
<1>3. waiting \in SUBSET Nat /\ IsFiniteSet(waiting)
  <2>1. IsFiniteSet(Repositories)
    BY RotationAssumption, FS_Interval DEF Repositories
  <2>2. Repositories \in SUBSET Nat
    BY RotationAssumption DEF Repositories
  <2> QED
    BY <1>2, <2>1, <2>2, FS_Subset
<1>4. ASSUME Pending # {}
      PROVE  SelectedRepository \in Repositories
  <2>1. waiting # {}
    BY <1>4 DEF RepositoriesOf
  <2>2. Cardinality(waiting) \in Nat \ {0}
    BY <1>3, <2>1, FS_EmptySet, FS_CardinalityType
  <2>3. hour \in Nat
    BY RotationAssumption DEF TypeOK
  <2>4. hour % Cardinality(waiting) \in 0 .. Cardinality(waiting) - 1
    BY <2>2, <2>3
  <2> HIDE DEF waiting
  <2>5. \E r \in waiting :
          Position(r, waiting) = hour % Cardinality(waiting)
    BY <1>3, <2>4, EveryPosition
  <2>6. (CHOOSE r \in waiting :
           Position(r, waiting) = hour % Cardinality(waiting)) \in waiting
    BY <2>5
  <2> QED
    BY <1>2, <2>6 DEF SelectedRepository, waiting
<1> QED
  BY <1>1, <1>4

LEMMA BatchTyped ==
    ASSUME TypeOK
    PROVE  Batch \subseteq Tasks
BY SelectedIsWaiting DEF Batch, InScope

LEMMA ReviewTyped ==
    ASSUME TypeOK, Review
    PROVE  TypeOK'
<1>1. Batch \subseteq Tasks
  BY BatchTyped
<1>2. \A t \in Tasks : BatchUpTo(t) \subseteq Tasks
  BY <1>1 DEF BatchUpTo
<1> HIDE DEF Batch
<1>3. CASE FindsNoPass
  BY <1>1, <1>3 DEF FindsNoPass, Ends, TypeOK
<1>4. CASE \E t \in Tasks : Completes(t) \/ LosesRace(t)
  BY <1>2, <1>4 DEF Completes, LosesRace, Ends, TypeOK
<1>5. CASE FindsBusy \/ IsRefused
  BY <1>5 DEF FindsBusy, IsRefused, Ends, TypeOK
<1> QED
  BY <1>3, <1>4, <1>5 DEF Review

\* The variables stay in their sets; above all, the place the hour names is
\* always that of a waiting repository.
THEOREM Typed == Spec => []TypeOK
<1>1. Init => TypeOK
  <2>1. 0 \in 0 .. Period - 1
    BY RotationAssumption
  <2> QED
    BY <2>1 DEF Init, TypeOK
<1>2. TypeOK /\ [Next]_vars => TypeOK'
  <2> SUFFICES ASSUME TypeOK, [Next]_vars
               PROVE  TypeOK'
    OBVIOUS
  <2>1. CASE Scope
    BY <2>1, SelectedIsWaiting DEF Scope, TypeOK
  <2>2. CASE Review
    BY <2>2, ReviewTyped
  <2>3. CASE Others
    BY <2>3 DEF Others, LockChanges, TaskChanges, TypeOK
  <2>4. CASE HourPasses
    <3>1. (hour + 1) % Period \in 0 .. Period - 1
      BY RotationAssumption DEF TypeOK
    <3> QED
      BY <2>4, <3>1 DEF HourPasses, TypeOK
  <2>5. CASE UNCHANGED vars
    BY <2>5 DEF vars, TypeOK
  <2> QED
    BY <2>1, <2>2, <2>3, <2>4, <2>5 DEF Next
<1> QED
  BY <1>1, <1>2, PTL DEF Spec

\* A batch is in the scope of the job; with no repository chosen it holds
\* only tasks without one, that is, none.
LEMMA BatchInScope ==
    ASSUME NEW t \in Batch
    PROVE  Repository[t] = chosen
BY DEF Batch, InScope

\* However a job ends, it has examined a part of its batch.
LEMMA ReviewExamines ==
    ASSUME Review
    PROVE  \A t \in examined' : Repository[t] = chosen
<1>1. CASE FindsNoPass
  BY <1>1, BatchInScope DEF FindsNoPass, Ends
<1>2. ASSUME NEW t \in Tasks, Completes(t) \/ LosesRace(t)
      PROVE  \A u \in examined' : Repository[u] = chosen
  <2>1. examined' = BatchUpTo(t)
    BY <1>2 DEF Completes, LosesRace, Ends
  <2>2. BatchUpTo(t) \subseteq Batch
    BY DEF BatchUpTo
  <2> QED
    BY <2>1, <2>2, BatchInScope
<1>3. CASE FindsBusy \/ IsRefused
  BY <1>3 DEF FindsBusy, IsRefused, Ends
<1> QED
  BY <1>1, <1>2, <1>3 DEF Review

\* The second step reads the queue and the clock anew, but never leaves the
\* repository its token was minted for in the first.
THEOREM ReadsAreCovered == Spec => TokenCoversReads
<1>1. ASSUME [Next]_vars, stage = "scoped", stage' = "idle"
      PROVE  \A t \in examined' : Repository[t] = chosen
  <2>1. CASE Review
    BY <2>1, ReviewExamines
  <2>2. CASE Scope
    BY <1>1, <2>2 DEF Scope
  <2>3. CASE Others \/ HourPasses
    BY <1>1, <2>3 DEF Others, LockChanges, TaskChanges, HourPasses
  <2>4. CASE UNCHANGED vars
    BY <1>1, <2>4 DEF vars
  <2> QED
    BY <1>1, <2>1, <2>2, <2>3, <2>4 DEF Next
<1> QED
  BY <1>1, PTL DEF Spec, TokenCoversReads
=============================================================================
