-------------------------- MODULE KernelV31Proofs --------------------------
(***************************************************************************)
(* The V3.1 kernel for every number of invocations, claims, gaps,          *)
(* repositories and pull requests, without the bounds of the model         *)
(* checking: first the invariant of every state; from it what a write      *)
(* stands to what was before, the claims, facts and result files; at last  *)
(* the chains of work.                                                     *)
(***************************************************************************)
EXTENDS KernelV31, KernelQueueProofs, FiniteSetTheorems

-----------------------------------------------------------------------------
(* Sequences. *)

LEMMA AppendIsLonger ==
    ASSUME NEW S, NEW s \in Seq(S), NEW t \in Seq(S), NEW e \in S,
           IsPrefix(s, t)
    PROVE  IsPrefix(s, Append(t, e))
<1>1. /\ Len(s) \in Nat /\ Len(t) \in Nat
      /\ Append(t, e) \in Seq(S)
      /\ Len(Append(t, e)) = Len(t) + 1
      /\ \A i \in 1 .. Len(t) : Append(t, e)[i] = t[i]
  BY AppendProperties, LenProperties
<1>2. /\ Len(s) <= Len(t)
      /\ SubSeq(s, 1, Len(s)) = SubSeq(t, 1, Len(s))
  BY DEF IsPrefix
<1>3. /\ SubSeq(t, 1, Len(s)) \in Seq(S)
      /\ Len(SubSeq(t, 1, Len(s))) = Len(s)
      /\ \A i \in 1 .. Len(s) : SubSeq(t, 1, Len(s))[i] = t[i]
  BY <1>1, <1>2, Window
<1>4. /\ SubSeq(Append(t, e), 1, Len(s)) \in Seq(S)
      /\ Len(SubSeq(Append(t, e), 1, Len(s))) = Len(s)
      /\ \A i \in 1 .. Len(s) :
           SubSeq(Append(t, e), 1, Len(s))[i] = Append(t, e)[i]
  <2>1. Len(s) \in 0 .. Len(Append(t, e))
    BY <1>1, <1>2
  <2> QED
    BY ONLY <1>1, <2>1, Window
<1>5. SubSeq(Append(t, e), 1, Len(s)) = SubSeq(t, 1, Len(s))
  BY <1>1, <1>2, <1>3, <1>4, SeqEqual
<1> QED
  BY <1>1, <1>2, <1>5 DEF IsPrefix

LEMMA PrefixOfItself ==
    ASSUME NEW S, NEW s \in Seq(S)
    PROVE  IsPrefix(s, s)
BY LenProperties DEF IsPrefix

-----------------------------------------------------------------------------
(* What an invocation makes of the queue. *)

LEMMA TickedBecomes ==
    ASSUME NEW j \in Jobs, IInv, Decided(j), MayPush(j),
           job[j].command = "TICK"
    PROVE  Becomes(queue, runs, Ticked(j), runs,
                   {x \in {job[j].plan} : job[j].effect = "MERGED"})
<1> DEFINE id == job[j].plan
           effect == job[j].effect
           authority == job[j].main
           merging == {x \in {id} : effect = "MERGED"}
           q == Reconciled(queue, authority, job[j].late)
           integrated == CASE effect = "MERGED" -> MarkedMerged(q, id)
                           [] effect = "HOLD" -> Held(q, id)
                           [] effect = "BASE_DRIFT" -> BaseDrifted(q, id)
                           [] OTHER -> q
           fed == Fed(integrated, NewFacts(j), authority)
<1>1. /\ WellFormed(queue, runs) /\ ValidQueue(queue) /\ runs \in Nat
      /\ job[j] # None /\ j \in current
      /\ Fits(job[j], TRUE, queue, runs, trunk)
  BY DEF IInv, TypeOK, JobFits, CapacityHolds, Decided, MayPush
<1>2. /\ authority \in Main
      /\ effect \in {"MERGED", "HOLD", "BASE_DRIFT"} => id \in Pending(queue)
  BY <1>1 DEF Fits, Integrates, Decided
<1>3. /\ Becomes(queue, runs, q, runs, {})
      /\ DOMAIN q = DOMAIN queue
      /\ \A x \in DOMAIN queue :
           queue[x].status = "TERMINAL" => q[x] = queue[x]
  BY <1>1, ReconciledBecomes
<1>4. Ticked(j) = IF authority.enabled THEN fed ELSE integrated
  BY DEF Ticked
<1> HIDE DEF q
<1>5. WellFormed(q, runs) /\ ValidQueue(q)
  BY <1>3 DEF Becomes
<1>6. effect \in {"MERGED", "HOLD", "BASE_DRIFT"} => id \in Pending(q)
  BY <1>2, <1>3 DEF Pending
<1>7. Becomes(q, runs, integrated, runs, merging)
  <2>1. CASE effect = "MERGED"
    <3>1. Becomes(q, runs, [q EXCEPT ![id] = [@ EXCEPT !.integration = "MERGED"]],
                  runs, {x \in {id} : "MERGED" = "MERGED"})
      BY <1>1, <1>5, <1>6, <2>1, IntegratedBecomes
    <3> QED
      BY <2>1, <3>1 DEF MarkedMerged
  <2>2. CASE effect = "HOLD"
    <3>1. Becomes(q, runs, [q EXCEPT ![id] = [@ EXCEPT !.integration = "HOLD"]],
                  runs, {x \in {id} : "HOLD" = "MERGED"})
      BY <1>1, <1>5, <1>6, <2>2, IntegratedBecomes
    <3>2. {x \in {id} : "HOLD" = "MERGED"} = merging
      BY <2>2
    <3> QED
      BY <2>2, <3>1, <3>2 DEF Held
  <2>3. CASE effect = "BASE_DRIFT"
    <3>1. Becomes(q, runs, BaseDrifted(q, id), runs, {})
      BY <1>1, <1>5, <1>6, <2>3, BaseDriftedBecomes
    <3>2. {} = merging
      BY <2>3
    <3> QED
      BY <2>3, <3>1, <3>2
  <2>4. CASE effect \notin {"MERGED", "HOLD", "BASE_DRIFT"}
    <3>1. integrated = q
      BY <2>4
    <3> QED
      BY <1>5, <2>4, <3>1 DEF Becomes, Settled
  <2> QED
    BY <2>1, <2>2, <2>3, <2>4
<1> HIDE DEF integrated, merging
<1>8. Becomes(queue, runs, integrated, runs, {} \cup merging)
  BY <1>1, <1>3, <1>7, BecomesTransitive
<1>9. Becomes(queue, runs, fed, runs, merging)
  <2>1. WellFormed(integrated, runs) /\ ValidQueue(integrated)
    BY <1>7 DEF Becomes
  <2>2. Becomes(integrated, runs, fed, runs, {})
    <3>1. /\ authority.revision \in [Repositories -> Nat]
          /\ authority.auto \in [Repositories -> BOOLEAN]
      BY <1>2 DEF Main
    <3> HIDE DEF authority
    <3> QED
      BY <1>1, <2>1, <3>1, FedBecomes
  <2>3. Becomes(queue, runs, fed, runs, ({} \cup merging) \cup {})
    BY <1>1, <1>8, <2>2, BecomesTransitive
  <2> QED
    BY <2>3
<1>10. Becomes(queue, runs, Ticked(j), runs, merging)
  BY <1>4, <1>8, <1>9
<1> QED
  BY <1>10 DEF merging

LEMMA WrittenBecomes ==
    ASSUME NEW j \in Jobs, IInv, Decided(j), MayPush(j)
    PROVE  Becomes(queue, runs, Written(j),
                   IF job[j].effect = "CLAIM" THEN runs + 1 ELSE runs,
                   {x \in {job[j].plan} : job[j].effect = "MERGED"})
<1> DEFINE id == job[j].plan
           effect == job[j].effect
           merging == {x \in {id} : effect = "MERGED"}
           q == Reconciled(queue, job[j].main, job[j].late)
<1>1. /\ WellFormed(queue, runs) /\ ValidQueue(queue) /\ runs \in Nat
      /\ job[j] # None /\ j \in current
      /\ Fits(job[j], TRUE, queue, runs, trunk)
  BY DEF IInv, TypeOK, JobFits, CapacityHolds, Decided, MayPush
<1>2. /\ effect = "MERGED" => job[j].command = "TICK"
      /\ effect = "CLAIM" => job[j].command = "CLAIM" /\ CanClaim(q, id)
      /\ effect = "RELEASE" =>
           job[j].command = "RELEASE" /\ id \in Executing(queue)
      /\ effect = "RECORD" =>
           /\ job[j].command = "RECORD"
           /\ job[j].run \in 1 .. runs
           /\ job[j].result \in Result
           /\ id \in Executing(queue)
           /\ CanRecord(queue, id, job[j].result)
  BY <1>1 DEF Fits, Integrates
<1>3. Becomes(queue, runs, q, runs, {}) /\ WellFormed(q, runs) /\ ValidQueue(q)
  BY <1>1, ReconciledBecomes DEF Becomes
<1> HIDE DEF q
<1>4. CASE job[j].command = "TICK"
  BY <1>2, <1>4, TickedBecomes DEF Written
<1>5. CASE effect = "CLAIM"
  <2>1. Written(j) = Claimed(q, id, runs + 1)
    BY <1>2, <1>5 DEF Written, q
  <2>2. Becomes(q, runs, Written(j), runs + 1, {})
    <3> DEFINE m == runs + 1
    <3>1. m \in Nat /\ runs <= m /\ m \in 1 .. m
      BY <1>1
    <3>2. \A x \in Executing(q) : q[x].run # m
      <4>1. m \notin 1 .. runs /\ m # None
        BY <1>1, GapsAssumption
      <4>2. \A x \in Executing(q) : q[x].run # None => q[x].run \in 1 .. runs
        BY <1>3 DEF Executing, WellFormed, TaskOK
      <4> QED
        BY <4>1, <4>2
    <3> HIDE DEF m
    <3>3. Becomes(q, runs, Claimed(q, id, m), m, {})
      BY <1>1, <1>2, <1>3, <1>5, <3>1, <3>2, ClaimedBecomes
    <3> QED
      BY <2>1, <3>3 DEF m
  <2>3. runs + 1 \in Nat
    BY <1>1
  <2>4. Becomes(queue, runs, Written(j), runs + 1, {} \cup {})
    BY <1>1, <1>3, <2>2, <2>3, BecomesTransitive
  <2>5. merging = {}
    BY <1>5
  <2> QED
    BY <1>5, <2>4, <2>5
<1>6. CASE effect = "RELEASE"
  <2>1. Written(j) = Released(queue, id)
    BY <1>2, <1>6 DEF Written
  <2>2. merging = {}
    BY <1>6
  <2> QED
    BY <1>1, <1>2, <1>6, <2>1, <2>2, ReleasedBecomes
<1>7. CASE effect = "RECORD"
  <2>1. Written(j) = Recorded(queue, id, job[j].run, job[j].result)
    BY <1>2, <1>7 DEF Written
  <2>2. merging = {}
    BY <1>7
  <2> QED
    BY <1>1, <1>2, <1>7, <2>1, <2>2, RecordedBecomes
<1>8. CASE /\ job[j].command # "TICK"
           /\ effect \notin {"CLAIM", "RELEASE", "RECORD"}
  <2>1. Written(j) = q
    BY <1>8 DEF Written, q
  <2>2. merging = {}
    BY <1>2, <1>8
  <2> QED
    BY <1>3, <1>8, <2>1, <2>2
<1> QED
  BY <1>4, <1>5, <1>6, <1>7, <1>8

-----------------------------------------------------------------------------
(* What becomes of an invocation's plan while others act. *)

LEMMA FitsStale ==
    ASSUME NEW state, NEW newest, NEW q, NEW n, NEW base,
           Fits(state, newest, q, n, base)
    PROVE  Fits(state, FALSE, q, n, base)
BY DEF Fits

LEMMA FitsWritten ==
    ASSUME NEW state, NEW q, NEW n \in Nat, NEW r, NEW m \in Nat, NEW base,
           WellFormed(q, n), WellFormed(r, m), Settled(q, r), n <= m,
           Fits(state, FALSE, q, n, base)
    PROVE  Fits(state, FALSE, r, m, base)
<1>1. ASSUME Integrates(state)
      PROVE  /\ state.plan \in DOMAIN r
             /\ r[state.plan].status = "TERMINAL"
             /\ r[state.plan].candidate = q[state.plan].candidate
  <2>1. state.plan \in DOMAIN q /\ q[state.plan].status = "TERMINAL"
    BY <1>1 DEF Fits
  <2>2. /\ state.plan \in DOMAIN r
        /\ q[state.plan] \in Task /\ r[state.plan] \in Task
        /\ [r[state.plan] EXCEPT !.integration = None]
             = [q[state.plan] EXCEPT !.integration = None]
    BY <2>1 DEF Settled, WellFormed
  <2> QED
    BY <2>1, <2>2 DEF Task
<1>2. state.run \in 1 .. n => state.run \in 1 .. m
  OBVIOUS
<1> QED
  BY <1>1, <1>2 DEF Fits

\* A branch grows by one commit.
LEMMA StaysLanded ==
    ASSUME NEW base \in [Repositories -> Commit], NEW r \in Repositories,
           NEW e \in Shas \cup {Outside},
           NEW c \in Candidate, NEW s \in Repositories,
           IsPrefix(MergeCommit(c), base[s])
    PROVE  IsPrefix(MergeCommit(c), [base EXCEPT ![r] = Append(@, e)][s])
<1>1. MergeCommit(c) \in Commit
  BY AppendProperties DEF Candidate, Commit, MergeCommit
<1>2. base[s] \in Commit
  OBVIOUS
<1>3. IsPrefix(MergeCommit(c), Append(base[s], e))
  BY <1>1, <1>2, AppendIsLonger DEF Commit
<1> QED
  BY <1>3

LEMMA FitsGrown ==
    ASSUME NEW state, NEW newest, NEW q, NEW n \in Nat,
           NEW base \in [Repositories -> Commit], NEW r \in Repositories,
           NEW e \in Shas \cup {Outside},
           WellFormed(q, n), Fits(state, newest, q, n, base)
    PROVE  Fits(state, newest, q, n, [base EXCEPT ![r] = Append(@, e)])
<1>1. ASSUME Integrates(state), state.effect = "MERGED"
      PROVE  IsPrefix(MergeCommit(q[state.plan].candidate),
                 [base EXCEPT ![r] = Append(@, e)][Repository(state.plan)])
  <2> DEFINE id == state.plan
  <2>1. /\ id \in DOMAIN q /\ Operation(id) = "ASSURANCE"
        /\ IsPrefix(MergeCommit(q[id].candidate), base[Repository(id)])
    BY <1>1 DEF Fits
  <2>2. id \in TaskId /\ q[id].candidate \in Candidate
    BY <2>1 DEF WellFormed, Task, TaskOK
  <2>3. Repository(id) \in Repositories
    BY <2>2, TaskRepository
  <2> QED
    BY <2>1, <2>2, <2>3, StaysLanded
<1> QED
  BY <1>1 DEF Fits

-----------------------------------------------------------------------------
(* One step of one invocation that writes nothing. *)

LEMMA JobStep ==
    ASSUME NEW j \in Jobs, IInv,
           UNCHANGED <<main, runtime, late, target, changes>>,
           \A k \in Jobs \ {j} : job'[k] = job[k],
           job' \in [Jobs -> Job \cup {None}],
           current' \subseteq Jobs,
           \A k \in Jobs \ {j} : k \in current' <=> k \in current,
           JobFits(j)'
    PROVE  IInv'
<1> USE DEF runtime, target
<1>1. TypeOK'
  BY DEF IInv, TypeOK
<1>2. WellFormed(queue, runs)' /\ CapacityHolds'
  BY DEF IInv, CapacityHolds
<1>3. MergedIsLanded'
  BY DEF IInv, MergedIsLanded
<1>4. \A k \in Jobs : JobFits(k)'
  <2>1. ASSUME NEW k \in Jobs \ {j}
        PROVE  JobFits(k)'
    <3>1. JobFits(k)
      BY DEF IInv
    <3>2. CASE k \in current
      BY <3>1, <3>2 DEF JobFits
    <3>3. CASE k \notin current
      BY <3>1, <3>3 DEF JobFits
    <3> QED
      BY <3>2, <3>3
  <2> QED
    BY <2>1
<1> QED
  BY <1>1, <1>2, <1>3, <1>4 DEF IInv

\* What is known of an invocation in a state of the invariant.
LEMMA JobTyped ==
    ASSUME NEW j \in Jobs, IInv, job[j] # None
    PROVE  /\ job[j] \in Job
           /\ Fits(job[j], j \in current, queue, runs, trunk)
           /\ late \in SUBSET Nat
           /\ main \in Main
           /\ DOMAIN queue \subseteq TaskId
           /\ WellFormed(queue, runs) /\ runs \in Nat
BY DEF IInv, TypeOK, JobFits

With(state, pc, effect, expired) ==
    [state EXCEPT !.pc = pc, !.effect = effect, !.late = expired]

LEMMA StateTyped ==
    ASSUME NEW state \in Job,
           NEW pc \in {"planned", "loaded", "landing", "decided"},
           NEW effect \in {"NONE", "CLAIM", "RELEASE", "RECORD",
                           "MERGED", "HOLD", "BASE_DRIFT"},
           NEW expired \in SUBSET Nat
    PROVE  LET s == With(state, pc, effect, expired)
           IN  /\ s \in Job
               /\ s.pc = pc /\ s.effect = effect /\ s.late = expired
               /\ s.command = state.command /\ s.main = state.main
               /\ s.plan = state.plan /\ s.run = state.run
               /\ s.result = state.result
<1> DEFINE t == [state EXCEPT !.pc = pc]
           u == [t EXCEPT !.effect = effect]
           s == [state EXCEPT !.pc = pc, !.effect = effect, !.late = expired]
<1>1. /\ t \in Job
      /\ t.pc = pc
      /\ t.command = state.command /\ t.main = state.main
      /\ t.plan = state.plan /\ t.run = state.run /\ t.result = state.result
  BY DEF Job
<1>2. s = [u EXCEPT !.late = expired]
  OBVIOUS
<1> HIDE DEF t, s
<1>3. /\ u \in Job
      /\ u.pc = pc /\ u.effect = effect
      /\ u.command = state.command /\ u.main = state.main
      /\ u.plan = state.plan /\ u.run = state.run /\ u.result = state.result
  BY <1>1 DEF Job
<1> HIDE DEF u
<1>4. /\ s \in Job
      /\ s.pc = pc /\ s.effect = effect /\ s.late = expired
      /\ s.command = state.command /\ s.main = state.main
      /\ s.plan = state.plan /\ s.run = state.run /\ s.result = state.result
  BY <1>2, <1>3 DEF Job
<1> QED
  BY <1>4 DEF s, With

LEMMA DecideStep ==
    ASSUME NEW j \in Jobs, IInv, NEW command \in {"CLAIM", "TICK"},
           NEW effect \in {"NONE", "MERGED", "HOLD", "BASE_DRIFT"},
           Loaded(j, command), Decide(j, effect),
           effect # "NONE" =>
             command = "TICK" /\ job[j].plan \in Pending(queue),
           effect = "MERGED" =>
             IsPrefix(MergeCommit(queue[job[j].plan].candidate),
                      trunk[Repository(job[j].plan)])
    PROVE  IInv'
<1> DEFINE s == With(job[j], "decided", effect, late)
<1>1. /\ job[j] \in Job /\ late \in SUBSET Nat /\ job[j].main \in Main
      /\ job[j].command = command
      /\ job \in [Jobs -> Job \cup {None}] /\ current \subseteq Jobs
  BY JobTyped DEF Loaded, Fits, IInv, TypeOK
<1>2. /\ s \in Job
      /\ s.pc = "decided" /\ s.effect = effect
      /\ s.command = command /\ s.main = job[j].main /\ s.plan = job[j].plan
  <2>1. /\ effect \in {"NONE", "CLAIM", "RELEASE", "RECORD",
                       "MERGED", "HOLD", "BASE_DRIFT"}
        /\ "decided" \in {"planned", "loaded", "landing", "decided"}
    OBVIOUS
  <2> QED
    BY <1>1, <2>1, StateTyped
<1>3. /\ job' = [job EXCEPT ![j] = s]
      /\ current' = current \cup {j}
      /\ UNCHANGED <<main, runtime, late, target, changes>>
  BY DEF Decide, Fetch, With
<1> HIDE DEF s
<1>4. job'[j] = s /\ job' \in [Jobs -> Job \cup {None}]
  BY <1>1, <1>2, <1>3
<1>5. Fits(s, TRUE, queue, runs, trunk)
  BY <1>1, <1>2, GapsAssumption DEF Fits, Integrates, Pending
<1>6. JobFits(j)'
  BY <1>3, <1>4, <1>5 DEF JobFits, runtime, target
<1> QED
  BY <1>1, <1>3, <1>4, <1>6, JobStep

LEMMA NewJobTyped ==
    ASSUME NEW command \in {"CLAIM", "RELEASE", "RECORD", "TICK"},
           main \in Main
    PROVE  LET s == NewJob(command)
           IN  /\ s \in Job
               /\ s.pc = "loaded" /\ s.effect = "NONE" /\ s.main \in Main
BY DEF NewJob, Job

LEMMA StartStep ==
    ASSUME NEW j \in Jobs, IInv, job[j] = None,
           \/ \E worker \in Workers : StartClaim(j, worker)
           \/ StartRelease(j)
           \/ StartRecord(j)
           \/ PlanTick(j)
    PROVE  IInv'
<1>1. /\ main \in Main /\ DOMAIN queue \subseteq TaskId
      /\ job \in [Jobs -> Job \cup {None}] /\ current \subseteq Jobs
  BY DEF IInv, TypeOK
<1>2. PICK s \in Job : /\ Step(j, s)
                       /\ s.effect = "NONE" /\ s.pc \in {"planned", "loaded"}
                       /\ s.pc = "loaded" => s.main \in Main
  <2>1. ASSUME NEW worker \in Workers, StartClaim(j, worker)
        PROVE  \E s \in Job : /\ Step(j, s)
                              /\ s.effect = "NONE"
                              /\ s.pc \in {"planned", "loaded"}
                              /\ s.pc = "loaded" => s.main \in Main
    <3> DEFINE s == [NewJob("CLAIM") EXCEPT !.worker = worker]
    <3>1. /\ s \in Job /\ s.effect = "NONE" /\ s.pc = "loaded"
          /\ s.main \in Main
      BY <1>1, NewJobTyped DEF Job
    <3>2. Step(j, s)
      BY <2>1 DEF StartClaim
    <3> HIDE DEF s
    <3> QED
      BY <3>1, <3>2
  <2>2. CASE StartRelease(j)
    BY <1>1, <2>2, NewJobTyped DEF StartRelease
  <2>3. CASE StartRecord(j)
    BY <1>1, <2>3, NewJobTyped DEF StartRecord
  <2>4. CASE PlanTick(j)
    <3>1. PICK id \in TaskId \cup {None} :
            Step(j, [NewJob("TICK") EXCEPT !.pc = "planned", !.main = None,
                                           !.plan = id])
      BY <1>1, <2>4 DEF PlanTick, Pending
    <3> DEFINE s == [NewJob("TICK") EXCEPT !.pc = "planned", !.main = None,
                                           !.plan = id]
               t == [NewJob("TICK") EXCEPT !.pc = "planned"]
               u == [t EXCEPT !.main = None]
    <3>2. s \in Job /\ s.effect = "NONE" /\ s.pc = "planned"
      <4>1. t \in Job /\ t.effect = "NONE" /\ t.pc = "planned"
        BY <1>1, NewJobTyped DEF Job
      <4>2. s = [u EXCEPT !.plan = id]
        OBVIOUS
      <4> HIDE DEF t, s
      <4>3. u \in Job /\ u.effect = "NONE" /\ u.pc = "planned"
        BY <4>1 DEF Job
      <4> HIDE DEF u
      <4> QED
        BY <4>2, <4>3 DEF Job
    <3>3. Step(j, s)
      BY <3>1
    <3> HIDE DEF s
    <3> QED
      BY <3>2, <3>3
  <2> QED
    BY <2>1, <2>2, <2>3, <2>4
<1>3. /\ job' = [job EXCEPT ![j] = s]
      /\ UNCHANGED <<main, runtime, late, current, target, changes>>
  BY <1>2 DEF Step
<1>4. job'[j] = s /\ job' \in [Jobs -> Job \cup {None}]
  BY <1>1, <1>2, <1>3
<1>5. Fits(s, j \in current, queue, runs, trunk)
  BY <1>2 DEF Fits, Integrates
<1>6. JobFits(j)'
  BY <1>3, <1>4, <1>5 DEF JobFits, runtime, target
<1> QED
  BY <1>1, <1>3, <1>4, <1>6, JobStep

LEMMA DecideClaimStep ==
    ASSUME NEW j \in Jobs, IInv, DecideClaim(j)
    PROVE  IInv'
<1> DEFINE q == Reconciled(queue, job[j].main, late)
<1>1. /\ Loaded(j, "CLAIM")
      /\ \/ Decide(j, "NONE")
         \/ \E id \in Selectable(q, job[j].worker) :
              /\ CanClaim(q, id)
              /\ Fetch(j, [job[j] EXCEPT !.pc = "decided", !.plan = id,
                                         !.effect = "CLAIM", !.late = late])
  BY DEF DecideClaim
<1>2. CASE Decide(j, "NONE")
  BY <1>1, <1>2, DecideStep
<1>3. ASSUME NEW id \in Selectable(q, job[j].worker), CanClaim(q, id),
             Fetch(j, [job[j] EXCEPT !.pc = "decided", !.plan = id,
                                     !.effect = "CLAIM", !.late = late])
      PROVE  IInv'
  <2> DEFINE t == With(job[j], "decided", "CLAIM", late)
             s == [t EXCEPT !.plan = id]
  <2>1. /\ job[j] \in Job /\ late \in SUBSET Nat /\ job[j].main \in Main
        /\ job[j].command = "CLAIM"
        /\ job \in [Jobs -> Job \cup {None}] /\ current \subseteq Jobs
        /\ DOMAIN queue \subseteq TaskId
    BY <1>1, JobTyped DEF Loaded, Fits, IInv, TypeOK
  <2>2. id \in TaskId
    BY <2>1 DEF Selectable, Reconciled
  <2>3. /\ t \in Job
        /\ t.pc = "decided" /\ t.effect = "CLAIM" /\ t.late = late
        /\ t.command = "CLAIM" /\ t.main = job[j].main
    BY <2>1, StateTyped
  <2>4. /\ job' = [job EXCEPT ![j] = s]
        /\ current' = current \cup {j}
        /\ UNCHANGED <<main, runtime, late, target, changes>>
    BY <1>3 DEF Fetch, With
  <2> HIDE DEF t
  <2>5. /\ s \in Job
        /\ s.pc = "decided" /\ s.effect = "CLAIM" /\ s.late = late
        /\ s.command = "CLAIM" /\ s.main = job[j].main /\ s.plan = id
    BY <2>2, <2>3 DEF Job
  <2> HIDE DEF s
  <2>6. job'[j] = s /\ job' \in [Jobs -> Job \cup {None}]
    BY <2>1, <2>4, <2>5
  <2>7. Fits(s, TRUE, queue, runs, trunk)
    BY <1>3, <2>1, <2>2, <2>5 DEF Fits, Integrates
  <2>8. JobFits(j)'
    BY <2>4, <2>6, <2>7 DEF JobFits, runtime, target
  <2> QED
    BY <2>1, <2>4, <2>6, <2>8, JobStep
<1> QED
  BY <1>1, <1>2, <1>3

LEMMA ToldTyped ==
    ASSUME IInv, NEW claim \in told
    PROVE  claim[1] \in TaskId /\ claim[2] \in 1 .. runs /\ claim[2] \in Nat
BY DEF IInv, TypeOK

LEMMA DecideReleaseStep ==
    ASSUME NEW j \in Jobs, IInv, DecideRelease(j)
    PROVE  IInv'
<1>1. PICK claim \in told :
        /\ CurrentClaim(queue, claim[1], claim[2], late)
        /\ Fetch(j, [job[j] EXCEPT !.pc = "decided", !.effect = "RELEASE",
                                   !.plan = claim[1], !.run = claim[2]])
  BY DEF DecideRelease
<1>2. /\ job[j] \in Job /\ job[j].main \in Main
      /\ job[j].command = "RELEASE"
      /\ job \in [Jobs -> Job \cup {None}] /\ current \subseteq Jobs
  BY JobTyped DEF DecideRelease, Loaded, Fits, IInv, TypeOK
<1> DEFINE id == claim[1]
           run == claim[2]
           t == [job[j] EXCEPT !.pc = "decided", !.effect = "RELEASE"]
           u == [t EXCEPT !.plan = id]
           s == [u EXCEPT !.run = run]
<1>3. id \in TaskId /\ run \in Nat /\ id \in Executing(queue)
  BY <1>1, ToldTyped DEF CurrentClaim, Executing
<1>4. /\ job' = [job EXCEPT ![j] = s]
      /\ current' = current \cup {j}
      /\ UNCHANGED <<main, runtime, late, target, changes>>
  BY <1>1 DEF Fetch
<1>5. /\ t \in Job /\ t.pc = "decided" /\ t.effect = "RELEASE"
      /\ t.command = "RELEASE" /\ t.main = job[j].main
  <2> DEFINE v == [job[j] EXCEPT !.pc = "decided"]
  <2>1. /\ v \in Job /\ v.pc = "decided"
        /\ v.command = "RELEASE" /\ v.main = job[j].main
    BY <1>2 DEF Job
  <2>2. t = [v EXCEPT !.effect = "RELEASE"]
    OBVIOUS
  <2> HIDE DEF v, t
  <2> QED
    BY <2>1, <2>2 DEF Job
<1> HIDE DEF id, run, t
<1>6. /\ u \in Job /\ u.pc = "decided" /\ u.effect = "RELEASE"
      /\ u.command = "RELEASE" /\ u.main = job[j].main /\ u.plan = id
  BY <1>3, <1>5 DEF Job
<1> HIDE DEF u
<1>7. /\ s \in Job /\ s.pc = "decided" /\ s.effect = "RELEASE"
      /\ s.command = "RELEASE" /\ s.main = job[j].main /\ s.plan = id
  BY <1>3, <1>6 DEF Job
<1> HIDE DEF s
<1>8. job'[j] = s /\ job' \in [Jobs -> Job \cup {None}]
  BY <1>2, <1>4, <1>7
<1>9. Fits(s, TRUE, queue, runs, trunk)
  BY <1>2, <1>3, <1>7 DEF Fits, Integrates
<1>10. JobFits(j)'
  BY <1>4, <1>8, <1>9 DEF JobFits, runtime, target
<1> QED
  BY <1>2, <1>4, <1>8, <1>10, JobStep

\* A report is a result.
LEMMA ReportTyped ==
    ASSUME IInv, NEW id \in DOMAIN queue, NEW result \in Reports(id)
    PROVE  result \in Result
<1>1. /\ id \in TaskId /\ queue[id] \in Task
      /\ trunk \in [Repositories -> Commit]
  BY DEF IInv, TypeOK, WellFormed
<1>2. CASE Operation(id) = "ASSURANCE"
  <2>1. result \in [outcome : Outcomes(id), candidate : {queue[id].candidate}]
    BY <1>2 DEF Reports
  <2>2. /\ queue[id].candidate \in Candidate \cup {None}
        /\ Outcomes(id) \subseteq
             {"PASS", "FAIL", "INDETERMINATE", "COMPLETED", "BLOCKED"}
    BY <1>1 DEF Task, Outcomes
  <2> QED
    BY <2>1, <2>2 DEF Result
<1>3. CASE Operation(id) # "ASSURANCE"
  <2> DEFINE base == trunk[Repository(id)]
  <2>1. base \in Commit
    BY <1>1, TaskRepository
  <2>2. ASSUME NEW n \in 0 .. Len(base)
        PROVE  SubSeq(base, 1, n) \in Commit
    BY <2>1, Window DEF Commit
  <2>3. \/ result \in [outcome : {"BLOCKED"}, candidate : {None}]
        \/ result \in
             [outcome : {"COMPLETED"},
              candidate : [sha : {s \in Shas : pulls[s] = "open"},
                           base : {SubSeq(base, 1, n) : n \in 0 .. Len(base)}]]
    BY <1>3 DEF Reports
  <2> QED
    BY <2>2, <2>3 DEF Result, Candidate
<1> QED
  BY <1>2, <1>3

LEMMA DecideRecordStep ==
    ASSUME NEW j \in Jobs, IInv, DecideRecord(j)
    PROVE  IInv'
<1>1. PICK claim \in told :
        \E result \in Reports(claim[1]) :
          /\ Loaded(j, "RECORD")
          /\ CurrentClaim(queue, claim[1], claim[2], late)
          /\ CanRecord(queue, claim[1], result)
          /\ Fetch(j, [job[j] EXCEPT !.pc = "decided", !.effect = "RECORD",
                                     !.plan = claim[1], !.run = claim[2],
                                     !.result = result])
  BY DEF DecideRecord, MayRecord
<1>2. PICK result \in Reports(claim[1]) :
        /\ Loaded(j, "RECORD")
        /\ CurrentClaim(queue, claim[1], claim[2], late)
        /\ CanRecord(queue, claim[1], result)
        /\ Fetch(j, [job[j] EXCEPT !.pc = "decided", !.effect = "RECORD",
                                   !.plan = claim[1], !.run = claim[2],
                                   !.result = result])
  BY <1>1
<1>3. /\ job[j] \in Job /\ job[j].main \in Main
      /\ job[j].command = "RECORD"
      /\ job \in [Jobs -> Job \cup {None}] /\ current \subseteq Jobs
  BY <1>2, JobTyped DEF Loaded, Fits, IInv, TypeOK
<1> DEFINE id == claim[1]
           run == claim[2]
           t == [job[j] EXCEPT !.pc = "decided", !.effect = "RECORD"]
           u == [t EXCEPT !.plan = id]
           v == [u EXCEPT !.run = run]
           s == [v EXCEPT !.result = result]
<1>4. /\ id \in TaskId /\ run \in 1 .. runs /\ run \in Nat
      /\ id \in Executing(queue)
      /\ result \in Result
  BY <1>2, ToldTyped, ReportTyped DEF CurrentClaim, Executing
<1>5. /\ job' = [job EXCEPT ![j] = s]
      /\ current' = current \cup {j}
      /\ UNCHANGED <<main, runtime, late, target, changes>>
      /\ CanRecord(queue, id, result)
  BY <1>2 DEF Fetch
<1>6. /\ t \in Job /\ t.pc = "decided" /\ t.effect = "RECORD"
      /\ t.command = "RECORD" /\ t.main = job[j].main
  <2> DEFINE w == [job[j] EXCEPT !.pc = "decided"]
  <2>1. /\ w \in Job /\ w.pc = "decided"
        /\ w.command = "RECORD" /\ w.main = job[j].main
    BY <1>3 DEF Job
  <2>2. t = [w EXCEPT !.effect = "RECORD"]
    OBVIOUS
  <2> HIDE DEF w, t
  <2> QED
    BY <2>1, <2>2 DEF Job
<1> HIDE DEF id, run, t
<1>7. /\ u \in Job /\ u.pc = "decided" /\ u.effect = "RECORD"
      /\ u.command = "RECORD" /\ u.main = job[j].main /\ u.plan = id
  BY <1>4, <1>6 DEF Job
<1> HIDE DEF u
<1>8. /\ v \in Job /\ v.pc = "decided" /\ v.effect = "RECORD"
      /\ v.command = "RECORD" /\ v.main = job[j].main /\ v.plan = id
      /\ v.run = run
  BY <1>4, <1>7 DEF Job
<1> HIDE DEF v
<1>9. /\ s \in Job /\ s.pc = "decided" /\ s.effect = "RECORD"
      /\ s.command = "RECORD" /\ s.main = job[j].main /\ s.plan = id
      /\ s.run = run /\ s.result = result
  BY <1>4, <1>8 DEF Job
<1> HIDE DEF s
<1>10. job'[j] = s /\ job' \in [Jobs -> Job \cup {None}]
  BY <1>3, <1>5, <1>9
<1>11. Fits(s, TRUE, queue, runs, trunk)
  BY <1>3, <1>4, <1>5, <1>9 DEF Fits, Integrates
<1>12. JobFits(j)'
  BY <1>5, <1>10, <1>11 DEF JobFits, runtime, target
<1> QED
  BY <1>3, <1>5, <1>10, <1>12, JobStep

\* The base of a task's candidate, and its repository.
LEMMA PendingRepository ==
    ASSUME IInv, NEW id \in Pending(queue)
    PROVE  /\ Repository(id) \in Repositories
           /\ trunk[Repository(id)] \in Commit
           /\ queue[id].candidate.base \in Commit
           /\ queue[id].candidate.sha \in Shas
           /\ MergeCommit(queue[id].candidate) \in Commit
<1>1. /\ id \in TaskId /\ queue[id].candidate \in Candidate
      /\ trunk \in [Repositories -> Commit]
  BY PendingTask DEF IInv, TypeOK
<1>2. Repository(id) \in Repositories
  BY <1>1, TaskRepository
<1>3. /\ queue[id].candidate.base \in Seq(Shas \cup {Outside})
      /\ queue[id].candidate.sha \in Shas
  BY <1>1 DEF Candidate, Commit
<1>4. MergeCommit(queue[id].candidate) \in Seq(Shas \cup {Outside})
  BY <1>3, AppendProperties DEF MergeCommit
<1> QED
  BY <1>1, <1>2, <1>3, <1>4 DEF Commit

LEMMA TickStep ==
    ASSUME NEW j \in Jobs, IInv,
           \/ DecideTick(j)
           \/ ReconcileMerged(j)
           \/ DecideHold(j)
           \/ DecideBaseDrift(j)
    PROVE  IInv'
<1> DEFINE id == job[j].plan
<1>1. CASE DecideTick(j)
  BY <1>1, DecideStep DEF DecideTick
<1>2. CASE ReconcileMerged(j)
  <2>1. /\ Loaded(j, "TICK") /\ id \in Pending(queue) /\ Decide(j, "MERGED")
        /\ \/ IsPrefix(MergeCommit(queue[id].candidate), trunk[Repository(id)])
           \/ trunk[Repository(id)] = MergeCommit(queue[id].candidate)
    BY <1>2 DEF ReconcileMerged, Integrating, ProvenMerged
  <2>2. IsPrefix(MergeCommit(queue[id].candidate), trunk[Repository(id)])
    BY <2>1, PendingRepository, PrefixOfItself DEF Commit
  <2> QED
    BY <2>1, <2>2, DecideStep
<1>3. CASE DecideHold(j)
  BY <1>3, DecideStep DEF DecideHold, StillOpen, Integrating
<1>4. CASE DecideBaseDrift(j)
  BY <1>4, DecideStep DEF DecideBaseDrift, StillOpen, Integrating
<1> QED
  BY <1>1, <1>2, <1>3, <1>4

LEMMA DecideLandingStep ==
    ASSUME NEW j \in Jobs, IInv, DecideLanding(j)
    PROVE  IInv'
<1> DEFINE id == job[j].plan
           s == [job[j] EXCEPT !.pc = "landing", !.late = late]
<1>1. /\ Loaded(j, "TICK") /\ id \in Pending(queue)
      /\ \/ Decide(j, "NONE")
         \/ Fetch(j, s)
  BY DEF DecideLanding, StillOpen, Integrating
<1>2. CASE Decide(j, "NONE")
  BY <1>1, <1>2, DecideStep
<1>3. CASE Fetch(j, s)
  <2>1. /\ job[j] \in Job /\ late \in SUBSET Nat /\ job[j].main \in Main
        /\ job[j].command = "TICK"
        /\ Fits(job[j], j \in current, queue, runs, trunk)
        /\ job \in [Jobs -> Job \cup {None}] /\ current \subseteq Jobs
    BY <1>1, JobTyped DEF Loaded, Fits, IInv, TypeOK
  <2>2. /\ s \in Job
        /\ s.pc = "landing" /\ s.command = "TICK"
        /\ s.effect = job[j].effect
        /\ s.main = job[j].main /\ s.plan = id
        /\ s.run = job[j].run /\ s.result = job[j].result
    <3> DEFINE t == [job[j] EXCEPT !.pc = "landing"]
    <3>1. /\ t \in Job
          /\ t.pc = "landing" /\ t.command = "TICK"
          /\ t.effect = job[j].effect
          /\ t.main = job[j].main /\ t.plan = id
          /\ t.run = job[j].run /\ t.result = job[j].result
      BY <2>1 DEF Job
    <3>2. s = [t EXCEPT !.late = late]
      OBVIOUS
    <3> HIDE DEF t, s
    <3> QED
      BY <2>1, <3>1, <3>2 DEF Job
  <2>3. /\ job' = [job EXCEPT ![j] = s]
        /\ current' = current \cup {j}
        /\ UNCHANGED <<main, runtime, late, target, changes>>
    BY <1>3 DEF Fetch
  <2> HIDE DEF s
  <2>4. job'[j] = s /\ job' \in [Jobs -> Job \cup {None}]
    BY <2>1, <2>2, <2>3
  <2>5. Fits(s, TRUE, queue, runs, trunk)
    BY <1>1, <2>1, <2>2 DEF Fits, Integrates, Pending
  <2>6. JobFits(j)'
    BY <2>3, <2>4, <2>5 DEF JobFits, runtime, target
  <2> QED
    BY <2>1, <2>3, <2>4, <2>6, JobStep
<1> QED
  BY <1>1, <1>2, <1>3

LEMMA LandRefusedStep ==
    ASSUME NEW j \in Jobs, IInv, LandRefused(j)
    PROVE  IInv'
<1> DEFINE id == job[j].plan
           done == trunk[Repository(id)] = MergeCommit(queue[id].candidate)
           t == [job[j] EXCEPT !.pc = "decided"]
<1>1. /\ job[j] \in Job /\ job[j].pc = "landing" /\ job[j].main \in Main
      /\ Fits(job[j], j \in current, queue, runs, trunk)
      /\ job \in [Jobs -> Job \cup {None}] /\ current \subseteq Jobs
      /\ WellFormed(queue, runs) /\ runs \in Nat
      /\ trunk \in [Repositories -> Commit]
  BY JobTyped DEF LandRefused, Landing, Fits, IInv, TypeOK
<1>2. /\ job[j].command = "TICK"
      /\ id \in DOMAIN queue /\ queue[id].status = "TERMINAL"
      /\ Operation(id) = "ASSURANCE"
      /\ j \in current => id \in Pending(queue)
  BY <1>1 DEF Fits, Integrates
<1>3. done => IsPrefix(MergeCommit(queue[id].candidate), trunk[Repository(id)])
  <2>1. id \in TaskId
    BY <1>1, <1>2 DEF WellFormed
  <2>2. trunk[Repository(id)] \in Commit
    BY <1>1, <2>1, TaskRepository
  <2> QED
    BY <2>2, PrefixOfItself DEF Commit
<1>4. PICK effect \in {"MERGED", "BASE_DRIFT"} :
        /\ effect = "MERGED" => done
        /\ job' = [job EXCEPT ![j] = [t EXCEPT !.effect = effect]]
        /\ UNCHANGED <<main, runtime, late, current, target, changes>>
  BY DEF LandRefused, Step
<1> DEFINE s == [t EXCEPT !.effect = effect]
<1>5. /\ t \in Job
      /\ t.pc = "decided" /\ t.command = "TICK"
      /\ t.main = job[j].main /\ t.plan = id
  BY <1>1, <1>2 DEF Job
<1> HIDE DEF t, done
<1>6. /\ s \in Job
      /\ s.pc = "decided" /\ s.command = "TICK" /\ s.effect = effect
      /\ s.main = job[j].main /\ s.plan = id
  <2>1. effect \in {"MERGED", "BASE_DRIFT"}
    BY <1>4
  <2> QED
    BY <1>5, <2>1 DEF Job
<1>7. /\ job' = [job EXCEPT ![j] = s]
      /\ UNCHANGED <<main, runtime, late, current, target, changes>>
  BY <1>4
<1> HIDE DEF s
<1>8. job'[j] = s /\ job' \in [Jobs -> Job \cup {None}]
  BY <1>1, <1>6, <1>7
<1>9. Fits(s, j \in current, queue, runs, trunk)
  BY <1>1, <1>2, <1>3, <1>4, <1>6 DEF Fits, Integrates
<1>10. JobFits(j)'
  BY <1>7, <1>8, <1>9 DEF JobFits, runtime, target
<1> QED
  BY <1>1, <1>7, <1>8, <1>10, JobStep

\* A retry begins anew, with the same main.
LEMMA RetryTyped ==
    ASSUME NEW j \in Jobs, IInv, Decided(j)
    PROVE  /\ Retry(j) \in Job
           /\ Retry(j).pc = "loaded" /\ Retry(j).effect = "NONE"
           /\ Retry(j).main \in Main /\ Retry(j).late = {}
<1>1. job[j] \in Job /\ job[j].main \in Main /\ job[j].pc = "decided"
  BY JobTyped DEF Decided, Fits
<1> DEFINE plan == IF job[j].command = "TICK" THEN job[j].plan ELSE None
           t == With(job[j], "loaded", "NONE", {})
           u == [t EXCEPT !.run = None]
           v == [u EXCEPT !.result = None]
           s == [v EXCEPT !.plan = plan]
<1>2. plan \in TaskId \cup {None}
  BY <1>1 DEF Job
<1>3. Retry(j) = s
  BY DEF Retry, With
<1>4. /\ t \in Job /\ t.pc = "loaded" /\ t.effect = "NONE"
      /\ t.main \in Main /\ t.late = {}
  <2>1. /\ "loaded" \in {"planned", "loaded", "landing", "decided"}
        /\ "NONE" \in {"NONE", "CLAIM", "RELEASE", "RECORD",
                       "MERGED", "HOLD", "BASE_DRIFT"}
        /\ {} \in SUBSET Nat
    OBVIOUS
  <2> QED
    BY <1>1, <2>1, StateTyped
<1> HIDE DEF t, plan
<1>5. /\ u \in Job /\ u.pc = "loaded" /\ u.effect = "NONE"
      /\ u.main \in Main /\ u.late = {}
  BY <1>4 DEF Job
<1> HIDE DEF u
<1>6. /\ v \in Job /\ v.pc = "loaded" /\ v.effect = "NONE"
      /\ v.main \in Main /\ v.late = {}
  BY <1>5 DEF Job
<1> HIDE DEF v
<1>7. /\ s \in Job /\ s.pc = "loaded" /\ s.effect = "NONE"
      /\ s.main \in Main /\ s.late = {}
  BY <1>2, <1>6 DEF Job
<1> HIDE DEF s
<1> QED
  BY <1>3, <1>7

LEMMA BeginAgain ==
    ASSUME NEW state, NEW newest, NEW q, NEW n, NEW base,
           state.pc = "loaded", state.effect = "NONE", state.main \in Main
    PROVE  Fits(state, newest, q, n, base)
BY DEF Fits, Integrates

LEMMA OtherSteps ==
    ASSUME NEW j \in Jobs, IInv,
           \/ LoadTick(j)
           \/ Die(j)
           \/ RecordAgain(j)
           \/ Conflict(j)
    PROVE  IInv'
<1>1. /\ job \in [Jobs -> Job \cup {None}] /\ current \subseteq Jobs
      /\ main \in Main
  BY DEF IInv, TypeOK
<1>2. CASE Die(j) \/ RecordAgain(j)
  <2>1. /\ job' = [job EXCEPT ![j] = None]
        /\ current' \in {current, current \ {j}}
        /\ UNCHANGED <<main, runtime, late, target, changes>>
    BY <1>2 DEF Die, RecordAgain, Step
  <2>2. JobFits(j)'
    BY <1>1, <2>1 DEF JobFits
  <2> QED
    BY <1>1, <2>1, <2>2, JobStep
<1>3. CASE LoadTick(j)
  <2> DEFINE t == [job[j] EXCEPT !.pc = "loaded"]
             s == [t EXCEPT !.main = main]
  <2>1. /\ job' = [job EXCEPT ![j] = s]
        /\ UNCHANGED <<main, runtime, late, current, target, changes>>
    BY <1>3 DEF LoadTick, Step
  <2>2. /\ job[j] \in Job
        /\ Fits(job[j], j \in current, queue, runs, trunk)
    BY <1>3, JobTyped DEF LoadTick
  <2>3. /\ t \in Job /\ t.pc = "loaded"
        /\ t.command = job[j].command /\ t.effect = job[j].effect
        /\ t.plan = job[j].plan /\ t.run = job[j].run
        /\ t.result = job[j].result /\ t.late = job[j].late
    BY <2>2 DEF Job
  <2> HIDE DEF t
  <2>4. /\ s \in Job /\ s.pc = "loaded" /\ s.main \in Main
        /\ s.command = job[j].command /\ s.effect = job[j].effect
        /\ s.plan = job[j].plan /\ s.run = job[j].run
        /\ s.result = job[j].result /\ s.late = job[j].late
    BY <1>1, <2>3 DEF Job
  <2> HIDE DEF s
  <2>5. job'[j] = s /\ job' \in [Jobs -> Job \cup {None}]
    BY <1>1, <2>1, <2>4
  <2>6. Fits(s, j \in current, queue, runs, trunk)
    BY <1>3, <2>2, <2>4 DEF Fits, Integrates, LoadTick
  <2>7. JobFits(j)'
    BY <2>1, <2>5, <2>6 DEF JobFits, runtime, target
  <2> QED
    BY <1>1, <2>1, <2>5, <2>7, JobStep
<1>4. CASE Conflict(j)
  <2>1. /\ job' = [job EXCEPT ![j] = Retry(j)]
        /\ UNCHANGED <<main, runtime, late, current, target, changes>>
        /\ Decided(j)
    BY <1>4 DEF Conflict, Step
  <2>2. /\ Retry(j) \in Job
        /\ Fits(Retry(j), j \in current, queue, runs, trunk)
    BY <2>1, RetryTyped, BeginAgain
  <2>3. job'[j] = Retry(j) /\ job' \in [Jobs -> Job \cup {None}]
    BY <1>1, <2>1, <2>2
  <2>4. JobFits(j)'
    BY <2>1, <2>2, <2>3 DEF JobFits, runtime, target
  <2> QED
    BY <1>1, <2>1, <2>3, <2>4, JobStep
<1> QED
  BY <1>2, <1>3, <1>4

-----------------------------------------------------------------------------
(* The steps of the world, of the base branch and of the runtime branch.   *)

LEMMA WorldStep ==
    ASSUME IInv, TypeOK',
           UNCHANGED <<queue, runs, job, current, trunk>>
    PROVE  IInv'
<1>1. \A k \in Jobs : JobFits(k)'
  BY DEF IInv, JobFits
<1> QED
  BY <1>1 DEF IInv, WellFormed, CapacityHolds, MergedIsLanded

LEMMA PublishTyped ==
    ASSUME main \in Main, PublishRevision \/ FlipSwitch
    PROVE  main' \in Main
<1>1. CASE PublishRevision
  <2>1. PICK r \in Repositories :
          \E open \in SUBSET {g \in Gaps : GapRepository[g] = r} :
            main' = [main EXCEPT
                       !.revision[r] = @ + 1,
                       !.open = {g \in @ : GapRepository[g] # r} \cup open]
    BY <1>1 DEF PublishRevision, Publish
  <2>2. PICK open \in SUBSET {g \in Gaps : GapRepository[g] = r} :
          main' = [main EXCEPT
                     !.revision[r] = @ + 1,
                     !.open = {g \in @ : GapRepository[g] # r} \cup open]
    BY <2>1
  <2> DEFINE revision == [main.revision EXCEPT ![r] = @ + 1]
             still == {g \in main.open : GapRepository[g] # r} \cup open
  <2>3. /\ revision \in [Repositories -> Nat]
        /\ still \in SUBSET Gaps
    BY DEF Main
  <2>4. main' = [main EXCEPT !.revision = revision, !.open = still]
    BY <2>2 DEF Main
  <2> HIDE DEF revision, still
  <2> QED
    BY <2>3, <2>4 DEF Main
<1>2. CASE FlipSwitch
  <2>1. CASE main' = [main EXCEPT !.enabled = ~@]
    BY <2>1 DEF Main
  <2>2. CASE main' = [main EXCEPT !.integration = ~@]
    BY <2>2 DEF Main
  <2>3. ASSUME NEW r \in Repositories, main' = [main EXCEPT !.auto[r] = ~@]
        PROVE  main' \in Main
    <3> DEFINE auto == [main.auto EXCEPT ![r] = ~@]
    <3>1. auto \in [Repositories -> BOOLEAN]
      BY DEF Main
    <3>2. main' = [main EXCEPT !.auto = auto]
      BY <2>3 DEF Main
    <3> HIDE DEF auto
    <3> QED
      BY <3>1, <3>2 DEF Main
  <2> QED
    BY <1>2, <2>1, <2>2, <2>3 DEF FlipSwitch, Publish
<1> QED
  BY <1>1, <1>2

LEMMA TrunkGrows ==
    ASSUME IInv, NEW r \in Repositories, NEW e \in Shas \cup {Outside},
           trunk' = [trunk EXCEPT ![r] = Append(@, e)],
           UNCHANGED <<queue, runs>>
    PROVE  /\ trunk' \in [Repositories -> Commit]
           /\ MergedIsLanded'
           /\ \A k \in Jobs :
                job[k] # None =>
                  Fits(job[k], k \in current, queue, runs, trunk')
<1>1. /\ trunk \in [Repositories -> Commit] /\ runs \in Nat
      /\ WellFormed(queue, runs)
  BY DEF IInv, TypeOK
<1>2. trunk' \in [Repositories -> Commit]
  <2>1. Append(trunk[r], e) \in Commit
    BY <1>1, AppendProperties DEF Commit
  <2> QED
    BY <1>1, <2>1
<1>3. MergedIsLanded'
  <2> SUFFICES ASSUME NEW id \in DOMAIN queue,
                      queue[id].integration = "MERGED"
               PROVE  IsPrefix(MergeCommit(queue[id].candidate),
                               trunk'[Repository(id)])
    BY DEF MergedIsLanded
  <2>1. IsPrefix(MergeCommit(queue[id].candidate), trunk[Repository(id)])
    BY DEF IInv, MergedIsLanded
  <2>2. id \in TaskId /\ queue[id].candidate \in Candidate
    BY <1>1, GapsAssumption DEF WellFormed, Task, TaskOK
  <2>3. Repository(id) \in Repositories
    BY <2>2, TaskRepository
  <2> QED
    BY <1>1, <2>1, <2>2, <2>3, StaysLanded
<1>4. ASSUME NEW k \in Jobs, job[k] # None
      PROVE  Fits(job[k], k \in current, queue, runs, trunk')
  <2>1. Fits(job[k], k \in current, queue, runs, trunk)
    BY <1>4, JobTyped
  <2> QED
    BY <1>1, <2>1, FitsGrown
<1> QED
  BY <1>2, <1>3, <1>4

LEMMA OutsideStep ==
    ASSUME IInv, NEW r \in Repositories,
           OutsideCommit(r) \/ (\E sha \in Shas : OutsideMerge(r, sha))
    PROVE  IInv'
<1>1. PICK e \in Shas \cup {Outside} :
        trunk' = [trunk EXCEPT ![r] = Append(@, e)]
  BY DEF OutsideCommit, OutsideMerge
<1>2. /\ UNCHANGED <<main, runtime, late, job, current>>
      /\ pulls' \in [Shas -> {"open", "merged", "gone"}]
      /\ changes' \in Nat
  BY DEF OutsideCommit, OutsideMerge, IInv, TypeOK
<1> USE DEF runtime
<1>3. /\ trunk' \in [Repositories -> Commit]
      /\ MergedIsLanded'
      /\ \A k \in Jobs :
           job[k] # None => Fits(job[k], k \in current, queue, runs, trunk')
  BY <1>1, <1>2, TrunkGrows
<1>4. TypeOK'
  BY <1>2, <1>3 DEF IInv, TypeOK
<1>5. \A k \in Jobs : JobFits(k)'
  BY <1>2, <1>3 DEF JobFits
<1> QED
  BY <1>2, <1>3, <1>4, <1>5 DEF IInv, CapacityHolds

LEMMA LandStep ==
    ASSUME NEW j \in Jobs, IInv, Land(j)
    PROVE  IInv'
<1> DEFINE id == job[j].plan
           r == Repository(id)
           t == [job[j] EXCEPT !.pc = "decided"]
           s == [t EXCEPT !.effect = "MERGED"]
<1>1. /\ job[j] \in Job /\ job[j].pc = "landing" /\ job[j].main \in Main
      /\ job[j] # None
      /\ Fits(job[j], j \in current, queue, runs, trunk)
      /\ job \in [Jobs -> Job \cup {None}]
      /\ WellFormed(queue, runs) /\ runs \in Nat
  BY JobTyped DEF Land, Landing, Fits, IInv, TypeOK
<1>2. /\ job[j].command = "TICK"
      /\ id \in DOMAIN queue /\ queue[id].status = "TERMINAL"
      /\ Operation(id) = "ASSURANCE"
      /\ j \in current => id \in Pending(queue)
  BY <1>1 DEF Fits, Integrates
<1>3. id \in TaskId /\ queue[id].candidate \in Candidate /\ r \in Repositories
  BY <1>1, <1>2, TaskRepository DEF WellFormed, Task, TaskOK
<1>4. /\ trunk[r] = queue[id].candidate.base
      /\ trunk' = [trunk EXCEPT ![r] = MergeCommit(queue[id].candidate)]
      /\ UNCHANGED <<main, runtime, late, current, pulls, changes>>
      /\ job' = [job EXCEPT ![j] = s] \/ job' = job
  BY DEF Land, Leased, OnFrozenBase
<1> USE DEF runtime
<1>5. /\ queue[id].candidate.sha \in Shas
      /\ trunk' = [trunk EXCEPT ![r] = Append(@, queue[id].candidate.sha)]
  BY <1>3, <1>4 DEF MergeCommit, Candidate
<1>6. /\ trunk' \in [Repositories -> Commit]
      /\ MergedIsLanded'
      /\ \A k \in Jobs :
           job[k] # None => Fits(job[k], k \in current, queue, runs, trunk')
  BY <1>3, <1>4, <1>5, TrunkGrows
<1>7. /\ t \in Job
      /\ t.pc = "decided" /\ t.command = "TICK"
      /\ t.main = job[j].main /\ t.plan = id
  BY <1>1, <1>2 DEF Job
<1> HIDE DEF t
<1>8. /\ s \in Job
      /\ s.pc = "decided" /\ s.command = "TICK" /\ s.effect = "MERGED"
      /\ s.main = job[j].main /\ s.plan = id
  BY <1>7 DEF Job
<1> HIDE DEF s
<1>9. IsPrefix(MergeCommit(queue[id].candidate), trunk'[r])
  <2>1. trunk \in [Repositories -> Commit]
    BY DEF IInv, TypeOK
  <2>2. trunk'[r] = MergeCommit(queue[id].candidate) /\ trunk'[r] \in Commit
    BY <1>3, <1>4, <1>6, <2>1
  <2> QED
    BY <2>2, PrefixOfItself DEF Commit
<1>10. Fits(s, j \in current, queue, runs, trunk')
  BY <1>1, <1>2, <1>8, <1>9 DEF Fits, Integrates
<1>11. job' \in [Jobs -> Job \cup {None}]
  BY <1>1, <1>4, <1>8
<1>12. \A k \in Jobs : JobFits(k)'
  <2>1. CASE job' = job
    BY <1>4, <1>6, <2>1 DEF JobFits
  <2>2. CASE job' = [job EXCEPT ![j] = s]
    <3>1. job'[j] = s /\ \A k \in Jobs \ {j} : job'[k] = job[k]
      BY <1>1, <2>2
    <3> QED
      BY <1>4, <1>6, <1>10, <3>1 DEF JobFits
  <2> QED
    BY <1>4, <2>1, <2>2
<1>13. TypeOK'
  BY <1>4, <1>6, <1>11 DEF IInv, TypeOK
<1> QED
  BY <1>4, <1>6, <1>12, <1>13 DEF IInv, CapacityHolds

LEMMA FactsTyped ==
    ASSUME NEW authority
    PROVE  Facts(authority) \subseteq Root
BY LegacyAssumption DEF Facts, LegacyTask

LEMMA PushStep ==
    ASSUME NEW j \in Jobs, IInv, Push(j)
    PROVE  IInv' /\ Settled(queue, queue')
<1> DEFINE id == job[j].plan
           effect == job[j].effect
           n == IF effect = "CLAIM" THEN runs + 1 ELSE runs
           merging == {x \in {id} : effect = "MERGED"}
<1>1. /\ Decided(j) /\ MayPush(j)
      /\ queue' = Written(j)
      /\ facts' = NewFacts(j)
      /\ (current' = current \ {j} /\ queue' = queue) \/ current' = {}
      /\ runs' = n
      /\ UNCHANGED <<main, target, changes>>
  <2>1. current' = (IF Unwritten(j) THEN current \ {j} ELSE {})
    BY DEF Push
  <2>2. CASE Unwritten(j)
    BY <2>1, <2>2 DEF Push, Unwritten
  <2>3. CASE ~Unwritten(j)
    BY <2>1, <2>3 DEF Push
  <2> QED
    BY <2>2, <2>3
<1>2. /\ job[j] # None /\ job[j].pc = "decided" /\ j \in current
      /\ job[j] \in Job
      /\ Fits(job[j], TRUE, queue, runs, trunk)
      /\ job \in [Jobs -> Job \cup {None}] /\ current \subseteq Jobs
      /\ WellFormed(queue, runs) /\ runs \in Nat
  BY <1>1, JobTyped DEF Decided, MayPush, IInv, TypeOK
<1>3. /\ Becomes(queue, runs, queue', runs', merging)
      /\ runs' \in Nat /\ runs <= runs'
  BY <1>1, <1>2, WrittenBecomes
<1>4. /\ WellFormed(queue, runs)' /\ CapacityHolds' /\ Settled(queue, queue')
      /\ MergedTasks(queue') \subseteq MergedTasks(queue) \cup merging
  BY <1>3 DEF Becomes, CapacityHolds, WellFormed
<1>5. trunk' = trunk
  BY <1>1 DEF target
<1>6. MergedIsLanded'
  <2> SUFFICES ASSUME NEW x \in MergedTasks(queue')
               PROVE  IsPrefix(MergeCommit(queue'[x].candidate),
                               trunk[Repository(x)])
    BY <1>5 DEF MergedIsLanded, MergedTasks
  <2>1. /\ x \in DOMAIN queue
        /\ queue[x].status = "TERMINAL"
        /\ IsPrefix(MergeCommit(queue[x].candidate), trunk[Repository(x)])
    <3>1. CASE x \in MergedTasks(queue)
      <4>1. x \in DOMAIN queue /\ queue[x].integration = "MERGED"
        BY <3>1 DEF MergedTasks
      <4>2. queue[x].status = "TERMINAL"
        BY <1>2, <4>1, GapsAssumption DEF WellFormed, TaskOK
      <4> QED
        BY <4>1, <4>2 DEF IInv, MergedIsLanded
    <3>2. CASE x \in merging
      BY <1>2, <3>2 DEF Fits, Integrates
    <3> QED
      BY <1>4, <3>1, <3>2
  <2>2. /\ queue[x] \in Task /\ queue'[x] \in Task
        /\ [queue'[x] EXCEPT !.integration = None]
             = [queue[x] EXCEPT !.integration = None]
    BY <1>2, <1>4, <2>1 DEF Settled, WellFormed
  <2>3. queue'[x].candidate = queue[x].candidate
    BY <2>2 DEF Task
  <2> QED
    BY <2>1, <2>3
<1>7. /\ job' = [job EXCEPT ![j] = None] \/ job' = [job EXCEPT ![j] = Retry(j)]
      /\ told' = told \/ (effect = "CLAIM" /\ told' = told \cup {<<id, runs + 1>>})
      /\ results' = results
         \/ (/\ effect = "RECORD"
             /\ results' = results \cup {[task |-> id, run |-> job[j].run,
                                          result |-> job[j].result]})
      /\ late' \subseteq late
  <2>1. \/ /\ job' = [job EXCEPT ![j] = None]
           /\ told' = IF effect = "CLAIM" THEN told \cup {<<id, runs + 1>>}
                      ELSE told
        \/ /\ job' = [job EXCEPT ![j] = Retry(j)]
           /\ told' = told
    BY DEF Push
  <2>2. results' =
          IF effect # "RECORD" THEN results
          ELSE results \cup {[task |-> id, run |-> job[j].run,
                              result |-> job[j].result]}
    BY DEF Push
  <2>3. late' \subseteq late
    BY DEF Push
  <2> QED
    BY <2>1, <2>2, <2>3
<1>8. /\ Retry(j) \in Job
      /\ Fits(Retry(j), FALSE, queue', runs', trunk')
  BY <1>1, RetryTyped, BeginAgain
<1>9. job' \in [Jobs -> Job \cup {None}]
  BY <1>2, <1>7, <1>8
<1>10. TypeOK'
  <2>1. told' \subseteq TaskId \X (1 .. runs')
    <3>1. told \subseteq TaskId \X (1 .. runs')
      BY <1>2, <1>3 DEF IInv, TypeOK
    <3>2. effect = "CLAIM" => id \in TaskId /\ runs + 1 \in 1 .. runs'
      BY <1>1, <1>2 DEF Fits
    <3> QED
      BY <1>7, <3>1, <3>2
  <2>2. results' \subseteq ResultFile
    <3>1. results \subseteq ResultFile
      BY DEF IInv, TypeOK
    <3>2. effect = "RECORD" =>
            id \in TaskId /\ job[j].run \in Nat /\ job[j].result \in Result
      BY <1>2 DEF Fits
    <3> QED
      BY <1>7, <3>1, <3>2 DEF ResultFile
  <2>3. late' \subseteq 1 .. runs'
    BY <1>2, <1>3, <1>7 DEF IInv, TypeOK
  <2>4. facts' # None => facts' \subseteq Root
    BY <1>1, FactsTyped DEF NewFacts, IInv, TypeOK
  <2>5. current' \subseteq Jobs
    BY <1>1, <1>2
  <2> QED
    BY <1>1, <1>3, <1>4, <1>9, <2>1, <2>2, <2>3, <2>4, <2>5
    DEF IInv, TypeOK, WellFormed, target
<1>11. \A k \in Jobs : JobFits(k)'
  <2>1. ASSUME NEW k \in Jobs \ {j}, job'[k] # None
        PROVE  Fits(job'[k], k \in current', queue', runs', trunk')
    <3>1. /\ job'[k] = job[k] /\ job[k] # None
          /\ Fits(job[k], k \in current, queue, runs, trunk)
      BY <1>2, <1>7, <2>1, JobTyped
    <3>2. Fits(job'[k], FALSE, queue', runs', trunk')
      <4>1. Fits(job[k], FALSE, queue, runs, trunk)
        BY <3>1, FitsStale
      <4>2. Fits(job[k], FALSE, queue', runs', trunk)
        BY <1>2, <1>3, <1>4, <4>1, FitsWritten
      <4> QED
        BY <1>5, <3>1, <4>2
    <3>3. CASE k \notin current'
      <4>1. (k \in current') = FALSE
        BY <3>3
      <4> QED
        BY <3>2, <4>1
    <3>4. CASE k \in current'
      <4>1. queue' = queue /\ k \in current
        BY <1>1, <3>4
      <4>2. Fits(job[k], TRUE, queue, runs, trunk)
        BY <3>1, <4>1
      <4>3. \A i : i \in 1 .. runs => i \in 1 .. runs'
        BY <1>2, <1>3
      <4> QED
        BY <1>5, <3>1, <3>4, <4>1, <4>2, <4>3 DEF Fits
    <3> QED
      BY <3>3, <3>4
  <2>2. job'[j] # None => Fits(job'[j], j \in current', queue', runs', trunk')
    <3>1. job'[j] # None => job'[j] = Retry(j)
      BY <1>2, <1>7
    <3>2. (j \in current') = FALSE
      BY <1>1
    <3> QED
      BY <1>8, <3>1, <3>2
  <2> QED
    BY <2>1, <2>2 DEF JobFits
<1> QED
  BY <1>4, <1>6, <1>10, <1>11 DEF IInv

-----------------------------------------------------------------------------
(* The invariant, and what follows from it. *)

LEMMA InitialState ==
    ASSUME Init
    PROVE  IInv
<1>1. main \in Main
  <2>1. /\ DependsOn \in [Gaps -> SUBSET Gaps]
        /\ 1 \in Nat
    BY GapsAssumption
  <2> QED
    BY <2>1 DEF Init, Main
<1>2. DOMAIN queue = {}
  BY DEF Init
<1>3. trunk \in [Repositories -> Commit]
  <2>1. <<>> \in Commit
    BY DEF Commit
  <2> QED
    BY <2>1 DEF Init
<1>4. TypeOK
  BY <1>1, <1>2, <1>3 DEF Init, TypeOK
<1>5. WellFormed(queue, runs) /\ CapacityHolds /\ MergedIsLanded
  BY <1>2 DEF WellFormed, CapacityHolds, ValidQueue, Executing, MergedIsLanded
<1>6. \A j \in Jobs : JobFits(j)
  BY DEF Init, JobFits
<1> QED
  BY <1>4, <1>5, <1>6 DEF IInv

LEMMA OneStep ==
    ASSUME IInv, [Next]_vars
    PROVE  /\ IInv'
           /\ queue' = queue \/ Settled(queue, queue')
<1> USE DEF runtime, target
<1>1. ASSUME NEW run \in 1 .. runs, Expire(run)
      PROVE  IInv' /\ queue' = queue
  BY <1>1, WorldStep DEF Expire, IInv, TypeOK
<1>2. CASE PublishRevision \/ FlipSwitch
  <2>1. /\ changes' = changes + 1
        /\ UNCHANGED <<runtime, late, job, current, target>>
    BY <1>2 DEF PublishRevision, FlipSwitch, Publish
  <2>2. main' \in Main
    BY <1>2, PublishTyped DEF IInv, TypeOK
  <2>3. TypeOK'
    BY <2>1, <2>2 DEF IInv, TypeOK
  <2> QED
    BY <2>1, <2>3, WorldStep
<1>3. ASSUME NEW r \in Repositories, OutsideCommit(r)
      PROVE  IInv' /\ queue' = queue
  <2>1. UNCHANGED <<queue, runs>>
    BY <1>3 DEF OutsideCommit
  <2> QED
    BY <1>3, <2>1, OutsideStep
<1>4. ASSUME NEW r \in Repositories, NEW sha \in Shas, OutsideMerge(r, sha)
      PROVE  IInv' /\ queue' = queue
  <2>1. UNCHANGED <<queue, runs>>
    BY <1>4 DEF OutsideMerge
  <2> QED
    BY <1>4, <2>1, OutsideStep
<1>5. ASSUME NEW r \in Repositories, NEW sha \in Shas,
             NoticeMerge(r, sha) \/ Abandon(r, sha)
      PROVE  IInv' /\ queue' = queue
  <2>1. /\ UNCHANGED <<main, runtime, late, job, current, trunk>>
        /\ pulls' \in [Shas -> {"open", "merged", "gone"}]
        /\ changes' \in Nat
    BY <1>5 DEF NoticeMerge, Abandon, IInv, TypeOK
  <2>2. TypeOK'
    BY <2>1 DEF IInv, TypeOK
  <2> QED
    BY <2>1, <2>2, WorldStep
<1>6. ASSUME NEW j \in Jobs,
             \/ \E worker \in Workers : StartClaim(j, worker)
             \/ StartRelease(j) \/ StartRecord(j) \/ PlanTick(j)
      PROVE  IInv' /\ queue' = queue
  <2>1. job[j] = None /\ queue' = queue
    BY <1>6 DEF StartClaim, StartRelease, StartRecord, PlanTick, Step
  <2> QED
    BY <1>6, <2>1, StartStep
<1>7. ASSUME NEW j \in Jobs,
             \/ LoadTick(j) \/ Die(j) \/ RecordAgain(j) \/ Conflict(j)
      PROVE  IInv' /\ queue' = queue
  <2>1. queue' = queue
    BY <1>7 DEF LoadTick, Die, RecordAgain, Conflict, Step
  <2> QED
    BY <1>7, <2>1, OtherSteps
<1>8. ASSUME NEW j \in Jobs,
             \/ DecideClaim(j) \/ DecideRelease(j) \/ DecideRecord(j)
      PROVE  IInv' /\ queue' = queue
  <2>1. queue' = queue
    BY <1>8 DEF DecideClaim, DecideRelease, DecideRecord, Decide, Fetch
  <2> QED
    BY <1>8, <2>1, DecideClaimStep, DecideReleaseStep, DecideRecordStep
<1>9. ASSUME NEW j \in Jobs,
             \/ DecideTick(j) \/ ReconcileMerged(j) \/ DecideHold(j)
             \/ DecideBaseDrift(j) \/ DecideLanding(j)
      PROVE  IInv' /\ queue' = queue
  <2>1. queue' = queue
    BY <1>9 DEF DecideTick, ReconcileMerged, DecideHold, DecideBaseDrift,
                DecideLanding, Decide, Fetch
  <2> QED
    BY <1>9, <2>1, TickStep, DecideLandingStep
<1>10. ASSUME NEW j \in Jobs, Land(j) \/ LandRefused(j)
       PROVE  IInv' /\ queue' = queue
  <2>1. queue' = queue
    BY <1>10 DEF Land, LandRefused, Step
  <2> QED
    BY <1>10, <2>1, LandStep, LandRefusedStep
<1>11. ASSUME NEW j \in Jobs, Push(j)
       PROVE  IInv' /\ Settled(queue, queue')
  BY <1>11, PushStep
<1>12. CASE UNCHANGED vars
  BY <1>12, WorldStep DEF vars, IInv, TypeOK
<1> QED
  BY <1>1, <1>2, <1>3, <1>4, <1>5, <1>6, <1>7, <1>8, <1>9, <1>10, <1>11, <1>12
  DEF Next

LEMMA Extended ==
    ASSUME IInv, NEW r \in Repositories, NEW e \in Shas \cup {Outside},
           trunk' = [trunk EXCEPT ![r] = Append(@, e)]
    PROVE  \A s \in Repositories : IsPrefix(trunk[s], trunk'[s])
<1> SUFFICES ASSUME NEW s \in Repositories
             PROVE  IsPrefix(trunk[s], trunk'[s])
  OBVIOUS
<1>1. trunk \in [Repositories -> Commit]
  BY DEF IInv, TypeOK
<1>2. trunk[s] \in Seq(Shas \cup {Outside})
  BY <1>1 DEF Commit
<1>3. IsPrefix(trunk[s], trunk[s])
  BY <1>2, PrefixOfItself
<1>4. IsPrefix(trunk[s], Append(trunk[s], e))
  BY <1>2, <1>3, AppendIsLonger
<1> QED
  BY <1>1, <1>3, <1>4

LEMMA TrunkStep ==
    ASSUME IInv, [Next]_vars
    PROVE  \/ trunk' = trunk
           \/ \A s \in Repositories : IsPrefix(trunk[s], trunk'[s])
<1> USE DEF runtime, target
<1>1. ASSUME NEW r \in Repositories,
             OutsideCommit(r) \/ \E sha \in Shas : OutsideMerge(r, sha)
      PROVE  \A s \in Repositories : IsPrefix(trunk[s], trunk'[s])
  <2>1. PICK e \in Shas \cup {Outside} :
          trunk' = [trunk EXCEPT ![r] = Append(@, e)]
    BY <1>1 DEF OutsideCommit, OutsideMerge
  <2> QED
    BY <2>1, Extended
<1>2. ASSUME NEW j \in Jobs, Land(j)
      PROVE  \A s \in Repositories : IsPrefix(trunk[s], trunk'[s])
  <2> DEFINE id == job[j].plan
  <2>1. /\ job[j] # None /\ WellFormed(queue, runs)
        /\ id \in DOMAIN queue /\ Operation(id) = "ASSURANCE"
    BY <1>2, JobTyped DEF Land, Landing, Fits, Integrates
  <2>2. /\ Repository(id) \in Repositories
        /\ queue[id].candidate \in Candidate
    BY <2>1, TaskRepository DEF WellFormed, Task, TaskOK
  <2>3. /\ queue[id].candidate.sha \in Shas
        /\ trunk' = [trunk EXCEPT ![Repository(id)] =
                       Append(@, queue[id].candidate.sha)]
    BY <1>2, <2>2 DEF Land, Leased, OnFrozenBase, MergeCommit, Candidate
  <2> QED
    BY <2>2, <2>3, Extended
<1>3. ASSUME NEW run \in 1 .. runs, Expire(run)
      PROVE  trunk' = trunk
  BY <1>3 DEF Expire
<1>4. CASE PublishRevision \/ FlipSwitch
  BY <1>4 DEF PublishRevision, FlipSwitch, Publish
<1>5. ASSUME NEW r \in Repositories, NEW sha \in Shas,
             NoticeMerge(r, sha) \/ Abandon(r, sha)
      PROVE  trunk' = trunk
  BY <1>5 DEF NoticeMerge, Abandon
<1>6. ASSUME NEW j \in Jobs,
             \/ \E worker \in Workers : StartClaim(j, worker)
             \/ StartRelease(j) \/ StartRecord(j) \/ PlanTick(j)
             \/ LoadTick(j) \/ Die(j) \/ RecordAgain(j) \/ Conflict(j)
             \/ LandRefused(j)
      PROVE  trunk' = trunk
  BY <1>6 DEF StartClaim, StartRelease, StartRecord, PlanTick, LoadTick, Die,
              RecordAgain, Conflict, LandRefused, Step
<1>7. ASSUME NEW j \in Jobs,
             \/ DecideClaim(j) \/ DecideRelease(j) \/ DecideRecord(j)
             \/ DecideTick(j) \/ ReconcileMerged(j) \/ DecideHold(j)
             \/ DecideBaseDrift(j) \/ DecideLanding(j)
      PROVE  trunk' = trunk
  BY <1>7 DEF DecideClaim, DecideRelease, DecideRecord, DecideTick,
              ReconcileMerged, DecideHold, DecideBaseDrift, DecideLanding,
              Decide, Fetch
<1>8. ASSUME NEW j \in Jobs, Push(j)
      PROVE  trunk' = trunk
  BY <1>8 DEF Push
<1>9. CASE UNCHANGED vars
  BY <1>9 DEF vars
<1> QED
  BY <1>1, <1>2, <1>3, <1>4, <1>5, <1>6, <1>7, <1>8, <1>9 DEF Next

\* Invocations may overlap, die, lose answers and retry on an old main: each
\* still writes something that fits the queue it replaces.
THEOREM KernelInvariant == Spec => []IInv
<1>1. Init => IInv
  BY InitialState
<1>2. IInv /\ [Next]_vars => IInv'
  BY OneStep
<1> QED
  BY <1>1, <1>2, PTL DEF Spec

\* Every invocation leaves well-formed files on the runtime branch and in
\* the targets.
THEOREM TypeCorrect == Spec => []TypeOK
<1>1. IInv => TypeOK
  BY DEF IInv
<1> QED
  BY <1>1, KernelInvariant, PTL

\* claim(): whatever claims race, a worker and a repository have one claim
\* and a run one task.
THEOREM CapacityAlwaysHolds == Spec => []CapacityHolds
<1>1. IInv => CapacityHolds
  BY DEF IInv
<1> QED
  BY <1>1, KernelInvariant, PTL

\* _integrate_one() and mark_integrated(): a task is MERGED only if its merge
\* commit is in the base branch, through crashes between the two pushes,
\* concurrent ticks and merges by others.
THEOREM MergedIsAlwaysLanded == Spec => []MergedIsLanded
<1>1. IInv => MergedIsLanded
  BY DEF IInv
<1> QED
  BY <1>1, KernelInvariant, PTL

\* No late or repeated writer changes a result, a superseded task or the end
\* of an integration.
THEOREM SettledAlwaysStands == Spec => SettledStands
<1>1. IInv /\ [Next]_vars => [Settled(queue, queue')]_queue
  BY OneStep
<1> QED
  BY <1>1, KernelInvariant, PTL DEF Spec, SettledStands

\* _fast_forward_branch_ref(): the leased push of a merge, whenever it is
\* made, only extends the base branch.
THEOREM BaseIsNeverRewound == Spec => BaseNeverRewound
<1>1. IInv /\ [Next]_vars =>
        [\A r \in Repositories : IsPrefix(trunk[r], trunk'[r])]_trunk
  BY TrunkStep
<1> QED
  BY <1>1, KernelInvariant, PTL DEF Spec, BaseNeverRewound

-----------------------------------------------------------------------------
(* Which identities a push adds. *)

\* r has besides q's tasks only follow-ups of them and gaps that are not known
\* and that depend on nothing unfinished.
Adds(q, r, known) ==
    \A x \in DOMAIN r :
      \/ x \in DOMAIN q
      \/ \E y \in DOMAIN q : Work(x) = Work(y)
      \/ /\ Work(x) \notin known
         /\ \A d \in DependsOn[Gap(x)] : GapSatisfied(r, known, Revision(x), d)

LEMMA RecordedAdds ==
    ASSUME NEW q, NEW id \in DOMAIN q, id \in TaskId, NEW run, NEW result,
           NEW known
    PROVE  Adds(q, Recorded(q, id, run, result), known)
<1> DEFINE r == Recorded(q, id, run, result)
           next == SuccessorOf(id, result)
<1>1. DOMAIN r = DOMAIN q \/ (next # None /\ DOMAIN r = DOMAIN q \cup {next})
  BY DEF Recorded, Added
<1>2. next # None => Work(next) = Work(id)
  BY SuccessorWork DEF SuccessorOf
<1> HIDE DEF r, next
<1>3. Adds(q, r, known)
  BY <1>1, <1>2 DEF Adds
<1> QED
  BY <1>3 DEF r

LEMMA FedAdds ==
    ASSUME NEW q, NEW known, NEW authority \in Main
    PROVE  Adds(q, Fed(q, known, authority), known)
<1> DEFINE r == Fed(q, known, authority)
<1>1. /\ DOMAIN q \subseteq DOMAIN r
      /\ \A x \in DOMAIN q : r[x] = q[x]
  BY DEF Fed
<1> SUFFICES ASSUME NEW x \in DOMAIN r, x \notin DOMAIN q
             PROVE  /\ Work(x) \notin known
                    /\ \A d \in DependsOn[Gap(x)] :
                         GapSatisfied(r, known, Revision(x), d)
  BY DEF Adds
<1>2. Gap(x) \in Feedable(q, known, authority, Repository(x))
  BY FedIsFeedable
<1>3. Revision(x) = authority.revision[Repository(x)]
  BY FedIsFeedable
<1> HIDE DEF r
<1>4. Work(x) \notin known
  BY <1>2, <1>3 DEF Work, Feedable
<1>5. ASSUME NEW d \in DependsOn[Gap(x)]
      PROVE  GapSatisfied(r, known, Revision(x), d)
  <2>1. authority.depends = DependsOn
    BY DEF Main
  <2>2. GapSatisfied(q, known, Revision(x), d)
    BY <1>2, <1>3, <1>5, <2>1 DEF Feedable
  <2> QED
    BY <1>1, <2>2 DEF GapSatisfied
<1> QED
  BY <1>4, <1>5

LEMMA TickedAdds ==
    ASSUME NEW j \in Jobs, IInv, Decided(j), MayPush(j),
           job[j].command = "TICK"
    PROVE  Adds(queue, Ticked(j), NewFacts(j))
<1> DEFINE id == job[j].plan
           effect == job[j].effect
           authority == job[j].main
           q == Reconciled(queue, authority, job[j].late)
           integrated == CASE effect = "MERGED" -> MarkedMerged(q, id)
                           [] effect = "HOLD" -> Held(q, id)
                           [] effect = "BASE_DRIFT" -> BaseDrifted(q, id)
                           [] OTHER -> q
           fed == Fed(integrated, NewFacts(j), authority)
<1>1. DOMAIN q = DOMAIN queue
  BY DEF Reconciled
<1>2. /\ effect = "BASE_DRIFT" => id \in DOMAIN queue /\ id \in TaskId
      /\ authority \in Main
  BY JobTyped DEF Fits, Integrates, Decided, WellFormed
<1>3. Ticked(j) = IF authority.enabled THEN fed ELSE integrated
  BY DEF Ticked
<1> HIDE DEF q
<1>4. \A x \in DOMAIN integrated :
        x \in DOMAIN queue \/ \E y \in DOMAIN queue : Work(x) = Work(y)
  <2>1. \/ DOMAIN integrated = DOMAIN q
        \/ /\ effect = "BASE_DRIFT"
           /\ DOMAIN integrated = DOMAIN q \cup {DriftRepair(q, id)}
    BY DEF MarkedMerged, Held, BaseDrifted, Added
  <2>2. effect = "BASE_DRIFT" => Work(DriftRepair(q, id)) = Work(id)
    BY <1>2, SuccessorWork DEF DriftRepair
  <2> HIDE DEF integrated
  <2> SUFFICES ASSUME NEW x \in DOMAIN integrated, x \notin DOMAIN queue
               PROVE  \E y \in DOMAIN queue : Work(x) = Work(y)
    OBVIOUS
  <2>3. effect = "BASE_DRIFT" /\ x = DriftRepair(q, id)
    BY <1>1, <2>1
  <2> QED
    BY <1>2, <2>2, <2>3
<1>5. Adds(integrated, fed, NewFacts(j))
  BY <1>2, FedAdds
<1> HIDE DEF integrated, fed
<1>6. Adds(queue, integrated, NewFacts(j)) /\ Adds(queue, fed, NewFacts(j))
  BY <1>4, <1>5 DEF Adds
<1> QED
  BY <1>3, <1>6

LEMMA WrittenAdds ==
    ASSUME NEW j \in Jobs, IInv, Decided(j), MayPush(j)
    PROVE  Adds(queue, Written(j), NewFacts(j))
<1> DEFINE id == job[j].plan
           q == Reconciled(queue, job[j].main, job[j].late)
<1>1. CASE job[j].command = "TICK"
  <2>1. job[j].effect \notin {"CLAIM", "RELEASE", "RECORD"}
    BY <1>1, JobTyped DEF Fits, Decided
  <2>2. Written(j) = Ticked(j)
    BY <1>1, <2>1 DEF Written
  <2> QED
    BY <1>1, <2>2, TickedAdds
<1>2. CASE job[j].command # "TICK" /\ job[j].effect = "RECORD"
  <2>1. Written(j) = Recorded(queue, id, job[j].run, job[j].result)
    BY <1>2 DEF Written
  <2>2. id \in Executing(queue) /\ id \in TaskId
    BY <1>2, JobTyped DEF Fits, Decided, MayPush
  <2> QED
    BY <2>1, <2>2, RecordedAdds DEF Executing
<1>3. CASE job[j].command # "TICK" /\ job[j].effect # "RECORD"
  <2>1. DOMAIN q = DOMAIN queue
    BY DEF Reconciled
  <2>2. \/ Written(j) = Released(queue, id)
        \/ Written(j) = Claimed(q, id, runs + 1)
        \/ Written(j) = q
    BY <1>3 DEF Written
  <2>3. DOMAIN Written(j) = DOMAIN queue
    BY <2>1, <2>2 DEF Released, Claimed
  <2> QED
    BY <2>3 DEF Adds
<1> QED
  BY <1>1, <1>2, <1>3

-----------------------------------------------------------------------------
(* Facts. *)

LEMMA FactsAreKnown ==
    ASSUME NEW authority
    PROVE  Facts(authority) # None
<1>1. Facts(authority) \in SUBSET {Legacy[t].names : t \in DOMAIN Legacy}
  BY DEF Facts
<1> QED
  BY <1>1, LegacyAssumption

\* What is merged stays merged.
LEMMA SatisfiedStands ==
    ASSUME NEW q, NEW n, NEW r, NEW m, NEW known, NEW revision, NEW gap,
           WellFormed(q, n), WellFormed(r, m), Settled(q, r),
           GapSatisfied(q, known, revision, gap)
    PROVE  GapSatisfied(r, known, revision, gap)
<1>1. CASE [revision |-> revision, gap |-> gap] \in known
  BY <1>1 DEF GapSatisfied
<1>2. CASE [revision |-> revision, gap |-> gap] \notin known
  <2>1. PICK id \in DOMAIN q :
          /\ Revision(id) = revision /\ Gap(id) = gap
          /\ Operation(id) = "ASSURANCE"
          /\ q[id].status = "TERMINAL" /\ q[id].outcome = "PASS"
          /\ q[id].integration = "MERGED"
    BY <1>2 DEF GapSatisfied
  <2>2. /\ id \in DOMAIN r
        /\ q[id] \in Task /\ r[id] \in Task
        /\ [r[id] EXCEPT !.integration = None]
             = [q[id] EXCEPT !.integration = None]
        /\ r[id].integration = "MERGED"
    BY <2>1 DEF Settled, WellFormed
  <2>3. r[id].status = "TERMINAL" /\ r[id].outcome = "PASS"
    BY <2>1, <2>2 DEF Task
  <2> QED
    BY <2>1, <2>2, <2>3 DEF GapSatisfied
<1> QED
  BY <1>1, <1>2

LEMMA FactsPush ==
    ASSUME NEW j \in Jobs, IInv, FactsFit, Push(j)
    PROVE  FactsFit'
<1>1. /\ Decided(j) /\ MayPush(j) /\ job[j] # None /\ job[j].pc = "decided"
      /\ queue' = Written(j) /\ facts' = NewFacts(j)
      /\ job' = [job EXCEPT ![j] = None] \/ job' = [job EXCEPT ![j] = Retry(j)]
  BY DEF Push, Decided
<1>2. facts' # None
  BY <1>1, FactsAreKnown DEF NewFacts
<1>3. \A x \in DOMAIN queue : facts' = facts /\ Work(x) \notin facts'
  BY <1>1 DEF FactsFit, FactsStand, NewFacts, Work
<1>4. Adds(queue, queue', facts')
  BY <1>1, WrittenAdds
<1>5. FactsStand'
  BY <1>3, <1>4 DEF FactsStand, Adds, Work, Revision, Gap
<1>6. ASSUME NEW x \in DOMAIN queue', NEW d \in DependsOn[Gap(x)]
      PROVE  GapSatisfied(queue', facts', Revision(x), d)
  <2>1. ASSUME NEW y \in DOMAIN queue, Revision(x) = Revision(y), Gap(x) = Gap(y)
        PROVE  GapSatisfied(queue', facts', Revision(x), d)
    <3>1. GapSatisfied(queue, facts', Revision(x), d)
      BY <1>3, <1>6, <2>1 DEF FactsFit, DependenciesMerged
    <3>2. WellFormed(queue, runs) /\ WellFormed(queue', runs')
          /\ Settled(queue, queue')
      BY PushStep DEF IInv, WellFormed
    <3> QED
      BY <3>1, <3>2, SatisfiedStands
  <2>2. \A y \in DOMAIN queue :
          Work(x) = Work(y) => Revision(x) = Revision(y) /\ Gap(x) = Gap(y)
    BY DEF Work
  <2> QED
    BY <1>4, <1>6, <2>1, <2>2 DEF Adds
<1>7. DependenciesMerged'
  BY <1>6 DEF DependenciesMerged, Revision, Gap
<1> QED
  BY <1>2, <1>5, <1>7 DEF FactsFit

\* A job that has just decided: a tick, or one that saw a queue of V3.1.
LEMMA FactsDecided ==
    ASSUME NEW j \in Jobs, FactsFit, UNCHANGED <<queue, facts>>,
           \A k \in Jobs \ {j} : job'[k] = job[k],
           Decided(j)' => job'[j].command = "TICK" \/ facts # None
    PROVE  FactsFit'
BY DEF FactsFit, FactsStand, DependenciesMerged, Decided, Revision, Gap

-----------------------------------------------------------------------------
(* What an invocation is after a step of its own that writes nothing. *)

\* It is over; or it begins, again; or it has decided, on what is late now;
\* or it has decided to end the claim it names; or it has landed its plan.
Moved(j, s) ==
    \/ s = None
    \/ /\ s.late = {}
       /\ s.effect = "NONE"
       /\ s.pc # "decided"
    \/ /\ s.late = late
       /\ s.effect \notin {"RELEASE", "RECORD"}
       /\ s.pc \in {"landing", "decided"}
       /\ s.command = "TICK" \/ facts # None
    \/ /\ s.late = {}
       /\ queue[s.plan].run = s.run
       /\ s.pc = "decided"
       /\ facts # None
    \/ /\ job[j] # None
       /\ s.late = job[j].late
       /\ s.effect \notin {"RELEASE", "RECORD"}
       /\ s.pc = "decided"
       /\ s.command = "TICK"
       /\ current' = current

\* Nothing else has changed that the facts and the claims depend on.
Quiet(j) ==
    /\ UNCHANGED <<queue, facts, late>>
    /\ \A k \in Jobs \ {j} :
         /\ job'[k] = job[k]
         /\ k \in current' => k \in current

LEMMA QuietFacts ==
    ASSUME NEW j \in Jobs, FactsFit, Quiet(j), Moved(j, job'[j])
    PROVE  FactsFit'
<1>1. Decided(j)' => job'[j].command = "TICK" \/ facts # None
  BY DEF Moved, Decided
<1>2. /\ UNCHANGED <<queue, facts>>
      /\ \A k \in Jobs \ {j} : job'[k] = job[k]
  BY DEF Quiet
<1> QED
  BY <1>1, <1>2, FactsDecided

LEMMA QuietClaims ==
    ASSUME NEW j \in Jobs, ClaimsFit, Quiet(j), Moved(j, job'[j])
    PROVE  ClaimsFit'
<1>1. ClaimFits(j)'
  BY DEF Moved, Quiet, ClaimsFit, ClaimFits
<1>2. ASSUME NEW k \in Jobs \ {j}
      PROVE  ClaimFits(k)'
  <2>1. /\ job'[k] = job[k] /\ queue' = queue /\ late' = late
        /\ k \in current' => k \in current
        /\ ClaimFits(k)
    BY DEF Quiet, ClaimsFit
  <2> QED
    BY <2>1 DEF ClaimFits
<1> QED
  BY <1>1, <1>2 DEF ClaimsFit

Past == IInv /\ FactsFit /\ ClaimsFit

LEMMA MovedStep ==
    ASSUME NEW j \in Jobs, Past, NEW s, Moved(j, s),
           job' = [job EXCEPT ![j] = s],
           \A k \in Jobs \ {j} : k \in current' => k \in current,
           UNCHANGED runtime, UNCHANGED late
    PROVE  FactsFit' /\ ClaimsFit'
<1>1. job'[j] = s /\ \A k \in Jobs \ {j} : job'[k] = job[k]
  BY DEF Past, IInv, TypeOK
<1>2. Quiet(j)
  BY <1>1 DEF Quiet, runtime
<1>3. Moved(j, job'[j])
  BY <1>1
<1> QED
  BY <1>2, <1>3, QuietFacts, QuietClaims DEF Past

LEMMA StartsMoved ==
    ASSUME NEW j \in Jobs, Past,
           \/ \E worker \in Workers : StartClaim(j, worker)
           \/ StartRelease(j) \/ StartRecord(j) \/ PlanTick(j)
    PROVE  FactsFit' /\ ClaimsFit'
<1> DEFINE Begun(s) == s.late = {} /\ s.effect = "NONE" /\ s.pc # "decided"
<1>1. ASSUME NEW s, Step(j, s), Begun(s)
      PROVE  FactsFit' /\ ClaimsFit'
  BY <1>1, MovedStep DEF Step, Moved
<1>2. ASSUME NEW worker \in Workers, StartClaim(j, worker)
      PROVE  FactsFit' /\ ClaimsFit'
  <2> DEFINE s == [NewJob("CLAIM") EXCEPT !.worker = worker]
  <2>1. Begun(s) /\ Step(j, s)
    BY <1>2 DEF StartClaim, NewJob
  <2> QED
    BY <1>1, <2>1
<1>3. Begun(NewJob("RELEASE")) /\ Begun(NewJob("RECORD"))
  BY DEF NewJob
<1>4. CASE StartRelease(j) \/ StartRecord(j)
  BY <1>1, <1>3, <1>4 DEF StartRelease, StartRecord
<1>5. CASE PlanTick(j)
  <2>1. PICK id \in TaskId \cup {None} :
          Step(j, [NewJob("TICK") EXCEPT !.pc = "planned", !.main = None,
                                         !.plan = id])
    BY <1>5 DEF PlanTick, Pending, Past, IInv, TypeOK
  <2> DEFINE s == [NewJob("TICK") EXCEPT !.pc = "planned", !.main = None,
                                         !.plan = id]
  <2>2. Begun(s)
    BY DEF NewJob
  <2> QED
    BY <1>1, <2>1, <2>2
<1> QED
  BY <1>2, <1>4, <1>5

LEMMA RestartsMoved ==
    ASSUME NEW j \in Jobs, Past,
           LoadTick(j) \/ Die(j) \/ RecordAgain(j) \/ Conflict(j)
    PROVE  FactsFit' /\ ClaimsFit'
<1>1. CASE Die(j) \/ RecordAgain(j)
  BY <1>1, MovedStep DEF Die, RecordAgain, Step, Moved
<1>2. CASE LoadTick(j)
  <2> DEFINE t == [job[j] EXCEPT !.pc = "loaded"]
             s == [t EXCEPT !.main = main]
  <2>1. /\ job' = [job EXCEPT ![j] = s]
        /\ UNCHANGED <<main, runtime, late, current, target, changes>>
        /\ job[j] # None /\ job[j].pc = "planned"
    BY <1>2 DEF LoadTick, Step
  <2>2. /\ job[j] \in Job /\ job[j].effect = "NONE" /\ job[j].late = {}
        /\ main \in Main
    BY <2>1, JobTyped DEF Past, Fits, ClaimsFit, ClaimFits
  <2>3. t \in Job /\ t.pc = "loaded" /\ t.effect = "NONE" /\ t.late = {}
    BY <2>2 DEF Job
  <2> HIDE DEF t
  <2>4. s.pc = "loaded" /\ s.effect = "NONE" /\ s.late = {}
    BY <2>2, <2>3 DEF Job
  <2> HIDE DEF s
  <2> QED
    BY <2>1, <2>4, MovedStep DEF Moved
<1>3. CASE Conflict(j)
  <2>1. Retry(j).pc = "loaded" /\ Retry(j).effect = "NONE" /\ Retry(j).late = {}
    BY <1>3, RetryTyped DEF Conflict, Past
  <2> QED
    BY <1>3, <2>1, MovedStep DEF Conflict, Step, Moved
<1> QED
  BY <1>1, <1>2, <1>3

LEMMA DecideMoved ==
    ASSUME NEW j \in Jobs, Past, NEW command \in {"CLAIM", "TICK"},
           NEW effect \in {"NONE", "MERGED", "HOLD", "BASE_DRIFT"},
           Loaded(j, command), Decide(j, effect)
    PROVE  FactsFit' /\ ClaimsFit'
<1> DEFINE t == [job[j] EXCEPT !.pc = "decided"]
           u == [t EXCEPT !.effect = effect]
           s == [u EXCEPT !.late = late]
<1>1. /\ job[j] \in Job /\ late \in SUBSET Nat
      /\ job[j].command = command
      /\ command = "TICK" \/ facts # None
  BY JobTyped DEF Past, Loaded
<1>2. /\ job' = [job EXCEPT ![j] = s]
      /\ current' = current \cup {j}
      /\ UNCHANGED <<runtime, late>>
  BY DEF Decide, Fetch
<1>3. t \in Job /\ t.pc = "decided" /\ t.command = command
  BY <1>1 DEF Job
<1> HIDE DEF t
<1>4. /\ u \in Job /\ u.pc = "decided" /\ u.command = command
      /\ u.effect = effect
  BY <1>3 DEF Job
<1> HIDE DEF u
<1>5. /\ s.pc = "decided" /\ s.command = command
      /\ s.effect = effect /\ s.late = late
  BY <1>4 DEF Job
<1> HIDE DEF s
<1>6. Moved(j, s)
  BY <1>1, <1>5 DEF Moved
<1> QED
  BY <1>2, <1>6, MovedStep

LEMMA ClaimMoved ==
    ASSUME NEW j \in Jobs, Past, DecideClaim(j)
    PROVE  FactsFit' /\ ClaimsFit'
<1> DEFINE q == Reconciled(queue, job[j].main, late)
<1>1. /\ Loaded(j, "CLAIM")
      /\ \/ Decide(j, "NONE")
         \/ \E id \in Selectable(q, job[j].worker) :
              Fetch(j, [job[j] EXCEPT !.pc = "decided", !.plan = id,
                                      !.effect = "CLAIM", !.late = late])
  BY DEF DecideClaim
<1>2. CASE Decide(j, "NONE")
  BY <1>1, <1>2, DecideMoved
<1>3. ASSUME NEW id \in Selectable(q, job[j].worker),
             Fetch(j, [job[j] EXCEPT !.pc = "decided", !.plan = id,
                                     !.effect = "CLAIM", !.late = late])
      PROVE  FactsFit' /\ ClaimsFit'
  <2> DEFINE t == With(job[j], "decided", "CLAIM", late)
             s == [t EXCEPT !.plan = id]
  <2>1. /\ job[j] \in Job /\ late \in SUBSET Nat /\ facts # None
        /\ DOMAIN queue \subseteq TaskId
    BY <1>1, JobTyped DEF Past, Loaded
  <2>2. id \in TaskId
    BY <2>1 DEF Selectable, Reconciled
  <2>3. t \in Job /\ t.pc = "decided" /\ t.effect = "CLAIM" /\ t.late = late
    BY <2>1, StateTyped
  <2>4. /\ job' = [job EXCEPT ![j] = s]
        /\ current' = current \cup {j}
        /\ UNCHANGED <<runtime, late>>
    BY <1>3 DEF Fetch, With
  <2> HIDE DEF t
  <2>5. s.pc = "decided" /\ s.effect = "CLAIM" /\ s.late = late
    BY <2>2, <2>3 DEF Job
  <2> HIDE DEF s
  <2>6. Moved(j, s)
    BY <2>1, <2>5 DEF Moved
  <2> QED
    BY <2>4, <2>6, MovedStep
<1> QED
  BY <1>1, <1>2, <1>3

\* A job that ends a claim of the queue it has fetched.
LEMMA EndingMoved ==
    ASSUME NEW j \in Jobs, Past, NEW claim \in told,
           CurrentClaim(queue, claim[1], claim[2], late), facts # None,
           job[j] # None, job[j].pc = "loaded",
           NEW effect \in {"RELEASE", "RECORD"}, NEW result \in Result \cup {None},
           \/ Fetch(j, [job[j] EXCEPT !.pc = "decided", !.effect = effect,
                                      !.plan = claim[1], !.run = claim[2]])
           \/ Fetch(j, [job[j] EXCEPT !.pc = "decided", !.effect = effect,
                                      !.plan = claim[1], !.run = claim[2],
                                      !.result = result])
    PROVE  FactsFit' /\ ClaimsFit'
<1> DEFINE id == claim[1]
           run == claim[2]
           r == [job[j] EXCEPT !.pc = "decided"]
           t == [r EXCEPT !.effect = effect]
           u == [t EXCEPT !.plan = id]
           v == [u EXCEPT !.run = run]
           s == [v EXCEPT !.result = result]
<1>1. job[j] \in Job /\ job[j].late = {}
  BY JobTyped DEF Past, ClaimsFit, ClaimFits
<1>2. id \in TaskId /\ run \in Nat /\ queue[id].run = run
  BY ToldTyped DEF Past, CurrentClaim
<1>3. /\ job' = [job EXCEPT ![j] = v] \/ job' = [job EXCEPT ![j] = s]
      /\ current' = current \cup {j}
      /\ UNCHANGED <<runtime, late>>
  BY DEF Fetch
<1>4. r \in Job /\ r.pc = "decided" /\ r.late = {}
  BY <1>1 DEF Job
<1> HIDE DEF id, run, r
<1>5. t \in Job /\ t.pc = "decided" /\ t.late = {}
  BY <1>4 DEF Job
<1> HIDE DEF t
<1>6. u \in Job /\ u.pc = "decided" /\ u.late = {} /\ u.plan = id
  BY <1>2, <1>5 DEF Job
<1> HIDE DEF u
<1>7. v \in Job /\ v.pc = "decided" /\ v.late = {} /\ v.plan = id /\ v.run = run
  BY <1>2, <1>6 DEF Job
<1> HIDE DEF v
<1>8. s.pc = "decided" /\ s.late = {} /\ s.plan = id /\ s.run = run
  BY <1>7 DEF Job
<1> HIDE DEF s
<1>9. Moved(j, v) /\ Moved(j, s)
  BY <1>2, <1>7, <1>8 DEF Moved
<1> QED
  BY <1>3, <1>9, MovedStep

LEMMA EndsMoved ==
    ASSUME NEW j \in Jobs, Past, DecideRelease(j) \/ DecideRecord(j)
    PROVE  FactsFit' /\ ClaimsFit'
<1>1. CASE DecideRelease(j)
  <2>1. PICK claim \in told :
          /\ CurrentClaim(queue, claim[1], claim[2], late)
          /\ Fetch(j, [job[j] EXCEPT !.pc = "decided", !.effect = "RELEASE",
                                     !.plan = claim[1], !.run = claim[2]])
    BY <1>1 DEF DecideRelease
  <2>2. job[j] # None /\ job[j].pc = "loaded" /\ facts # None
    BY <1>1 DEF DecideRelease, Loaded
  <2> QED
    BY <2>1, <2>2, EndingMoved
<1>2. CASE DecideRecord(j)
  <2>1. PICK claim \in told :
          /\ MayRecord(j, claim[1])
          /\ CurrentClaim(queue, claim[1], claim[2], late)
          /\ \E result \in Reports(claim[1]) :
               Fetch(j, [job[j] EXCEPT !.pc = "decided", !.effect = "RECORD",
                                       !.plan = claim[1], !.run = claim[2],
                                       !.result = result])
    BY <1>2 DEF DecideRecord
  <2>2. job[j] # None /\ job[j].pc = "loaded" /\ facts # None
    BY <2>1 DEF MayRecord, Loaded
  <2>3. PICK result \in Reports(claim[1]) :
          Fetch(j, [job[j] EXCEPT !.pc = "decided", !.effect = "RECORD",
                                  !.plan = claim[1], !.run = claim[2],
                                  !.result = result])
    BY <2>1
  <2>4. result \in Result
    BY <2>1, ReportTyped DEF Past, CurrentClaim
  <2> QED
    BY <2>1, <2>2, <2>3, <2>4, EndingMoved
<1> QED
  BY <1>1, <1>2

LEMMA TickMoved ==
    ASSUME NEW j \in Jobs, Past,
           \/ DecideTick(j) \/ ReconcileMerged(j) \/ DecideHold(j)
           \/ DecideBaseDrift(j) \/ DecideLanding(j)
    PROVE  FactsFit' /\ ClaimsFit'
<1> DEFINE s == [job[j] EXCEPT !.pc = "landing", !.late = late]
<1>1. /\ Loaded(j, "TICK")
      /\ \/ \E effect \in {"NONE", "MERGED", "HOLD", "BASE_DRIFT"} :
              Decide(j, effect)
         \/ Fetch(j, s)
  BY DEF DecideTick, ReconcileMerged, DecideHold, DecideBaseDrift,
         DecideLanding, StillOpen, Integrating
<1>2. ASSUME NEW effect \in {"NONE", "MERGED", "HOLD", "BASE_DRIFT"},
             Decide(j, effect)
      PROVE  FactsFit' /\ ClaimsFit'
  BY <1>1, <1>2, DecideMoved
<1>3. CASE Fetch(j, s)
  <2> DEFINE t == [job[j] EXCEPT !.pc = "landing"]
  <2>1. /\ job[j] \in Job /\ late \in SUBSET Nat
        /\ job[j].command = "TICK"
        /\ job[j].effect \notin {"RELEASE", "RECORD"}
    BY <1>1, JobTyped DEF Past, Loaded, Fits
  <2>2. /\ t \in Job /\ t.pc = "landing" /\ t.command = "TICK"
        /\ t.effect \notin {"RELEASE", "RECORD"}
    BY <2>1 DEF Job
  <2>3. s = [t EXCEPT !.late = late]
    OBVIOUS
  <2>4. /\ job' = [job EXCEPT ![j] = s]
        /\ current' = current \cup {j}
        /\ UNCHANGED <<runtime, late>>
    BY <1>3 DEF Fetch
  <2> HIDE DEF s, t
  <2>5. /\ s.pc = "landing" /\ s.command = "TICK" /\ s.late = late
        /\ s.effect \notin {"RELEASE", "RECORD"}
    BY <2>1, <2>2, <2>3 DEF Job
  <2>6. Moved(j, s)
    BY <2>5 DEF Moved
  <2> QED
    BY <2>4, <2>6, MovedStep
<1> QED
  BY <1>1, <1>2, <1>3

LEMMA LandMoved ==
    ASSUME NEW j \in Jobs, Past, Land(j) \/ LandRefused(j)
    PROVE  FactsFit' /\ ClaimsFit'
<1> DEFINE t == [job[j] EXCEPT !.pc = "decided"]
<1>1. /\ UNCHANGED <<runtime, late, current>>
      /\ \/ job' = job
         \/ \E effect \in {"MERGED", "BASE_DRIFT"} :
              job' = [job EXCEPT ![j] = [t EXCEPT !.effect = effect]]
  BY DEF Land, LandRefused, Step
<1>2. /\ job[j] # None /\ job[j] \in Job /\ job[j].command = "TICK"
  BY JobTyped DEF Past, Land, LandRefused, Landing, Fits, Integrates
<1>3. t \in Job /\ t.pc = "decided" /\ t.command = "TICK" /\ t.late = job[j].late
  BY <1>2 DEF Job
<1> HIDE DEF t
<1>4. CASE job' = job
  BY <1>1, <1>4 DEF runtime, Past, FactsFit, FactsStand, DependenciesMerged,
                    Decided, Revision, Gap, ClaimsFit, ClaimFits
<1>5. ASSUME NEW effect \in {"MERGED", "BASE_DRIFT"},
             job' = [job EXCEPT ![j] = [t EXCEPT !.effect = effect]]
      PROVE  FactsFit' /\ ClaimsFit'
  <2> DEFINE s == [t EXCEPT !.effect = effect]
  <2>1. /\ s.pc = "decided" /\ s.command = "TICK" /\ s.late = job[j].late
        /\ s.effect \notin {"RELEASE", "RECORD"}
    BY <1>3 DEF Job
  <2>2. job' = [job EXCEPT ![j] = s]
    BY <1>5
  <2> HIDE DEF s
  <2>3. Moved(j, s)
    BY <1>1, <1>2, <2>1 DEF Moved
  <2> QED
    BY <1>1, <2>2, <2>3, MovedStep
<1> QED
  BY <1>1, <1>4, <1>5

LEMMA ClaimsPush ==
    ASSUME NEW j \in Jobs, Past, Push(j)
    PROVE  ClaimsFit'
<1>1. /\ job' = [job EXCEPT ![j] = None] \/ job' = [job EXCEPT ![j] = Retry(j)]
      /\ \/ current' = {}
         \/ current' = current \ {j} /\ queue' = queue
      /\ late' = {run \in late : \E id \in Executing(queue') :
                                   queue'[id].run = run}
      /\ Decided(j)
  BY DEF Push, Unwritten
<1>2. job \in [Jobs -> Job \cup {None}] /\ Retry(j).late = {}
  BY <1>1, RetryTyped DEF Past, IInv, TypeOK
<1>3. ClaimFits(j)'
  <2>1. job'[j] = None \/ job'[j] = Retry(j)
    BY <1>1, <1>2
  <2>2. j \notin current'
    BY <1>1
  <2> QED
    BY <1>2, <2>1, <2>2 DEF ClaimFits
<1>4. ASSUME NEW k \in Jobs \ {j}
      PROVE  ClaimFits(k)'
  <2>1. job'[k] = job[k] /\ ClaimFits(k)
    BY <1>1, <1>2 DEF Past, ClaimsFit
  <2>2. CASE k \notin current'
    BY <2>1, <2>2 DEF ClaimFits
  <2>3. CASE k \in current'
    <3>1. k \in current /\ queue' = queue
      BY <1>1, <2>3
    <3>2. \A id \in Executing(queue) :
            queue[id].run \in late => queue[id].run \in late'
      BY <1>1, <3>1
    <3> QED
      BY <2>1, <3>1, <3>2 DEF ClaimFits
  <2> QED
    BY <2>2, <2>3
<1> QED
  BY <1>3, <1>4 DEF ClaimsFit

-----------------------------------------------------------------------------
(* Who ends a claim. *)

\* How the claim of id may be missing from r.
Fenced(j, id, r) ==
    \/ r[id].run = queue[id].run
    \/ queue[id].run \in late
    \/ /\ r[id].status = "QUEUED"
       /\ job[j].effect = "RELEASE"
       /\ job[j].run = queue[id].run
    \/ /\ r[id].status = "SUPERSEDED"
       /\ ~LiveAuthority(job[j].main, id)

LEMMA ReconciledFenced ==
    ASSUME NEW j \in Jobs, Past, Decided(j), MayPush(j),
           NEW id \in Executing(queue)
    PROVE  LET r == Reconciled(queue, job[j].main, job[j].late)
           IN  /\ id \in DOMAIN r
               /\ Fenced(j, id, r)
               /\ r[id].status = "QUEUED" => queue[id].run \in late
<1> DEFINE r == Reconciled(queue, job[j].main, job[j].late)
<1>1. id \in DOMAIN queue /\ queue[id].status = "EXECUTING" /\ queue[id] \in Task
  BY DEF Executing, Past, IInv, WellFormed
<1>2. id \in DOMAIN r
  BY <1>1 DEF Reconciled
<1>3. \/ r[id] = queue[id]
      \/ /\ ~LiveAuthority(job[j].main, id)
         /\ r[id] = [queue[id] EXCEPT !.status = "SUPERSEDED", !.run = None]
      \/ queue[id].run \in job[j].late
  BY <1>1 DEF Reconciled
<1>4. queue[id].run \in job[j].late => queue[id].run \in late
  BY DEF Past, ClaimsFit, ClaimFits, Decided, MayPush
<1> HIDE DEF r
<1>5. CASE r[id] = queue[id]
  BY <1>1, <1>2, <1>5 DEF Fenced, r
<1>6. CASE /\ ~LiveAuthority(job[j].main, id)
           /\ r[id] = [queue[id] EXCEPT !.status = "SUPERSEDED", !.run = None]
  <2>1. r[id].status = "SUPERSEDED"
    BY <1>1, <1>6 DEF Task
  <2> QED
    BY <1>2, <1>6, <2>1 DEF Fenced, r
<1>7. CASE queue[id].run \in job[j].late
  BY <1>2, <1>4, <1>7 DEF Fenced, r
<1> QED
  BY <1>3, <1>5, <1>6, <1>7

LEMMA TickedFenced ==
    ASSUME NEW j \in Jobs, Past, Decided(j), MayPush(j),
           job[j].command = "TICK", NEW id \in Executing(queue)
    PROVE  Fenced(j, id, Ticked(j))
<1> DEFINE plan == job[j].plan
           effect == job[j].effect
           q == Reconciled(queue, job[j].main, job[j].late)
           integrated == CASE effect = "MERGED" -> MarkedMerged(q, plan)
                           [] effect = "HOLD" -> Held(q, plan)
                           [] effect = "BASE_DRIFT" -> BaseDrifted(q, plan)
                           [] OTHER -> q
           fed == Fed(integrated, NewFacts(j), job[j].main)
<1>1. id \in DOMAIN q /\ Fenced(j, id, q)
  BY ReconciledFenced
<1>2. effect \in {"MERGED", "HOLD", "BASE_DRIFT"} => plan # id
  BY JobTyped DEF Past, Decided, Fits, Integrates, Executing
<1>3. Ticked(j) = IF job[j].main.enabled THEN fed ELSE integrated
  BY DEF Ticked
<1> HIDE DEF q
<1>4. id \in DOMAIN integrated /\ integrated[id] = q[id]
  BY <1>1, <1>2 DEF MarkedMerged, Held, BaseDrifted, Added
<1> HIDE DEF integrated
<1>5. fed[id] = integrated[id]
  BY <1>4 DEF Fed
<1> HIDE DEF fed
<1>6. Ticked(j)[id] = q[id]
  BY <1>3, <1>4, <1>5
<1> QED
  BY <1>1, <1>6 DEF Fenced

LEMMA WrittenFenced ==
    ASSUME NEW j \in Jobs, Past, Decided(j), MayPush(j),
           NEW id \in Executing(queue)
    PROVE  Fenced(j, id, Written(j))
<1> DEFINE plan == job[j].plan
           effect == job[j].effect
           q == Reconciled(queue, job[j].main, job[j].late)
<1>1. /\ id \in DOMAIN queue /\ queue[id] \in Task
      /\ Fits(job[j], TRUE, queue, runs, trunk)
      /\ job[j].effect \in {"RELEASE", "RECORD"} =>
           queue[plan].run = job[j].run
  BY JobTyped DEF Executing, Past, ClaimsFit, ClaimFits, Decided, MayPush,
                  WellFormed
<1>2. /\ id \in DOMAIN q /\ Fenced(j, id, q)
      /\ q[id].status = "QUEUED" => queue[id].run \in late
  BY ReconciledFenced
<1>3. CASE job[j].command = "TICK"
  <2>1. effect \notin {"CLAIM", "RELEASE", "RECORD"}
    BY <1>1, <1>3 DEF Fits
  <2>2. Written(j) = Ticked(j)
    BY <1>3, <2>1 DEF Written
  <2> QED
    BY <1>3, <2>2, TickedFenced
<1>4. CASE effect = "RELEASE"
  <2>1. Written(j) = Released(queue, plan) /\ plan \in DOMAIN queue
    BY <1>1, <1>4 DEF Written, Fits, Executing
  <2>2. CASE plan = id
    <3>1. Written(j)[id] = [queue[id] EXCEPT !.status = "QUEUED", !.run = None]
      BY <1>1, <2>1, <2>2 DEF Released
    <3>2. Written(j)[id].status = "QUEUED"
      BY <1>1, <3>1 DEF Task
    <3> QED
      BY <1>1, <1>4, <2>2, <3>2 DEF Fenced
  <2>3. CASE plan # id
    <3>1. Written(j)[id] = queue[id]
      BY <1>1, <2>1, <2>3 DEF Released
    <3> QED
      BY <3>1 DEF Fenced
  <2> QED
    BY <2>2, <2>3
<1>5. CASE effect = "RECORD"
  <2> DEFINE run == job[j].run
             result == job[j].result
             r == Recorded(queue, plan, run, result)
  <2>1. Written(j) = r /\ plan \in DOMAIN queue
    BY <1>1, <1>5 DEF Written, Fits, Executing
  <2>2. r[id].run = queue[id].run
    <3>1. CASE plan # id
      <4>1. r[id] = queue[id]
        BY <1>1, <2>1, <3>1 DEF Recorded, Added
      <4> QED
        BY <4>1
    <3>2. CASE plan = id
      <4>1. r[id].run = run
        BY <1>1, <2>1, <3>2 DEF Recorded, Added, Task
      <4> QED
        BY <1>1, <1>5, <3>2, <4>1
    <3> QED
      BY <3>1, <3>2
  <2> QED
    BY <2>1, <2>2 DEF Fenced
<1>6. CASE effect = "CLAIM"
  <2>1. /\ Written(j) = Claimed(q, plan, runs + 1)
        /\ CanClaim(q, plan)
    BY <1>1, <1>6 DEF Written, Fits
  <2>2. plan \in DOMAIN q /\ q[plan].status = "QUEUED"
    BY <2>1 DEF CanClaim, Selectable
  <2> HIDE DEF q
  <2>3. CASE plan = id
    BY <1>2, <2>2, <2>3 DEF Fenced
  <2>4. CASE plan # id
    <3>1. Written(j)[id] = q[id]
      BY <1>2, <2>1, <2>2, <2>4 DEF Claimed
    <3> QED
      BY <1>2, <3>1 DEF Fenced
  <2> QED
    BY <2>3, <2>4
<1>7. CASE /\ job[j].command # "TICK"
           /\ effect \notin {"CLAIM", "RELEASE", "RECORD"}
  <2>1. Written(j) = q
    BY <1>7 DEF Written
  <2> QED
    BY <1>2, <2>1
<1> QED
  BY <1>3, <1>4, <1>5, <1>6, <1>7

-----------------------------------------------------------------------------
(* Results. *)

Terminal(q) == {id \in DOMAIN q : q[id].status = "TERMINAL"}

LEMMA FedTerminal ==
    ASSUME NEW q, NEW known, NEW authority
    PROVE  Terminal(Fed(q, known, authority)) \subseteq Terminal(q)
<1> DEFINE r == Fed(q, known, authority)
<1>1. \A x \in DOMAIN r :
        IF x \in DOMAIN q THEN r[x] = q[x]
        ELSE r[x] = NewTask(None, authority.auto[Repository(x)])
  BY DEF Fed
<1> HIDE DEF r
<1>2. Terminal(r) \subseteq Terminal(q)
  BY <1>1 DEF Terminal, NewTask
<1> QED
  BY <1>2 DEF r

LEMMA AddedTerminal ==
    ASSUME NEW q, NEW new, NEW candidate, NEW frozen
    PROVE  Terminal(Added(q, new, NewTask(candidate, frozen))) = Terminal(q)
BY DEF Terminal, Added, NewTask

LEMMA ReconciledTerminal ==
    ASSUME NEW authority, NEW expired, IInv
    PROVE  LET r == Reconciled(queue, authority, expired)
           IN  DOMAIN r = DOMAIN queue /\ Terminal(r) \subseteq Terminal(queue)
<1> DEFINE r == Reconciled(queue, authority, expired)
<1>1. \A x \in DOMAIN queue :
        \/ r[x] = queue[x]
        \/ r[x] = [queue[x] EXCEPT !.status = "SUPERSEDED", !.run = None]
        \/ r[x] = [queue[x] EXCEPT !.status = "QUEUED", !.run = None]
  BY DEF Reconciled
<1>2. DOMAIN r = DOMAIN queue
  BY DEF Reconciled
<1> HIDE DEF r
<1>3. \A x \in DOMAIN queue : queue[x] \in Task
  BY DEF IInv, WellFormed
<1>4. \A x \in DOMAIN queue : r[x].status = "TERMINAL" => r[x] = queue[x]
  BY <1>1, <1>3 DEF Task
<1>5. Terminal(r) \subseteq Terminal(queue)
  BY <1>2, <1>4 DEF Terminal
<1> QED
  BY <1>2, <1>5 DEF r

LEMMA TickedTerminal ==
    ASSUME NEW j \in Jobs, IInv, Decided(j), MayPush(j),
           job[j].command = "TICK"
    PROVE  Terminal(Ticked(j)) \subseteq Terminal(queue)
<1> DEFINE id == job[j].plan
           effect == job[j].effect
           q == Reconciled(queue, job[j].main, job[j].late)
           integrated == CASE effect = "MERGED" -> MarkedMerged(q, id)
                           [] effect = "HOLD" -> Held(q, id)
                           [] effect = "BASE_DRIFT" -> BaseDrifted(q, id)
                           [] OTHER -> q
           fed == Fed(integrated, NewFacts(j), job[j].main)
<1>1. DOMAIN q = DOMAIN queue /\ Terminal(q) \subseteq Terminal(queue)
  BY ReconciledTerminal
<1>2. effect \in {"MERGED", "HOLD", "BASE_DRIFT"} => id \in Terminal(queue)
  BY JobTyped DEF Decided, Fits, Integrates, Terminal
<1>3. Ticked(j) = IF job[j].main.enabled THEN fed ELSE integrated
  BY DEF Ticked
<1> HIDE DEF q
<1>4. Terminal(integrated) \subseteq Terminal(queue)
  <2>1. CASE effect \in {"MERGED", "HOLD"}
    <3>1. /\ DOMAIN integrated = DOMAIN q
          /\ \A x \in DOMAIN q : x # id => integrated[x] = q[x]
      BY <2>1 DEF MarkedMerged, Held
    <3> QED
      BY <1>1, <1>2, <2>1, <3>1 DEF Terminal
  <2>2. CASE effect = "BASE_DRIFT"
    <3> DEFINE marked == [q EXCEPT ![id] = [@ EXCEPT !.integration = "BASE_DRIFT"]]
    <3>1. Terminal(integrated) = Terminal(marked)
      BY <2>2, AddedTerminal DEF BaseDrifted
    <3>2. Terminal(marked) \subseteq Terminal(queue)
      BY <1>1, <1>2, <2>2 DEF Terminal
    <3> QED
      BY <3>1, <3>2
  <2>3. CASE effect \notin {"MERGED", "HOLD", "BASE_DRIFT"}
    BY <1>1, <2>3
  <2> QED
    BY <2>1, <2>2, <2>3
<1> HIDE DEF integrated
<1>5. Terminal(fed) \subseteq Terminal(queue)
  BY <1>4, FedTerminal
<1> HIDE DEF fed
<1> QED
  BY <1>3, <1>4, <1>5

\* Only a record ends a task in a result, and then by its own.
LEMMA WrittenTerminal ==
    ASSUME NEW j \in Jobs, IInv, Decided(j), MayPush(j)
    PROVE  /\ Terminal(Written(j)) \subseteq
                 Terminal(queue) \cup
                   {id \in {job[j].plan} : job[j].effect = "RECORD"}
           /\ job[j].effect = "RECORD" =>
                /\ job[j].plan \in DOMAIN queue \ Terminal(queue)
                /\ job[j].plan \in Terminal(Written(j))
                /\ Written(j)[job[j].plan].run = job[j].run
                /\ Written(j)[job[j].plan].outcome = job[j].result.outcome
<1> DEFINE plan == job[j].plan
           effect == job[j].effect
           q == Reconciled(queue, job[j].main, job[j].late)
<1>1. /\ Fits(job[j], TRUE, queue, runs, trunk)
      /\ \A x \in DOMAIN queue : queue[x] \in Task
  BY JobTyped DEF Decided, MayPush, WellFormed
<1>2. DOMAIN q = DOMAIN queue /\ Terminal(q) \subseteq Terminal(queue)
  BY ReconciledTerminal
<1>3. CASE job[j].command = "TICK"
  <2>1. effect \notin {"CLAIM", "RELEASE", "RECORD"}
    BY <1>1, <1>3 DEF Fits
  <2>2. Written(j) = Ticked(j)
    BY <1>3, <2>1 DEF Written
  <2> QED
    BY <1>3, <2>1, <2>2, TickedTerminal
<1>4. CASE effect = "RELEASE"
  <2>1. Written(j) = Released(queue, plan) /\ plan \in DOMAIN queue
    BY <1>1, <1>4 DEF Written, Fits, Executing
  <2>2. Released(queue, plan)[plan].status = "QUEUED"
    BY <1>1, <2>1 DEF Released, Task
  <2>3. Terminal(Released(queue, plan)) \subseteq Terminal(queue)
    BY <2>1, <2>2 DEF Released, Terminal
  <2> QED
    BY <1>4, <2>1, <2>3
<1>5. CASE effect = "CLAIM"
  <2>1. /\ Written(j) = Claimed(q, plan, runs + 1)
        /\ plan \in DOMAIN q /\ q[plan].status = "QUEUED"
    BY <1>1, <1>5 DEF Written, Fits, CanClaim, Selectable
  <2>2. Terminal(Claimed(q, plan, runs + 1)) \subseteq Terminal(q)
    <3> DEFINE r == Claimed(q, plan, runs + 1)
    <3> HIDE DEF q
    <3>1. /\ DOMAIN r = DOMAIN q
          /\ \A x \in DOMAIN q : x # plan => r[x] = q[x]
          /\ r[plan] = [q[plan] EXCEPT !.status = "EXECUTING", !.run = runs + 1]
      BY <2>1 DEF Claimed
    <3>2. q[plan] \in Task
      BY <1>1, <2>1, ReconciledBecomes DEF q, Becomes, WellFormed, IInv, TypeOK,
                                           CapacityHolds
    <3>3. r[plan].status = "EXECUTING"
      BY <3>1, <3>2 DEF Task
    <3> QED
      BY <3>1, <3>3 DEF Terminal
  <2> QED
    BY <1>2, <1>5, <2>1, <2>2
<1>6. CASE effect = "RECORD"
  <2> DEFINE run == job[j].run
             result == job[j].result
             r == Recorded(queue, plan, run, result)
  <2>1. /\ Written(j) = r
        /\ plan \in DOMAIN queue /\ queue[plan].status = "EXECUTING"
        /\ queue[plan] \in Task
    BY <1>1, <1>6 DEF Written, Fits, Executing
  <2>2. /\ plan \in DOMAIN r
        /\ r[plan].status = "TERMINAL"
        /\ r[plan].run = run
        /\ r[plan].outcome = result.outcome
    BY <2>1 DEF Recorded, Added, Task
  <2>3. \A x \in DOMAIN r : x # plan =>
          \/ x \in DOMAIN queue /\ r[x] = queue[x]
          \/ r[x].status = "QUEUED"
    BY <2>1 DEF Recorded, Added, NewTask
  <2> HIDE DEF r
  <2>4. Terminal(r) \subseteq Terminal(queue) \cup {plan}
    BY <2>3 DEF Terminal
  <2> QED
    BY <1>6, <2>1, <2>2, <2>4 DEF Terminal
<1>7. CASE /\ job[j].command # "TICK"
           /\ effect \notin {"CLAIM", "RELEASE", "RECORD"}
  <2>1. Written(j) = q
    BY <1>7 DEF Written
  <2> QED
    BY <1>2, <1>7, <2>1
<1> QED
  BY <1>3, <1>4, <1>5, <1>6, <1>7

\* ResultsMatch without cardinalities.
ResultsFit ==
    /\ \A f \in results : /\ f.task \in Terminal(queue)
                          /\ queue[f.task].run = f.run
                          /\ queue[f.task].outcome = f.result.outcome
    /\ \A id \in Terminal(queue) :
         \E f \in results : {g \in results : g.task = id} = {f}

LEMMA ResultsPush ==
    ASSUME NEW j \in Jobs, IInv, ResultsFit, Push(j)
    PROVE  ResultsFit'
<1> DEFINE id == job[j].plan
           new == [task |-> id, run |-> job[j].run, result |-> job[j].result]
<1>1. /\ Decided(j) /\ MayPush(j) /\ queue' = Written(j)
      /\ results' = IF job[j].effect # "RECORD" THEN results
                    ELSE results \cup {new}
  BY DEF Push
<1>2. /\ WellFormed(queue, runs) /\ WellFormed(queue', runs')
      /\ Settled(queue, queue')
  BY PushStep DEF IInv, WellFormed
<1>3. ASSUME NEW x \in Terminal(queue)
      PROVE  /\ x \in Terminal(queue')
             /\ queue'[x].run = queue[x].run
             /\ queue'[x].outcome = queue[x].outcome
  <2>1. /\ x \in DOMAIN queue' /\ queue[x].status = "TERMINAL"
        /\ queue[x] \in Task /\ queue'[x] \in Task
        /\ [queue'[x] EXCEPT !.integration = None]
             = [queue[x] EXCEPT !.integration = None]
    BY <1>2 DEF Terminal, Settled, WellFormed
  <2> QED
    BY <2>1 DEF Task, Terminal
<1>4. CASE job[j].effect # "RECORD"
  <2>1. results' = results
    BY <1>1, <1>4
  <2>2. Terminal(queue') \subseteq Terminal(queue)
    BY <1>1, <1>4, WrittenTerminal
  <2>3. \A f \in results : /\ f.task \in Terminal(queue')
                           /\ queue'[f.task].run = f.run
                           /\ queue'[f.task].outcome = f.result.outcome
    BY <1>3 DEF ResultsFit
  <2>4. \A x \in Terminal(queue') :
          \E f \in results : {g \in results : g.task = x} = {f}
    BY <2>2 DEF ResultsFit
  <2> QED
    BY <2>1, <2>3, <2>4 DEF ResultsFit
<1>5. CASE job[j].effect = "RECORD"
  <2>1. /\ results' = results \cup {new}
        /\ new.task = id /\ new.run = job[j].run /\ new.result = job[j].result
    BY <1>1, <1>5
  <2>2. /\ Terminal(queue') \subseteq Terminal(queue) \cup {id}
        /\ id \notin Terminal(queue)
        /\ id \in Terminal(queue')
        /\ queue'[id].run = job[j].run
        /\ queue'[id].outcome = job[j].result.outcome
    BY <1>1, <1>5, WrittenTerminal
  <2> HIDE DEF new
  <2>3. \A f \in results' : /\ f.task \in Terminal(queue')
                            /\ queue'[f.task].run = f.run
                            /\ queue'[f.task].outcome = f.result.outcome
    BY <1>3, <2>1, <2>2 DEF ResultsFit
  <2>4. \A f \in results : f.task # id
    BY <2>2 DEF ResultsFit
  <2>5. ASSUME NEW x \in Terminal(queue')
        PROVE  \E f \in results' : {g \in results' : g.task = x} = {f}
    <3>1. CASE x = id
      <4>1. {g \in results' : g.task = x} = {new}
        BY <2>1, <2>4, <3>1
      <4> QED
        BY <2>1, <4>1
    <3>2. CASE x # id
      <4>1. PICK f \in results : {g \in results : g.task = x} = {f}
        BY <2>2, <2>5, <3>2 DEF ResultsFit
      <4>2. {g \in results' : g.task = x} = {g \in results : g.task = x}
        BY <2>1, <3>2
      <4> QED
        BY <2>1, <4>1, <4>2
    <3> QED
      BY <3>1, <3>2
  <2> QED
    BY <2>3, <2>5 DEF ResultsFit
<1> QED
  BY <1>4, <1>5

\* Nothing else writes.
LEMMA OnlyPushWrites ==
    ASSUME [Next]_vars, \A j \in Jobs : ~Push(j)
    PROVE  UNCHANGED <<queue, results>>
<1> USE DEF runtime
<1>1. ASSUME NEW run \in 1 .. runs, Expire(run)
      PROVE  UNCHANGED <<queue, results>>
  BY <1>1 DEF Expire
<1>2. ASSUME PublishRevision \/ FlipSwitch
      PROVE  UNCHANGED <<queue, results>>
  BY <1>2 DEF PublishRevision, FlipSwitch, Publish
<1>3. ASSUME NEW r \in Repositories,
             OutsideCommit(r) \/ \E sha \in Shas : \/ OutsideMerge(r, sha)
                                                  \/ NoticeMerge(r, sha)
                                                  \/ Abandon(r, sha)
      PROVE  UNCHANGED <<queue, results>>
  BY <1>3 DEF OutsideCommit, OutsideMerge, NoticeMerge, Abandon
<1>4. ASSUME NEW j \in Jobs,
             \/ \E worker \in Workers : StartClaim(j, worker)
             \/ StartRelease(j) \/ StartRecord(j) \/ PlanTick(j)
             \/ LoadTick(j) \/ Die(j) \/ RecordAgain(j) \/ Conflict(j)
             \/ Land(j) \/ LandRefused(j)
      PROVE  UNCHANGED <<queue, results>>
  BY <1>4 DEF StartClaim, StartRelease, StartRecord, PlanTick, LoadTick, Die,
              RecordAgain, Conflict, Land, LandRefused, Step
<1>5. ASSUME NEW j \in Jobs,
             \/ DecideClaim(j) \/ DecideRelease(j) \/ DecideRecord(j)
             \/ DecideTick(j) \/ ReconcileMerged(j) \/ DecideHold(j)
             \/ DecideBaseDrift(j) \/ DecideLanding(j)
      PROVE  UNCHANGED <<queue, results>>
  BY <1>5 DEF DecideClaim, DecideRelease, DecideRecord, DecideTick,
              ReconcileMerged, DecideHold, DecideBaseDrift, DecideLanding,
              Decide, Fetch
<1>6. ASSUME UNCHANGED vars
      PROVE  UNCHANGED <<queue, results>>
  BY <1>6 DEF vars
<1> QED
  BY <1>1, <1>2, <1>3, <1>4, <1>5, <1>6 DEF Next

LEMMA ResultsStep ==
    ASSUME IInv, ResultsFit, [Next]_vars
    PROVE  ResultsFit'
<1>1. CASE \E j \in Jobs : Push(j)
  BY <1>1, ResultsPush
<1>2. CASE \A j \in Jobs : ~Push(j)
  <2>1. UNCHANGED <<queue, results>>
    BY <1>2, OnlyPushWrites
  <2> QED
    BY <2>1 DEF ResultsFit
<1> QED
  BY <1>1, <1>2

LEMMA ResultsFitMatch ==
    ASSUME ResultsFit
    PROVE  ResultsMatch
<1>1. ASSUME NEW id \in Terminal(queue)
      PROVE  Cardinality({f \in results : f.task = id}) = 1
  <2>1. PICK f \in results : {g \in results : g.task = id} = {f}
    BY <1>1 DEF ResultsFit
  <2>2. Cardinality({f}) = 1
    BY FS_Singleton
  <2> QED
    BY <2>1, <2>2
<1> QED
  BY <1>1 DEF ResultsFit, ResultsMatch, Terminal

-----------------------------------------------------------------------------
(* Every step. *)

LEMMA PastBegins ==
    ASSUME Init
    PROVE  Past
BY InitialState DEF Init, Past, FactsFit, FactsStand, DependenciesMerged,
                    Decided, ClaimsFit, ClaimFits

LEMMA PastStep ==
    ASSUME Past, [Next]_vars
    PROVE  /\ Past'
           /\ queue' = queue
              \/ \E j \in Jobs :
                   /\ Decided(j)
                   /\ \A id \in Executing(queue) : Fenced(j, id, queue')
<1> USE DEF runtime
<1>1. ASSUME UNCHANGED <<queue, facts, job, current>>, late \subseteq late'
      PROVE  FactsFit' /\ ClaimsFit'
  <2>1. FactsFit'
    BY <1>1 DEF Past, FactsFit, FactsStand, DependenciesMerged, Decided,
                Revision, Gap
  <2>2. ClaimsFit'
    BY <1>1 DEF Past, ClaimsFit, ClaimFits
  <2> QED
    BY <2>1, <2>2
<1>2. ASSUME NEW run \in 1 .. runs, Expire(run)
      PROVE  FactsFit' /\ ClaimsFit' /\ queue' = queue
  BY <1>1, <1>2 DEF Expire
<1>3. ASSUME PublishRevision \/ FlipSwitch
      PROVE  FactsFit' /\ ClaimsFit' /\ queue' = queue
  BY <1>1, <1>3 DEF PublishRevision, FlipSwitch, Publish
<1>4. ASSUME NEW r \in Repositories,
             OutsideCommit(r) \/ \E sha \in Shas : \/ OutsideMerge(r, sha)
                                                  \/ NoticeMerge(r, sha)
                                                  \/ Abandon(r, sha)
      PROVE  FactsFit' /\ ClaimsFit' /\ queue' = queue
  <2>1. UNCHANGED <<runtime, late, job, current>>
    BY <1>4 DEF OutsideCommit, OutsideMerge, NoticeMerge, Abandon
  <2> QED
    BY <1>1, <2>1
<1>5. ASSUME NEW j \in Jobs,
             \/ \E worker \in Workers : StartClaim(j, worker)
             \/ StartRelease(j) \/ StartRecord(j) \/ PlanTick(j)
      PROVE  FactsFit' /\ ClaimsFit' /\ queue' = queue
  <2>1. queue' = queue
    BY <1>5 DEF StartClaim, StartRelease, StartRecord, PlanTick, Step
  <2> QED
    BY <1>5, <2>1, StartsMoved
<1>6. ASSUME NEW j \in Jobs,
             LoadTick(j) \/ Die(j) \/ RecordAgain(j) \/ Conflict(j)
      PROVE  FactsFit' /\ ClaimsFit' /\ queue' = queue
  <2>1. queue' = queue
    BY <1>6 DEF LoadTick, Die, RecordAgain, Conflict, Step
  <2> QED
    BY <1>6, <2>1, RestartsMoved
<1>7. ASSUME NEW j \in Jobs,
             DecideClaim(j) \/ DecideRelease(j) \/ DecideRecord(j)
      PROVE  FactsFit' /\ ClaimsFit' /\ queue' = queue
  <2>1. queue' = queue
    BY <1>7 DEF DecideClaim, DecideRelease, DecideRecord, Decide, Fetch
  <2> QED
    BY <1>7, <2>1, ClaimMoved, EndsMoved
<1>8. ASSUME NEW j \in Jobs,
             \/ DecideTick(j) \/ ReconcileMerged(j) \/ DecideHold(j)
             \/ DecideBaseDrift(j) \/ DecideLanding(j)
      PROVE  FactsFit' /\ ClaimsFit' /\ queue' = queue
  <2>1. queue' = queue
    BY <1>8 DEF DecideTick, ReconcileMerged, DecideHold, DecideBaseDrift,
                DecideLanding, Decide, Fetch
  <2> QED
    BY <1>8, <2>1, TickMoved
<1>9. ASSUME NEW j \in Jobs, Land(j) \/ LandRefused(j)
      PROVE  FactsFit' /\ ClaimsFit' /\ queue' = queue
  <2>1. queue' = queue
    BY <1>9 DEF Land, LandRefused, Step
  <2> QED
    BY <1>9, <2>1, LandMoved
<1>10. ASSUME NEW j \in Jobs, Push(j)
       PROVE  /\ FactsFit' /\ ClaimsFit'
              /\ Decided(j)
              /\ \A id \in Executing(queue) : Fenced(j, id, queue')
  <2>1. Decided(j) /\ MayPush(j) /\ queue' = Written(j)
    BY <1>10 DEF Push
  <2>2. FactsFit' /\ ClaimsFit'
    BY <1>10, FactsPush, ClaimsPush DEF Past
  <2> QED
    BY <2>1, <2>2, WrittenFenced
<1>11. ASSUME UNCHANGED vars
       PROVE  FactsFit' /\ ClaimsFit' /\ queue' = queue
  BY <1>1, <1>11 DEF vars
<1>12. IInv'
  BY OneStep DEF Past
<1> QED
  BY <1>2, <1>3, <1>4, <1>5, <1>6, <1>7, <1>8, <1>9, <1>10, <1>11, <1>12
  DEF Next, Past

\* TICK feeds a gap only if nothing is known of it, and claim, release and
\* record refuse the queue of version 1.0, so that work whose integration V1
\* has recorded is never a task of its revision again.
THEOREM FactsAlwaysStand == Spec => []FactsStand
<1>1. Init => Past
  BY PastBegins
<1>2. Past /\ [Next]_vars => Past'
  BY PastStep
<1>3. Past => FactsStand
  BY DEF Past, FactsFit
<1> QED
  BY <1>1, <1>2, <1>3, PTL DEF Spec

\* record() writes the queue and the result file in one commit, and writes
\* neither twice: every terminal task has the one result file of its run.
THEOREM ResultsAlwaysMatch == Spec => []ResultsMatch
<1>1. Init => ResultsFit
  BY DEF Init, ResultsFit, Terminal
<1>2. IInv /\ ResultsFit /\ [Next]_vars => ResultsFit'
  BY ResultsStep
<1>3. ResultsFit => ResultsMatch
  BY ResultsFitMatch
<1> QED
  BY <1>1, <1>2, <1>3, KernelInvariant, PTL DEF Spec

\* feed() and gap_satisfied() read a queue that integrations, also those of
\* crashed ticks, have marked: when a task starts, what its gap depends on is
\* in the base branch, or was integrated under V1.
THEOREM DependenciesAlwaysLanded == Spec => []DependenciesLanded
<1>1. Init => Past
  BY PastBegins
<1>2. Past /\ [Next]_vars => Past'
  BY PastStep
<1>3. Past => DependenciesLanded
  BY DEF Past, FactsFit, DependenciesMerged, GapSatisfied, DependenciesLanded,
         IInv, MergedIsLanded
<1> QED
  BY <1>1, <1>2, <1>3, PTL DEF Spec

\* assert_current_claim(), reconcile() and the compare-and-swap together: no
\* late, repeated or replaced worker ends the claim of another.
THEOREM ClaimsAlwaysFenced == Spec => ClaimsFenced
<1>1. Init => Past
  BY PastBegins
<1>2. Past /\ [Next]_vars => Past'
  BY PastStep
<1>3. Past /\ [Next]_vars =>
        [\A id \in Executing(queue) :
           \/ queue'[id].run = queue[id].run
           \/ queue[id].run \in late
           \/ /\ queue'[id].status = "QUEUED"
              /\ \E j \in Jobs : /\ Decided(j)
                                 /\ job[j].effect = "RELEASE"
                                 /\ job[j].run = queue[id].run
           \/ /\ queue'[id].status = "SUPERSEDED"
              /\ \E j \in Jobs : /\ Decided(j)
                                 /\ ~LiveAuthority(job[j].main, id)]_queue
  <2> SUFFICES ASSUME Past, [Next]_vars, queue' # queue,
                      NEW id \in Executing(queue)
               PROVE  \/ queue'[id].run = queue[id].run
                      \/ queue[id].run \in late
                      \/ /\ queue'[id].status = "QUEUED"
                         /\ \E j \in Jobs : /\ Decided(j)
                                            /\ job[j].effect = "RELEASE"
                                            /\ job[j].run = queue[id].run
                      \/ /\ queue'[id].status = "SUPERSEDED"
                         /\ \E j \in Jobs : /\ Decided(j)
                                            /\ ~LiveAuthority(job[j].main, id)
    OBVIOUS
  <2>1. PICK j \in Jobs : Decided(j) /\ Fenced(j, id, queue')
    BY PastStep
  <2> QED
    BY <2>1 DEF Fenced
<1> QED
  BY <1>1, <1>2, <1>3, PTL DEF Spec, ClaimsFenced
-----------------------------------------------------------------------------
(* Chains. *)

\* The work of a gap in a revision is handed from each task to the next: what
\* an identity begins with is in the queue, one task follows where work was
\* handed on, and two tasks of the same work are of one chain.
PrefixClosed(q) ==
    \A x \in DOMAIN q : \A n \in 1 .. Len(x) : SubSeq(x, 1, n) \in DOMAIN q

Follows(y, x) == Len(y) > 1 /\ Front(y) = x

HandsFit(q) ==
    \A x \in DOMAIN q : HandsOn(q[x]) <=> \E y \in DOMAIN q : Follows(y, x)

Linear(q) ==
    \A x, y \in DOMAIN q :
      Work(x) = Work(y) => IsPrefix(x, y) \/ IsPrefix(y, x)

OutcomesFit(q) ==
    \A x \in DOMAIN q : q[x].outcome # None => q[x].status = "TERMINAL"

Chained(q) ==
    /\ DOMAIN q \subseteq TaskId
    /\ PrefixClosed(q)
    /\ HandsFit(q)
    /\ Linear(q)
    /\ OutcomesFit(q)

LEMMA TaskSequence ==
    ASSUME NEW id \in TaskId
    PROVE  /\ id \in Seq(Root \cup Link)
           /\ Len(id) \in Nat \ {0}
           /\ id[1] \in Root
<1>1. id \in Seq(Root \cup Link) /\ id # <<>> /\ id[1] \in Root
  BY DEF TaskId
<1> QED
  BY <1>1, EmptySeq, LenProperties

LEMMA SamePrefix ==
    ASSUME NEW S, NEW u \in Seq(S), NEW v \in Seq(S), NEW n \in 0 .. Len(u),
           n <= Len(v), \A i \in 1 .. n : u[i] = v[i]
    PROVE  SubSeq(u, 1, n) = SubSeq(v, 1, n)
<1>1. n \in 0 .. Len(v)
  BY LenProperties
<1>2. /\ SubSeq(u, 1, n) \in Seq(S)
      /\ Len(SubSeq(u, 1, n)) = n
      /\ \A i \in 1 .. n : SubSeq(u, 1, n)[i] = u[i]
  BY Window
<1>3. /\ SubSeq(v, 1, n) \in Seq(S)
      /\ Len(SubSeq(v, 1, n)) = n
      /\ \A i \in 1 .. n : SubSeq(v, 1, n)[i] = v[i]
  BY <1>1, Window
<1> QED
  BY <1>2, <1>3, SeqEqual

LEMMA WholePrefix ==
    ASSUME NEW S, NEW u \in Seq(S)
    PROVE  SubSeq(u, 1, Len(u)) = u
<1>1. Len(u) \in 0 .. Len(u)
  BY LenProperties
<1>2. /\ SubSeq(u, 1, Len(u)) \in Seq(S)
      /\ Len(SubSeq(u, 1, Len(u))) = Len(u)
      /\ \A i \in 1 .. Len(u) : SubSeq(u, 1, Len(u))[i] = u[i]
  BY <1>1, Window
<1> QED
  BY <1>2, SeqEqual

LEMMA FrontSequence ==
    ASSUME NEW S, NEW u \in Seq(S), Len(u) > 0
    PROVE  /\ Front(u) \in Seq(S)
           /\ Len(Front(u)) = Len(u) - 1
           /\ \A i \in 1 .. Len(u) - 1 : Front(u)[i] = u[i]
<1>1. Len(u) - 1 \in 0 .. Len(u)
  BY LenProperties
<1> QED
  BY <1>1, Window DEF Front

\* A follow-up is not in the queue before its task hands on its work.
LEMMA NewFollowUp ==
    ASSUME NEW q, Chained(q), NEW id \in DOMAIN q, ~HandsOn(q[id]),
           NEW y \in DOMAIN q
    PROVE  ~Follows(y, id)
BY DEF Chained, HandsFit

LEMMA SuccessorSequence ==
    ASSUME NEW id \in TaskId, NEW op \in {"ASSURANCE", "REPAIR"},
           NEW sha \in Shas
    PROVE  LET new == Successor(id, op, sha)
           IN  /\ new \in TaskId
               /\ Len(new) = Len(id) + 1
               /\ \A i \in 1 .. Len(id) : new[i] = id[i]
               /\ Follows(new, id)
               /\ IsPrefix(id, new)
               /\ Work(new) = Work(id)
<1> DEFINE link == [operation |-> op, sha |-> sha]
           S == Root \cup Link
           new == Append(id, link)
<1>1. link \in S
  BY DEF Link
<1>2. id \in Seq(S) /\ Len(id) \in Nat \ {0}
  BY TaskSequence
<1> HIDE DEF link, S
<1>3. /\ new \in Seq(S)
      /\ Len(new) = Len(id) + 1
      /\ \A i \in 1 .. Len(id) : new[i] = id[i]
  BY <1>1, <1>2, AppendProperties
<1> HIDE DEF new
<1>4. Front(new) = id
  <2>1. /\ Front(new) \in Seq(S)
        /\ Len(Front(new)) = Len(id)
        /\ \A i \in 1 .. Len(id) : Front(new)[i] = new[i]
    BY <1>2, <1>3, FrontSequence
  <2> QED
    BY <1>2, <1>3, <2>1, SeqEqual
<1>5. IsPrefix(id, new)
  BY <1>1, <1>2, AppendIsLonger, PrefixOfItself DEF new
<1>6. Successor(id, op, sha) = new
  BY DEF Successor, new, link
<1>7. new \in TaskId /\ Work(new) = Work(id)
  BY <1>6, SuccessorIdentity, SuccessorWork
<1>8. Follows(new, id)
  BY <1>2, <1>3, <1>4 DEF Follows
<1> QED
  BY <1>3, <1>5, <1>6, <1>7, <1>8

\* No task is added or hands on work.
LEMMA ChainUnchanged ==
    ASSUME NEW q, NEW r, Chained(q), DOMAIN r = DOMAIN q,
           \A x \in DOMAIN q : HandsOn(r[x]) <=> HandsOn(q[x]),
           OutcomesFit(r)
    PROVE  Chained(r)
<1>1. HandsFit(r)
  BY DEF Chained, HandsFit
<1> QED
  BY <1>1 DEF Chained, PrefixClosed, Linear
\* What begins with id begins with a task that follows id.
LEMMA BeginningFollowed ==
    ASSUME NEW q, Chained(q), NEW id \in DOMAIN q, NEW y \in DOMAIN q,
           IsPrefix(id, y), y # id
    PROVE  \E z \in DOMAIN q : Follows(z, id)
<1> DEFINE S == Root \cup Link
           n == Len(id) + 1
           z == SubSeq(y, 1, n)
<1>1. /\ id \in TaskId /\ id \in Seq(S) /\ Len(id) \in Nat \ {0}
      /\ y \in TaskId /\ y \in Seq(S) /\ Len(y) \in Nat \ {0}
  BY TaskSequence DEF Chained
<1>2. Len(id) <= Len(y) /\ SubSeq(id, 1, Len(id)) = SubSeq(y, 1, Len(id))
  BY DEF IsPrefix
<1>3. SubSeq(id, 1, Len(id)) = id
  BY <1>1, WholePrefix
<1>4. Len(id) # Len(y)
  <2>1. SubSeq(y, 1, Len(y)) = y
    BY <1>1, WholePrefix
  <2> QED
    BY <1>2, <1>3, <2>1
<1>5. n \in 1 .. Len(y) /\ n \in 0 .. Len(y)
  BY <1>1, <1>2, <1>4
<1>6. z \in DOMAIN q
  BY <1>5 DEF Chained, PrefixClosed
<1>7. /\ z \in Seq(S) /\ Len(z) = n
      /\ \A i \in 1 .. n : z[i] = y[i]
  BY <1>1, <1>5, Window
<1> HIDE DEF z
<1>8. Front(z) = SubSeq(z, 1, Len(id))
  BY <1>1, <1>7 DEF Front
<1>9. SubSeq(z, 1, Len(id)) = SubSeq(y, 1, Len(id))
  <2>1. Len(id) \in 0 .. Len(z) /\ Len(id) <= Len(y)
    BY <1>1, <1>2, <1>7
  <2>2. \A i \in 1 .. Len(id) : z[i] = y[i]
    BY <1>1, <1>7
  <2> QED
    BY <1>1, <1>7, <2>1, <2>2, SamePrefix
<1>10. Follows(z, id)
  BY <1>1, <1>2, <1>3, <1>7, <1>8, <1>9 DEF Follows
<1> QED
  BY <1>6, <1>10

\* A task hands its work on to a new one.
LEMMA ChainGrows ==
    ASSUME NEW q, NEW r, Chained(q), NEW id \in DOMAIN q, ~HandsOn(q[id]),
           NEW op \in {"ASSURANCE", "REPAIR"}, NEW sha \in Shas,
           DOMAIN r = DOMAIN q \cup {Successor(id, op, sha)},
           \A x \in DOMAIN q \ {id} : HandsOn(r[x]) <=> HandsOn(q[x]),
           HandsOn(r[id]),
           Successor(id, op, sha) \notin DOMAIN q =>
             ~HandsOn(r[Successor(id, op, sha)]),
           OutcomesFit(r)
    PROVE  Chained(r)
<1> DEFINE new == Successor(id, op, sha)
           S == Root \cup Link
<1>1. id \in TaskId /\ id \in Seq(S) /\ Len(id) \in Nat \ {0}
  BY TaskSequence DEF Chained
<1>2. /\ new \in TaskId /\ new \in Seq(S)
      /\ Len(new) = Len(id) + 1
      /\ \A i \in 1 .. Len(id) : new[i] = id[i]
      /\ Follows(new, id)
      /\ IsPrefix(id, new)
      /\ Work(new) = Work(id)
  BY <1>1, SuccessorSequence, TaskSequence
<1>3. new \notin DOMAIN q
  BY <1>2, NewFollowUp
<1>4. DOMAIN r = DOMAIN q \cup {new} /\ ~HandsOn(r[new])
  BY <1>3
<1> HIDE DEF new
<1>5. PrefixClosed(r)
  <2>1. ASSUME NEW n \in 1 .. Len(new)
        PROVE  SubSeq(new, 1, n) \in DOMAIN r
    <3>1. CASE n = Len(new)
      BY <1>2, <1>4, <3>1, WholePrefix
    <3>2. CASE n # Len(new)
      <4>1. n \in 1 .. Len(id) /\ n \in 0 .. Len(new) /\ n <= Len(id)
        BY <1>1, <1>2, <3>2
      <4>2. SubSeq(new, 1, n) = SubSeq(id, 1, n)
        BY <1>1, <1>2, <4>1, SamePrefix
      <4>3. SubSeq(id, 1, n) \in DOMAIN q
        BY <4>1 DEF Chained, PrefixClosed
      <4> QED
        BY <1>4, <4>2, <4>3
    <3> QED
      BY <3>1, <3>2
  <2> QED
    BY <1>4, <2>1 DEF Chained, PrefixClosed
<1>6. HandsFit(r)
  <2>1. ASSUME NEW x \in DOMAIN q, x # id
        PROVE  HandsOn(r[x]) <=> \E y \in DOMAIN r : Follows(y, x)
    <3>1. ~Follows(new, x)
      BY <1>2, <2>1 DEF Follows
    <3>2. (\E y \in DOMAIN r : Follows(y, x)) <=> \E y \in DOMAIN q : Follows(y, x)
      BY <1>4, <3>1
    <3> QED
      BY <2>1, <3>2 DEF Chained, HandsFit
  <2>2. HandsOn(r[id]) <=> \E y \in DOMAIN r : Follows(y, id)
    BY <1>2, <1>4
  <2>3. ASSUME NEW y \in DOMAIN r
        PROVE  ~Follows(y, new)
    <3>1. CASE y = new
      <4>1. Len(Front(new)) = Len(new) - 1
        BY <1>1, <1>2, FrontSequence
      <4> QED
        BY <1>1, <1>2, <3>1, <4>1 DEF Follows
    <3>2. CASE y \in DOMAIN q
      <4>1. SUFFICES ASSUME Follows(y, new)
                     PROVE  FALSE
        OBVIOUS
      <4>2. Len(y) \in Nat
        BY <3>2, TaskSequence DEF Chained
      <4>3. Len(y) - 1 \in 1 .. Len(y)
        BY <4>1, <4>2 DEF Follows
      <4>4. Front(y) \in DOMAIN q
        BY <3>2, <4>3 DEF Chained, PrefixClosed, Front
      <4> QED
        BY <1>3, <4>1, <4>4 DEF Follows
    <3> QED
      BY <1>4, <3>1, <3>2
  <2> QED
    BY <1>4, <2>1, <2>2, <2>3 DEF HandsFit
<1>7. ASSUME NEW y \in DOMAIN q, Work(y) = Work(new)
      PROVE  IsPrefix(y, new)
  <2>1. IsPrefix(y, id) \/ IsPrefix(id, y)
    BY <1>2, <1>7 DEF Chained, Linear
  <2>2. CASE IsPrefix(y, id)
    <3>1. y \in Seq(S)
      BY TaskSequence DEF Chained
    <3>2. [operation |-> op, sha |-> sha] \in S
      BY DEF Link
    <3> QED
      BY <1>1, <2>2, <3>1, <3>2, AppendIsLonger DEF new, Successor
  <2>3. CASE IsPrefix(id, y)
    <3>1. y = id
      BY <2>3, BeginningFollowed, NewFollowUp
    <3> QED
      BY <1>2, <3>1
  <2> QED
    BY <2>1, <2>2, <2>3
<1>8. IsPrefix(new, new)
  BY <1>2, PrefixOfItself
<1>9. Linear(r)
  BY <1>4, <1>7, <1>8 DEF Chained, Linear
<1>10. DOMAIN r \subseteq TaskId
  BY <1>2, <1>4 DEF Chained
<1> QED
  BY <1>5, <1>6, <1>9, <1>10 DEF Chained

\* The gaps some roots are of were not worked on before in their revision.
LEMMA ChainStarts ==
    ASSUME NEW q, NEW r, Chained(q), DOMAIN q \subseteq DOMAIN r,
           \A x \in DOMAIN q : r[x] = q[x],
           \A x \in DOMAIN r \ DOMAIN q :
             /\ x \in TaskId
             /\ x = RootId(Revision(x), Gap(x))
             /\ \A y \in DOMAIN q : Work(y) # Work(x)
             /\ ~HandsOn(r[x])
             /\ r[x].outcome = None
    PROVE  Chained(r)
<1>1. ASSUME NEW x \in DOMAIN r \ DOMAIN q
      PROVE  x \in TaskId /\ Len(x) = 1
  <2>1. x \in TaskId /\ x = RootId(Revision(x), Gap(x))
    OBVIOUS
  <2>2. Len(RootId(Revision(x), Gap(x))) = 1
    BY DEF RootId
  <2> QED
    BY <2>1, <2>2
<1>2. PrefixClosed(r)
  <2>1. ASSUME NEW x \in DOMAIN r \ DOMAIN q, NEW n \in 1 .. Len(x)
        PROVE  SubSeq(x, 1, n) \in DOMAIN r
    <3>1. n = Len(x)
      <4>1. Len(x) = 1
        BY ONLY <1>1, <2>1
      <4> QED
        BY ONLY <4>1, <2>1, n \in 1 .. Len(x)
    <3>2. SubSeq(x, 1, Len(x)) = x
      BY <1>1, TaskSequence, WholePrefix
    <3> QED
      BY <3>1, <3>2
  <2> QED
    BY <2>1 DEF Chained, PrefixClosed
<1>3. HandsFit(r)
  <2>1. ASSUME NEW x \in DOMAIN r, NEW y \in DOMAIN r, Follows(y, x)
        PROVE  x \in DOMAIN q /\ y \in DOMAIN q
    <3>1. y \in DOMAIN q
      <4>1. Len(y) > 1
        BY <2>1 DEF Follows
      <4>2. SUFFICES ASSUME y \notin DOMAIN q
                     PROVE  FALSE
        OBVIOUS
      <4>3. Len(y) = 1
        BY <1>1, <4>2
      <4>4. 1 > 1
        BY ONLY <4>1, <4>3
      <4> QED
        BY ONLY <4>4
    <3>2. Len(y) \in Nat
      BY <3>1, TaskSequence DEF Chained
    <3>3. Len(y) - 1 \in 1 .. Len(y)
      BY <2>1, <3>2 DEF Follows
    <3>4. Front(y) \in DOMAIN q
      BY <3>1, <3>3 DEF Chained, PrefixClosed, Front
    <3> QED
      BY <2>1, <3>1, <3>4 DEF Follows
  <2>2. ASSUME NEW x \in DOMAIN q
        PROVE  HandsOn(r[x]) <=> \E y \in DOMAIN r : Follows(y, x)
    BY <2>1, <2>2 DEF Chained, HandsFit
  <2>3. ASSUME NEW x \in DOMAIN r \ DOMAIN q
        PROVE  HandsOn(r[x]) <=> \E y \in DOMAIN r : Follows(y, x)
    BY <2>1, <2>3
  <2> QED
    BY <2>2, <2>3 DEF HandsFit
<1>4. Linear(r)
  <2>1. ASSUME NEW x \in DOMAIN r \ DOMAIN q, NEW y \in DOMAIN r,
               Work(x) = Work(y)
        PROVE  x = y
    <3>1. y \in DOMAIN r \ DOMAIN q
      BY <2>1
    <3>2. x = RootId(Revision(x), Gap(x)) /\ y = RootId(Revision(y), Gap(y))
      BY <3>1
    <3>3. Revision(x) = Revision(y) /\ Gap(x) = Gap(y)
      BY <2>1 DEF Work
    <3> QED
      BY <3>2, <3>3
  <2>2. ASSUME NEW x \in DOMAIN r
        PROVE  IsPrefix(x, x)
    <3>1. x \in TaskId
      BY <1>1 DEF Chained
    <3> QED
      BY <3>1, TaskSequence, PrefixOfItself
  <2>3. ASSUME NEW x \in DOMAIN r, NEW y \in DOMAIN r, Work(x) = Work(y)
        PROVE  IsPrefix(x, y) \/ IsPrefix(y, x)
    <3>1. CASE x \in DOMAIN q /\ y \in DOMAIN q
      BY <2>3, <3>1 DEF Chained, Linear
    <3>2. CASE x \notin DOMAIN q
      BY <2>1, <2>2, <2>3, <3>2
    <3>3. CASE y \notin DOMAIN q
      BY <2>1, <2>2, <2>3, <3>3
    <3> QED
      BY <3>1, <3>2, <3>3
  <2> QED
    BY <2>3 DEF Linear
<1>5. OutcomesFit(r)
  BY DEF Chained, OutcomesFit
<1>6. DOMAIN r \subseteq TaskId
  BY <1>1 DEF Chained
<1> QED
  BY <1>2, <1>3, <1>4, <1>5, <1>6 DEF Chained

\* What ends no task and neither hands on work nor takes it back.
LEMMA ChainKept ==
    ASSUME NEW q, NEW r, Chained(q), DOMAIN r = DOMAIN q,
           \A x \in DOMAIN q :
             /\ r[x].outcome = q[x].outcome
             /\ r[x].integration = q[x].integration
             /\ q[x].status = "TERMINAL" => r[x].status = "TERMINAL"
    PROVE  Chained(r)
<1>1. OutcomesFit(r)
  BY DEF Chained, OutcomesFit
<1>2. \A x \in DOMAIN q : HandsOn(r[x]) <=> HandsOn(q[x])
  BY DEF HandsOn
<1> QED
  BY <1>1, <1>2, ChainUnchanged

LEMMA ReconciledChained ==
    ASSUME NEW q, NEW n \in Nat, NEW authority, NEW expired,
           WellFormed(q, n), Chained(q)
    PROVE  Chained(Reconciled(q, authority, expired))
<1> DEFINE r == Reconciled(q, authority, expired)
<1>1. DOMAIN r = DOMAIN q
  BY DEF Reconciled
<1>2. ASSUME NEW x \in DOMAIN q
      PROVE  /\ r[x].outcome = q[x].outcome
             /\ r[x].integration = q[x].integration
             /\ q[x].status = "TERMINAL" => r[x].status = "TERMINAL"
  <2>1. q[x] \in Task
    BY DEF WellFormed
  <2>2. \/ r[x] = q[x]
        \/ /\ q[x].status # "TERMINAL"
           /\ \E state \in {"SUPERSEDED", "QUEUED"} :
                r[x] = [q[x] EXCEPT !.status = state, !.run = None]
    BY DEF Reconciled, Unfinished, Executing
  <2> HIDE DEF r
  <2> QED
    BY <2>1, <2>2 DEF Task
<1> HIDE DEF r
<1>3. Chained(r)
  BY <1>1, <1>2, ChainKept
<1> QED
  BY <1>3 DEF r

LEMMA ClaimedChained ==
    ASSUME NEW q, NEW n \in Nat, NEW id, NEW run, WellFormed(q, n),
           Chained(q), CanClaim(q, id)
    PROVE  Chained(Claimed(q, id, run))
<1> DEFINE r == Claimed(q, id, run)
<1>1. id \in DOMAIN q /\ q[id].status = "QUEUED" /\ q[id] \in Task
  BY DEF CanClaim, Selectable, WellFormed
<1>2. /\ DOMAIN r = DOMAIN q
      /\ \A x \in DOMAIN q : x # id => r[x] = q[x]
      /\ r[id] = [q[id] EXCEPT !.status = "EXECUTING", !.run = run]
  BY <1>1 DEF Claimed
<1> HIDE DEF r
<1>3. r[id].outcome = q[id].outcome /\ r[id].integration = q[id].integration
  BY <1>1, <1>2 DEF Task
<1>4. Chained(r)
  BY <1>1, <1>2, <1>3, ChainKept
<1> QED
  BY <1>4 DEF r

LEMMA ReleasedChained ==
    ASSUME NEW q, NEW n \in Nat, NEW id \in Executing(q), WellFormed(q, n),
           Chained(q)
    PROVE  Chained(Released(q, id))
<1> DEFINE r == Released(q, id)
<1>1. id \in DOMAIN q /\ q[id].status = "EXECUTING" /\ q[id] \in Task
  BY DEF Executing, WellFormed
<1>2. /\ DOMAIN r = DOMAIN q
      /\ \A x \in DOMAIN q : x # id => r[x] = q[x]
      /\ r[id] = [q[id] EXCEPT !.status = "QUEUED", !.run = None]
  BY <1>1 DEF Released
<1> HIDE DEF r
<1>3. r[id].outcome = q[id].outcome /\ r[id].integration = q[id].integration
  BY <1>1, <1>2 DEF Task
<1>4. Chained(r)
  BY <1>1, <1>2, <1>3, ChainKept
<1> QED
  BY <1>4 DEF r

\* A new task hands nothing on.
LEMMA NewTaskFresh ==
    ASSUME NEW candidate, NEW frozen
    PROVE  LET task == NewTask(candidate, frozen)
           IN  ~HandsOn(task) /\ task.outcome = None
BY GapsAssumption DEF NewTask, HandsOn

LEMMA AddedChained ==
    ASSUME NEW q, NEW r, Chained(q), NEW id \in DOMAIN q, ~HandsOn(q[id]),
           NEW op \in {"ASSURANCE", "REPAIR"}, NEW sha \in Shas,
           DOMAIN r = DOMAIN q,
           \A x \in DOMAIN q \ {id} : r[x] = q[x],
           HandsOn(r[id]),
           r[id].status = "TERMINAL",
           NEW candidate, NEW frozen
    PROVE  Chained(Added(r, Successor(id, op, sha), NewTask(candidate, frozen)))
<1> DEFINE new == Successor(id, op, sha)
           s == Added(r, new, NewTask(candidate, frozen))
<1>1. /\ DOMAIN s = DOMAIN q \cup {new}
      /\ \A x \in DOMAIN q : s[x] = r[x]
      /\ new \notin DOMAIN q => s[new] = NewTask(candidate, frozen)
  BY DEF Added
<1> HIDE DEF s
<1>2. OutcomesFit(s)
  BY <1>1, NewTaskFresh DEF Chained, OutcomesFit
<1>3. new \notin DOMAIN q => ~HandsOn(s[new])
  BY <1>1, NewTaskFresh
<1>4. Chained(s)
  BY <1>1, <1>2, <1>3, ChainGrows
<1> QED
  BY <1>4 DEF s

LEMMA RecordedChained ==
    ASSUME NEW q, NEW n \in Nat, NEW id \in Executing(q), NEW run,
           NEW result \in Result, WellFormed(q, n), CanRecord(q, id, result),
           Chained(q)
    PROVE  Chained(Recorded(q, id, run, result))
<1> DEFINE candidate == IF result.outcome = "COMPLETED"
                        THEN result.candidate ELSE q[id].candidate
           integration == IF result.outcome # "PASS" THEN q[id].integration
                          ELSE IF Gap(id) \in HoldGaps THEN "HOLD"
                          ELSE "PENDING"
           ended == [q[id] EXCEPT !.status = "TERMINAL", !.run = run,
                                  !.outcome = result.outcome,
                                  !.candidate = candidate,
                                  !.integration = integration]
           r == [q EXCEPT ![id] = ended]
<1>1. /\ id \in DOMAIN q /\ id \in TaskId /\ q[id] \in Task
      /\ TaskOK(id, q[id], n) /\ q[id].status = "EXECUTING"
  BY DEF Executing, WellFormed
<1>2. q[id].outcome = None /\ q[id].integration = None
  BY <1>1 DEF Chained, OutcomesFit, TaskOK
<1>3. ~HandsOn(q[id])
  BY <1>2, GapsAssumption DEF HandsOn
<1>4. integration # "BASE_DRIFT"
  BY <1>2, GapsAssumption
<1>5. /\ ended.status = "TERMINAL"
      /\ ended.outcome = result.outcome
      /\ ended.integration = integration
  <2> HIDE DEF candidate, integration
  <2> QED
    BY <1>1 DEF Task
<1>6. /\ DOMAIN r = DOMAIN q
      /\ \A x \in DOMAIN q \ {id} : r[x] = q[x]
      /\ r[id] = ended
  BY <1>1
<1>7. Recorded(q, id, run, result) =
        IF SuccessorOf(id, result) = None THEN r
        ELSE Added(r, SuccessorOf(id, result),
                   NewTask(result.candidate, q[id].frozen))
  BY DEF Recorded
<1> HIDE DEF candidate, integration, ended, r
<1>8. HandsOn(r[id]) <=> result.outcome \in {"COMPLETED", "FAIL"}
  BY <1>4, <1>5, <1>6 DEF HandsOn
<1>9. CASE result.outcome \in {"COMPLETED", "FAIL"}
  <2>1. result.candidate.sha \in Shas
    <3>1. result.candidate \in Candidate
      BY <1>1, <1>9 DEF CanRecord, Outcomes, Task, TaskOK
    <3> QED
      BY <3>1 DEF Candidate
  <2>2. PICK op \in {"ASSURANCE", "REPAIR"} :
          SuccessorOf(id, result) = Successor(id, op, result.candidate.sha)
    BY <1>9 DEF SuccessorOf
  <2>3. SuccessorOf(id, result) # None
    BY <1>1, <2>1, <2>2, SuccessorIdentity, NoneIsNoTask
  <2>4. HandsOn(r[id]) /\ r[id].status = "TERMINAL"
    BY <1>5, <1>6, <1>8, <1>9
  <2>5. Chained(Added(r, Successor(id, op, result.candidate.sha),
                      NewTask(result.candidate, q[id].frozen)))
    BY <1>1, <1>3, <1>6, <2>1, <2>4, AddedChained
  <2> QED
    BY <1>7, <2>2, <2>3, <2>5
<1>10. CASE result.outcome \notin {"COMPLETED", "FAIL"}
  <2>1. Recorded(q, id, run, result) = r
    BY <1>7, <1>10 DEF SuccessorOf
  <2>2. \A x \in DOMAIN q : HandsOn(r[x]) <=> HandsOn(q[x])
    BY <1>3, <1>6, <1>8, <1>10
  <2>3. OutcomesFit(r)
    BY <1>5, <1>6 DEF Chained, OutcomesFit
  <2>4. Chained(r)
    BY <1>6, <2>2, <2>3, ChainUnchanged
  <2> QED
    BY <2>1, <2>4
<1> QED
  BY <1>9, <1>10

\* A pending PASS is integrated, or held.
LEMMA MarkedChained ==
    ASSUME NEW q, NEW n \in Nat, NEW id \in Pending(q),
           NEW mark \in {"HOLD", "MERGED"}, WellFormed(q, n), Chained(q)
    PROVE  Chained([q EXCEPT ![id] = [@ EXCEPT !.integration = mark]])
<1> DEFINE r == [q EXCEPT ![id] = [@ EXCEPT !.integration = mark]]
<1>1. /\ id \in DOMAIN q /\ q[id] \in Task
      /\ q[id].status = "TERMINAL" /\ q[id].outcome = "PASS"
      /\ q[id].integration = "PENDING"
  BY DEF Pending, WellFormed
<1>2. /\ DOMAIN r = DOMAIN q
      /\ \A x \in DOMAIN q \ {id} : r[x] = q[x]
      /\ r[id] = [q[id] EXCEPT !.integration = mark]
  BY <1>1
<1> HIDE DEF r
<1>3. /\ r[id].status = "TERMINAL" /\ r[id].outcome = "PASS"
      /\ r[id].integration = mark
  BY <1>1, <1>2 DEF Task
<1>4. \A x \in DOMAIN q : HandsOn(r[x]) <=> HandsOn(q[x])
  BY <1>1, <1>2, <1>3 DEF HandsOn
<1>5. OutcomesFit(r)
  BY <1>2, <1>3 DEF Chained, OutcomesFit
<1>6. Chained(r)
  BY <1>2, <1>4, <1>5, ChainUnchanged
<1> QED
  BY <1>6 DEF r

LEMMA DriftedChained ==
    ASSUME NEW q, NEW n \in Nat, NEW id \in Pending(q), WellFormed(q, n),
           Chained(q)
    PROVE  Chained(BaseDrifted(q, id))
<1> DEFINE r == [q EXCEPT ![id] = [@ EXCEPT !.integration = "BASE_DRIFT"]]
<1>1. /\ id \in DOMAIN q /\ q[id] \in Task
      /\ q[id].status = "TERMINAL" /\ q[id].outcome = "PASS"
      /\ q[id].integration = "PENDING"
      /\ q[id].candidate.sha \in Shas
  BY PendingTask DEF Pending
<1>2. /\ DOMAIN r = DOMAIN q
      /\ \A x \in DOMAIN q \ {id} : r[x] = q[x]
      /\ r[id] = [q[id] EXCEPT !.integration = "BASE_DRIFT"]
  BY <1>1
<1>3. BaseDrifted(q, id) =
        Added(r, Successor(id, "REPAIR", q[id].candidate.sha),
              NewTask(q[id].candidate, q[id].frozen))
  BY DEF BaseDrifted, DriftRepair
<1> HIDE DEF r
<1>4. r[id].status = "TERMINAL" /\ HandsOn(r[id])
  BY <1>1, <1>2 DEF Task, HandsOn
<1>5. ~HandsOn(q[id])
  BY <1>1 DEF HandsOn
<1>6. Chained(Added(r, Successor(id, "REPAIR", q[id].candidate.sha),
                    NewTask(q[id].candidate, q[id].frozen)))
  <2> DEFINE sha == q[id].candidate.sha
             op == "REPAIR"
  <2>1. sha \in Shas /\ op \in {"ASSURANCE", "REPAIR"}
    BY <1>1
  <2> HIDE DEF sha, op
  <2>2. Chained(Added(r, Successor(id, op, sha),
                      NewTask(q[id].candidate, q[id].frozen)))
    BY <1>1, <1>2, <1>4, <1>5, <2>1, AddedChained
  <2> QED
    BY <2>2 DEF sha, op
<1> QED
  BY <1>3, <1>6

LEMMA FedChained ==
    ASSUME NEW q, NEW n \in Nat, NEW known, NEW authority,
           authority.revision \in [Repositories -> Nat],
           authority.auto \in [Repositories -> BOOLEAN],
           WellFormed(q, n), ValidQueue(q), Chained(q)
    PROVE  Chained(Fed(q, known, authority))
<1> DEFINE r == Fed(q, known, authority)
<1>1. WellFormed(r, n)
  BY FedBecomes DEF Becomes
<1>2. /\ DOMAIN q \subseteq DOMAIN r
      /\ \A x \in DOMAIN q : r[x] = q[x]
      /\ \A x \in DOMAIN r \ DOMAIN q :
           r[x] = NewTask(None, authority.auto[Repository(x)])
  BY DEF Fed
<1>3. ASSUME NEW x \in DOMAIN r \ DOMAIN q
      PROVE  /\ x = RootId(Revision(x), Gap(x))
             /\ \A y \in DOMAIN q : Work(y) # Work(x)
  <2>1. /\ Revision(x) = authority.revision[Repository(x)]
        /\ Gap(x) \in Feedable(q, known, authority, Repository(x))
        /\ x = RootId(Revision(x), Gap(x))
    BY <1>3, FedIsFeedable
  <2>2. \A y \in DOMAIN q :
          ~(Revision(y) = Revision(x) /\ Gap(y) = Gap(x))
    <3> HIDE DEF r
    <3> QED
      BY <2>1 DEF Feedable
  <2>3. \A y \in DOMAIN q : Work(y) # Work(x)
    BY <2>2 DEF Work
  <2> QED
    BY <2>1, <2>3
<1> HIDE DEF r
<1>4. \A x \in DOMAIN r \ DOMAIN q :
        x \in TaskId /\ ~HandsOn(r[x]) /\ r[x].outcome = None
  BY <1>1, <1>2, NewTaskFresh DEF WellFormed
<1>5. Chained(r)
  BY <1>2, <1>3, <1>4, ChainStarts
<1> QED
  BY <1>5 DEF r

LEMMA TickedChained ==
    ASSUME NEW j \in Jobs, IInv, Decided(j), MayPush(j),
           job[j].command = "TICK", Chained(queue)
    PROVE  Chained(Ticked(j))
<1> DEFINE id == job[j].plan
           effect == job[j].effect
           authority == job[j].main
           q == Reconciled(queue, authority, job[j].late)
           integrated == CASE effect = "MERGED" -> MarkedMerged(q, id)
                           [] effect = "HOLD" -> Held(q, id)
                           [] effect = "BASE_DRIFT" -> BaseDrifted(q, id)
                           [] OTHER -> q
<1>1. /\ WellFormed(queue, runs) /\ ValidQueue(queue) /\ runs \in Nat
      /\ job[j] # None /\ j \in current
      /\ Fits(job[j], TRUE, queue, runs, trunk)
  BY DEF IInv, TypeOK, JobFits, CapacityHolds, Decided, MayPush
<1>2. /\ authority \in Main
      /\ effect \in {"MERGED", "HOLD", "BASE_DRIFT"} => id \in Pending(queue)
  BY <1>1 DEF Fits, Integrates, Decided
<1>3. /\ Becomes(queue, runs, q, runs, {})
      /\ DOMAIN q = DOMAIN queue
      /\ \A x \in DOMAIN queue :
           queue[x].status = "TERMINAL" => q[x] = queue[x]
  BY <1>1, ReconciledBecomes
<1>4. Chained(q)
  BY <1>1, ReconciledChained
<1>5. Ticked(j) = IF authority.enabled
                  THEN Fed(integrated, NewFacts(j), authority)
                  ELSE integrated
  BY DEF Ticked
<1> HIDE DEF q
<1>6. WellFormed(q, runs) /\ ValidQueue(q)
  BY <1>3 DEF Becomes
<1>7. effect \in {"MERGED", "HOLD", "BASE_DRIFT"} => id \in Pending(q)
  BY <1>2, <1>3 DEF Pending
<1>8. Chained(integrated) /\ WellFormed(integrated, runs) /\ ValidQueue(integrated)
  <2>1. CASE effect \in {"MERGED", "HOLD"}
    <3> DEFINE mark == effect
    <3>1. integrated = [q EXCEPT ![id] = [@ EXCEPT !.integration = mark]]
      BY <2>1 DEF MarkedMerged, Held
    <3>2. /\ id \in Pending(q)
          /\ mark \in {"HOLD", "MERGED"}
          /\ mark \in {"HOLD", "MERGED", "BASE_DRIFT"}
      BY <1>7, <2>1
    <3> HIDE DEF mark, integrated
    <3>3. Becomes(q, runs, [q EXCEPT ![id] = [@ EXCEPT !.integration = mark]],
                  runs, {x \in {id} : mark = "MERGED"})
      BY <1>1, <1>6, <3>2, IntegratedBecomes
    <3>4. Chained([q EXCEPT ![id] = [@ EXCEPT !.integration = mark]])
      BY <1>1, <1>4, <1>6, <3>2, MarkedChained
    <3> QED
      BY <3>1, <3>3, <3>4 DEF Becomes
  <2>2. CASE effect = "BASE_DRIFT"
    <3>1. integrated = BaseDrifted(q, id) /\ id \in Pending(q)
      BY <1>7, <2>2
    <3>2. Becomes(q, runs, integrated, runs, {})
      BY <1>1, <1>6, <3>1, BaseDriftedBecomes
    <3>3. Chained(integrated)
      BY <1>1, <1>4, <1>6, <3>1, DriftedChained
    <3> QED
      BY <3>2, <3>3 DEF Becomes
  <2>3. CASE effect \notin {"MERGED", "HOLD", "BASE_DRIFT"}
    BY <1>4, <1>6, <2>3
  <2> QED
    BY <2>1, <2>2, <2>3
<1>9. authority.revision \in [Repositories -> Nat]
      /\ authority.auto \in [Repositories -> BOOLEAN]
  BY <1>2 DEF Main
<1> HIDE DEF integrated
<1>10. Chained(Fed(integrated, NewFacts(j), authority))
  BY <1>1, <1>8, <1>9, FedChained
<1> QED
  BY <1>5, <1>8, <1>10

LEMMA WrittenChained ==
    ASSUME NEW j \in Jobs, IInv, Decided(j), MayPush(j), Chained(queue)
    PROVE  Chained(Written(j))
<1> DEFINE id == job[j].plan
           effect == job[j].effect
           q == Reconciled(queue, job[j].main, job[j].late)
<1>1. /\ WellFormed(queue, runs) /\ ValidQueue(queue) /\ runs \in Nat
      /\ job[j] # None /\ j \in current
      /\ Fits(job[j], TRUE, queue, runs, trunk)
  BY DEF IInv, TypeOK, JobFits, CapacityHolds, Decided, MayPush
<1>2. /\ effect = "CLAIM" => job[j].command = "CLAIM" /\ CanClaim(q, id)
      /\ effect = "RELEASE" =>
           job[j].command = "RELEASE" /\ id \in Executing(queue)
      /\ effect = "RECORD" =>
           /\ job[j].command = "RECORD"
           /\ job[j].result \in Result
           /\ id \in Executing(queue)
           /\ CanRecord(queue, id, job[j].result)
  BY <1>1 DEF Fits
<1>3. Chained(q) /\ WellFormed(q, runs)
  BY <1>1, ReconciledBecomes, ReconciledChained DEF Becomes
<1>4. Written(j) =
        CASE job[j].command = "TICK" -> Ticked(j)
          [] effect = "RELEASE" -> Released(queue, id)
          [] effect = "RECORD" -> Recorded(queue, id, job[j].run, job[j].result)
          [] effect = "CLAIM" -> Claimed(q, id, runs + 1)
          [] OTHER -> q
  BY DEF Written
<1> HIDE DEF q
<1>5. CASE job[j].command = "TICK"
  BY <1>2, <1>4, <1>5, TickedChained
<1>6. CASE job[j].command # "TICK" /\ effect = "RELEASE"
  BY <1>1, <1>2, <1>4, <1>6, ReleasedChained
<1>7. CASE job[j].command # "TICK" /\ effect = "RECORD"
  BY <1>1, <1>2, <1>4, <1>7, RecordedChained
<1>8. CASE job[j].command # "TICK" /\ effect = "CLAIM"
  <2> DEFINE m == runs + 1
  <2>1. CanClaim(q, id) /\ Written(j) = Claimed(q, id, m)
    BY <1>2, <1>4, <1>8
  <2> HIDE DEF m
  <2> QED
    BY <1>1, <1>3, <2>1, ClaimedChained
<1>9. CASE job[j].command # "TICK" /\ effect \notin {"RELEASE", "RECORD", "CLAIM"}
  BY <1>3, <1>4, <1>9
<1> QED
  BY <1>5, <1>6, <1>7, <1>8, <1>9

LEMMA ChainStep ==
    ASSUME IInv, Chained(queue), [Next]_vars
    PROVE  Chained(queue')
<1>1. ASSUME NEW j \in Jobs, Push(j)
      PROVE  Chained(queue')
  <2>1. Decided(j) /\ MayPush(j) /\ queue' = Written(j)
    BY <1>1 DEF Push
  <2> QED
    BY <2>1, WrittenChained
<1>2. ASSUME \A j \in Jobs : ~Push(j)
      PROVE  Chained(queue')
  BY <1>2, OnlyPushWrites
<1> QED
  BY <1>1, <1>2

LEMMA ChainedIsLinear ==
    ASSUME Chained(queue)
    PROVE  ChainIsLinear
<1> SUFFICES ASSUME NEW x \in DOMAIN queue
             PROVE  /\ Len(x) > 1 => Front(x) \in DOMAIN queue
                    /\ HandsOn(queue[x]) <=>
                         (\E y \in DOMAIN queue : Len(y) > 1 /\ Front(y) = x)
                    /\ \A y \in DOMAIN queue :
                         /\ Revision(y) = Revision(x)
                         /\ Gap(y) = Gap(x)
                         => IsPrefix(x, y) \/ IsPrefix(y, x)
  BY DEF ChainIsLinear
<1>1. ASSUME Len(x) > 1
      PROVE  Front(x) \in DOMAIN queue
  <2>1. Len(x) \in Nat
    BY TaskSequence DEF Chained
  <2>2. Len(x) - 1 \in 1 .. Len(x)
    BY <1>1, <2>1
  <2> QED
    BY <2>2 DEF Chained, PrefixClosed, Front
<1>2. HandsOn(queue[x]) <=>
        (\E y \in DOMAIN queue : Len(y) > 1 /\ Front(y) = x)
  BY DEF Chained, HandsFit, Follows
<1>3. ASSUME NEW y \in DOMAIN queue, Revision(y) = Revision(x), Gap(y) = Gap(x)
      PROVE  IsPrefix(x, y) \/ IsPrefix(y, x)
  BY <1>3 DEF Chained, Linear, Work
<1> QED
  BY <1>1, <1>2, <1>3

\* record() and the base drift of a tick queue one successor of a task that has
\* none yet, feed() starts a gap of a revision once, and nothing removes a
\* task: the work of a gap is one chain without a branch or a hole.
THEOREM ChainIsAlwaysLinear == Spec => []ChainIsLinear
<1>1. Init => Chained(queue)
  BY DEF Init, Chained, PrefixClosed, HandsFit, Linear, OutcomesFit
<1>2. IInv /\ Chained(queue) /\ [Next]_vars => Chained(queue')
  BY ChainStep
<1>3. Chained(queue) => ChainIsLinear
  BY ChainedIsLinear
<1> DEFINE C == Chained(queue)
<1>4. Init => C
  BY <1>1
<1>5. IInv /\ C /\ [Next]_vars => C'
  BY <1>2 DEF Chained, PrefixClosed, HandsFit, Linear, OutcomesFit
<1>6. C => ChainIsLinear
  BY <1>3
<1> HIDE DEF C
<1> QED
  BY <1>4, <1>5, <1>6, KernelInvariant, PTL DEF Spec
=============================================================================
