---------------------------- MODULE KernelQueue ----------------------------
(***************************************************************************)
(* The queue of Control Autonomy V3.1, control_engine/kernel_v31.py, as a  *)
(* value.  Where the function raises there is a guard Can...               *)
(*                                                                         *)
(* A task's identity is deterministic: Mission, revision and gap for a     *)
(* root, the predecessor's identity, the operation and the candidate for a *)
(* successor.  Here it is the path from the root.  The queue is a function *)
(* from the identities it holds; two tasks of one identity are what        *)
(* validate() and the guards refuse.                                       *)
(*                                                                         *)
(* A commit of a target's base branch is the history that ends in it, so   *)
(* the merge of candidate c onto its base is Append(c.base, c.sha).  Each  *)
(* repository has one Mission, and a revision names one content of it: the *)
(* validator lets a Mission change only with a new revision.               *)
(***************************************************************************)
EXTENDS Naturals, Sequences, FiniteSets, TLC

CONSTANTS
    Repositories,
    NumGaps,
    GapRepository,   \* the repository of each gap
    DependsOn,       \* the gaps each gap depends on in the V3.1 Missions
    HoldGaps,        \* gaps with integration_policy HOLD_AFTER_PASS
    Shas,            \* heads of pull requests
    Outside,         \* a commit made by somebody else
    None

Gaps == 1 .. NumGaps

Commit == Seq(Shas \cup {Outside})
Candidate == [sha : Shas, base : Commit]

ASSUME GapsAssumption ==
    /\ NumGaps \in Nat
    /\ GapRepository \in [Gaps -> Repositories]
    /\ DependsOn \in [Gaps -> SUBSET Gaps]
    /\ HoldGaps \subseteq Gaps
    /\ \A g \in Gaps : \A d \in DependsOn[g] :
          GapRepository[d] = GapRepository[g]
    /\ Outside \notin Shas
    /\ None \notin Nat
    /\ None \notin Candidate
    /\ None \notin {"HOLD", "PENDING", "MERGED", "BASE_DRIFT"}
    /\ None \notin {"PASS", "FAIL", "INDETERMINATE", "COMPLETED", "BLOCKED"}

\* The merge commit whose parents are the frozen base and the candidate.
MergeCommit(c) == Append(c.base, c.sha)

Root == [revision : Nat, gap : Gaps]
Link == [operation : {"ASSURANCE", "REPAIR"}, sha : Shas]
TaskId == {id \in Seq(Root \cup Link) :
             /\ id # <<>>
             /\ id[1] \in Root
             /\ \A i \in 2 .. Len(id) : id[i] \in Link}

ASSUME NoneIsNoTask == None \notin TaskId

RootId(revision, gap) == <<[revision |-> revision, gap |-> gap]>>
Successor(id, operation, sha) ==
    Append(id, [operation |-> operation, sha |-> sha])

Revision(id) == id[1].revision
Gap(id) == id[1].gap
Repository(id) == GapRepository[Gap(id)]
Operation(id) ==
    IF Len(id) = 1 THEN "IMPLEMENTATION" ELSE id[Len(id)].operation

\* A1 implements and repairs, B1 assures.
Workers == {"A1", "B1"}
Worker(id) == IF Operation(id) = "ASSURANCE" THEN "B1" ELSE "A1"
Outcomes(id) == IF Operation(id) = "ASSURANCE"
                THEN {"PASS", "FAIL", "INDETERMINATE"}
                ELSE {"COMPLETED", "BLOCKED"}

\* run: the run of the claim while EXECUTING, of the result once TERMINAL.
\* frozen: the repository authority the task was fed under allows
\* CONTROL_AUTO integration.
Task == [status : {"QUEUED", "EXECUTING", "TERMINAL", "SUPERSEDED"},
         run : Nat \cup {None},
         outcome : {"PASS", "FAIL", "INDETERMINATE", "COMPLETED", "BLOCKED",
                    None},
         candidate : Candidate \cup {None},
         integration : {"HOLD", "PENDING", "MERGED", "BASE_DRIFT", None},
         frozen : BOOLEAN]

NewTask(candidate, frozen) ==
    [status |-> "QUEUED", run |-> None, outcome |-> None,
     candidate |-> candidate, integration |-> None, frozen |-> frozen]

\* The queue with a new task under identity new.
Added(q, new, task) ==
    [id \in DOMAIN q \cup {new} |-> IF id \in DOMAIN q THEN q[id] ELSE task]

Executing(q) == {id \in DOMAIN q : q[id].status = "EXECUTING"}
Unfinished(q) == {id \in DOMAIN q : q[id].status \in {"QUEUED", "EXECUTING"}}

\* What validate() says of several tasks at once.
ValidQueue(q) ==
    \A x, y \in Executing(q) :
      x # y => /\ Worker(x) # Worker(y)
               /\ Repository(x) # Repository(y)
               /\ q[x].run # q[y].run

-----------------------------------------------------------------------------
(* Claims. *)

\* main is the authority: of each Mission the current revision, the open
\* gaps, what they depend on and whether its repository allows CONTROL_AUTO.
\* A task's authority is live, or the task is obsolete.
LiveAuthority(main, id) ==
    /\ main.revision[Repository(id)] = Revision(id)
    /\ Gap(id) \in main.open

Selectable(q, worker) ==
    {id \in DOMAIN q : /\ q[id].status = "QUEUED"
                       /\ Worker(id) = worker
                       /\ \A x \in Executing(q) :
                             Repository(x) # Repository(id)}

CanClaim(q, id) ==
    /\ id \in Selectable(q, Worker(id))
    /\ \A x \in Executing(q) : Worker(x) # Worker(id)

Claimed(q, id, run) ==
    [q EXCEPT ![id] = [@ EXCEPT !.status = "EXECUTING", !.run = run]]

\* Mutant: the run is not compared.
CurrentClaimOfAnyone(q, id, run, late) ==
    /\ id \in DOMAIN q
    /\ q[id].status = "EXECUTING"
    /\ q[id].run \notin late

\* late: the runs whose lease has expired.
CurrentClaim(q, id, run, late) ==
    /\ id \in DOMAIN q
    /\ q[id].status = "EXECUTING"
    /\ q[id].run = run
    /\ run \notin late

Released(q, id) ==
    [q EXCEPT ![id] = [@ EXCEPT !.status = "QUEUED", !.run = None]]

\* Mutant: finished tasks are superseded as well.
ReconciledFinished(q, main, late) ==
    [id \in DOMAIN q |->
       IF ~LiveAuthority(main, id)
       THEN [q[id] EXCEPT !.status = "SUPERSEDED"]
       ELSE q[id]]

\* Obsolete tasks are superseded, the claimed ones too; expired claims end.
Reconciled(q, main, late) ==
    [id \in DOMAIN q |->
       CASE id \in Unfinished(q) /\ ~LiveAuthority(main, id) ->
              [q[id] EXCEPT !.status = "SUPERSEDED", !.run = None]
         [] id \in Executing(q) /\ LiveAuthority(main, id)
                                /\ q[id].run \in late ->
              [q[id] EXCEPT !.status = "QUEUED", !.run = None]
         [] OTHER -> q[id]]

-----------------------------------------------------------------------------
(* Results. *)

Result == [outcome : {"PASS", "FAIL", "INDETERMINATE", "COMPLETED", "BLOCKED"},
           candidate : Candidate \cup {None}]

\* A work order for the other worker follows a candidate and a FAIL.
SuccessorOf(id, result) ==
    CASE result.outcome = "COMPLETED" ->
           Successor(id, "ASSURANCE", result.candidate.sha)
      [] result.outcome = "FAIL" ->
           Successor(id, "REPAIR", result.candidate.sha)
      [] OTHER -> None

CanRecord(q, id, result) ==
    /\ result.outcome \in Outcomes(id)
    /\ Operation(id) = "ASSURANCE" => result.candidate = q[id].candidate
    /\ result.outcome = "COMPLETED" => result.candidate \in Candidate
    /\ Operation(id) = "REPAIR" /\ result.outcome = "COMPLETED" =>
          result.candidate.sha # q[id].candidate.sha
    /\ SuccessorOf(id, result) \notin DOMAIN q

\* Mutant: the run is forgotten with the claim.
RecordedUnowned(q, id, run, result) ==
    LET ended == [q[id] EXCEPT
                    !.status = "TERMINAL", !.run = None,
                    !.outcome = result.outcome,
                    !.candidate = IF result.outcome = "COMPLETED"
                                  THEN result.candidate ELSE @,
                    !.integration = IF result.outcome = "PASS"
                                    THEN "PENDING" ELSE @]
        next == SuccessorOf(id, result)
        after == [q EXCEPT ![id] = ended]
    IN  IF next = None THEN after
        ELSE Added(after, next, NewTask(result.candidate, q[id].frozen))

Recorded(q, id, run, result) ==
    LET ended == [q[id] EXCEPT
                    !.status = "TERMINAL", !.run = run,
                    !.outcome = result.outcome,
                    !.candidate = IF result.outcome = "COMPLETED"
                                  THEN result.candidate ELSE @,
                    !.integration =
                       IF result.outcome # "PASS" THEN @
                       ELSE IF Gap(id) \in HoldGaps THEN "HOLD"
                       ELSE "PENDING"]
        next == SuccessorOf(id, result)
        after == [q EXCEPT ![id] = ended]
    IN  IF next = None THEN after
        ELSE Added(after, next, NewTask(result.candidate, q[id].frozen))

-----------------------------------------------------------------------------
(* Integration of a PASS, and new work. *)

Pending(q) == {id \in DOMAIN q : /\ Operation(id) = "ASSURANCE"
                                 /\ q[id].status = "TERMINAL"
                                 /\ q[id].outcome = "PASS"
                                 /\ q[id].integration = "PENDING"}

Held(q, id) == [q EXCEPT ![id] = [@ EXCEPT !.integration = "HOLD"]]
\* Mutant: the wrong field.
MarkedMergedOutcome(q, id) == [q EXCEPT ![id] = [@ EXCEPT !.outcome = "MERGED"]]

MarkedMerged(q, id) == [q EXCEPT ![id] = [@ EXCEPT !.integration = "MERGED"]]

DriftRepair(q, id) == Successor(id, "REPAIR", q[id].candidate.sha)
\* Mutant: the drifted PASS stays pending.
BaseDriftedPending(q, id) ==
    Added(q, DriftRepair(q, id), NewTask(q[id].candidate, q[id].frozen))

BaseDrifted(q, id) ==
    Added([q EXCEPT ![id] = [@ EXCEPT !.integration = "BASE_DRIFT"]],
          DriftRepair(q, id), NewTask(q[id].candidate, q[id].frozen))

\* Mutant: a PASS is enough.
GapSatisfiedByPass(q, facts, revision, gap) ==
    \/ [revision |-> revision, gap |-> gap] \in facts
    \/ \E id \in DOMAIN q : /\ Revision(id) = revision /\ Gap(id) = gap
                            /\ q[id].outcome = "PASS"

\* facts: what the V1 queue says was integrated before V3.1.
GapSatisfied(q, facts, revision, gap) ==
    \/ [revision |-> revision, gap |-> gap] \in facts
    \/ \E id \in DOMAIN q : /\ Revision(id) = revision /\ Gap(id) = gap
                            /\ Operation(id) = "ASSURANCE"
                            /\ q[id].status = "TERMINAL"
                            /\ q[id].outcome = "PASS"
                            /\ q[id].integration = "MERGED"

\* Mutant: facts have no shadow tasks.
FeedableAgain(q, facts, main, r) ==
    LET revision == main.revision[r] IN
    {g \in main.open :
       /\ GapRepository[g] = r
       /\ \A id \in DOMAIN q : ~(Revision(id) = revision /\ Gap(id) = g)
       /\ \A d \in main.depends[g] : GapSatisfied(q, facts, revision, d)}

\* Gaps of repository r that may become a task now.
Feedable(q, facts, main, r) ==
    LET revision == main.revision[r] IN
    {g \in main.open :
       /\ GapRepository[g] = r
       /\ [revision |-> revision, gap |-> g] \notin facts
       /\ \A id \in DOMAIN q : ~(Revision(id) = revision /\ Gap(id) = g)
       /\ \A d \in main.depends[g] : GapSatisfied(q, facts, revision, d)}

\* Every Mission whose repository is not being worked on gets its first one.
Fed(q, facts, main) ==
    LET idle == {r \in Repositories :
                   \A x \in Executing(q) : Repository(x) # r}
        first == {g \in Gaps :
                    LET able == Feedable(q, facts, main, GapRepository[g]) IN
                    /\ GapRepository[g] \in idle
                    /\ g \in able
                    /\ \A h \in able : g <= h}
        new == {RootId(main.revision[GapRepository[g]], g) : g \in first}
    IN  [id \in DOMAIN q \cup new |->
           IF id \in DOMAIN q THEN q[id]
           ELSE NewTask(None, main.auto[Repository(id)])]

-----------------------------------------------------------------------------
(* What holds of every queue, and of two of them one after the other. *)

\* A run is of a claim made so far; a follow-up has the candidate it is about;
\* only the end of an assurance is integrated.
TaskOK(id, task, count) ==
    /\ task.run # None => task.run \in 1 .. count
    /\ Operation(id) # "IMPLEMENTATION" => task.candidate # None
    /\ task.integration # None =>
         task.status = "TERMINAL" /\ Operation(id) = "ASSURANCE"

\* A queue after so many claims.
WellFormed(q, count) ==
    \A id \in DOMAIN q : /\ id \in TaskId
                         /\ q[id] \in Task
                         /\ TaskOK(id, q[id], count)

\* A result, a superseded task and the end of an integration are final.
Settled(before, after) ==
    \A id \in DOMAIN before :
      /\ id \in DOMAIN after
      /\ before[id].status = "SUPERSEDED" => after[id] = before[id]
      /\ before[id].status = "TERMINAL" =>
           /\ [after[id] EXCEPT !.integration = None]
                = [before[id] EXCEPT !.integration = None]
           /\ before[id].integration # "PENDING" =>
                after[id].integration = before[id].integration
=============================================================================
