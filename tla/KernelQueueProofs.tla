-------------------------- MODULE KernelQueueProofs --------------------------
(***************************************************************************)
(* What the operations on a V3.1 queue make of any well-formed queue.      *)
(***************************************************************************)
EXTENDS KernelQueue, SequenceTheorems, TLAPS

-----------------------------------------------------------------------------
(* Sequences. *)

LEMMA Window ==
    ASSUME NEW S, NEW u \in Seq(S), NEW n \in 0 .. Len(u)
    PROVE  /\ SubSeq(u, 1, n) \in Seq(S)
           /\ Len(SubSeq(u, 1, n)) = n
           /\ \A i \in 1 .. n : SubSeq(u, 1, n)[i] = u[i]
<1>1. n \in Int /\ n \in Nat /\ Len(u) \in Nat
  BY LenProperties
<1>2. \A i \in 1 .. n : u[i] \in S
  BY <1>1, ElementOfSeq
<1>3. /\ SubSeq(u, 1, n) \in Seq(S)
      /\ Len(SubSeq(u, 1, n)) = IF 1 <= n THEN n - 1 + 1 ELSE 0
      /\ \A i \in 1 .. n - 1 + 1 : SubSeq(u, 1, n)[i] = u[1 + i - 1]
  BY <1>1, <1>2, SubSeqProperties
<1> QED
  BY <1>1, <1>3

-----------------------------------------------------------------------------
(* Identities. *)

LEMMA RootIdentity ==
    ASSUME NEW revision \in Nat, NEW g \in Gaps
    PROVE  /\ RootId(revision, g) \in TaskId
           /\ Operation(RootId(revision, g)) = "IMPLEMENTATION"
<1> DEFINE root == [revision |-> revision, gap |-> g]
<1>1. root \in Root
  BY DEF Root
<1>2. /\ <<root>> \in Seq(Root \cup Link)
      /\ Len(<<root>>) = 1
      /\ <<root>>[1] = root
  BY <1>1
<1> HIDE DEF root
<1>3. <<root>> \in TaskId /\ Operation(<<root>>) = "IMPLEMENTATION"
  BY <1>1, <1>2 DEF TaskId, Operation
<1> QED
  BY <1>3 DEF RootId, root

LEMMA TaskRepository ==
    ASSUME NEW id \in TaskId
    PROVE  Gap(id) \in Gaps /\ Repository(id) \in Repositories
BY GapsAssumption DEF TaskId, Root, Gap, Repository

LEMMA SuccessorIdentity ==
    ASSUME NEW id \in TaskId, NEW op \in {"ASSURANCE", "REPAIR"},
           NEW sha \in Shas
    PROVE  /\ Successor(id, op, sha) \in TaskId
           /\ Operation(Successor(id, op, sha)) = op
<1> DEFINE link == [operation |-> op, sha |-> sha]
           new == Append(id, link)
<1>1. link \in Link /\ link.operation = op
  BY DEF Link
<1>2. /\ id \in Seq(Root \cup Link) /\ id # <<>> /\ id[1] \in Root
      /\ \A i \in 2 .. Len(id) : id[i] \in Link
  BY DEF TaskId
<1>3. Len(id) \in Nat \ {0}
  BY <1>2, EmptySeq
<1>4. /\ new \in Seq(Root \cup Link)
      /\ new # <<>>
      /\ Len(new) = Len(id) + 1
      /\ \A i \in 1 .. Len(id) : new[i] = id[i]
      /\ new[Len(id) + 1] = link
  BY <1>1, <1>2, AppendProperties
<1> HIDE DEF link, new
<1>5. new \in TaskId
  <2>1. new[1] \in Root
    BY <1>2, <1>3, <1>4
  <2>2. \A i \in 2 .. Len(new) : new[i] \in Link
    BY <1>1, <1>2, <1>3, <1>4
  <2> QED
    BY <1>4, <2>1, <2>2 DEF TaskId
<1>6. Operation(new) = op
  BY <1>1, <1>3, <1>4 DEF Operation
<1> QED
  BY <1>5, <1>6 DEF Successor, new, link

-----------------------------------------------------------------------------
(* The operations on a queue. *)

MergedTasks(q) == {id \in DOMAIN q : q[id].integration = "MERGED"}

\* What one operation may make of a well-formed queue q: it stays well-formed
\* and within the capacity, what is settled stands, and nothing but the tasks
\* of a set becomes MERGED.
Becomes(q, count, r, after, merging) ==
    /\ WellFormed(r, after)
    /\ ValidQueue(r)
    /\ Settled(q, r)
    /\ MergedTasks(r) \subseteq MergedTasks(q) \cup merging

\* Fewer claims, unchanged, need no more capacity.
LEMMA FewerClaims ==
    ASSUME NEW q, NEW r, ValidQueue(q), Executing(r) \subseteq Executing(q),
           \A id \in Executing(r) : r[id].run = q[id].run
    PROVE  ValidQueue(r)
BY DEF ValidQueue

LEMMA BecomesTransitive ==
    ASSUME NEW q, NEW k \in Nat, NEW r, NEW m \in Nat, NEW s, NEW n \in Nat,
           NEW A, NEW B, WellFormed(q, k),
           Becomes(q, k, r, m, A), Becomes(r, m, s, n, B)
    PROVE  Becomes(q, k, s, n, A \cup B)
<1>1. Settled(q, s)
  <2> SUFFICES ASSUME NEW id \in DOMAIN q
               PROVE  /\ id \in DOMAIN s
                      /\ q[id].status = "SUPERSEDED" => s[id] = q[id]
                      /\ q[id].status = "TERMINAL" =>
                           /\ [s[id] EXCEPT !.integration = None]
                                = [q[id] EXCEPT !.integration = None]
                           /\ q[id].integration # "PENDING" =>
                                s[id].integration = q[id].integration
    BY DEF Settled
  <2>1. /\ id \in DOMAIN r /\ id \in DOMAIN s
        /\ q[id] \in Task /\ r[id] \in Task /\ s[id] \in Task
    BY DEF Becomes, Settled, WellFormed
  <2>2. CASE q[id].status = "SUPERSEDED"
    BY <2>1, <2>2 DEF Becomes, Settled
  <2>3. CASE q[id].status = "TERMINAL"
    <3>1. /\ [r[id] EXCEPT !.integration = None]
               = [q[id] EXCEPT !.integration = None]
          /\ q[id].integration # "PENDING" =>
               r[id].integration = q[id].integration
      BY <2>1, <2>3 DEF Becomes, Settled
    <3>2. r[id].status = "TERMINAL"
      BY <2>1, <2>3, <3>1 DEF Task
    <3>3. /\ [s[id] EXCEPT !.integration = None]
               = [r[id] EXCEPT !.integration = None]
          /\ r[id].integration # "PENDING" =>
               s[id].integration = r[id].integration
      BY <2>1, <3>2 DEF Becomes, Settled
    <3> QED
      BY <2>1, <2>3, <3>1, <3>3
  <2> QED
    BY <2>1, <2>2, <2>3
<1> QED
  BY <1>1 DEF Becomes

LEMMA ReconciledBecomes ==
    ASSUME NEW q, NEW n \in Nat, NEW authority, NEW expired,
           WellFormed(q, n), ValidQueue(q)
    PROVE  /\ Becomes(q, n, Reconciled(q, authority, expired), n, {})
           /\ DOMAIN Reconciled(q, authority, expired) = DOMAIN q
           /\ \A id \in DOMAIN q :
                q[id].status = "TERMINAL" =>
                  Reconciled(q, authority, expired)[id] = q[id]
<1> DEFINE r == Reconciled(q, authority, expired)
<1>1. /\ DOMAIN r = DOMAIN q
      /\ \A id \in DOMAIN q :
           \/ r[id] = q[id]
           \/ /\ id \in Unfinished(q)
              /\ r[id] = [q[id] EXCEPT !.status = "SUPERSEDED", !.run = None]
           \/ /\ id \in Executing(q)
              /\ r[id] = [q[id] EXCEPT !.status = "QUEUED", !.run = None]
  BY DEF Reconciled
<1> HIDE DEF r
<1>2. \A id \in DOMAIN q : id \in TaskId /\ q[id] \in Task /\ TaskOK(id, q[id], n)
  BY DEF WellFormed
<1>3. ASSUME NEW id \in DOMAIN q, r[id] # q[id]
      PROVE  /\ r[id] \in Task
             /\ q[id].status \in {"QUEUED", "EXECUTING"}
             /\ r[id].status \in {"QUEUED", "SUPERSEDED"}
             /\ r[id].run = None
             /\ r[id].candidate = q[id].candidate
             /\ r[id].integration = q[id].integration
             /\ q[id].integration = None
  <2>1. q[id].status \in {"QUEUED", "EXECUTING"}
    BY <1>1, <1>3 DEF Unfinished, Executing
  <2>2. PICK state \in {"QUEUED", "SUPERSEDED"} :
          r[id] = [q[id] EXCEPT !.status = state, !.run = None]
    BY <1>1, <1>3
  <2>3. /\ r[id] \in Task
        /\ r[id].status = state
        /\ r[id].run = None
        /\ r[id].candidate = q[id].candidate
        /\ r[id].integration = q[id].integration
    <3>1. /\ q[id] \in Task
          /\ state \in {"QUEUED", "EXECUTING", "TERMINAL", "SUPERSEDED"}
          /\ None \in Nat \cup {None}
      BY <1>2
    <3> QED
      BY <3>1, <2>2 DEF Task
  <2> QED
    BY <1>2, <2>1, <2>3 DEF TaskOK
<1>4. WellFormed(r, n)
  BY <1>1, <1>2, <1>3 DEF WellFormed, TaskOK
<1>5. ASSUME NEW id \in Executing(r)
      PROVE  id \in Executing(q) /\ r[id].run = q[id].run
  BY <1>1, <1>3 DEF Executing
<1>6. ValidQueue(r)
  BY <1>5, FewerClaims
<1>7. Settled(q, r)
  BY <1>1, <1>2, <1>3 DEF Settled
<1>8. MergedTasks(r) \subseteq MergedTasks(q)
  BY <1>1, <1>3 DEF MergedTasks
<1>9. \A id \in DOMAIN q : q[id].status = "TERMINAL" => r[id] = q[id]
  BY <1>3
<1> QED
  BY <1>1, <1>4, <1>6, <1>7, <1>8, <1>9 DEF Becomes, r

LEMMA ClaimedBecomes ==
    ASSUME NEW q, NEW n \in Nat, NEW m \in Nat, n <= m, NEW run \in 1 .. m,
           NEW id, WellFormed(q, n), ValidQueue(q), CanClaim(q, id),
           \A x \in Executing(q) : q[x].run # run
    PROVE  Becomes(q, n, Claimed(q, id, run), m, {})
<1> DEFINE r == Claimed(q, id, run)
<1>1. /\ id \in DOMAIN q
      /\ q[id].status = "QUEUED"
      /\ \A x \in Executing(q) : /\ Worker(x) # Worker(id)
                                 /\ Repository(x) # Repository(id)
  BY DEF CanClaim, Selectable
<1>2. /\ DOMAIN r = DOMAIN q
      /\ \A x \in DOMAIN q : x # id => r[x] = q[x]
      /\ r[id] = [q[id] EXCEPT !.status = "EXECUTING", !.run = run]
  BY <1>1 DEF Claimed
<1> HIDE DEF r
<1>3. \A x \in DOMAIN q : x \in TaskId /\ q[x] \in Task /\ TaskOK(x, q[x], n)
  BY DEF WellFormed
<1>4. /\ r[id] \in Task
      /\ r[id].status = "EXECUTING"
      /\ r[id].run = run
      /\ r[id].candidate = q[id].candidate
      /\ r[id].integration = None
  <2>1. q[id] \in Task /\ q[id].integration = None
    BY <1>1, <1>3 DEF TaskOK
  <2>2. run \in Nat
    OBVIOUS
  <2>3. r[id] = [q[id] EXCEPT !.status = "EXECUTING", !.run = run]
    BY <1>2
  <2> QED
    BY <2>1, <2>2, <2>3 DEF Task
<1>5. WellFormed(r, m)
  <2>1. ASSUME NEW x \in DOMAIN q, x # id
        PROVE  x \in TaskId /\ r[x] \in Task /\ TaskOK(x, r[x], m)
    <3>1. r[x] = q[x] /\ (q[x].run # None => q[x].run \in 1 .. m)
      BY <1>2, <1>3, <2>1 DEF TaskOK
    <3> QED
      BY <1>3, <3>1 DEF TaskOK
  <2>2. id \in TaskId /\ r[id] \in Task /\ TaskOK(id, r[id], m)
    BY <1>1, <1>3, <1>4 DEF TaskOK
  <2> QED
    BY <1>2, <2>1, <2>2 DEF WellFormed
<1>6. ValidQueue(r)
  <2>1. \A x \in Executing(r) : x # id => x \in Executing(q) /\ r[x].run = q[x].run
    BY <1>2 DEF Executing
  <2>2. \A x \in Executing(q) : q[x].run # run
    OBVIOUS
  <2>3. ASSUME NEW x \in Executing(r), NEW y \in Executing(r), x # y
        PROVE  /\ Worker(x) # Worker(y)
               /\ Repository(x) # Repository(y)
               /\ r[x].run # r[y].run
    <3>1. CASE x = id
      BY <1>1, <1>4, <2>1, <2>2, <2>3, <3>1
    <3>2. CASE y = id
      BY <1>1, <1>4, <2>1, <2>2, <2>3, <3>2
    <3>3. CASE x # id /\ y # id
      BY <2>1, <2>3, <3>3 DEF ValidQueue
    <3> QED
      BY <3>1, <3>2, <3>3
  <2> QED
    BY <2>3 DEF ValidQueue
<1>7. Settled(q, r)
  BY <1>1, <1>2 DEF Settled
<1>8. MergedTasks(r) \subseteq MergedTasks(q)
  <2>1. None # "MERGED"
    BY GapsAssumption
  <2> QED
    BY <1>2, <1>4, <2>1 DEF MergedTasks
<1> QED
  BY <1>5, <1>6, <1>7, <1>8 DEF Becomes, r

\* One task is changed that is unfinished, or is pending and only integrated.
LEMMA OneChanged ==
    ASSUME NEW q, NEW n \in Nat, NEW r, NEW id \in DOMAIN q, NEW merging,
           WellFormed(q, n), ValidQueue(q),
           DOMAIN r = DOMAIN q,
           \A x \in DOMAIN q : x # id => r[x] = q[x],
           r[id] \in Task, TaskOK(id, r[id], n),
           r[id].status # "EXECUTING",
           \/ q[id].status \in {"QUEUED", "EXECUTING"}
           \/ /\ q[id].status = "TERMINAL"
              /\ q[id].integration = "PENDING"
              /\ [r[id] EXCEPT !.integration = None]
                   = [q[id] EXCEPT !.integration = None],
           r[id].integration = "MERGED" => id \in merging
    PROVE  Becomes(q, n, r, n, merging)
<1>1. \A x \in DOMAIN q : x \in TaskId /\ q[x] \in Task /\ TaskOK(x, q[x], n)
  BY DEF WellFormed
<1>2. WellFormed(r, n)
  BY <1>1 DEF WellFormed
<1>3. ValidQueue(r)
  <2>1. \A x \in Executing(r) : x \in Executing(q) /\ r[x].run = q[x].run
    BY DEF Executing
  <2> QED
    BY <2>1, FewerClaims
<1>4. Settled(q, r)
  BY DEF Settled
<1>5. MergedTasks(r) \subseteq MergedTasks(q) \cup merging
  BY DEF MergedTasks
<1> QED
  BY <1>2, <1>3, <1>4, <1>5 DEF Becomes

\* Queued tasks are added.
LEMMA SomeAdded ==
    ASSUME NEW q, NEW n \in Nat, NEW r,
           WellFormed(q, n), ValidQueue(q),
           DOMAIN q \subseteq DOMAIN r,
           \A x \in DOMAIN q : r[x] = q[x],
           \A x \in DOMAIN r \ DOMAIN q :
             /\ x \in TaskId /\ r[x] \in Task /\ TaskOK(x, r[x], n)
             /\ r[x].status = "QUEUED" /\ r[x].integration = None
    PROVE  Becomes(q, n, r, n, {})
<1>1. WellFormed(r, n)
  BY DEF WellFormed
<1>2. ValidQueue(r)
  <2>1. \A x \in Executing(r) : x \in Executing(q) /\ r[x].run = q[x].run
    BY DEF Executing
  <2> QED
    BY <2>1, FewerClaims
<1>3. Settled(q, r)
  BY DEF Settled
<1>4. MergedTasks(r) \subseteq MergedTasks(q)
  <2>1. None # "MERGED"
    BY GapsAssumption
  <2> QED
    BY <2>1 DEF MergedTasks
<1> QED
  BY <1>1, <1>2, <1>3, <1>4 DEF Becomes

LEMMA NewTaskOK ==
    ASSUME NEW id, NEW n \in Nat, NEW frozen \in BOOLEAN,
           NEW candidate \in Candidate \cup {None},
           Operation(id) # "IMPLEMENTATION" => candidate # None
    PROVE  LET task == NewTask(candidate, frozen)
           IN  /\ task \in Task /\ TaskOK(id, task, n)
               /\ task.status = "QUEUED" /\ task.integration = None
BY DEF NewTask, Task, TaskOK

LEMMA ReleasedBecomes ==
    ASSUME NEW q, NEW n \in Nat, NEW id \in Executing(q),
           WellFormed(q, n), ValidQueue(q)
    PROVE  Becomes(q, n, Released(q, id), n, {})
<1> DEFINE r == Released(q, id)
<1>1. /\ id \in DOMAIN q /\ q[id].status = "EXECUTING"
      /\ q[id] \in Task /\ TaskOK(id, q[id], n)
  BY DEF Executing, WellFormed
<1>2. /\ DOMAIN r = DOMAIN q
      /\ \A x \in DOMAIN q : x # id => r[x] = q[x]
      /\ r[id] = [q[id] EXCEPT !.status = "QUEUED", !.run = None]
  BY <1>1 DEF Released
<1> HIDE DEF r
<1>3. /\ r[id] \in Task
      /\ r[id].status = "QUEUED"
      /\ r[id].run = None
      /\ r[id].candidate = q[id].candidate
      /\ r[id].integration = q[id].integration
  BY <1>1, <1>2 DEF Task
<1>4. TaskOK(id, r[id], n) /\ r[id].integration # "MERGED"
  BY <1>1, <1>3, GapsAssumption DEF TaskOK
<1>5. Becomes(q, n, r, n, {})
  BY <1>1, <1>2, <1>3, <1>4, OneChanged
<1> QED
  BY <1>5 DEF r

LEMMA AddedBecomes ==
    ASSUME NEW q, NEW n \in Nat, NEW new \in TaskId,
           NEW candidate \in Candidate, NEW frozen \in BOOLEAN,
           WellFormed(q, n), ValidQueue(q)
    PROVE  Becomes(q, n, Added(q, new, NewTask(candidate, frozen)), n, {})
<1> DEFINE r == Added(q, new, NewTask(candidate, frozen))
<1>1. candidate # None
  BY GapsAssumption
<1>2. /\ DOMAIN r = DOMAIN q \cup {new}
      /\ \A x \in DOMAIN q : r[x] = q[x]
      /\ new \notin DOMAIN q => r[new] = NewTask(candidate, frozen)
  BY DEF Added
<1> HIDE DEF r
<1>3. \A x \in DOMAIN r \ DOMAIN q :
        /\ x \in TaskId /\ r[x] \in Task /\ TaskOK(x, r[x], n)
        /\ r[x].status = "QUEUED" /\ r[x].integration = None
  BY <1>1, <1>2, NewTaskOK
<1>4. Becomes(q, n, r, n, {})
  BY <1>2, <1>3, SomeAdded
<1> QED
  BY <1>4 DEF r

LEMMA RecordedBecomes ==
    ASSUME NEW q, NEW n \in Nat, NEW id \in Executing(q), NEW run \in 1 .. n,
           NEW result \in Result,
           WellFormed(q, n), ValidQueue(q), CanRecord(q, id, result)
    PROVE  Becomes(q, n, Recorded(q, id, run, result), n, {})
<1> DEFINE candidate == IF result.outcome = "COMPLETED"
                        THEN result.candidate ELSE q[id].candidate
           integration == IF result.outcome # "PASS" THEN q[id].integration
                          ELSE IF Gap(id) \in HoldGaps THEN "HOLD"
                          ELSE "PENDING"
           ended == [q[id] EXCEPT !.status = "TERMINAL", !.run = run,
                                  !.outcome = result.outcome,
                                  !.candidate = candidate,
                                  !.integration = integration]
           r == [q EXCEPT ![id] = ended]
<1>1. /\ id \in DOMAIN q /\ q[id].status = "EXECUTING"
      /\ id \in TaskId /\ q[id] \in Task /\ TaskOK(id, q[id], n)
      /\ q[id].integration = None
      /\ q[id].frozen \in BOOLEAN
  BY DEF Executing, WellFormed, TaskOK, Task
<1>2. /\ result.outcome \in Outcomes(id)
      /\ Operation(id) = "ASSURANCE" => result.candidate = q[id].candidate
      /\ result.outcome = "COMPLETED" => result.candidate \in Candidate
      /\ result.outcome \in {"PASS", "FAIL", "INDETERMINATE", "COMPLETED",
                             "BLOCKED"}
      /\ result.candidate \in Candidate \cup {None}
  BY DEF CanRecord, Result
<1>3. candidate \in Candidate \cup {None}
      /\ (Operation(id) # "IMPLEMENTATION" => candidate # None)
  BY <1>1, <1>2, GapsAssumption DEF Task, TaskOK
<1>4. /\ integration \in {"HOLD", "PENDING", None}
      /\ integration # None => Operation(id) = "ASSURANCE"
  BY <1>1, <1>2 DEF Outcomes
<1>5. /\ ended \in Task
      /\ ended.status = "TERMINAL"
      /\ ended.run = run
      /\ ended.candidate = candidate
      /\ ended.integration = integration
  <2>1. run \in Nat
    OBVIOUS
  <2> HIDE DEF candidate, integration
  <2> QED
    BY <1>1, <1>2, <1>3, <1>4, <2>1 DEF Task
<1>6. Becomes(q, n, r, n, {})
  <2>1. /\ DOMAIN r = DOMAIN q
        /\ \A x \in DOMAIN q : x # id => r[x] = q[x]
        /\ r[id] = ended
    BY <1>1
  <2> HIDE DEF r, ended, candidate, integration
  <2>2. TaskOK(id, ended, n)
    BY <1>3, <1>4, <1>5 DEF TaskOK
  <2>3. ended.integration # "MERGED"
    BY <1>4, <1>5, GapsAssumption
  <2> QED
    BY <1>1, <1>5, <2>1, <2>2, <2>3, OneChanged
<1>7. CASE SuccessorOf(id, result) = None
  BY <1>6, <1>7 DEF Recorded
<1>8. CASE SuccessorOf(id, result) # None
  <2> DEFINE s == Added(r, SuccessorOf(id, result),
                        NewTask(result.candidate, q[id].frozen))
  <2>1. Recorded(q, id, run, result) = s
    BY <1>8 DEF Recorded
  <2>2. result.candidate \in Candidate /\ SuccessorOf(id, result) \in TaskId
    <3>1. result.outcome \in {"COMPLETED", "FAIL"}
      BY <1>8 DEF SuccessorOf
    <3>2. result.candidate \in Candidate
      BY <1>1, <1>2, <3>1 DEF Outcomes, Task, TaskOK
    <3>3. result.candidate.sha \in Shas
      BY <3>2 DEF Candidate
    <3> QED
      BY <1>1, <3>1, <3>2, <3>3, SuccessorIdentity DEF SuccessorOf
  <2>3. WellFormed(r, n) /\ ValidQueue(r)
    BY <1>6 DEF Becomes
  <2> HIDE DEF r
  <2>4. Becomes(r, n, s, n, {})
    BY <1>1, <2>2, <2>3, AddedBecomes
  <2>5. Becomes(q, n, s, n, {} \cup {})
    BY <1>6, <2>4, BecomesTransitive
  <2> QED
    BY <2>1, <2>5
<1> QED
  BY <1>7, <1>8

-----------------------------------------------------------------------------
(* Integration, and new work. *)

LEMMA PendingTask ==
    ASSUME NEW q, NEW n \in Nat, NEW id \in Pending(q), WellFormed(q, n)
    PROVE  /\ id \in DOMAIN q /\ id \in TaskId /\ q[id] \in Task
           /\ TaskOK(id, q[id], n)
           /\ Operation(id) = "ASSURANCE"
           /\ q[id].status = "TERMINAL"
           /\ q[id].integration = "PENDING"
           /\ q[id].candidate \in Candidate
           /\ q[id].candidate.sha \in Shas
           /\ q[id].frozen \in BOOLEAN
<1>1. /\ id \in DOMAIN q /\ id \in TaskId /\ q[id] \in Task
      /\ TaskOK(id, q[id], n)
      /\ Operation(id) = "ASSURANCE"
      /\ q[id].status = "TERMINAL"
      /\ q[id].integration = "PENDING"
  BY DEF Pending, WellFormed
<1>2. q[id].candidate \in Candidate
  BY <1>1 DEF Task, TaskOK
<1> QED
  BY <1>1, <1>2 DEF Candidate, Task

LEMMA IntegratedBecomes ==
    ASSUME NEW q, NEW n \in Nat, NEW id \in Pending(q),
           NEW mark \in {"HOLD", "MERGED", "BASE_DRIFT"},
           WellFormed(q, n), ValidQueue(q)
    PROVE  Becomes(q, n, [q EXCEPT ![id] = [@ EXCEPT !.integration = mark]], n,
                   {x \in {id} : mark = "MERGED"})
<1> DEFINE r == [q EXCEPT ![id] = [@ EXCEPT !.integration = mark]]
<1>1. /\ id \in DOMAIN q /\ q[id] \in Task /\ TaskOK(id, q[id], n)
      /\ Operation(id) = "ASSURANCE"
      /\ q[id].status = "TERMINAL" /\ q[id].integration = "PENDING"
  BY PendingTask
<1>2. /\ DOMAIN r = DOMAIN q
      /\ \A x \in DOMAIN q : x # id => r[x] = q[x]
      /\ r[id] = [q[id] EXCEPT !.integration = mark]
  BY <1>1
<1> HIDE DEF r
<1>3. /\ r[id] \in Task
      /\ r[id].status = "TERMINAL"
      /\ r[id].run = q[id].run
      /\ r[id].candidate = q[id].candidate
      /\ r[id].integration = mark
      /\ [r[id] EXCEPT !.integration = None]
           = [q[id] EXCEPT !.integration = None]
  BY <1>1, <1>2 DEF Task
<1>4. TaskOK(id, r[id], n)
  BY <1>1, <1>3 DEF TaskOK
<1>5. Becomes(q, n, r, n, {x \in {id} : mark = "MERGED"})
  BY <1>1, <1>2, <1>3, <1>4, OneChanged
<1> QED
  BY <1>5 DEF r

LEMMA BaseDriftedBecomes ==
    ASSUME NEW q, NEW n \in Nat, NEW id \in Pending(q),
           WellFormed(q, n), ValidQueue(q)
    PROVE  Becomes(q, n, BaseDrifted(q, id), n, {})
<1> DEFINE r == [q EXCEPT ![id] = [@ EXCEPT !.integration = "BASE_DRIFT"]]
           s == BaseDrifted(q, id)
<1>1. Becomes(q, n, r, n, {})
  BY IntegratedBecomes
<1>2. s = Added(r, DriftRepair(q, id), NewTask(q[id].candidate, q[id].frozen))
  BY DEF BaseDrifted
<1>3. DriftRepair(q, id) \in TaskId
  BY PendingTask, SuccessorIdentity DEF DriftRepair
<1>4. q[id].candidate \in Candidate /\ q[id].frozen \in BOOLEAN
  BY PendingTask
<1>5. WellFormed(r, n) /\ ValidQueue(r)
  BY <1>1 DEF Becomes
<1> HIDE DEF r, s
<1>6. Becomes(r, n, s, n, {})
  BY <1>2, <1>3, <1>4, <1>5, AddedBecomes
<1>7. Becomes(q, n, s, n, {} \cup {})
  BY <1>1, <1>6, BecomesTransitive
<1> QED
  BY <1>7 DEF s

LEMMA FedBecomes ==
    ASSUME NEW q, NEW n \in Nat, NEW known, NEW authority,
           authority.revision \in [Repositories -> Nat],
           authority.auto \in [Repositories -> BOOLEAN],
           WellFormed(q, n), ValidQueue(q)
    PROVE  Becomes(q, n, Fed(q, known, authority), n, {})
<1> DEFINE r == Fed(q, known, authority)
<1>1. PICK first \in SUBSET Gaps :
        r = [id \in DOMAIN q \cup
                    {RootId(authority.revision[GapRepository[g]], g) : g \in first}
             |-> IF id \in DOMAIN q THEN q[id]
                 ELSE NewTask(None, authority.auto[Repository(id)])]
  BY DEF Fed
<1> DEFINE new == {RootId(authority.revision[GapRepository[g]], g) : g \in first}
<1>2. \A id \in new : /\ id \in TaskId
                      /\ Operation(id) = "IMPLEMENTATION"
                      /\ Repository(id) \in Repositories
  <2> SUFFICES ASSUME NEW g \in first
               PROVE  LET id == RootId(authority.revision[GapRepository[g]], g)
                      IN  /\ id \in TaskId
                          /\ Operation(id) = "IMPLEMENTATION"
                          /\ Repository(id) \in Repositories
    OBVIOUS
  <2>1. g \in Gaps /\ GapRepository[g] \in Repositories
    BY GapsAssumption
  <2>2. authority.revision[GapRepository[g]] \in Nat
    BY <2>1
  <2>3. Repository(RootId(authority.revision[GapRepository[g]], g))
          = GapRepository[g]
    BY DEF Repository, Gap, RootId
  <2> QED
    BY <2>1, <2>2, <2>3, RootIdentity
<1>3. /\ DOMAIN r = DOMAIN q \cup new
      /\ \A x \in DOMAIN q : r[x] = q[x]
      /\ \A x \in new \ DOMAIN q :
           r[x] = NewTask(None, authority.auto[Repository(x)])
  BY <1>1
<1> HIDE DEF r, new
<1>4. ASSUME NEW x \in DOMAIN r \ DOMAIN q
      PROVE  /\ x \in TaskId /\ r[x] \in Task /\ TaskOK(x, r[x], n)
             /\ r[x].status = "QUEUED" /\ r[x].integration = None
  <2>1. x \in new /\ r[x] = NewTask(None, authority.auto[Repository(x)])
    BY <1>3, <1>4
  <2>2. authority.auto[Repository(x)] \in BOOLEAN
    BY <1>2, <2>1
  <2> QED
    BY <1>2, <2>1, <2>2, NewTaskOK
<1>5. Becomes(q, n, r, n, {})
  BY <1>3, <1>4, SomeAdded
<1> QED
  BY <1>5 DEF r

-----------------------------------------------------------------------------
(* Which identities an operation adds. *)

\* The gap of a task in its revision.
Work(id) == [revision |-> Revision(id), gap |-> Gap(id)]

LEMMA SuccessorWork ==
    ASSUME NEW id \in TaskId, NEW op, NEW sha
    PROVE  Work(Successor(id, op, sha)) = Work(id)
<1> DEFINE link == [operation |-> op, sha |-> sha]
           all == Root \cup Link \cup {link}
<1>1. id \in Seq(all) /\ id # <<>> /\ link \in all
  BY DEF TaskId
<1>2. Len(id) \in Nat /\ Len(id) >= 1
  BY <1>1, EmptySeq, LenProperties
<1>3. Append(id, link)[1] = id[1]
  <2> HIDE DEF link, all
  <2> QED
    BY <1>1, <1>2, AppendProperties
<1> QED
  BY <1>3 DEF Successor, Work, Revision, Gap

\* A follow-up is of the same gap and revision; nothing else is recorded.
LEMMA RecordedIdentities ==
    ASSUME NEW q, NEW id \in TaskId, NEW run, NEW result,
           NEW x \in DOMAIN Recorded(q, id, run, result)
    PROVE  x \in DOMAIN q \/ Work(x) = Work(id)
<1> DEFINE next == SuccessorOf(id, result)
<1>1. x \in DOMAIN q \/ (next # None /\ x = next)
  BY DEF Recorded, Added
<1>2. next # None => Work(next) = Work(id)
  BY SuccessorWork DEF SuccessorOf
<1> QED
  BY <1>1, <1>2

LEMMA DriftedIdentities ==
    ASSUME NEW q, NEW id \in TaskId, NEW x \in DOMAIN BaseDrifted(q, id)
    PROVE  x \in DOMAIN q \/ Work(x) = Work(id)
BY SuccessorWork DEF BaseDrifted, Added, DriftRepair

\* FEED adds the roots of gaps that may become a task.
LEMMA FedIsFeedable ==
    ASSUME NEW q, NEW known, NEW authority,
           NEW x \in DOMAIN Fed(q, known, authority) \ DOMAIN q
    PROVE  /\ Gap(x) \in Gaps
           /\ x = RootId(Revision(x), Gap(x))
           /\ Revision(x) = authority.revision[Repository(x)]
           /\ Gap(x) \in Feedable(q, known, authority, Repository(x))
<1>1. PICK g \in Gaps :
        /\ g \in Feedable(q, known, authority, GapRepository[g])
        /\ x = RootId(authority.revision[GapRepository[g]], g)
  BY DEF Fed
<1>2. /\ Revision(x) = authority.revision[GapRepository[g]]
      /\ Gap(x) = g
  BY <1>1 DEF Revision, Gap, RootId
<1> QED
  BY <1>1, <1>2 DEF Repository
=============================================================================
