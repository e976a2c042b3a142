-------------------------- MODULE RunnerInvocation --------------------------
(***************************************************************************)
(* Invocations of the Scheduled Runner on the queue of TaskLifecycle.  An  *)
(* invocation sends TICKs, closes each WORK it is given with one EVENT and *)
(* goes on, until it is answered NO_WORK or BUSY or has been given work    *)
(* MaxAcquisitions times.  A TICK carries the tokens of what this          *)
(* invocation has closed as wait-bound, and selection skips them.          *)
(*                                                                         *)
(* What an invocation does is the contract validate_private_control_v4     *)
(* demands of the Runner's prompt, what the carrier does with its commands *)
(* is TaskLifecycle.  Every target is taken to be readable to everybody:   *)
(* of the others this Runner is never offered a task.                      *)
(***************************************************************************)
EXTENDS TaskLifecycle

CONSTANTS
    Runner,            \* stands for the run identities of all invocations:
                       \* none uses the lock an earlier one has left
    MaxAcquisitions    \* WORK an invocation may be given; 8 in the contract

ASSUME RunnerAssumption ==
    /\ Runner \in Runs \ InteractiveRuns
    /\ MaxAcquisitions \in Nat \ {0}

VARIABLE invocation

runnerVars == <<queue, rework, invocation>>

\* Nothing of an invocation is kept for the next: no token and no count.
\* broken tells apart, for the properties only, how the last one ended.
Between == [work |-> None, yielded |-> {}, acquired |-> 0, broken |-> FALSE]

RunnerInit == Init /\ invocation = Between

-----------------------------------------------------------------------------
(* A TICK of the Runner, the first of an invocation or a further one. *)

\* Mutant: the tokens of the TICK are not looked at.
OfferedMutant == Tasks

\* Tokens are of the run and the task, so a skipped task is skipped in
\* whatever phase it is.
Offered == Tasks \ invocation.yielded

\* WORK, or NO_WORK, which ends the invocation.
SendTick ==
    /\ invocation.work = None
    /\ \E drifted \in SUBSET ParkedNoProgress(queue) :
         TickFor(Runner, Tasks, Offered, drifted)
    /\ invocation' =
         IF queue'.lock = None THEN Between
         ELSE [invocation EXCEPT !.work = queue'.lock.task,
                                 !.acquired = @ + 1, !.broken = FALSE]

FoundBusy ==
    /\ invocation.work = None
    /\ Busy(queue)
    /\ invocation' = Between
    /\ UNCHANGED vars

-----------------------------------------------------------------------------
(* The EVENT that closes the WORK, and what becomes of the invocation. *)

GoesOn(yielded) ==
    invocation' = IF invocation.acquired = MaxAcquisitions THEN Between
                  ELSE [invocation EXCEPT !.work = None, !.yielded = yielded]

\* Wait-bound: YIELD as often as the Runner likes, REVIEW_UNAVAILABLE if a
\* provider, quota or transport is, EXTERNAL_REQUESTED.  To the Runner an event
\* that found its candidate moved is closed like any other of its kind.
CloseWaiting ==
    \E t \in Tasks :
      /\ invocation.work = t
      /\ \/ Yield(Runner, t)
         \/ ReportUnavailable(Runner, t)
         \/ \E ref \in Refs : ReportRequested(Runner, t, ref)
         \/ CandidateDrift(Runner, t)
      /\ GoesOn(invocation.yielded \cup {t})

\* Progress, after which the task may be acquired again at once.
CloseProgress ==
    \E t \in Tasks :
      /\ invocation.work = t
      /\ \/ \E c \in Candidate : NewCandidate(Runner, t, c)
         \/ UnchangedCandidate(Runner, t)
         \/ ReportPass(Runner, t)
         \/ ReportRepair(Runner, t)
         \/ ReportFinding(Runner, t)
         \/ ReportExternalPass(Runner, t)
         \/ CandidateDrift(Runner, t)
      /\ GoesOn(invocation.yielded)

\* The EVENT comes too late: REJECTED or ERROR ends the invocation.
Rejected ==
    /\ invocation.work # None
    /\ ~HolderOf(queue, Runner, invocation.work)
    /\ invocation' = Between
    /\ UNCHANGED vars

\* An invocation stops anywhere: a command or an answer is lost, it fails
\* closed, it is cut off.
BreaksOff ==
    /\ invocation # Between
    /\ ~invocation.broken
    /\ invocation' = [Between EXCEPT !.broken = TRUE]
    /\ UNCHANGED vars

-----------------------------------------------------------------------------
(* Everybody else. *)
Expiry == LeaseExpires /\ UNCHANGED invocation

\* The owner and the review completion.
Owner == UNCHANGED invocation /\ \E t \in Tasks : Administration(t)

RunnerStep ==
    \/ SendTick
    \/ FoundBusy
    \/ CloseWaiting
    \/ CloseProgress
    \/ Rejected

RunnerNext == RunnerStep \/ BreaksOff \/ Expiry \/ Owner

\* The lease runs out by itself.  Invocations go on being started, and one
\* that does not break off closes its WORK, with YIELD if there is nothing
\* else to say, and sends the next TICK.  Nothing obliges the Runner to
\* finish, to pass or to report anything but YIELD.
RunnerFairness ==
    /\ WF_runnerVars(Expiry)
    /\ WF_runnerVars(RunnerStep)

RunnerSpec ==
    RunnerInit /\ [][RunnerNext]_runnerVars /\ RunnerFairness

-----------------------------------------------------------------------------
(* Liveness. *)

\* recover_expired_lock_v4: the lock of a holder that died does not keep the
\* queue.  A later TICK drops it or replaces it by a live one.
ExpiredLockRecovered == Expired(queue) ~> ~Expired(queue)

\* An external review the Runner has reported unavailable.
Unavailable(t) ==
    /\ InPhase(queue, t, {"REVIEW"})
    /\ queue.tasks[t].external # None
    /\ queue.tasks[t].external.status = "INDETERMINATE"

\* Other ACTIVE work uses up all an invocation may acquire.
Crowded ==
    Cardinality({t \in Tasks : /\ queue.tasks[t].status = "ACTIVE"
                               /\ ~Unavailable(t)}) >= MaxAcquisitions

\* select_task_id_v4 prefers ACTIVE work to QUEUED work, and work that waits
\* for somebody stays ACTIVE.  What is QUEUED is started all the same, by the
\* skip of yielded tokens, although the Runner may close whatever it is given
\* with YIELD for ever; unless MaxAcquisitions tasks compete that are not
\* reported unavailable, or something else than waiting goes on for ever
\* (progress, commands of others), or invocations break off or outlive their
\* lease for ever.
WaitingStarvesNobody ==
    \/ []<>(\A t \in Tasks : queue.tasks[t].status # "QUEUED")
    \/ []<>Crowded
    \/ []<><<CloseProgress \/ Owner \/ BreaksOff \/ Expiry>>_runnerVars
=============================================================================
