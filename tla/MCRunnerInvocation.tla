------------------------- MODULE MCRunnerInvocation -------------------------
(* Three tasks for a Runner that is given work twice per invocation.  One    *)
(* ACTIVE task that is only ever closed as waiting leaves room for what is   *)
(* QUEUED, and so it does together with an external review that is reported  *)
(* unavailable; two that only wait use the invocation up.  All targets are   *)
(* of one revision: candidates moving are the matter of MCTaskLifecycle.     *)
EXTENDS RunnerInvocation

MCQueuedTasks ==
    [t \in Tasks |-> [status |-> "QUEUED", phase |-> "BUILD",
                      blocker |-> "NONE", candidate |-> None,
                      review |-> None, external |-> None]]

MCRepository == <<"etf", "weekly", "privacy">>
MCReviewPolicy == <<"EXTERNAL", "INTERNAL", "INTERNAL">>
MCIntegrationPolicy ==
    <<"HOLD_AFTER_PASS", "AUTO_AFTER_PASS", "HOLD_AFTER_PASS">>
=============================================================================
