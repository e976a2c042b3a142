-------------------------- MODULE MCTaskLifecycle ---------------------------
(* An EXTERNAL task ahead of an INTERNAL one of the same repository, so that *)
(* both can be bound to one pull request.                                    *)
EXTENDS TaskLifecycle, TLC

MCQueuedTasks ==
    [t \in Tasks |-> [status |-> "QUEUED", phase |-> "BUILD",
                      blocker |-> "NONE", candidate |-> None,
                      review |-> None, external |-> None]]

MCRepository == <<"etf", "etf">>
MCReviewPolicy == <<"EXTERNAL", "INTERNAL">>
MCIntegrationPolicy == <<"HOLD_AFTER_PASS", "AUTO_AFTER_PASS">>

MCSymmetry == Permutations(Revs) \cup Permutations(Refs)
=============================================================================
