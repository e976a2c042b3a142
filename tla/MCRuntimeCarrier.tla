-------------------------- MODULE MCRuntimeCarrier --------------------------
(* Instances of the concurrent jobs.                                        *)
EXTENDS RuntimeCarrier

MCRepository1 == <<"etf">>
MCInternal1 == <<"INTERNAL">>
MCExternal1 == <<"EXTERNAL">>
MCHold1 == <<"HOLD_AFTER_PASS">>

MCQueuedTasks ==
    [t \in Tasks |-> [status |-> "QUEUED", phase |-> "BUILD",
                      blocker |-> "NONE", candidate |-> None,
                      review |-> None, external |-> None]]

CONSTANT r1, c1

\* An EXTERNAL task with the internal PASS and no external request yet.
MCPassedTasks ==
    <<[status |-> "ACTIVE", phase |-> "REVIEW", blocker |-> "NONE",
       candidate |-> [pr |-> 1, rev |-> r1],
       review |-> [rev |-> r1, verdict |-> "PASS"],
       external |-> None]>>
=============================================================================
