-------------------------- MODULE MCReplenishment --------------------------
(* Instances of the materialization of gaps.                                *)
EXTENDS Replenishment

\* Gap 2 depends on gap 1, gap 3 is in the other repository.
MCGapRepository == <<"etf", "etf", "weekly">>
MCDependsOn == <<{}, {1}, {}>>

\* Gap 1 is under way; gap 3 is finished.
MCUnderWay == {[gap |-> 1, revision |-> 1, status |-> "ACTIVE"],
               [gap |-> 3, revision |-> 1, status |-> "DONE"]}

\* Gap 1 is finished, and gap 2 may be queued.
MCFinished == {[gap |-> 1, revision |-> 1, status |-> "DONE"]}

\* Two gaps of one repository.
MCGapRepository1 == <<"etf", "etf">>
MCDependsOn1 == <<{}, {1}>>

MCActive1 == {[gap |-> 1, revision |-> 1, status |-> "ACTIVE"]}
=============================================================================
