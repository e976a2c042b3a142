----------------------------- MODULE MCCutover -----------------------------
(* One repository: a chain of two gaps and one that only V4 has.  The first *)
(* gap was integrated under V1, so there is a fact to carry forward.        *)
EXTENDS Cutover

CONSTANTS r1, s1

OneRepository == {r1}
Gaps3In1 == [g \in 1 .. 3 |-> r1]
Chain == <<{}, {1}, {2}>>

FirstDone ==
    "integrate" :> [completed |-> TRUE, names |-> None, repository |-> r1,
                    predecessor |-> "implement"]
    @@ "implement" :> [completed |-> FALSE,
                       names |-> [revision |-> 1, gap |-> 1],
                       repository |-> r1, predecessor |-> None]
=============================================================================
