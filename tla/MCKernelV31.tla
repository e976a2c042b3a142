---------------------------- MODULE MCKernelV31 ----------------------------
(* One repository with three gaps, two of them what the third depends on.  *)
(* The first was integrated under V1; done again in a later revision it is *)
(* held after its PASS.                                                    *)
EXTENDS KernelV31

CONSTANTS r1, s1, s2, j1, j2

OneRepository == {r1}
Gaps3In1 == [g \in 1 .. 3 |-> r1]
ThirdNeedsBoth == <<{}, {}, {1, 2}>>

\* The first gap was integrated under V1.
FirstDone ==
    "integrate" :> [completed |-> TRUE, names |-> None, repository |-> r1,
                    predecessor |-> "assure"]
    @@ "assure" :> [completed |-> FALSE, names |-> None, repository |-> r1,
                    predecessor |-> "implement"]
    @@ "implement" :> [completed |-> FALSE,
                       names |-> [revision |-> 1, gap |-> 1],
                       repository |-> r1, predecessor |-> None]

Symmetry == Permutations(Shas) \cup Permutations(Jobs)
=============================================================================
