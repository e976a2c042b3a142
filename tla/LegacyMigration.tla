-------------------------- MODULE LegacyMigration --------------------------
(***************************************************************************)
(* control_engine/migration_v31.py: what the first TICK of V3.1 keeps of a *)
(* V1 queue.  A completed integration becomes a fact about a gap only if   *)
(* explicit metadata, of the task or of the nearest predecessor that has   *)
(* any, names a gap that main holds open now.  Everything else is dropped. *)
(***************************************************************************)
EXTENDS KernelQueue

\* The tasks of the V1 queue, by identity.  completed: a PROJECT_INTEGRATION
\* that ended COMPLETED with a result.  names: the gap its metadata names.
CONSTANT Legacy

LegacyTask == [completed : BOOLEAN,
               names : Root \cup {None},
               repository : Repositories,
               predecessor : DOMAIN Legacy \cup {None, "missing"}]

ASSUME LegacyAssumption ==
    /\ IsFiniteSet(DOMAIN Legacy)
    /\ Legacy \in [DOMAIN Legacy -> LegacyTask]
    /\ \A known \in SUBSET {Legacy[t].names : t \in DOMAIN Legacy} : known # None

\* The task whose metadata counts for task t: follow the predecessors until
\* one names a gap.  A cycle, or a link to nothing, ends without one.
NamingTask(t) ==
    LET trail[n \in 0 .. Cardinality(DOMAIN Legacy)] ==
          IF n = 0 THEN t
          ELSE LET x == trail[n - 1] IN
               IF x \notin DOMAIN Legacy THEN None
               ELSE IF Legacy[x].names # None THEN x
               ELSE Legacy[x].predecessor
        last == trail[Cardinality(DOMAIN Legacy)]
    IN  IF last \in DOMAIN Legacy
        THEN IF Legacy[last].names # None THEN last ELSE None
        ELSE None

\* The gaps main holds open.
Governed(main, root) ==
    /\ root.gap \in main.open
    /\ main.revision[GapRepository[root.gap]] = root.revision

Facts(main) ==
    {root \in {Legacy[t].names : t \in DOMAIN Legacy} \ {None} :
       /\ Governed(main, root)
       /\ \E t \in DOMAIN Legacy :
            /\ Legacy[t].completed
            /\ NamingTask(t) # None
            /\ Legacy[NamingTask(t)].names = root
            /\ Legacy[t].repository = Legacy[NamingTask(t)].repository
            /\ Legacy[t].repository = GapRepository[root.gap]}
=============================================================================
