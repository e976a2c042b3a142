----------------------------- MODULE LeaseLock ------------------------------
(***************************************************************************)
(* What the single execution lock of the control plane promises, however   *)
(* many carrier jobs run at once: it is granted only when it is free or    *)
(* run out, it then changes hands in no other way, its lease is never      *)
(* prolonged, and a run of OneShot is granted it once in its life.         *)
(***************************************************************************)
EXTENDS Naturals

CONSTANTS Tasks, Runs, OneShot, None

VARIABLES
    holder,    \* None, or the task and run holding the lock and "live"
    grants     \* history: how often each run was granted the lock

lockVars == <<holder, grants>>

Init ==
    /\ holder = None
    /\ grants = [r \in Runs |-> 0]

\* A new lease of 5400 seconds.
Grant(r, t) ==
    /\ holder = None \/ ~holder.live
    /\ r \in OneShot => grants[r] = 0
    /\ holder' = [task |-> t, run |-> r, live |-> TRUE]
    /\ grants' = [grants EXCEPT ![r] = @ + 1]

RunOut ==
    /\ holder # None
    /\ holder.live
    /\ holder' = [holder EXCEPT !.live = FALSE]
    /\ UNCHANGED grants

GiveUp ==
    /\ holder # None
    /\ holder' = None
    /\ UNCHANGED grants

Next ==
    \/ \E r \in Runs, t \in Tasks : Grant(r, t)
    \/ RunOut
    \/ GiveUp

Spec == Init /\ [][Next]_lockVars
=============================================================================
