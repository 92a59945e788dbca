------------------------------ MODULE MCService ------------------------------
(***************************************************************************)
(* The service record with its writers, and the circuit breaker.  The      *)
(* autoscaler and the image watcher each run against operators, pipelines  *)
(* and restarts, and the image collector against the watcher; focus says   *)
(* which of them, or the breaker, a behaviour is about, so that their      *)
(* state spaces add up rather than multiply: the writers meet only in the  *)
(* record, as compare-and-set writers of disjoint fields and as its        *)
(* readers, and all they know of the breaker is whether it allows.         *)
(***************************************************************************)
EXTENDS ServiceWriters, Breaker

VARIABLE focus

\* The autoscaler does not look at images: one tag and no automatic updates.
ScaledTag == CHOOSE t \in Tags : TRUE

vars == <<svcVars, scalerVars, watcherVars, breakerVars, focus>>

Init ==
    /\ SvcInit /\ ScalerInit /\ WatcherInit /\ BreakerInit
    /\ focus \in {"scaler", "watcher", "collector", "breaker"}

\* Bounds on edits and on pushes of a tag, for each part.
EditsOf == [scaler |-> MaxEdits, watcher |-> 1, collector |-> 0]
MovesOf == [scaler |-> 0, watcher |-> MaxMoves, collector |-> MaxMoves]

Records ==
    /\ UNCHANGED <<breakerVars, focus>>
    /\ \/ /\ focus = "scaler"
          /\ UNCHANGED watcherVars
          /\ \/ ApiNext({ScaledTag}, {FALSE}, Counts) /\ ScalerWatches
             \/ ScalerNext
             \/ ScalerRestarts
       \/ /\ focus = "watcher"
          /\ UNCHANGED scalerVars
          /\ \/ ApiNext(Tags, BOOLEAN, {MinCount}) /\ WatcherWatches
             \/ TagMoves /\ UNCHANGED watcherVars
             \/ WatcherNext
             \/ WatcherRestarts
       \/ /\ focus = "collector"
          /\ UNCHANGED scalerVars
          /\ \/ ClockTicks /\ UNCHANGED watcherVars
             \/ TagMoves /\ UNCHANGED watcherVars
             \/ WatcherNext
             \/ GcNext
    /\ edits' <= EditsOf[focus] /\ moves' <= MovesOf[focus]

Next ==
    \/ focus # "breaker" /\ Records
    \/ /\ focus = "breaker" /\ BreakerNext
       /\ UNCHANGED <<svcVars, scalerVars, watcherVars, focus>>

Spec == Init /\ [][Next]_vars
=============================================================================
