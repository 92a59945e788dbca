---------------------------- MODULE ServiceWriters ----------------------------
(***************************************************************************)
(* The service record with all its writers at once: operators and          *)
(* pipelines, the autoscaler and the image watcher, beside the image       *)
(* collector and restarts of the daemon.  A step of one is seen by the     *)
(* others as ScalerWatches and WatcherWatches say.                         *)
(***************************************************************************)
EXTENDS Autoscaler, ImageWatcher

serviceVars == <<svcVars, scalerVars, watcherVars>>

ServiceInit == SvcInit /\ ScalerInit /\ WatcherInit

ServiceNext ==
    \/ ApiNext(Tags, BOOLEAN, Counts) /\ ScalerWatches /\ WatcherWatches
    \/ TagMoves /\ UNCHANGED <<scalerVars, watcherVars>>
    \/ ScalerNext /\ WatcherWatches
    \/ WatcherNext /\ ScalerWatches
    \/ GcNext /\ UNCHANGED scalerVars
    \/ ScalerRestarts /\ WatcherRestarts

ServiceSpec == ServiceInit /\ [][ServiceNext]_serviceVars
=============================================================================
