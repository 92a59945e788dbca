----------------------------- MODULE ImageWatcher -----------------------------
(***************************************************************************)
(* Automatic image updates of one service (internal/autoupdate) and the    *)
(* garbage collection of the images that deploys leave behind              *)
(* (internal/imagegc), on the record they both read.                       *)
(*                                                                         *)
(* A sweep of the watcher reads the record and the allocs, asks the        *)
(* registry, and writes with the index it read.  A sweep of the collector  *)
(* reads what is in use, then lists the images and deletes.  The           *)
(* reconciler is the environment here: Rolls brings every alloc to the     *)
(* spec, pulling its image if it is not on the node; the containers of a   *)
(* digest outside Healthy never become healthy.                            *)
(***************************************************************************)
EXTENDS ServiceRecord

CONSTANTS
    Healthy,   \* digests whose containers become healthy
    Interval,  \* update.interval: time between two polls
    Deadline,  \* update.deadline: time a new pin has to converge
    MinAge,    \* images.gc: younger images are kept
    Keep,      \* images.gc: newest images kept of a repository in use
    MaxSweeps  \* bound: sweeps of the collector in a run

\* The defaults are six hours and ten minutes.  With a deadline as long as the
\* interval a reverted digest is pinned again at the next tick.
ASSUME WatcherAssumption ==
    /\ Healthy \subseteq Digests
    /\ Interval \in Nat \ {0} /\ Deadline \in Nat \ {0} /\ Deadline < Interval
    /\ MinAge \in Nat \ {0} /\ Keep \in Nat /\ MaxSweeps \in Nat

VARIABLES
    live,    \* the spec every alloc runs, and whether it is healthy on it, as its record says
    disk,    \* images on the node: when each was pulled, 0 for none
    gc,      \* the collector's sweep: [pc, refs]
    sweeps,
    held,    \* history: what the service, and what the allocs, named at all times since the sweep began
    doubt,   \* history: digests the watcher pinned that were never seen converged
    parked   \* history: the digest the watcher reverted last, and when it was polled

watcherVars == <<live, disk, gc, sweeps, held, doubt, parked>>

Refs == Tags \cup Digests

\* What decides a roll: SpecHash covers the tag, the pin and the generation.
SpecOf(d) == [image |-> d.image, pin |-> d.pin, gen |-> d.gen]

\* RunImage: the pin, or the bare tag.
RunImage(d) == IF d.pin # NoImage THEN d.pin ELSE d.image

\* A bare tag runs what it points at.
DigestOf(ref) == IF ref \in Tags THEN remote[ref] ELSE ref

NoAllocs == [spec |-> SpecOf(Gone), ok |-> FALSE]
NoSweep == [pc |-> "idle", refs |-> {}]
Nothing == [digest |-> NoImage, polled |-> 0]

WatcherInit ==
    /\ live = NoAllocs
    /\ disk = [r \in Refs |-> 0]
    /\ gc = NoSweep
    /\ sweeps = 0
    /\ held = [service |-> {}, allocs |-> {}]
    /\ doubt = {}
    /\ parked = Nothing

\* inUse, second half: what the alloc records name, which lag mid-roll.
AllocRefs == IF live = NoAllocs THEN {} ELSE {RunImage(live.spec)}

\* History: what the sweep under way must not delete.
ServiceNames == {svc.image, svc.pin, svc.roll} \ {NoImage}
Holds == held' = [service |-> held.service \cap ServiceNames', allocs |-> held.allocs \cap AllocRefs']

-----------------------------------------------------------------------------
\* The reconciler converges on the record, pulling the image first.
Rolls ==
    LET image == RunImage(svc)
        ok    == DigestOf(image) \in Healthy
    IN
    /\ svc.on /\ live.spec # SpecOf(svc)
    /\ live' = [spec |-> SpecOf(svc), ok |-> ok]
    /\ disk' = IF disk[image] # 0 THEN disk ELSE [disk EXCEPT ![image] = clock]
    /\ doubt' = IF ok THEN doubt \ {svc.pin} ELSE doubt
    /\ UNCHANGED <<svcVars, gc, sweeps, parked>>
    /\ Holds

\* converged: every alloc runs the pinned spec, and there is one.
Converged(d) == live = [spec |-> SpecOf(d), ok |-> TRUE] /\ d.count > 0

\* (a bug: the check clock is reset with the update)
RevertedUnparked(d) == [d EXCEPT !.pin = d.roll, !.roll = NoImage, !.upd = 0, !.chk = 0]

\* settle, out of time: back to what was running.  The check clock stays.
Reverted(d) == [d EXCEPT !.pin = d.roll, !.roll = NoImage, !.upd = 0]

\* settle: converged drops the rollback target; within the deadline nothing is
\* written.
Settled(d) ==
    IF Converged(d) THEN {[d EXCEPT !.roll = NoImage, !.upd = 0]}
    ELSE IF clock - d.upd < Deadline THEN {}
    ELSE {Reverted(d)}

\* pollIfDue: a registry that does not answer still counts as a check.
Polled(d) ==
    LET checked == [d EXCEPT !.chk = clock]
        digest  == remote[d.image]
    IN  IF d.chk # 0 /\ clock - d.chk < Interval THEN {}
        ELSE {checked, IF digest = d.pin THEN checked
                       ELSE [checked EXCEPT !.roll = d.pin, !.pin = digest, !.upd = clock]}

\* (a bug: a service is polled while its update is in flight)
SweptAlways(d) == IF d.upd = 0 THEN Polled(d) ELSE Settled(d) \cup Polled(d)

\* sweepOne: an update in flight is settled, never polled.
Swept(d) == IF d.upd = 0 THEN Polled(d) ELSE Settled(d)

\* Once and sweepOne, up to the write.
Sweep ==
    /\ svc.on /\ svc.auto /\ ~request["watcher"].busy
    /\ \E d \in Swept(svc) : Sends("watcher", d)
    /\ UNCHANGED <<svc, remote, clock, edits, moves, writer>>
    /\ UNCHANGED watcherVars

\* The allocs are healthy on a digest.
HealthyOn(digest) == live.ok /\ live.spec.pin = digest

\* The watcher's write, and what it means: a new pin is in doubt until it is
\* seen converged; a revert parks the digest.
SweepWrite ==
    /\ \/ /\ Landed("watcher")
          /\ doubt' = IF svc'.upd # 0 /\ svc.upd = 0 /\ ~HealthyOn(svc'.pin)
                      THEN doubt \cup {svc'.pin} ELSE doubt
          /\ parked' = IF svc.upd # 0 /\ svc'.upd = 0 /\ svc'.pin # svc.pin
                       THEN [digest |-> svc.pin, polled |-> svc.chk] ELSE parked
       \/ /\ Refused("watcher")
          /\ UNCHANGED <<doubt, parked>>
    /\ UNCHANGED <<remote, clock, edits, moves, live, disk, gc, sweeps>>
    /\ Holds

\* (a bug: the rollback target is not counted as in use)
ServiceRefsNoRollback == {svc.image, svc.pin} \ {NoImage}

\* inUse, first half: what the service record names.
ServiceRefs == {svc.image, svc.pin, svc.roll} \ {NoImage}

\* The collector reads the services, ...
GcServices ==
    /\ sweeps < MaxSweeps /\ sweeps' = sweeps + 1
    /\ gc = NoSweep
    /\ gc' = [pc |-> "services", refs |-> ServiceRefs]
    /\ held' = [service |-> ServiceNames, allocs |-> AllocRefs]
    /\ UNCHANGED <<svcVars, live, disk, doubt, parked>>

\* ... then the allocs.
GcAllocs ==
    /\ gc.pc = "services"
    /\ gc' = [pc |-> "marked", refs |-> gc.refs \cup AllocRefs]
    /\ UNCHANGED <<svcVars, live, disk, sweeps, held, doubt, parked>>

OnDisk == {r \in Refs : disk[r] # 0}

\* keepNewest: the newest images of a repository in use, ties in any order.
KeptNewest(kept) ==
    IF gc.refs = {} THEN kept = {}
    ELSE /\ kept \subseteq OnDisk
         /\ Cardinality(kept) = IF Keep < Cardinality(OnDisk) THEN Keep ELSE Cardinality(OnDisk)
         /\ \A r \in kept, o \in OnDisk \ kept : disk[r] >= disk[o]

\* sweepProject: delete what is neither in use, young nor kept; a delete may fail.
GcSweep ==
    /\ gc.pc = "marked"
    /\ \E kept \in SUBSET OnDisk :
          /\ KeptNewest(kept)
          /\ \E gone \in SUBSET {r \in OnDisk \ (gc.refs \cup kept) : clock - disk[r] >= MinAge} :
                disk' = [r \in Refs |-> IF r \in gone THEN 0 ELSE disk[r]]
    /\ gc' = NoSweep
    /\ UNCHANGED <<svcVars, live, sweeps, held, doubt, parked>>

WatcherNext ==
    \/ Rolls
    \/ Sweep
    \/ SweepWrite

GcNext ==
    \/ GcServices
    \/ GcAllocs
    \/ GcSweep

\* What an operator or a pipeline wrote is theirs: the pin that is not in
\* flight, and the rollback target.
Theirs(d) == {d.roll} \cup IF d.upd = 0 THEN {d.pin} ELSE {}

\* What a write of somebody else means; an apply re-arms the clock a revert
\* parked.  The autoscaler's touches no image.
WatcherWatches ==
    LET edited == svc' # svc /\ writer' # "scaler"
    IN
    /\ doubt' = IF edited THEN doubt \ Theirs(svc') ELSE doubt
    /\ parked' = IF edited THEN Nothing ELSE parked
    /\ UNCHANGED <<live, disk, gc, sweeps>>
    /\ Holds

WatcherRestarts ==
    /\ Dies
    /\ gc' = NoSweep
    /\ UNCHANGED <<live, disk, sweeps, held, doubt, parked>>

-----------------------------------------------------------------------------
\* A rollback target the watcher works with is never a digest it pinned itself
\* and never saw converge: "stacking a second pin on top of an unconverged deploy
\* is how a bad image gets a rollback target that is also bad" (sweepOne).  What
\* an operator or a pipeline wrote last is theirs.
NoBadRollback == svc.roll # NoImage => svc.roll \notin doubt

\* A digest the watcher reverted is in flight again only one poll interval
\* after the poll that found it, unless somebody edited the service since the
\* revert, or took the check clock away while the update was in flight (settle).
RevertParks ==
    (svc.upd # 0 /\ svc.pin = parked.digest /\ parked.polled # 0)
        => svc.chk - parked.polled >= Interval

\* A sweep of the collector deletes no image that the service named at all
\* times since the sweep began, as its image, its pin or its rollback target,
\* and none that an alloc ran all the while: "the image an old replica still
\* runs must survive until the roll replaces it" (inUse).
UsedSurvives ==
    [][gc.pc = "marked" => \A r \in held.service \cup held.allocs :
                               disk[r] # 0 => disk'[r] # 0]_<<svcVars, watcherVars>>
=============================================================================
