----------------------------- MODULE Replication -----------------------------
(***************************************************************************)
(* State replication to a backup sink: the loop that ships the change log  *)
(* as segments and takes snapshots (internal/backup/replicate.go), the     *)
(* archives and segments it leaves in the sink (archive.go, segment.go),   *)
(* and what a restore makes of them (restore.go, stage.go and              *)
(* cmd/kanea/restore_boot.go).                                             *)
(*                                                                         *)
(* Two goroutines run Replicator methods: "run", the loop, which ships and *)
(* takes snapshots, and "api", an operator's on-demand snapshot.  Every    *)
(* call to the sink or to the Store, and every load or store of the shared *)
(* cursor, is a step of its own, so they interleave.                       *)
(*                                                                         *)
(* A value written to a key is the number of the Apply that wrote it, so   *)
(* two writes are never mistaken for each other.                           *)
(***************************************************************************)
EXTENDS ChangeLog

CONSTANTS
    Threads,       \* which of "run" and "api" are there
    Retention,     \* archives kept
    MaxChanges,    \* Replicator.maxChanges, what ShipOnce asks Changes for
    MaxListLimit,  \* what Changes clamps it to
    MaxBatch,      \* mutations in one Apply
    MissingDeletes,\* may a batch delete what is not there?
    LateLanding,   \* may a Put report an error and yet have landed?
    MaxWrites,     \* bound: calls of Apply
    MaxArchives,   \* bound: archives begun
    MaxFaults,     \* bound: sink errors, Store errors and crashes
    AutoRestore,   \* the --auto-restore setting
    Staging,       \* does an operator stage restores?
    MaxRestores    \* bound: restores staged and disks lost

ASSUME ReplicationAssumption ==
    /\ "run" \in Threads /\ Threads \subseteq {"run", "api"}
    /\ Retention \in Nat \ {0}
    /\ MaxChanges \in Nat \ {0}
    /\ MaxListLimit \in Nat \ {0}
    /\ MaxBatch \in Nat \ {0}
    /\ MissingDeletes \in BOOLEAN
    /\ LateLanding \in BOOLEAN
    /\ MaxWrites \in Nat
    /\ MaxArchives \in Nat
    /\ MaxFaults \in Nat
    /\ AutoRestore \in BOOLEAN
    /\ Staging \in BOOLEAN
    /\ MaxRestores \in Nat

VARIABLES
    st,        \* the node's state file
    exists,    \* is there a state file?
    up,        \* is the daemon running?
    shipped,   \* Replicator.shipped, shared by the threads
    job,       \* per thread, where it is and its local variables
    segments,  \* the sink, segments/: [from, to, changes]
    snaps,     \* the sink, snapshots/: [id, st]
    manifests, \* the sink, manifests/: [id, index]
    request,   \* the staged restore request on disk: at most one [id, skip]
    nextId,    \* the clock archive ids are taken from
    writes,    \* Apply calls so far
    faults,    \* faults so far
    restores,  \* restores staged and disks lost so far
    partial    \* history: the state file is what a failed restore left

sink == <<segments, snaps, manifests>>
node == <<st, exists, partial, writes>>
vars == <<st, exists, up, shipped, job, segments, snaps, manifests, request,
          nextId, writes, faults, restores, partial>>

Idle == [pc |-> "idle", batch |-> {}, id |-> 0, index |-> 0, copy |-> {}, victims |-> {}]

MaxOf(a, b) == IF a >= b THEN a ELSE b

\* The limit Changes really applies.
ReadLimit == IF MaxChanges > MaxListLimit THEN MaxListLimit ELSE MaxChanges

At(t, pc) == up /\ job[t].pc = pc
Go(t, pc) == job' = [job EXCEPT ![t].pc = pc]
Return(t) == job' = [job EXCEPT ![t] = Idle]
Fault == faults < MaxFaults /\ faults' = faults + 1

\* List: the archives whose manifest is in the sink, by creation time.
IsNewest(m) == m \in manifests /\ \A n \in manifests : n.id <= m.id
IsOldest(m) == m \in manifests /\ \A n \in manifests : n.id >= m.id

Init ==
    /\ st = EmptyStore
    /\ exists = TRUE
    /\ up = FALSE
    /\ shipped = 0
    /\ job = [t \in Threads |-> Idle]
    /\ segments = {}
    /\ snaps = {}
    /\ manifests = {}
    /\ request = {}
    /\ nextId = 1
    /\ writes = 0
    /\ faults = 0
    /\ restores = 0
    /\ partial = FALSE

-----------------------------------------------------------------------------
\* The rest of the daemon writes: a batch of puts and deletes.
Write(puts, dels) ==
    LET v == writes + 1
        batch == [k \in puts \cup dels |-> IF k \in puts THEN v ELSE Absent]
    IN
    /\ up
    /\ writes < MaxWrites
    /\ puts \cap dels = {}
    /\ Cardinality(puts \cup dels) \in 1..MaxBatch
    /\ MissingDeletes \/ Effective(st, batch) = DOMAIN batch
    /\ writes' = v
    /\ st' = Apply(st, batch)
    /\ UNCHANGED <<exists, partial, up, shipped, job, sink, request, nextId, faults, restores>>

-----------------------------------------------------------------------------
\* ShipOnce, one turn of its loop: read what is above the cursor.
ShipRead ==
    LET batch == Changes(st, shipped, ReadLimit)
    IN
    /\ At("run", "idle") \/ At("run", "again")
    /\ \/ batch = {} /\ At("run", "again") /\ Return("run")
       \/ /\ batch # {}
          /\ job' = [job EXCEPT !["run"] = [Idle EXCEPT !.pc = "put", !.batch = batch]]
    /\ UNCHANGED <<node, up, shipped, sink, request, nextId, faults, restores>>

\* PutSegment: the object is named by its bounds, so the same bounds overwrite.
SegmentOf(batch, first, last) == [from |-> first.index, to |-> last.index, changes |-> batch]

PutSegment(batch, first, last) ==
    segments' = {s \in segments : s.from # first.index \/ s.to # last.index}
                    \cup {SegmentOf(batch, first, last)}

IsFirst(c, batch) == \A d \in batch : c.index <= d.index
IsLast(c, batch) == \A d \in batch : d.index <= c.index

ShipPut ==
    /\ At("run", "put")
    /\ \E first, last \in job["run"].batch :
          /\ IsFirst(first, job["run"].batch)
          /\ IsLast(last, job["run"].batch)
          /\ \/ /\ PutSegment(job["run"].batch, first, last)
                /\ job' = [job EXCEPT !["run"] = [job["run"] EXCEPT !.pc = "cursor", !.index = last.index]]
                /\ UNCHANGED faults
             \/ /\ Fault
                /\ \/ UNCHANGED segments
                   \/ LateLanding /\ PutSegment(job["run"].batch, first, last)
                /\ Return("run")
    /\ UNCHANGED <<node, up, shipped, snaps, manifests, request, nextId, restores>>

\* r.shipped.Store(segment.To): unconditional.
ShipCursor ==
    /\ At("run", "cursor")
    /\ shipped' = job["run"].index
    /\ Go("run", "prune")
    /\ UNCHANGED <<node, up, sink, request, nextId, faults, restores>>

\* (a bug: the whole log is dropped once a segment is up)
ShipPruneAll ==
    /\ At("run", "prune")
    /\ st' = [st EXCEPT !.log = {}]
    /\ Return("run")
    /\ UNCHANGED <<exists, partial, writes, up, shipped, sink, request, nextId, faults, restores>>

\* PruneChanges(segment.To), whose failure is only logged; then the loop goes
\* round again if the read returned as many as were asked for.
ShipPrune ==
    /\ At("run", "prune")
    /\ \/ st' = PruneChanges(st, job["run"].index) /\ UNCHANGED faults
       \/ Fault /\ UNCHANGED st
    /\ IF Cardinality(job["run"].batch) < MaxChanges THEN Return("run") ELSE Go("run", "again")
    /\ UNCHANGED <<exists, partial, writes, up, shipped, sink, request, nextId, restores>>

-----------------------------------------------------------------------------
\* Snapshot: Archiver.Create takes the archive's id from the clock ...
SnapBegin(t) ==
    /\ At(t, "idle") \/ (t = "run" /\ At(t, "startup"))
    /\ nextId <= MaxArchives
    /\ nextId' = nextId + 1
    /\ job' = [job EXCEPT ![t] = [Idle EXCEPT !.pc = "index", !.id = nextId]]
    /\ UNCHANGED <<node, up, shipped, sink, request, faults, restores>>

\* (a bug: Run returns when its first snapshot fails)
StartupFailsReturns ==
    /\ At("run", "startup")
    /\ \/ Fault
       \/ nextId > MaxArchives /\ UNCHANGED faults
    /\ job' = [job EXCEPT !["run"].pc = "returned"]
    /\ UNCHANGED <<node, up, shipped, sink, request, nextId, restores>>

\* The startup snapshot may fail; Run goes on to its tickers.
StartupFails ==
    /\ At("run", "startup")
    /\ \/ Fault
       \/ nextId > MaxArchives /\ UNCHANGED faults
    /\ Return("run")
    /\ UNCHANGED <<node, up, shipped, sink, request, nextId, restores>>

\* ... reads the Store's index ...
SnapIndex(t) ==
    /\ At(t, "index")
    /\ job' = [job EXCEPT ![t] = [job[t] EXCEPT !.pc = "copy", !.index = st.index]]
    /\ UNCHANGED <<node, up, shipped, sink, request, nextId, faults, restores>>

\* ... copies the file, change log included, in a read transaction ...
SnapCopy(t) ==
    /\ At(t, "copy")
    /\ job' = [job EXCEPT ![t] = [job[t] EXCEPT !.pc = "upload", !.copy = {st}]]
    /\ UNCHANGED <<node, up, shipped, sink, request, nextId, faults, restores>>

\* ... uploads the copy, and then the manifest, which makes the archive real.
SnapUpload(t) ==
    /\ At(t, "upload")
    /\ \/ /\ snaps' = snaps \cup {[id |-> job[t].id, st |-> s] : s \in job[t].copy}
          /\ Go(t, "manifest")
          /\ UNCHANGED faults
       \/ Fault /\ Return(t) /\ UNCHANGED snaps
    /\ UNCHANGED <<node, up, shipped, segments, manifests, request, nextId, restores>>

\* (a bug: the manifest is stamped with the index at the time it is written)
SnapManifestLate(t) ==
    /\ At(t, "manifest")
    /\ manifests' = manifests \cup {[id |-> job[t].id, index |-> st.index]}
    /\ job' = [job EXCEPT ![t] = [job[t] EXCEPT !.pc = "load", !.index = st.index, !.copy = {}]]
    /\ UNCHANGED <<node, up, shipped, segments, snaps, request, nextId, faults, restores>>

SnapManifest(t) ==
    /\ At(t, "manifest")
    /\ \/ /\ manifests' = manifests \cup {[id |-> job[t].id, index |-> job[t].index]}
          /\ job' = [job EXCEPT ![t] = [job[t] EXCEPT !.pc = "load", !.copy = {}]]
          /\ UNCHANGED faults
       \/ /\ Fault
          /\ \/ UNCHANGED manifests
             \/ LateLanding /\ manifests' = manifests \cup {[id |-> job[t].id, index |-> job[t].index]}
          /\ Return(t)
    /\ UNCHANGED <<node, up, shipped, segments, snaps, request, nextId, restores>>

\* r.shipped.Store(max(r.shipped.Load(), manifest.Index)): a load and a store.
SnapLoad(t) ==
    /\ At(t, "load")
    /\ job' = [job EXCEPT ![t] = [job[t] EXCEPT !.pc = "bump", !.index = MaxOf(shipped, job[t].index)]]
    /\ UNCHANGED <<node, up, shipped, sink, request, nextId, faults, restores>>

\* ... and Prune lists what retention no longer keeps.
Beyond(ms) == {m.id : m \in {n \in ms : Cardinality({o \in ms : o.id > n.id}) >= Retention}}

\* (a bug: the cursor goes to the Store's index instead of the manifest's)
SnapBumpCurrent(t) ==
    /\ At(t, "bump")
    /\ shipped' = st.index
    /\ job' = [job EXCEPT ![t] = [job[t] EXCEPT !.pc = "delSnap", !.victims = Beyond(manifests)]]
    /\ UNCHANGED <<node, up, sink, request, nextId, faults, restores>>

SnapBump(t) ==
    /\ At(t, "bump")
    /\ shipped' = job[t].index
    /\ job' = [job EXCEPT ![t] = [job[t] EXCEPT !.pc = "delSnap", !.victims = Beyond(manifests)]]
    /\ UNCHANGED <<node, up, sink, request, nextId, faults, restores>>

IsMax(i, is) == i \in is /\ \A j \in is : j <= i

\* Newest first: the snapshot object goes, then the manifest.  The first delete
\* that fails ends the pruning, which is only logged.
SnapDelSnap(t) ==
    /\ At(t, "delSnap")
    /\ \E v \in job[t].victims :
          /\ IsMax(v, job[t].victims)
          /\ \/ /\ snaps' = {s \in snaps : s.id # v}
                /\ Go(t, "delManifest")
                /\ UNCHANGED faults
             \/ Fault /\ job' = [job EXCEPT ![t].victims = {}] /\ UNCHANGED snaps
    /\ UNCHANGED <<node, up, shipped, segments, manifests, request, nextId, restores>>

SnapDelManifest(t) ==
    /\ At(t, "delManifest")
    /\ \E v \in job[t].victims :
          /\ IsMax(v, job[t].victims)
          /\ \/ /\ manifests' = {m \in manifests : m.id # v}
                /\ job' = [job EXCEPT ![t] = [job[t] EXCEPT !.pc = "delSnap", !.victims = job[t].victims \ {v}]]
                /\ UNCHANGED faults
             \/ /\ Fault
                /\ job' = [job EXCEPT ![t] = [job[t] EXCEPT !.pc = "delSnap", !.victims = {}]]
                /\ UNCHANGED manifests
    /\ UNCHANGED <<node, up, shipped, segments, snaps, request, nextId, restores>>

\* oldestIndex: the index of the last archive listed, 0 without one.
SnapOldest(t) ==
    /\ At(t, "delSnap")
    /\ job[t].victims = {}
    /\ \/ /\ \E i \in {0} \cup {m.index : m \in manifests} :
                /\ IF manifests = {} THEN i = 0 ELSE \E m \in manifests : IsOldest(m) /\ i = m.index
                /\ job' = [job EXCEPT ![t] = [job[t] EXCEPT !.pc = "pruneSegs", !.index = i]]
          /\ UNCHANGED faults
       \/ Fault /\ Return(t)
    /\ UNCHANGED <<node, up, shipped, sink, request, nextId, restores>>

\* PruneSegments: oldest first, up to the first delete that fails.
Covered(segs, upto) == {s \in segs : s.to <= upto}

SnapPruneSegs(t) ==
    /\ At(t, "pruneSegs")
    /\ \/ segments' = segments \ Covered(segments, job[t].index) /\ UNCHANGED faults
       \/ /\ Fault
          /\ \E stop \in Covered(segments, job[t].index) :
                segments' = segments \ {s \in Covered(segments, job[t].index) : s.from < stop.from}
    /\ Return(t)
    /\ UNCHANGED <<node, up, shipped, snaps, manifests, request, nextId, restores>>

-----------------------------------------------------------------------------
\* Restore: the segments that reach above the snapshot's index, and those of
\* them up to which the chain holds, from the first on.
Above(from) == {s \in segments : s.to > from}

SegBefore(s, t) == s.from < t.from \/ (s.from = t.from /\ s.to < t.to)

\* (a bug: every segment is taken, whatever is missing before it)
LinksUnchecked(s, from) == TRUE

Links(s, from) ==
    LET earlier == {u \in Above(from) : SegBefore(u, s)}
    IN  IF earlier = {}
        THEN s.from <= from + 1
        ELSE \E u \in earlier : (\A w \in earlier : w = u \/ SegBefore(w, u)) /\ s.from = u.to + 1

Linked(from) == {s \in Above(from) :
                    \A u \in Above(from) : u = s \/ SegBefore(u, s) => Links(u, from)}

Refused(from) == Linked(from) # Above(from)

\* applyChanges: what is above the snapshot's index, a group per index, each
\* group one Apply on the restored file.
Replayed(segs, from) == {c \in UNION {s.changes : s \in segs} : c.index > from}

Group(cs, i) == [k \in {c.key : c \in {d \in cs : d.index = i}} |->
                    (CHOOSE c \in cs : c.index = i /\ c.key = k).val]

\* The file with the groups up to an index applied, one after the other.
Replay(base, cs) ==
    LET after[i \in Nat] ==
            IF i = 0 THEN base
            ELSE IF \E c \in cs : c.index = i THEN Apply(after[i - 1], Group(cs, i))
            ELSE after[i - 1]
    IN  after

Snapshot(id) == CHOOSE s \in snaps : s.id = id
Intact(id) == \E s \in snaps : s.id = id

\* What Restore(archive) reports and leaves when the chain holds throughout.
RestoredIndex(m, segs) ==
    CHOOSE i \in {m.index} \cup {c.index : c \in Replayed(segs, m.index)} :
        \A c \in Replayed(segs, m.index) : c.index <= i

RestoredStore(m, segs) ==
    Replay(Snapshot(m.id).st, Replayed(segs, m.index))[RestoredIndex(m, segs)]

-----------------------------------------------------------------------------
\* Stage: an operator asks for an archive, which is verified now; the restore
\* happens at the next start.
Stage(m, skip) ==
    /\ up
    /\ Staging
    /\ restores < MaxRestores
    /\ Intact(m.id)
    /\ request' = {[id |-> m.id, skip |-> skip]}
    /\ restores' = restores + 1
    /\ UNCHANGED <<node, up, shipped, job, sink, nextId, faults>>

\* The daemon dies or is stopped; the sink keeps what has landed.
Crash ==
    /\ up
    /\ Fault
    /\ up' = FALSE
    /\ shipped' = 0
    /\ job' = [t \in Threads |-> Idle]
    /\ UNCHANGED <<node, sink, request, nextId, restores>>

\* The node's disk is replaced.
LoseDisk ==
    /\ ~up /\ exists
    /\ restores < MaxRestores
    /\ restores' = restores + 1
    /\ st' = EmptyStore
    /\ exists' = FALSE
    /\ partial' = FALSE
    /\ request' = {}
    /\ UNCHANGED <<up, shipped, job, sink, nextId, writes, faults>>

\* restoreAtStart asks for the staged archive, or for the newest one when there
\* is no state file and auto-restore is on.
Wanted(r) ==
    \/ r \in request
    \/ /\ request = {} /\ ~exists /\ AutoRestore
       /\ \E m \in manifests : IsNewest(m) /\ r = [id |-> m.id, skip |-> FALSE]

Restores(r, m) == Wanted(r) /\ m.id = r.id /\ Intact(m.id)

Requests == [id : 1..(nextId - 1), skip : BOOLEAN]

RestoreDone ==
    /\ ~up
    /\ \E r \in Requests, m \in manifests :
          /\ Restores(r, m)
          /\ r.skip \/ ~Refused(m.index)
          /\ st' = RestoredStore(m, IF r.skip THEN {} ELSE Above(m.index))
    /\ exists' = TRUE
    /\ partial' = FALSE
    /\ request' = {}
    /\ UNCHANGED <<up, shipped, job, sink, nextId, writes, faults, restores>>

\* Once the present state was moved aside, the restore fails before it has
\* written the snapshot.  A staged request stays.
RestoreFails ==
    /\ ~up
    /\ \E r \in Requests :
          /\ Wanted(r)
          /\ \/ Fault
             \/ ~(\E m \in manifests : Restores(r, m)) /\ UNCHANGED faults
    /\ exists' = FALSE
    /\ partial' = FALSE
    /\ st' = EmptyStore
    /\ UNCHANGED <<up, shipped, job, sink, request, nextId, writes, restores>>

\* (a bug: the marker is cleared although the replay failed)
ReplayFailsCleared ==
    /\ ~up
    /\ \E r \in Requests, m \in manifests :
          /\ Restores(r, m)
          /\ ~r.skip
          /\ Refused(m.index)
          /\ st' = RestoredStore(m, Linked(m.index))
    /\ exists' = TRUE
    /\ partial' = TRUE
    /\ request' = {}
    /\ UNCHANGED <<up, shipped, job, sink, nextId, writes, faults, restores>>

\* Or it fails part of the way through the replay: the chain breaks, or a
\* segment cannot be read.
ReplayFails ==
    /\ ~up
    /\ \E r \in Requests, m \in manifests :
          /\ Restores(r, m)
          /\ ~r.skip
          /\ \/ /\ Refused(m.index)
                /\ st' = RestoredStore(m, Linked(m.index))
                /\ UNCHANGED faults
             \/ /\ Fault
                /\ \E bad \in Linked(m.index) :
                      st' = RestoredStore(m, {s \in Linked(m.index) : SegBefore(s, bad)})
    /\ exists' = TRUE
    /\ partial' = TRUE
    /\ UNCHANGED <<up, shipped, job, sink, request, nextId, writes, restores>>

\* Resume: the highest index in the sink.
InSinkIndexes == {0} \cup {s.to : s \in segments} \cup {m.index : m \in manifests}

\* The daemon starts; Run takes its cursor from the sink, or from zero when the
\* sink cannot be listed, and begins with a snapshot.
Boot ==
    /\ ~up
    /\ request = {}
    /\ exists \/ ~AutoRestore
    /\ up' = TRUE
    /\ exists' = TRUE
    /\ \/ (\E i \in InSinkIndexes : IsMax(i, InSinkIndexes) /\ shipped' = i) /\ UNCHANGED faults
       \/ Fault /\ shipped' = 0
    /\ job' = [job EXCEPT !["run"].pc = "startup"]
    /\ UNCHANGED <<st, partial, sink, request, nextId, writes, restores>>

-----------------------------------------------------------------------------
RunStep == ShipRead \/ ShipPut \/ ShipCursor \/ ShipPrune \/ StartupFails

SnapStep(t) ==
    \/ SnapIndex(t) \/ SnapCopy(t) \/ SnapUpload(t) \/ SnapManifest(t)
    \/ SnapLoad(t) \/ SnapBump(t) \/ SnapDelSnap(t) \/ SnapDelManifest(t)
    \/ SnapOldest(t) \/ SnapPruneSegs(t)

Next ==
    \/ \E puts, dels \in SUBSET Keys : Write(puts, dels)
    \/ RunStep
    \/ \E t \in Threads : SnapBegin(t) \/ SnapStep(t)
    \/ \E m \in manifests, skip \in BOOLEAN : Stage(m, skip)
    \/ Crash \/ LoseDisk \/ RestoreDone \/ RestoreFails \/ ReplayFails \/ Boot

Spec == Init /\ [][Next]_vars

\* What the code's scheduling gives: Run keeps taking steps while the daemon is
\* up, an API call once begun runs on, and the unit restarts the daemon.
Fairness ==
    /\ WF_vars(ShipRead) /\ WF_vars(ShipPut) /\ WF_vars(ShipCursor) /\ WF_vars(ShipPrune)
    /\ WF_vars(StartupFails \/ (SnapBegin("run") /\ At("run", "startup")))
    /\ \A t \in Threads : WF_vars(SnapStep(t))
    /\ WF_vars(Boot)

FairSpec == Spec /\ Fairness

-----------------------------------------------------------------------------
\* Keys, indexes and segments are well formed, and ids come from the clock.
TypeOK ==
    /\ st.index \in Nat /\ st.data \in [Keys -> Nat] /\ st.log \subseteq Change
    /\ st.past \in [0..st.index -> [Keys -> Nat]]
    /\ exists \in BOOLEAN /\ up \in BOOLEAN /\ partial \in BOOLEAN
    /\ shipped \in Nat
    /\ \A s \in segments : /\ s.from \in Nat /\ s.to \in Nat /\ s.from <= s.to
                           /\ s.changes \subseteq Change
    /\ \A s \in snaps : s.id \in 1..(nextId - 1)
    /\ \A m \in manifests : m.id \in 1..(nextId - 1) /\ m.index \in Nat

\* Did Apply number i change key k?
Changed(i, k) == st.past[i][k] # st.past[i - 1][k]

\* Where that change can still be found: in the log, in a segment, or inside an
\* archive that can be fetched.
Holds(cs, i, k) == \E c \in cs : c.index = i /\ c.key = k /\ c.val = st.past[i][k]

InSink(i, k) ==
    \/ \E s \in segments : Holds(s.changes, i, k)
    \/ \E m \in manifests : m.index >= i /\ Intact(m.id)

\* ShipOnce's ordering rule, "a change dropped from the log before it is durably
\* in the bucket is a change that exists nowhere", together with the retention
\* of archives and segments: every change this node made can be found.
NoChangeLost ==
    up => \A i \in 1..st.index, k \in Keys :
              Changed(i, k) => Holds(st.log, i, k) \/ InSink(i, k)

\* A restore that is not refused is never older than the index it reports: what
\* it leaves under a key is what the key held at that index or later
\* (StoreSnapshotter's index-before-copy order, replay's chain check).
RestoreNotStale ==
    \A m \in manifests :
        up /\ ~partial /\ Intact(m.id) /\ ~Refused(m.index) =>
            \A segs \in {{}, Above(m.index)}, k \in Keys :
                \E i \in 0..st.index :
                    /\ i >= RestoredIndex(m, segs)
                    /\ st.past[i][k] = RestoredStore(m, segs).data[k]

\* The newest archive can be fetched and its chain of segments holds, so the
\* default `kanea restore` works at every moment.
NewestRestores == \A m \in manifests : IsNewest(m) => Intact(m.id) /\ ~Refused(m.index)

\* restoreAtStart keeps a failed request so that the next start does not come up
\* on what the failed restore left behind.
NoBootOnPartial == up => ~partial

\* The recovery point: a change made while the daemon is up reaches the sink in
\* the end (Run's tickers; a failed pass is retried).
EventuallyShipped ==
    \A i \in 1..MaxWrites :
        (up /\ st.index >= i) ~> (\E j \in InSinkIndexes : j >= i)

-----------------------------------------------------------------------------
\* Prune's comment: an archive whose parts are gone but whose manifest remains
\* would be offered by List and fail at restore.  Once no snapshot is under way,
\* no archive is like that.
ListedArchivesIntact ==
    (\A t \in Threads : job[t] = Idle) => \A m \in manifests : Intact(m.id)

\* replay's comment: segments are pruned only below the oldest kept archive, so a
\* gap means the bucket lost something.  This bucket loses nothing.
KeptArchivesRestore == \A m \in manifests : Intact(m.id) => ~Refused(m.index)

\* Stage's comment: the archive is verified while there is someone to tell, so
\* that the restore does not find it unusable after the state was moved aside.
StagedArchiveKept == \A r \in request : \E m \in manifests : m.id = r.id /\ Intact(m.id)

\* StoreSnapshotter's comment: replaying a change the copy already has is a
\* no-op, so a restore always yields a state the node was in.
RestoredStateExisted ==
    \A m \in manifests :
        up /\ ~partial /\ Intact(m.id) /\ ~Refused(m.index) =>
            \E i \in 0..st.index : st.past[i] = RestoredStore(m, Above(m.index)).data

\* applyChanges's comment: replaying by index lands on the same numbers, so an
\* index recorded anywhere else still means what it meant.
ReplayKeepsNumbers ==
    \A m \in manifests :
        Intact(m.id) /\ ~Refused(m.index) /\ Replayed(Above(m.index), m.index) # {} =>
            RestoredStore(m, Above(m.index)).index = RestoredIndex(m, Above(m.index))

\* ShipOnce's comment: a full batch means there is more waiting, and the loop
\* goes on rather than waiting out the interval.
FullBatchContinues ==
    [][(At("run", "prune") /\ job'["run"].pc = "idle" /\ up')
           => Cardinality(job["run"].batch) < ReadLimit]_vars
=============================================================================
