------------------------------ MODULE Pipeline ------------------------------
(***************************************************************************)
(* Build pipelines (internal/gitops, cmd/kanea/pipelines.go): syncs of a   *)
(* project's repository, run by the poll loop and by API requests at the   *)
(* same time; the queue of builds in memory, served by one worker; the run *)
(* records in the store; shutdown, crash and the sweep at boot.            *)
(*                                                                         *)
(* A commit is a number, the remote's head the newest; an image is the     *)
(* commit it was built from (what a sync and a deploy do to the rest of a  *)
(* service's record is in ServiceRecord).  Every commit describes the same *)
(* services, all with a build block.                                       *)
(***************************************************************************)
EXTENDS Naturals, Sequences, FiniteSets

CONSTANTS Services,    \* the services of the project
          MaxRuns,     \* bound: run records
          MaxCommit,   \* bound: pushes
          QueueDepth,  \* the queue's capacity
          MaxChanges,  \* bound: operator's edits of the project record
          MaxStops     \* bound: shutdowns and crashes

ASSUME PipelineAssumption ==
  /\ Services # {}
  /\ MaxRuns \in Nat /\ MaxCommit \in Nat \ {0} /\ QueueDepth \in Nat \ {0}
  /\ MaxChanges \in Nat /\ MaxStops \in Nat

VARIABLES
  life,      \* the daemon: "up", "stopping" (context cancelled), "down"
  head,      \* the remote's newest commit
  project,   \* the project record: here, last commit, held for approval
  applied,   \* the commit whose services the store holds
  runs,      \* run -> its record: state, service, deploy
  queue,     \* Queue.work
  worker,    \* the worker: step, run, commit checked out
  syncer,    \* the requests that sync or trigger: poll loop and API
  newest,    \* the commit released to each service last
  stranded   \* history: runs whose rejection could not be recorded

pipeVars == <<life, head, project, applied, runs, queue, worker,
              syncer, newest, stranded>>

RunIds == 1..MaxRuns
Syncers == {"poll", "api"}

NoRun == [state |-> "none", svc |-> CHOOSE s \in Services : TRUE,
          deploy |-> FALSE]
Idle == [pc |-> "idle", held |-> FALSE, commit |-> 0,
         todo |-> {}, made |-> 0, deploy |-> TRUE]
Resting == [pc |-> "idle", run |-> 0, commit |-> 0]

Terminal == {"succeeded", "failed", "cancelled"}

PipeInit ==
  /\ life = "up" /\ head = 1
  /\ project \in [here : BOOLEAN, last : {0}, held : {FALSE}]
  /\ applied = 0
  /\ newest = [s \in Services |-> 0]
  /\ runs = [r \in RunIds |-> NoRun]
  /\ queue = <<>> /\ worker = Resting /\ stranded = {}
  /\ syncer = [a \in Syncers |-> Idle]

-----------------------------------------------------------------------------
(* Syncs.  The store's writes fail once the context is cancelled.          *)

\* ProjectConfig, then Fetch: the record and the remote's head are read.  A
\* poll, a webhook's wake and an API request all come here.  A held project
\* ends the sync, and so does a commit that is already recorded.
SyncFetch(a) ==
  /\ life = "up" /\ syncer[a].pc = "idle" /\ project.here
  /\ ~project.held /\ project.last # head
  /\ syncer' = [syncer EXCEPT ![a] = [Idle EXCEPT !.pc = "apply",
                  !.held = project.held, !.commit = head]]
  /\ UNCHANGED <<life, head, project, applied, runs, queue, worker,
                 newest, stranded>>

\* storeApplier.Apply: the commit's services are put in one batch.
SyncApply(a) ==
  /\ life = "up" /\ syncer[a].pc = "apply"
  /\ applied' = syncer[a].commit
  /\ syncer' = [syncer EXCEPT ![a].pc = "record"]
  /\ UNCHANGED <<life, head, project, runs, queue, worker, newest, stranded>>

StillThereNever(a) == TRUE  \* (a bug: an unconditional put)

\* The index is read again just before the compare-and-set: only a project
\* that was deleted, or changed between the two, refuses the write.
StillThere(a) == project.here

\* (a bug: the commit is not recorded)
SyncedForgetful(a) == [here |-> TRUE, last |-> 0, held |-> syncer[a].held]

\* The record a sync writes: the configuration it read when it started, and
\* the commit.
Synced(a) ==
  [here |-> TRUE, last |-> syncer[a].commit, held |-> syncer[a].held]

\* The sync is recorded; then the builds are queued.
SyncRecord(a) ==
  /\ life = "up" /\ syncer[a].pc = "record"
  /\ IF StillThere(a)
       THEN /\ project' = Synced(a)
            /\ syncer' = [syncer EXCEPT ![a] = [syncer[a] EXCEPT
                                        !.pc = "submit", !.todo = Services]]
       ELSE /\ syncer' = [syncer EXCEPT ![a] = Idle]
            /\ UNCHANGED project
  /\ UNCHANGED <<life, head, applied, runs, queue, worker, newest,
                 stranded>>

\* A request that gave up: its client is gone, its timeout has passed or
\* its service failed to list.
SyncAbort(a) ==
  /\ life = "up" /\ syncer[a].pc \in {"apply", "record"}
  /\ syncer' = [syncer EXCEPT ![a] = Idle]
  /\ UNCHANGED <<life, head, project, applied, runs, queue, worker,
                 newest, stranded>>

\* Trigger: a build asked for by an operator, deployed or not.
Trigger(s, deploy) ==
  /\ life = "up" /\ syncer["api"].pc = "idle" /\ project.here
  /\ \E r \in RunIds : runs[r].state = "none"
  /\ syncer' = [syncer EXCEPT !["api"] = [Idle EXCEPT !.pc = "submit",
                                            !.todo = {s}, !.deploy = deploy]]
  /\ UNCHANGED <<life, head, project, applied, runs, queue, worker,
                 newest, stranded>>

-----------------------------------------------------------------------------
(* Queue.Submit: the record first, then the channel.                       *)

\* Runs.Create.
CreateRun(a, s) ==
  /\ life = "up" /\ syncer[a].pc = "submit" /\ syncer[a].made = 0
  /\ s \in syncer[a].todo
  /\ \E r \in RunIds :
       /\ runs[r].state = "none"
       /\ \A q \in RunIds : q < r => runs[q].state # "none"
       /\ runs' = [runs EXCEPT ![r] = [state |-> "queued", svc |-> s,
                                       deploy |-> syncer[a].deploy]]
       /\ syncer' = [syncer EXCEPT ![a] = [syncer[a] EXCEPT
                       !.made = r, !.todo = syncer[a].todo \ {s}]]
  /\ UNCHANGED <<life, head, project, applied, queue, worker, newest,
                 stranded>>

\* The channel has no room left.
Full == Len(queue) >= QueueDepth

RejectedSilently(r) == UNCHANGED <<runs, stranded>>  \* (a bug: not recorded)

\* A full queue: the record is cancelled, unless the request's context has
\* ended and the store refuses the write.
Rejected(r) ==
  \/ runs' = [runs EXCEPT ![r].state = "cancelled"] /\ UNCHANGED stranded
  \/ stranded' = stranded \cup {r} /\ UNCHANGED runs

Enqueue(a) ==
  /\ life # "down" /\ syncer[a].made # 0
  /\ IF Full
       THEN Rejected(syncer[a].made) /\ UNCHANGED queue
       ELSE queue' = Append(queue, syncer[a].made)
            /\ UNCHANGED <<runs, stranded>>
  /\ syncer' = [syncer EXCEPT ![a].made = 0]
  /\ UNCHANGED <<life, head, project, applied, worker, newest>>

\* Every service's build has been submitted, or the bound on runs is met.
SubmitDone(a) ==
  /\ syncer[a].pc = "submit" /\ syncer[a].made = 0
  /\ \/ syncer[a].todo = {} \/ life = "stopping"
     \/ \A r \in RunIds : runs[r].state # "none"
  /\ syncer' = [syncer EXCEPT ![a] = Idle]
  /\ UNCHANGED <<life, head, project, applied, runs, queue, worker,
                 newest, stranded>>

-----------------------------------------------------------------------------
(* The worker (Queue.Run, Runner.Execute).                                 *)

At(pc) == life = "up" /\ worker.pc = pc
Record(r, st) == runs' = [runs EXCEPT ![r].state = st]
Rest == <<life, head, project, applied, syncer, stranded>>

\* One build at a time.
Free == worker.pc = "idle"

Take ==
  /\ life = "up" /\ Free /\ queue # <<>>
  /\ worker' = [pc |-> "taken", run |-> Head(queue), commit |-> 0]
  /\ queue' = Tail(queue)
  /\ UNCHANGED <<runs, newest>> /\ UNCHANGED Rest

\* Run.Start, after the log is open.
Start ==
  /\ At("taken") /\ Record(worker.run, "running")
  /\ worker' = [worker EXCEPT !.pc = "checkout"]
  /\ UNCHANGED <<queue, newest>> /\ UNCHANGED Rest

\* fail: no log file, a failed clone, build or push.
Fail ==
  /\ life = "up"
  /\ worker.pc \in {"taken", "checkout", "deploy"}
  /\ Record(worker.run, "failed")
  /\ worker' = Resting
  /\ UNCHANGED <<queue, newest>> /\ UNCHANGED Rest

\* Runner.checkout and Runner.build: the head now, which is not the commit
\* that was pushed when the run was queued, cloned, built and pushed.
Build ==
  /\ At("checkout")
  /\ worker' = [worker EXCEPT !.commit = head,
                  !.pc = IF runs[worker.run].deploy THEN "deploy"
                                                    ELSE "finish"]
  /\ UNCHANGED <<runs, queue, newest>> /\ UNCHANGED Rest

\* Deploy: the service's record is read and written against its index; a
\* service that was deleted meanwhile fails the run.
Deploy ==
  /\ At("deploy")
  /\ LET s == runs[worker.run].svc IN
       IF applied # 0
         THEN /\ newest' = [newest EXCEPT ![s] = worker.commit]
              /\ worker' = [worker EXCEPT !.pc = "finish"]
              /\ UNCHANGED runs
         ELSE /\ Record(worker.run, "failed") /\ worker' = Resting
              /\ UNCHANGED newest
  /\ UNCHANGED queue /\ UNCHANGED Rest

Finish ==
  /\ At("finish") /\ Record(worker.run, "succeeded")
  /\ worker' = Resting
  /\ UNCHANGED <<queue, newest>> /\ UNCHANGED Rest

-----------------------------------------------------------------------------
(* Shutdown, crash, boot.                                                  *)

\* The context ends.
Stop ==
  /\ life = "up" /\ life' = "stopping"
  /\ UNCHANGED <<head, project, applied, runs, queue, worker, syncer,
                 newest, stranded>>

\* The store refuses the worker's next write and fail's write after it: the
\* record stays as it was.
Abandon ==
  /\ life = "stopping" /\ worker.pc # "idle" /\ worker' = Resting
  /\ UNCHANGED <<runs, queue, newest>> /\ UNCHANGED Rest

\* drain, and Run's own cancel of an item it had already taken.
Drain ==
  /\ life = "stopping" /\ Free /\ queue # <<>>
  /\ Record(Head(queue), "cancelled") /\ queue' = Tail(queue)
  /\ UNCHANGED <<worker, newest>> /\ UNCHANGED Rest

\* The process ends, after its drain or in a crash: what is in memory goes.
Gone ==
  /\ life' = "down" /\ queue' = <<>> /\ worker' = Resting
  /\ syncer' = [a \in Syncers |-> Idle]
  /\ UNCHANGED <<head, project, applied, runs, newest, stranded>>

Exit == life = "stopping" /\ worker.pc = "idle" /\ Gone

Crash == life = "up" /\ Gone

\* (a bug: a build that was lost reads as one that was called off)
SweptCancels(run) ==
  IF run.state \in {"queued", "running"}
    THEN [run EXCEPT !.state = "cancelled"] ELSE run

\* SweepOrphans, before the worker exists.
Swept(run) ==
  CASE run.state = "queued"  -> [run EXCEPT !.state = "cancelled"]
    [] run.state = "running" -> [run EXCEPT !.state = "failed"]
    [] OTHER                 -> run

Boot ==
  /\ life = "down" /\ life' = "up"
  /\ runs' = [r \in RunIds |-> Swept(runs[r])]
  /\ stranded' = {}
  /\ UNCHANGED <<head, project, applied, queue, worker, syncer,
                 newest>>

-----------------------------------------------------------------------------
(* The operator and the remote.                                            *)

Push == /\ head < MaxCommit /\ head' = head + 1
        /\ UNCHANGED <<life, project, applied, runs, queue, worker,
                       syncer, newest, stranded>>

\* applyServices' pipelines: the record is put with the stored last commit;
\* a deleted project is created again.
EditProject(held) ==
  /\ life = "up"
  /\ project' = [project EXCEPT !.here = TRUE, !.held = held]
  /\ UNCHANGED <<life, head, applied, runs, queue, worker, syncer,
                 newest, stranded>>

\* handleDeleteProject: the services and the record go in one batch.
DeleteProject ==
  /\ life = "up" /\ project.here
  /\ project' = [here |-> FALSE, last |-> 0, held |-> FALSE]
  /\ applied' = 0
  /\ UNCHANGED <<life, head, runs, queue, worker, syncer,
                 newest, stranded>>

-----------------------------------------------------------------------------
WorkerStep == Take \/ Start \/ Build \/ Deploy \/ Finish

SyncerStep(a) ==
  \/ SyncFetch(a) \/ SyncApply(a) \/ SyncRecord(a) \/ Enqueue(a)
  \/ SubmitDone(a)
  \/ \E s \in Services : CreateRun(a, s)

\* What the daemon's supervisor and a shutdown that was asked for do.
LifeStep == Abandon \/ Drain \/ Exit \/ Boot

PipeNext ==
  \/ WorkerStep \/ Fail \/ LifeStep \/ Stop \/ Crash \/ Push \/ DeleteProject
  \/ \E a \in Syncers : SyncerStep(a) \/ SyncAbort(a)
  \/ \E s \in Services, d \in BOOLEAN : Trigger(s, d)
  \/ \E held \in BOOLEAN : EditProject(held)

PipeSpec == PipeInit /\ [][PipeNext]_pipeVars

-----------------------------------------------------------------------------
(* Properties.                                                             *)

Lifecycle == INSTANCE RunLifecycle WITH
  Runs <- RunIds, state <- [r \in RunIds |-> runs[r].state],
  released <- newest

\* The records go through the life the pipeline promises: no two runs are
\* running at once, not even one that a crash left behind beside a new one;
\* a run that ended stays as it ended; only a running run releases, and never
\* an older commit than was released before (queue.go Run, runner.go Execute,
\* pipeline.go SweepOrphans).
Implements == Lifecycle!Spec

\* While the daemon runs, a run that has not ended is in somebody's hands: the
\* queue's, the worker's, its submitter's.  Only one whose rejection the store
\* refused is left over, until the next boot (queue.go Submit, Run and drain,
\* pipeline.go SweepOrphans).
RunsHeld ==
  life = "up" =>
    \A r \in RunIds :
      runs[r].state \in {"queued", "running"} =>
        \/ \E i \in 1..Len(queue) : queue[i] = r
        \/ worker.pc # "idle" /\ worker.run = r
        \/ \E a \in Syncers : syncer[a].made = r
        \/ r \in stranded

\* A deleted project stays deleted until an operator applies it again: a sync
\* that was under way does not write its record back (service.go Sync).
NoResurrection ==
  [][~project.here /\ project'.here
       => \E held \in BOOLEAN : EditProject(held)]_pipeVars

\* A push is synced: the recorded commit reaches the head of a project that
\* is neither deleted nor held (runSync, service.go Sync).
PushSynced ==
  [](project.here /\ ~project.held
       => <>(project.last = head \/ ~project.here \/ project.held))

\* A commit that is recorded as applied, with no sync under way, is the one
\* whose services the store holds (service.go Config.LastCommit).
RecordedIsApplied ==
  (/\ project.here /\ life = "up"
   /\ \A a \in Syncers : syncer[a].pc \notin {"apply", "record"})
    => applied \in {0, project.last}

\* A sync leaves an operator's setting of the project record alone.
EditsKept ==
  [][\A a \in Syncers : SyncRecord(a) => project'.held = project.held]_pipeVars
=============================================================================
