------------------------------ MODULE Reconciler ------------------------------
(***************************************************************************)
(* The reconcile loop of one service (internal/reconciler): a pass loads   *)
(* what is declared, what is recorded and what runs, records what it       *)
(* observed, plans, and applies the plan one action after the other.       *)
(*                                                                         *)
(* Alloc 0 is the leader: it runs the service's init steps, one after the  *)
(* other, before its task.  Every call to the runtime and every write of a *)
(* record is a step of its own; between two steps a container may exit,    *)
(* the operator may deploy, and the daemon may die, which loses the plan   *)
(* and the set of allocs this daemon has witnessed.                        *)
(*                                                                         *)
(* A spec is a number, which stands for its hash; 0 is a record without    *)
(* one.  Deadlines are flags that time clears (wait: the backoff; young:   *)
(* min_healthy) or sets (late: an init step's timeout).                    *)
(***************************************************************************)
EXTENDS Integers, FiniteSets

CONSTANTS
    MaxCount,     \* allocs the service may have: 0 .. MaxCount - 1
    Steps,        \* number of init steps
    Attempts,     \* restart policy: attempts
    MaxParallel,  \* update policy: allocs down at once
    Checked,      \* is a health check configured?
    Timeout,      \* has an init step a timeout?
    HasDependency,\* does the service depend on another one?
    Scaling,      \* may the operator scale or delete the service?
    MaxSpec,      \* the specs an operator deploys: 1 .. MaxSpec
    MaxEdits,     \* bound: times the service is edited, or a dependency fails
    MaxExits,     \* bound: failing exits and unexpected states, together
    MaxTrouble    \* bound: failed calls and deaths of the daemon, together

ASSUME ReconcilerAssumption ==
    /\ MaxCount \in Nat \ {0} /\ Steps \in Nat /\ Attempts \in Nat \ {0}
    /\ MaxParallel \in Nat \ {0}
    /\ Checked \in BOOLEAN /\ Timeout \in BOOLEAN /\ HasDependency \in BOOLEAN /\ Scaling \in BOOLEAN
    /\ MaxSpec \in Nat \ {0} /\ MaxEdits \in Nat /\ MaxExits \in Nat /\ MaxTrouble \in Nat

VARIABLES
    desired,    \* the declared service: [spec, count, on]
    rec,        \* the alloc records
    task,       \* the allocs' containers: [st, spec]
    init,       \* the leader's init containers, by step: [st, spec]
    witnessed,  \* allocs this daemon has started or seen running
    pass,       \* the pass under way: its plan and the desired state it loaded
    dep,        \* can the services this one depends on serve?
    edits, exits, odd, faults, deaths,
    rolled,     \* history: allocs a replacement took down and no pass has found available since
    ran         \* history: the init steps that really exited 0, as <<spec, step>>

vars == <<desired, rec, task, init, witnessed, pass, dep, edits, exits, odd, faults, deaths, rolled, ran>>

Allocs == 0..(MaxCount - 1)
Leader == 0
StepIds == 1..Steps

None == [st |-> "none", spec |-> 0]
Container(st, s) == [st |-> st, spec |-> s]

NoRec == [st |-> "none", spec |-> 0, restarts |-> 0, wait |-> FALSE, young |-> FALSE,
          healthy |-> FALSE, step |-> 0, late |-> FALSE, why |-> "none", exited |-> FALSE,
          crashes |-> 0]

NoPass == [pc |-> "idle", todo |-> {}, spec |-> 0, count |-> 0, on |-> FALSE, applied |-> FALSE]

Init ==
    /\ desired = [spec |-> 1, count |-> MaxCount, on |-> TRUE]
    /\ rec = [i \in Allocs |-> NoRec]
    /\ task = [i \in Allocs |-> None]
    /\ init = [k \in StepIds |-> None]
    /\ witnessed = {}
    /\ pass = NoPass
    /\ dep = ~HasDependency
    /\ edits = 0 /\ exits = 0 /\ odd = 0 /\ faults = 0 /\ deaths = 0
    /\ rolled = {}
    /\ ran = {}

Fault == faults + deaths < MaxTrouble /\ faults' = faults + 1

Running(c) == c.st = "running"
Wanted(i, d) == d.on /\ i < d.count

\* drifted: an alloc that has a record, and one for another spec.
Stale(r, s) == r.st # "none" /\ r.spec # 0 /\ r.spec # s

-----------------------------------------------------------------------------
\* (a bug: a step whose container exists counts as finished)
IsLiveAbsent(k) == /\ k \in 1..(Steps + 1)
                   /\ \A j \in StepIds : j < k => init[j].st # "none"
                   /\ k \in StepIds => init[k].st = "none"

\* initProgress: the first step that has not exited 0; Steps + 1 when all have.
IsLive(k) == /\ k \in 1..(Steps + 1)
             /\ \A j \in StepIds : j < k => init[j].st = "done"
             /\ k \in StepIds => init[k].st # "done"

Live == CHOOSE k \in 1..(Steps + 1) : IsLive(k)

\* An exit: a crash only if this daemon witnessed the alloc, and then the
\* restart budget decides.
Exited(r, why, seen) ==
    [r EXCEPT !.st = IF seen /\ r.restarts >= Attempts THEN "failed" ELSE "backoff",
              !.wait = seen /\ r.restarts < Attempts,
              !.why = why, !.exited = TRUE,
              !.crashes = IF seen THEN @ + 1 ELSE @]

\* observeInit: the live step failed, or it has run for too long.
InitOver(r) ==
    /\ Live \in StepIds
    /\ \/ init[Live].st = "failed"
       \/ Timeout /\ Running(init[Live]) /\ r.step = Live /\ r.late

\* Observe, for one alloc.
Observed(i, r, seen) ==
    IF r.st = "none" THEN r
    ELSE IF Running(task[i]) THEN
        [r EXCEPT !.spec = IF @ = 0 /\ desired.on THEN desired.spec ELSE @,
                  !.st = "running",
                  !.wait = @ /\ r.st = "running",
                  !.step = IF r.st = "running" THEN @ ELSE 0,
                  !.late = @ /\ r.st = "running"]
    ELSE IF task[i].st = "stopped" /\ r.st \in {"running", "pending", "init"} /\ Wanted(i, desired)
        THEN Exited(r, "exit", seen)
    ELSE IF i = Leader /\ r.st = "init" /\ Wanted(i, desired) /\ InitOver(r)
        THEN [Exited(r, "init", seen) EXCEPT !.step = Live]
    ELSE r

-----------------------------------------------------------------------------
\* serviceInitDone: may the allocs other than the leader be created?
ServiceInitDone(rs, s) ==
    /\ rs[Leader].st \notin {"none", "init"}
    /\ ~Stale(rs[Leader], s)
    /\ ~(rs[Leader].st = "failed" /\ rs[Leader].why = "init")

StepKinds == {"stepStart", "stepRerun", "stepAdopt"}
TeardownKinds == {"restart", "replace", "recover", "remove"}

\* planInit: what the leader's sequence needs next.
PlanInit(r) ==
    IF Live \notin StepIds THEN "done"
    ELSE IF init[Live].st = "none" THEN "stepStart"
    ELSE IF Running(init[Live]) THEN IF r.step = Live THEN "wait" ELSE "stepAdopt"
    ELSE "stepRerun"

\* planRestart: an alloc that stopped and should run.
PlanRestart(r, seen) ==
    IF ~seen THEN "recover"
    ELSE IF r.restarts >= Attempts THEN "remove"
    ELSE IF r.wait THEN "none" ELSE "restart"

\* planAlloc: the kind of action for one alloc that should exist.
PlanAlloc(i, rs, s, seen) ==
    LET r == rs[i]
        stale == Stale(r, s)
    IN
    CASE r.st = "failed" /\ ~stale -> "none"
      [] r.st = "init" /\ i = Leader -> IF stale THEN "restart" ELSE PlanInit(r)
      [] ~(r.st = "failed" /\ ~stale) /\ ~(r.st = "init" /\ i = Leader) ->
         CASE task[i].st = "none" ->
                 IF r.st = "backoff" /\ r.wait /\ ~stale /\ seen THEN "none"
                 ELSE IF ~dep THEN "wait"
                 ELSE IF Steps > 0 /\ i # Leader /\ ~ServiceInitDone(rs, s) THEN "wait"
                 ELSE IF r.st # "none" /\ ~stale /\ r.why = "init"
                      THEN IF seen THEN "restart" ELSE "recover"
                 ELSE "create"
           [] task[i].st = "running" -> IF stale THEN "replace" ELSE "none"
           [] task[i].st = "created" -> "start"
           [] task[i].st = "stopped" -> IF stale THEN "restart" ELSE PlanRestart(r, seen)
           [] task[i].st = "paused" -> "restart"

\* replaceBudget: what is already down, unproven or settling spends it first.
Unavailable(rs, d) ==
    {i \in Allocs : /\ i < d.count
                    /\ \/ ~Running(task[i]) \/ rs[i].st = "none"
                       \/ Checked /\ ~rs[i].healthy
                       \/ rs[i].spec = d.spec /\ rs[i].young}

ParallelLimit(d) == IF MaxParallel > d.count THEN d.count ELSE MaxParallel

\* Plan, up to the deferral of replacements that do not fit the budget.
Kinds(rs, d, seen) ==
    [i \in Allocs |->
        IF Wanted(i, d) THEN PlanAlloc(i, rs, d.spec, i \in seen)
        ELSE IF task[i].st # "none" \/ rs[i].st # "none" THEN "remove" ELSE "none"]

\* (a bug: every replacement is let through)
FitsAlways(i, kinds, rs, d) == TRUE

Fits(i, kinds, rs, d) ==
    Cardinality({j \in Allocs : j < i /\ kinds[j] = "replace"}) + Cardinality(Unavailable(rs, d))
        < ParallelLimit(d)

\* (a bug: the live step is reaped too)
ReapedLive(rs, d, kinds) ==
    {k \in StepIds :
        /\ init[k].st # "none"
        /\ kinds[Leader] \notin TeardownKinds \ {"remove"}
        /\ ~(rs[Leader].st = "init" /\ d.on /\ k < Live)}

\* initContainersToReap: the steps that are not part of a live sequence.
Reaped(rs, d, kinds) ==
    {k \in StepIds :
        /\ init[k].st # "none"
        /\ kinds[Leader] \notin TeardownKinds \ {"remove"}
        /\ ~(rs[Leader].st = "init" /\ d.on /\ k <= Live)}

\* The plan: actions in the order of container ids, where an alloc's init
\* containers come after the alloc; k is the init step an action is about.
Action(kind, i, k) == [kind |-> kind, i |-> i, k |-> k]

PlanOf(rs, d, seen) ==
    LET kinds == Kinds(rs, d, seen)
        fits == {i \in Allocs : kinds[i] # "replace" \/ Fits(i, kinds, rs, d)}
    IN  {Action(kinds[i], i, IF kinds[i] \in StepKinds THEN Live ELSE 0) :
            i \in {j \in fits : kinds[j] \notin {"none", "wait"}}}
          \cup {Action("reap", Leader, k) : k \in Reaped(rs, d, kinds)}

\* ActionWait is applied by doing nothing, but it counts as applied.
Waits(rs, d, seen) ==
    \E i \in Allocs : LET kinds == Kinds(rs, d, seen)
                      IN  kinds[i] = "wait" \/ (kinds[i] = "replace" /\ ~Fits(i, kinds, rs, d))

Before(a, b) ==
    \/ a.i < b.i
    \/ a.i = b.i /\ b.kind = "reap" /\ (a.kind # "reap" \/ a.k < b.k)

IsNext(a) == a \in pass.todo /\ \A b \in pass.todo : a = b \/ Before(a, b)

\* witness and pruneWitnessed.
RunningNow ==
    {i \in Allocs : Running(task[i]) \/ (i = Leader /\ \E k \in StepIds : Running(init[k]))}

Known == {i \in Allocs : rec[i].st # "none" \/ task[i].st # "none"}

-----------------------------------------------------------------------------
(***************************************************************************)
(* One pass.                                                               *)
(***************************************************************************)

\* Reconcile, up to the plan: load, witness, probe, observe, plan.  A probe of
\* a running, recorded alloc may answer either way.
Begin ==
    /\ pass.pc = "idle"
    /\ LET seen == (witnessed \cup RunningNow) \cap Known
           probed == {i \in Allocs : /\ Checked /\ Wanted(i, desired)
                                     /\ Running(task[i]) /\ rec[i].st # "none"}
       IN  \E healthy \in SUBSET probed :
             LET rs == [i \in Allocs |->
                          Observed(i, IF i \in probed THEN [rec[i] EXCEPT !.healthy = i \in healthy]
                                      ELSE rec[i], i \in seen)]
             IN  /\ witnessed' = seen
                 /\ rec' = rs
                 /\ pass' = [pc |-> "next", todo |-> PlanOf(rs, desired, seen),
                             spec |-> desired.spec, count |-> desired.count, on |-> desired.on,
                             applied |-> Waits(rs, desired, seen)]
                 /\ rolled' = rolled \cap Unavailable(rs, desired)
    /\ UNCHANGED <<desired, task, init, dep, edits, exits, odd, faults, deaths, ran>>

\* The observations cannot be written: the pass is over.
PassAborts ==
    /\ pass.pc = "idle"
    /\ Fault
    /\ witnessed' = (witnessed \cup RunningNow) \cap Known
    /\ UNCHANGED <<desired, rec, task, init, pass, dep, edits, exits, odd, deaths, rolled, ran>>

\* An action is over: applied, or failed.
Applied(a) == pass' = [pass EXCEPT !.pc = "next", !.todo = @ \ {a}, !.applied = TRUE]
Failed(a)  == pass' = [pass EXCEPT !.pc = "next", !.todo = @ \ {a}]
Then(pc)   == pass' = [pass EXCEPT !.pc = pc]

\* recordStartFailure: the reason a create failed, on the record.
StartFailure(r) ==
    IF r.st = "none" THEN [NoRec EXCEPT !.st = "pending", !.young = TRUE, !.why = "start"]
    ELSE [r EXCEPT !.why = "start"]

\* teardown: the alloc's init containers, then its task.  The container of an
\* alloc without a record is looked for in no project, and not found there.
Teardown(a) ==
    /\ pass.pc = "next" /\ IsNext(a) /\ a.kind \in TeardownKinds
    /\ IF a.kind = "remove" /\ rec[a.i].st = "none"
       THEN Failed(a) /\ UNCHANGED <<task, init, rolled>>
       ELSE /\ task' = [task EXCEPT ![a.i] = None]
            /\ init' = IF a.i = Leader THEN [k \in StepIds |-> None] ELSE init
            /\ rolled' = IF a.kind = "replace" THEN rolled \cup {a.i} ELSE rolled
            /\ Then(IF a.kind = "remove" THEN "forget" ELSE "start")
    /\ UNCHANGED <<desired, rec, witnessed, dep, edits, exits, odd, faults, deaths, ran>>

\* A stop or a removal fails part of the way.
TeardownFails(a) ==
    /\ pass.pc = "next" /\ IsNext(a) /\ a.kind \in TeardownKinds
    /\ a.kind = "remove" => rec[a.i].st # "none"
    /\ Fault
    /\ \E left \in SUBSET StepIds, t \in {task[a.i], None, Container("stopped", task[a.i].spec)} :
          /\ a.i # Leader => left = StepIds
          /\ t # task[a.i] => (task[a.i].st # "none" /\ (a.i = Leader => left = {}))
          /\ init' = [k \in StepIds |-> IF k \in left THEN init[k] ELSE None]
          /\ task' = [task EXCEPT ![a.i] = t]
          /\ rolled' = IF a.kind = "replace" /\ t # task[a.i] THEN rolled \cup {a.i} ELSE rolled
    /\ Failed(a)
    /\ UNCHANGED <<desired, rec, witnessed, dep, edits, exits, odd, deaths, ran>>

\* The init step an action starts, and 0 when it starts the alloc's task.
StepOf(a) ==
    CASE a.kind \in StepKinds -> a.k
      [] a.kind \notin StepKinds /\ a.i = Leader /\ Steps > 0 /\ a.kind \notin {"done", "start"} -> 1
      [] OTHER -> 0

Starting(a) ==
    /\ IsNext(a)
    /\ \/ pass.pc = "start"
       \/ pass.pc = "next" /\ a.kind \in {"create", "done", "start"} \cup StepKinds

\* create, ActionStart, startInitStep: up to the started container.  A step
\* that exists is adopted, whatever its state; a re-run removes it first.
StartContainer(a) ==
    /\ Starting(a)
    /\ LET k == StepOf(a)
           adopted == a.kind = "stepAdopt" \/ (a.kind # "stepRerun" /\ init[k].st # "none")
       IN  IF k # 0
           THEN /\ init' = IF adopted THEN init ELSE [init EXCEPT ![k] = Container("running", pass.spec)]
                /\ UNCHANGED task
           ELSE /\ a.kind = "start" \/ task[a.i].st = "none"
                /\ task' = [task EXCEPT ![a.i] =
                              Container("running", IF a.kind = "start" THEN @.spec ELSE pass.spec)]
                /\ UNCHANGED init
    /\ Then("record")
    /\ UNCHANGED <<desired, rec, witnessed, dep, edits, exits, odd, faults, deaths, rolled, ran>>

\* The runtime refuses to create a task that exists.
AlreadyExists(a) ==
    /\ Starting(a)
    /\ StepOf(a) = 0 /\ a.kind # "start" /\ task[a.i].st # "none"
    /\ rec' = [rec EXCEPT ![a.i] = StartFailure(@)]
    /\ Failed(a)
    /\ UNCHANGED <<desired, task, init, witnessed, dep, edits, exits, odd, faults, deaths, rolled, ran>>

\* An image, a volume, the network or the runtime fails: before the container
\* is created, or between its creation and its start.
StartFails(a) ==
    /\ Starting(a) /\ a.kind # "stepAdopt"
    /\ Fault
    /\ \E created \in BOOLEAN :
         LET k == StepOf(a)
         IN  /\ created => IF k # 0 THEN init[k].st = "none" \/ a.kind = "stepRerun"
                           ELSE task[a.i].st = "none"
             /\ init' = IF created /\ k # 0 THEN [init EXCEPT ![k] = Container("created", pass.spec)]
                        ELSE init
             /\ task' = IF created /\ k = 0 THEN [task EXCEPT ![a.i] = Container("created", pass.spec)]
                        ELSE task
    /\ rec' = [rec EXCEPT ![a.i] = StartFailure(@)]
    /\ Failed(a)
    /\ UNCHANGED <<desired, witnessed, dep, edits, exits, odd, deaths, rolled, ran>>

\* The record create and stampInitStep write: an alloc of the same spec keeps
\* its history, and a restart spends one attempt of the budget.
RecordWith(r, a, step, charged) ==
    LET same == r.st # "none" /\ (r.spec = 0 \/ r.spec = pass.spec)
    IN  [NoRec EXCEPT
            !.st = IF StepOf(a) = 0 THEN "running" ELSE "init",
            !.step = step,
            !.spec = pass.spec,
            !.restarts = IF same THEN r.restarts + (IF charged THEN 1 ELSE 0) ELSE 0,
            !.young = same => r.young,
            !.why = IF same /\ r.exited THEN r.why ELSE "none",
            !.exited = same /\ r.exited,
            !.crashes = IF same THEN r.crashes ELSE 0]

\* (a bug: only the write of a running task spends the budget)
NewRecordUncharged(r, a) == RecordWith(r, a, StepOf(a), a.kind = "restart" /\ StepOf(a) = 0)

\* (a bug: a recovery is charged as a crash is)
NewRecordRecovery(r, a) == RecordWith(r, a, StepOf(a), a.kind \in {"restart", "recover"})

NewRecord(r, a) == RecordWith(r, a, StepOf(a), a.kind = "restart")

\* markRunning, for an alloc the pass found created: only a record it had.
MarkRunning(r) == IF r.st = "none" THEN r ELSE [r EXCEPT !.st = "running", !.wait = FALSE]

WriteRecord(a) ==
    /\ pass.pc = "record" /\ IsNext(a)
    /\ rec' = [rec EXCEPT ![a.i] = IF a.kind = "start" THEN MarkRunning(@) ELSE NewRecord(@, a)]
    /\ witnessed' = witnessed \cup {a.i}
    /\ Applied(a)
    /\ UNCHANGED <<desired, task, init, dep, edits, exits, odd, faults, deaths, rolled, ran>>

WriteFails(a) ==
    /\ pass.pc \in {"record", "forget"} /\ IsNext(a)
    /\ Fault
    /\ Failed(a)
    /\ UNCHANGED <<desired, rec, task, init, witnessed, dep, edits, exits, odd, deaths, rolled, ran>>

\* remove: the record of an exhausted alloc stays while its service is declared.
Forget(a) ==
    /\ pass.pc = "forget" /\ IsNext(a)
    /\ rec' = [rec EXCEPT ![a.i] =
                  IF pass.on /\ (@.st = "failed" \/ @.restarts >= Attempts)
                  THEN [@ EXCEPT !.st = "failed"] ELSE NoRec]
    /\ Applied(a)
    /\ UNCHANGED <<desired, task, init, witnessed, dep, edits, exits, odd, faults, deaths, rolled, ran>>

\* ActionRemoveInit.
Reap(a) ==
    /\ pass.pc = "next" /\ IsNext(a) /\ a.kind = "reap"
    /\ \/ init' = [init EXCEPT ![a.k] = None] /\ Applied(a) /\ UNCHANGED faults
       \/ UNCHANGED init /\ Failed(a) /\ Fault
    /\ UNCHANGED <<desired, rec, task, witnessed, dep, edits, exits, odd, deaths, rolled, ran>>

\* The end of Reconcile: what runs after the actions is witnessed too.
EndPass ==
    /\ pass.pc = "next" /\ pass.todo = {}
    /\ witnessed' = IF pass.applied THEN witnessed \cup RunningNow ELSE witnessed
    /\ pass' = NoPass
    /\ UNCHANGED <<desired, rec, task, init, dep, edits, exits, odd, faults, deaths, rolled, ran>>

Pass ==
    \/ Begin \/ EndPass
    \/ \E a \in pass.todo : \/ Teardown(a) \/ StartContainer(a) \/ AlreadyExists(a)
                            \/ WriteRecord(a) \/ Forget(a) \/ Reap(a)

Faulty ==
    \/ PassAborts
    \/ \E a \in pass.todo : TeardownFails(a) \/ StartFails(a) \/ WriteFails(a)

-----------------------------------------------------------------------------
(***************************************************************************)
(* The containers, the operator, the clock and the daemon's own end.       *)
(***************************************************************************)

Exit(i) ==
    /\ Running(task[i]) /\ exits + odd < MaxExits
    /\ task' = [task EXCEPT ![i].st = "stopped"]
    /\ exits' = exits + 1
    /\ UNCHANGED <<desired, rec, init, witnessed, pass, dep, edits, odd, faults, deaths, rolled, ran>>

\* A container is paused, or its state cannot be read.
Odd(i) ==
    /\ Running(task[i]) /\ exits + odd < MaxExits
    /\ task' = [task EXCEPT ![i].st = "paused"]
    /\ odd' = odd + 1
    /\ UNCHANGED <<desired, rec, init, witnessed, pass, dep, edits, exits, faults, deaths, rolled, ran>>

StepDone(k) ==
    /\ Running(init[k])
    /\ init' = [init EXCEPT ![k].st = "done"]
    /\ ran' = ran \cup {<<init[k].spec, k>>}
    /\ UNCHANGED <<desired, rec, task, witnessed, pass, dep, edits, exits, odd, faults, deaths, rolled>>

StepFails(k) ==
    /\ Running(init[k]) /\ exits + odd < MaxExits
    /\ init' = [init EXCEPT ![k].st = "failed"]
    /\ exits' = exits + 1
    /\ UNCHANGED <<desired, rec, task, witnessed, pass, dep, edits, odd, faults, deaths, rolled, ran>>

\* A pass works on what it loaded, so an edit during one is an edit after it.
Edit(d) ==
    /\ pass.pc = "idle"
    /\ edits < MaxEdits /\ d # desired
    /\ desired' = d /\ edits' = edits + 1
    /\ UNCHANGED <<rec, task, init, witnessed, pass, dep, exits, odd, faults, deaths, rolled, ran>>

Deploy == \E s \in 1..MaxSpec : Edit([desired EXCEPT !.spec = s, !.on = TRUE])
Scale  == Scaling /\ desired.on /\ \E c \in 1..MaxCount : Edit([desired EXCEPT !.count = c])
Delete == Scaling /\ Edit([desired EXCEPT !.on = FALSE])

\* healthyServices, for the services this one depends on.
DependencyServes ==
    /\ pass.pc = "idle" /\ ~dep /\ dep' = TRUE
    /\ UNCHANGED <<desired, rec, task, init, witnessed, pass, edits, exits, odd, faults, deaths, rolled, ran>>

DependencyFails ==
    /\ pass.pc = "idle" /\ HasDependency /\ dep /\ dep' = FALSE
    /\ edits < MaxEdits /\ edits' = edits + 1
    /\ UNCHANGED <<desired, rec, task, init, witnessed, pass, exits, odd, faults, deaths, rolled, ran>>

\* Time: a backoff ends, an alloc has been up for min_healthy, an init step
\* has outlived its timeout.  Deadlines are read when a pass begins.
DeadlinePasses(i, r) ==
    /\ pass.pc = "idle"
    /\ rec[i] # r /\ rec' = [rec EXCEPT ![i] = r]
    /\ UNCHANGED <<desired, task, init, witnessed, pass, dep, edits, exits, odd, faults, deaths, rolled, ran>>

BackoffEnds(i) == DeadlinePasses(i, [rec[i] EXCEPT !.wait = FALSE])
Settles(i) == rec[i].st # "none" /\ Running(task[i]) /\ DeadlinePasses(i, [rec[i] EXCEPT !.young = FALSE])
Overdue == Timeout /\ rec[Leader].st = "init" /\ DeadlinePasses(Leader, [rec[Leader] EXCEPT !.late = TRUE])

\* The daemon dies and another one starts.
Restarted ==
    /\ faults + deaths < MaxTrouble /\ deaths' = deaths + 1
    /\ pass' = NoPass /\ witnessed' = {}

Crash ==
    /\ Restarted
    /\ UNCHANGED <<desired, rec, task, init, dep, edits, exits, odd, faults, rolled, ran>>

\* The daemon dies while the runtime creates a container: it has no task yet,
\* which the runtime reports as stopped with exit code 0, or one not started.
CrashCreating(a) ==
    /\ Starting(a) /\ a.kind \notin {"start", "stepAdopt"}
    /\ LET k == StepOf(a)
       IN  \/ /\ k # 0 /\ (init[k].st = "none" \/ a.kind = "stepRerun")
              /\ \E st \in {"done", "created"} : init' = [init EXCEPT ![k] = Container(st, pass.spec)]
              /\ UNCHANGED task
           \/ /\ k = 0 /\ task[a.i].st = "none"
              /\ \E st \in {"stopped", "created"} : task' = [task EXCEPT ![a.i] = Container(st, pass.spec)]
              /\ UNCHANGED init
    /\ Restarted
    /\ UNCHANGED <<desired, rec, dep, edits, exits, odd, faults, rolled, ran>>

\* The node restarts: no container has a task any more.
Reboot ==
    /\ task' = [i \in Allocs |-> IF task[i] = None THEN None ELSE [task[i] EXCEPT !.st = "stopped"]]
    /\ init' = [k \in StepIds |-> IF init[k] = None THEN None ELSE [init[k] EXCEPT !.st = "done"]]
    /\ Restarted
    /\ UNCHANGED <<desired, rec, dep, edits, exits, odd, faults, rolled, ran>>

Environment ==
    \/ \E i \in Allocs : Exit(i) \/ Odd(i) \/ BackoffEnds(i) \/ Settles(i)
    \/ \E k \in StepIds : StepDone(k) \/ StepFails(k)
    \/ Deploy \/ Scale \/ Delete \/ DependencyServes \/ DependencyFails \/ Overdue

Dies == Crash \/ Reboot \/ \E a \in pass.todo : CrashCreating(a)

Next == Pass \/ Faulty \/ Environment \/ Dies

Spec == Init /\ [][Next]_vars

\* The loop runs on a ticker and its calls return; time passes, whatever the
\* loop is doing (strong, for deadlines pass between passes here), and the
\* services this one depends on come up.
Fairness ==
    /\ WF_vars(Pass)
    /\ \A i \in Allocs : SF_vars(BackoffEnds(i)) /\ SF_vars(Settles(i))
    /\ SF_vars(Overdue)
    /\ SF_vars(DependencyServes)

FairSpec == Spec /\ Fairness

-----------------------------------------------------------------------------
ContainerStates == {"none", "created", "running", "paused", "stopped"}
StepStates == {"none", "created", "running", "done", "failed"}

Records ==
    [st : {"none", "pending", "init", "running", "backoff", "failed"}, spec : 0..MaxSpec,
     restarts : Nat, wait : BOOLEAN, young : BOOLEAN, healthy : BOOLEAN, step : 0..Steps,
     late : BOOLEAN, why : {"none", "exit", "init", "start"}, exited : BOOLEAN, crashes : Nat]

\* Records and containers are well formed, and an alloc in its init sequence
\* is the leader at a step that exists.
TypeOK ==
    /\ desired \in [spec : 1..MaxSpec, count : 1..MaxCount, on : BOOLEAN]
    /\ rec \in [Allocs -> Records]
    /\ task \in [Allocs -> [st : ContainerStates, spec : 0..MaxSpec]]
    /\ init \in [StepIds -> [st : StepStates, spec : 0..MaxSpec]]
    /\ witnessed \subseteq Allocs /\ rolled \subseteq Allocs
    /\ pass.pc \in {"idle", "next", "start", "record", "forget"}
    /\ dep \in BOOLEAN
    /\ edits \in 0..MaxEdits /\ exits \in 0..MaxExits /\ odd \in 0..MaxExits /\ faults \in 0..MaxTrouble
    /\ deaths \in 0..MaxTrouble
    /\ ran \subseteq (1..MaxSpec) \X StepIds
    /\ \A i \in Allocs : rec[i].st = "init" => i = Leader /\ rec[i].step # 0

\* replaceBudget: however passes, faults, deploys and restarts of the daemon
\* interleave, no more than max_parallel wanted allocs are down, or not yet
\* found available again, because a rollout replaced them.
RollingBound == Cardinality({i \in rolled : i < desired.count}) <= MaxParallel

\* init.go, "must not migrate it three times": the steps of a sequence never
\* run beside each other, nor beside the steps of a spec they replace, as long
\* as the daemon lives and no call fails.
OneMigration == Cardinality({k \in StepIds : Running(init[k])}) <= 1

\* create, planInit, the R32 rule "run to completion before its task": the
\* leader's task never runs beside one of its init steps, while at most one
\* call fails or daemon dies (two leave a created task, and a sequence that
\* begins anew beside it).
StepsBeforeTask == ~(Running(task[Leader]) /\ \E k \in StepIds : Running(init[k]))

\* create and stampInitStep keep the restart history of a spec: an alloc
\* crashes at most once more than its budget, and once for each fault or death
\* that turned a charged restart into an uncharged create.
BudgetHolds == \A i \in Allocs : rec[i].crashes <= Attempts + 1 + faults + deaths

\* planRestart: an attempt is charged only for an exit the daemon witnessed (or
\* for a container in an unexpected state, or one a failed teardown stopped),
\* never for what happened while the daemon or the node was down.
OutagesAreFree ==
    \A i \in Allocs : (Steps > 0 => i # Leader) => rec[i].restarts <= rec[i].crashes + odd + faults

\* serviceInitDone, initProgress: a task runs a spec only after every init
\* step of that spec has exited 0.
MigratedFirst ==
    \A i \in Allocs : Running(task[i]) => \A k \in StepIds : <<task[i].spec, k>> \in ran

\* Some alloc has exhausted its restart budget on the declared spec.
Halted == \E i \in Allocs : rec[i].st = "failed" /\ rec[i].spec = desired.spec

Converged ==
    \A i \in Allocs :
        IF Wanted(i, desired)
        THEN Halted \/ (task[i] = Container("running", desired.spec) /\ rec[i].st = "running"
                        /\ rec[i].spec = desired.spec)
        ELSE task[i] = None

\* Reconcile, "let the next pass retry": once nobody edits the service, every
\* alloc runs the declared spec for good, unless one exhausted its budget.
Converges == <>[]Converged

\* The leader's replacement waits for the rolling budget, which an absent
\* follower spends, and the follower waits for the leader's init sequence.
Stalled ==
    /\ Steps > 0 /\ Running(task[Leader]) /\ Stale(rec[Leader], desired.spec)
    /\ Cardinality({i \in Allocs \ {Leader} : i < desired.count /\ task[i] = None}) >= MaxParallel

\* The same, but for that one circle of waits: there is no other.
ConvergesOrStalls == <>[](Converged \/ Stalled)

\* What the records say of an alloc's life.
Life(r) ==
    IF r.st = "none" THEN [phase |-> "absent", spec |-> 0, spent |-> 0]
    ELSE [phase |-> CASE r.st \in {"pending", "init"} -> "starting"
                      [] r.st = "running" -> "up"
                      [] r.st = "backoff" -> "down"
                      [] r.st = "failed" -> "failed",
          spec |-> r.spec, spent |-> r.restarts]

Lifecycle == INSTANCE AllocLifecycle WITH
    Specs <- 1..MaxSpec, Unknown <- 0, Budget <- Attempts,
    declared <- desired.on, disturbed <- faults + deaths # 0,
    alloc <- [i \in Allocs |-> Life(rec[i])]

\* types.go: "Attempts is the maximum number of restarts before the alloc is left
\* failed": the records of the allocs keep the ledger AllocLifecycle describes,
\* through every pass, failure, edit and restart.
KeepsLedger == Lifecycle!Spec

=============================================================================
