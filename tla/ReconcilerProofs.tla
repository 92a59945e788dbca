-------------------------- MODULE ReconcilerProofs --------------------------
(***************************************************************************)
(* The reconcile loop, for every number of allocs, init steps and specs,   *)
(* every policy, and any number of edits, exits and failures: a rollout    *)
(* takes no more than max_parallel allocs down, crashes are charged to the *)
(* restart budget, outages of the daemon or the node are not, and the init *)
(* steps run one at a time and before the task; and the records of the     *)
(* allocs keep the ledger that AllocLifecycle describes.                   *)
(***************************************************************************)
EXTENDS Reconciler, FiniteSetTheorems, WellFoundedInduction, TLAPS

USE DEF Allocs

\* The allocs the plan of the pass under way will still replace.
Replacing == {i \in Allocs : \E a \in pass.todo : a.kind = "replace" /\ a.i = i}

\* What replacements took down, and what the plan will take down, fit together.
RollInv ==
  /\ rolled \subseteq Allocs
  /\ {"pc", "todo", "applied"} \subseteq DOMAIN pass
  /\ \A a \in pass.todo : a.i \in Allocs
  /\ {"spec", "count", "on"} \subseteq DOMAIN desired /\ desired.count \in Nat
  /\ Cardinality(rolled \cup Replacing) <= MaxParallel

LEMMA AllocsFinite == IsFiniteSet(Allocs)
  BY ReconcilerAssumption, FS_Interval

\* A set of allocs is finite, and a part of it is no larger.
LEMMA AllocSets ==
  ASSUME NEW S \in SUBSET Allocs, NEW T \in SUBSET S
  PROVE  /\ IsFiniteSet(S) /\ IsFiniteSet(T)
         /\ Cardinality(S) \in Nat /\ Cardinality(T) \in Nat
         /\ Cardinality(T) <= Cardinality(S)
  BY AllocsFinite, FS_Subset, FS_CardinalityType

-----------------------------------------------------------------------------
(* The budget: replacements that fit, and what is unavailable already, are  *)
(* no more than max_parallel together.                                      *)

\* The replacements planned before alloc i.
Ahead(i, kinds) == {j \in Allocs : j < i /\ kinds[j] = "replace"}

\* Of two replacements the later one has more ahead of it.
LEMMA LaterHasMoreAhead ==
  ASSUME NEW kinds, NEW i \in Allocs, NEW j \in Allocs, i < j, kinds[i] = "replace"
  PROVE  Cardinality(Ahead(i, kinds)) < Cardinality(Ahead(j, kinds))
<1>1. Ahead(i, kinds) \cup {i} \in SUBSET Ahead(j, kinds) /\ Ahead(j, kinds) \in SUBSET Allocs
  BY DEF Ahead
<1>2. IsFiniteSet(Ahead(i, kinds)) /\ Cardinality(Ahead(i, kinds)) \in Nat
  BY <1>1, AllocSets
<1>3. Cardinality(Ahead(i, kinds) \cup {i}) = Cardinality(Ahead(i, kinds)) + 1
  <2>1. i \notin Ahead(i, kinds)
    BY DEF Ahead
  <2> QED
    BY <1>2, <2>1, FS_AddElement
<1>4. /\ Cardinality(Ahead(i, kinds) \cup {i}) <= Cardinality(Ahead(j, kinds))
      /\ Cardinality(Ahead(j, kinds)) \in Nat
  BY <1>1, AllocSets
<1> QED
  BY <1>2, <1>3, <1>4

\* So replacements that fit have different numbers ahead of them, all below
\* what the budget leaves: they are no more than that.
LEMMA BudgetBounds ==
  ASSUME NEW kinds, NEW L \in Nat, NEW U \in Nat, NEW F \in SUBSET Allocs,
         \A i \in F : kinds[i] = "replace" /\ Cardinality(Ahead(i, kinds)) + U < L,
         F # {}
  PROVE  Cardinality(F) + U <= L
<1> DEFINE f == [i \in F |-> Cardinality(Ahead(i, kinds))]
           T == 0..(L - U - 1)
<1>1. \A i \in F : Cardinality(Ahead(i, kinds)) \in Nat
  <2>1. \A i \in F : Ahead(i, kinds) \in SUBSET Allocs
    BY DEF Ahead
  <2> QED
    BY <2>1, AllocSets
<1>2. \A i \in F : f[i] \in T
  BY <1>1
<1>3. \A i, j \in F : f[i] = f[j] => i = j
  <2>1. ASSUME NEW i \in F, NEW j \in F, i < j
        PROVE  f[i] # f[j]
    BY <1>1, <2>1, LaterHasMoreAhead
  <2>2. \A i, j \in F : i < j \/ j < i \/ i = j
    BY ReconcilerAssumption
  <2> QED
    BY <2>1, <2>2
<1>4. f \in Injection(F, T)
  <2>1. f \in [F -> T] /\ DOMAIN f = F
    BY <1>2
  <2> HIDE DEF f, T
  <2> QED
    BY <1>3, <2>1 DEF Injection, IsInjective
<1>5. L - U >= 1
  <2>1. PICK i \in F : TRUE
    OBVIOUS
  <2>2. Cardinality(Ahead(i, kinds)) \in Nat /\ Cardinality(Ahead(i, kinds)) + U < L
    BY <1>1, <2>1
  <2> QED
    BY <2>2
<1>6. IsFiniteSet(T) /\ Cardinality(T) = L - U
  BY <1>5, FS_Interval
<1>7. Cardinality(F) <= Cardinality(T)
  BY <1>4, <1>6, FS_Injection
<1>8. Cardinality(F) \in Nat
  BY AllocSets
<1> QED
  BY <1>6, <1>7, <1>8

-----------------------------------------------------------------------------
(* The steps.                                                              *)

\* A step that takes down no alloc the plan did not count keeps the bound.
LEMMA CountedAllocs ==
  ASSUME RollInv, rolled' \cup Replacing' \subseteq rolled \cup Replacing
  PROVE  rolled' \subseteq Allocs /\ Cardinality(rolled' \cup Replacing') <= MaxParallel
<1>1. rolled \cup Replacing \in SUBSET Allocs
  BY DEF RollInv, Replacing
<1>2. /\ Cardinality(rolled' \cup Replacing') <= Cardinality(rolled \cup Replacing)
      /\ Cardinality(rolled' \cup Replacing') \in Nat /\ Cardinality(rolled \cup Replacing) \in Nat
  BY <1>1, AllocSets
<1> QED
  BY <1>1, <1>2, ReconcilerAssumption DEF RollInv

LEMMA RollInvInit == Init => RollInv
<1> SUFFICES ASSUME Init
             PROVE  RollInv
  OBVIOUS
<1>1. rolled = {} /\ Replacing = {}
  BY DEF Init, Replacing, NoPass
<1>2. Cardinality(rolled \cup Replacing) <= MaxParallel
  BY <1>1, FS_EmptySet, ReconcilerAssumption
<1> QED
  BY <1>1, <1>2, ReconcilerAssumption DEF Init, RollInv, NoPass

\* A pass plans replacements only within what is left of the budget.
LEMMA BeginKeeps ==
  ASSUME RollInv, Begin
  PROVE  RollInv'
<1>1. PICK rs, seen :
        /\ pass' = [pc |-> "next", todo |-> PlanOf(rs, desired, seen),
                    spec |-> desired.spec, count |-> desired.count, on |-> desired.on,
                    applied |-> Waits(rs, desired, seen)]
        /\ rolled' = rolled \cap Unavailable(rs, desired)
  BY DEF Begin
<1>2. UNCHANGED <<desired, task>>
  BY DEF Begin
<1> DEFINE kinds == Kinds(rs, desired, seen)
           Down == Unavailable(rs, desired)
           F == {i \in Allocs : kinds[i] = "replace" /\ Fits(i, kinds, rs, desired)}
<1>3. /\ pass'.todo = PlanOf(rs, desired, seen)
      /\ {"pc", "todo", "applied"} \subseteq DOMAIN pass'
  BY <1>1
<1>4. ASSUME NEW a \in pass'.todo
      PROVE  a.i \in Allocs /\ (a.kind = "replace" => a.i \in F)
  <2>1. CASE \E k \in Reaped(rs, desired, kinds) : a = Action("reap", Leader, k)
    BY <2>1, ReconcilerAssumption DEF Action, Leader
  <2>2. CASE \E i \in Allocs :
               /\ kinds[i] # "replace" \/ Fits(i, kinds, rs, desired)
               /\ \E k : a = Action(kinds[i], i, k)
    <3> HIDE DEF kinds
    <3> QED
      BY <2>2 DEF Action
  <2> QED
    BY <1>3, <1>4, <2>1, <2>2 DEF PlanOf
<1>5. Replacing' \subseteq F
  BY <1>4 DEF Replacing
<1> HIDE DEF F, kinds
<1>6. Down \in SUBSET Allocs /\ F \in SUBSET Allocs
  BY DEF Unavailable, F
<1>7. CASE F = {}
  <2>1. rolled' \cup Replacing' \subseteq rolled \cup Replacing
    BY <1>1, <1>5, <1>7
  <2> QED
    BY <1>2, <1>3, <1>4, <2>1, CountedAllocs DEF RollInv
<1>8. CASE F # {}
  <2> DEFINE L == ParallelLimit(desired)
             U == Cardinality(Down)
  <2>1. U \in Nat /\ IsFiniteSet(Down) /\ Cardinality(F) \in Nat /\ IsFiniteSet(F)
    BY <1>6, AllocSets
  <2>2. L \in Nat /\ L <= MaxParallel
    BY ReconcilerAssumption DEF RollInv, ParallelLimit
  <2>3. \A i \in F : kinds[i] = "replace" /\ Cardinality(Ahead(i, kinds)) + U < L
    BY DEF F, Fits, Ahead
  <2> HIDE DEF L, U, Down
  <2>4. Cardinality(F) + U <= L
    BY <1>6, <1>8, <2>1, <2>2, <2>3, BudgetBounds
  <2>5. Cardinality(Down \cup F) <= U + Cardinality(F)
    <3>1. Cardinality(Down \cup F) = Cardinality(Down) + Cardinality(F) - Cardinality(Down \cap F)
      BY <2>1, FS_Union
    <3>2. Cardinality(Down \cap F) \in Nat
      BY <1>6, AllocSets
    <3> QED
      BY <2>1, <3>1, <3>2 DEF U
  <2>6. /\ rolled' \cup Replacing' \in SUBSET (Down \cup F)
        /\ Down \cup F \in SUBSET Allocs
    BY <1>1, <1>5, <1>6 DEF Down
  <2>7. /\ Cardinality(rolled' \cup Replacing') <= Cardinality(Down \cup F)
        /\ Cardinality(rolled' \cup Replacing') \in Nat /\ Cardinality(Down \cup F) \in Nat
    BY <2>6, AllocSets
  <2>8. Cardinality(rolled' \cup Replacing') <= MaxParallel
    BY <2>1, <2>2, <2>4, <2>5, <2>7, ReconcilerAssumption
  <2> QED
    BY <1>2, <1>3, <1>4, <2>6, <2>8 DEF RollInv
<1> QED
  BY <1>7, <1>8

\* An action takes down what the plan counted, or nothing; once it is over it
\* is no longer in the plan.
LEMMA ActionKeeps ==
  ASSUME RollInv, NEW a \in pass.todo,
         \/ Teardown(a) \/ TeardownFails(a) \/ StartContainer(a) \/ AlreadyExists(a)
         \/ StartFails(a) \/ WriteRecord(a) \/ WriteFails(a) \/ Forget(a) \/ Reap(a)
  PROVE  RollInv'
<1>1. UNCHANGED desired
  BY DEF Teardown, TeardownFails, StartContainer, AlreadyExists, StartFails, WriteRecord,
     WriteFails, Forget, Reap
<1>2. rolled' = rolled \/ (a.kind = "replace" /\ rolled' = rolled \cup {a.i})
  BY DEF Teardown, TeardownFails, StartContainer, AlreadyExists, StartFails, WriteRecord,
     WriteFails, Forget, Reap
<1>3. Applied(a) \/ Failed(a) \/ \E pc : Then(pc)
  BY DEF Teardown, TeardownFails, StartContainer, AlreadyExists, StartFails, WriteRecord,
     WriteFails, Forget, Reap
<1>4. pass'.todo \subseteq pass.todo /\ DOMAIN pass' = DOMAIN pass
  BY <1>3 DEF RollInv, Applied, Failed, Then
<1>5. rolled' \cup Replacing' \subseteq rolled \cup Replacing
  BY <1>2, <1>4 DEF RollInv, Replacing
<1> QED
  BY <1>1, <1>4, <1>5, CountedAllocs DEF RollInv

\* Every other step leaves the plan as it is, or drops it.
LEMMA OtherKeeps ==
  ASSUME RollInv, UNCHANGED rolled, pass' \in {pass, NoPass},
         desired'.count \in Nat, {"spec", "count", "on"} \subseteq DOMAIN desired'
  PROVE  RollInv'
<1>1. pass'.todo \subseteq pass.todo /\ {"pc", "todo", "applied"} \subseteq DOMAIN pass'
  BY DEF RollInv, NoPass
<1>2. rolled' \cup Replacing' \subseteq rolled \cup Replacing
  BY <1>1 DEF Replacing
<1> QED
  BY <1>1, <1>2, CountedAllocs DEF RollInv

LEMMA EnvironmentKeeps ==
  ASSUME RollInv, Environment
  PROVE  RollInv'
<1>1. UNCHANGED <<rolled, pass>>
  BY DEF Environment, Exit, Odd, BackoffEnds, Settles, Overdue, DeadlinePasses, StepDone,
     StepFails, Deploy, Scale, Delete, Edit, DependencyServes, DependencyFails
<1>2. desired'.count \in Nat /\ {"spec", "count", "on"} \subseteq DOMAIN desired'
  <2>1. CASE Deploy \/ Delete
    BY <2>1 DEF Deploy, Delete, Edit, RollInv
  <2>2. CASE Scale
    BY <2>2, ReconcilerAssumption DEF Scale, Edit, RollInv
  <2>3. CASE UNCHANGED desired
    BY <2>3 DEF RollInv
  <2> QED
    BY <2>1, <2>2, <2>3 DEF Environment, Exit, Odd, BackoffEnds, Settles, Overdue,
       DeadlinePasses, StepDone, StepFails, DependencyServes, DependencyFails
<1> QED
  BY <1>1, <1>2, OtherKeeps

LEMMA RollStep == RollInv /\ [Next]_vars => RollInv'
<1> SUFFICES ASSUME RollInv, [Next]_vars
             PROVE  RollInv'
  OBVIOUS
<1>1. CASE EndPass \/ PassAborts \/ Dies \/ UNCHANGED vars
  <2>1. UNCHANGED <<rolled, desired>> /\ pass' \in {pass, NoPass}
    BY <1>1 DEF EndPass, PassAborts, Dies, Crash, Reboot, CrashCreating, Restarted, vars
  <2> QED
    BY <2>1, OtherKeeps DEF RollInv
<1>2. CASE \E a \in pass.todo :
             \/ Teardown(a) \/ TeardownFails(a) \/ StartContainer(a) \/ AlreadyExists(a)
             \/ StartFails(a) \/ WriteRecord(a) \/ WriteFails(a) \/ Forget(a) \/ Reap(a)
  BY <1>2, ActionKeeps
<1> QED
  BY <1>1, <1>2, BeginKeeps, EnvironmentKeeps DEF Next, Pass, Faulty

\* replaceBudget (plan.go): however passes, faults, deploys and restarts of the
\* daemon interleave, no more than max_parallel wanted allocs are down, or not
\* yet found available again, because a rollout replaced them.
THEOREM RolloutsAreBounded == Spec => []RollingBound
<1>1. RollInv => RollingBound
  <2> SUFFICES ASSUME RollInv
               PROVE  RollingBound
    OBVIOUS
  <2>1. /\ rolled \cup Replacing \in SUBSET Allocs
        /\ {i \in rolled : i < desired.count} \in SUBSET (rolled \cup Replacing)
    BY DEF RollInv, Replacing
  <2>2. /\ Cardinality({i \in rolled : i < desired.count}) <= Cardinality(rolled \cup Replacing)
        /\ Cardinality({i \in rolled : i < desired.count}) \in Nat
        /\ Cardinality(rolled \cup Replacing) \in Nat
    BY <2>1, AllocSets
  <2> QED
    BY <2>2, ReconcilerAssumption DEF RollInv, RollingBound
<1> QED
  BY RollInvInit, RollStep, <1>1, PTL DEF Spec

-----------------------------------------------------------------------------
(* Restarts are charged: the restart budget.                               *)

PassFields == {"pc", "todo", "spec", "count", "on", "applied"}
RecFields == {"st", "spec", "restarts", "wait", "young", "healthy", "step", "late", "why",
              "exited", "crashes"}

ActionKinds == TeardownKinds \cup StepKinds \cup {"create", "start", "done", "reap"}

\* What the budget needs to know of a record's shape.
IsRecord(r) == DOMAIN r = RecFields /\ r.restarts \in Nat /\ r.crashes \in Nat

RecTypes ==
  /\ faults \in Nat /\ deaths \in Nat /\ odd \in Nat
  /\ DOMAIN rec = Allocs /\ \A i \in Allocs : IsRecord(rec[i])
  /\ DOMAIN task = Allocs
  /\ \A i \in Allocs : DOMAIN task[i] = {"st", "spec"} /\ task[i].st \in ContainerStates
  /\ DOMAIN pass = PassFields
  /\ pass.pc \in {"idle", "next", "start", "record", "forget"}
  /\ \A a \in pass.todo : /\ a.i \in Allocs /\ a.kind \in ActionKinds
                          /\ a.kind = "reap" => a.k \in Nat

\* How often a call failed or the daemon died so far.
Trouble == faults + deaths
Least(n) == IF n < Attempts THEN n ELSE Attempts

\* The crashes that were not charged are paid for by troubles; and one more.
Spare(i) == rec[i].crashes <= Least(rec[i].restarts) + Trouble
Twice(i) == rec[i].crashes + 1 <= Least(rec[i].restarts) + Trouble

\* The record would be kept by a write of this pass.
Same(i) == rec[i].st # "none" /\ (rec[i].spec = 0 \/ rec[i].spec = pass.spec)

\* The pass is in the middle of the action of alloc i; it has started its task.
Mid(i) ==
  pass.pc \in {"start", "record", "forget"} /\ \E a \in pass.todo : IsNext(a) /\ a.i = i
Starts(i) ==
  pass.pc = "record" /\ \E a \in pass.todo : IsNext(a) /\ a.i = i /\ StepOf(a) = 0

\* A crash that is still to be charged, or that was the last one.
Owing(i) ==
  \/ rec[i].st = "failed" /\ (task[i].st \in {"none", "stopped"} \/ Mid(i))
  \/ /\ rec[i].st = "backoff" /\ rec[i].restarts < Attempts /\ i \in witnessed
     /\ \/ task[i].st = "stopped" \/ Mid(i)
        \/ task[i].st = "none" /\ rec[i].why = "init"

AllocOK(i) ==
  /\ rec[i].crashes <= Least(rec[i].restarts) + 1 + Trouble
  /\ Spare(i) \/ Owing(i)
  /\ rec[i].st = "init" /\ task[i].st # "none" /\ ~Starts(i) => Twice(i)
  /\ rec[i].st = "failed" => rec[i].restarts >= Attempts

\* What the plan of the pass relies on when it comes to an action.
ActionOK(a) ==
  /\ a.kind \in {"create", "recover", "done", "replace"} \cup StepKinds
       => (Same(a.i) => Spare(a.i))
  /\ a.kind = "start" => Spare(a.i)
  /\ a.kind = "restart" => (Same(a.i) => Spare(a.i) \/ rec[a.i].restarts < Attempts)
  /\ a.kind \in StepKinds => rec[a.i].st = "init" /\ Same(a.i)
  /\ a.kind = "done" => rec[a.i].st = "init"
  /\ a.kind = "create" => task[a.i].st = "none" \/ (pass.pc = "record" /\ IsNext(a))

PassOK ==
  /\ pass.pc = "idle" => pass.todo = {}
  /\ \A a \in pass.todo : IsNext(a) =>
       /\ pass.pc \in {"start", "record"} => a.kind \notin {"remove", "reap"}
       /\ pass.pc \in {"start", "forget"} => task[a.i].st = "none"
       /\ pass.pc = "forget" => a.kind = "remove"
       /\ pass.pc = "record" /\ StepOf(a) # 0 /\ a.kind \notin StepKinds
            => task[a.i].st = "none"

BudgetInv ==
  /\ RecTypes /\ PassOK
  /\ \A i \in Allocs : AllocOK(i)
  /\ \A a \in pass.todo : ActionOK(a)

\* One action is next.
LEMMA NextIsOne ==
  ASSUME RecTypes, NEW a, NEW b, IsNext(a), IsNext(b)
  PROVE  a = b
<1>1. a \in pass.todo /\ b \in pass.todo /\ (a = b \/ (Before(a, b) /\ Before(b, a)))
  BY DEF IsNext
<1>2. a.i \in Nat /\ b.i \in Nat /\ (a.kind = "reap" => a.k \in Nat) /\ (b.kind = "reap" => b.k \in Nat)
  BY <1>1, ReconcilerAssumption DEF RecTypes
<1>3. ~(Before(a, b) /\ Before(b, a))
  BY <1>2 DEF Before
<1> QED
  BY <1>1, <1>3

\* How an action leaves the pass.
LEMMA ThenFacts ==
  ASSUME RecTypes, NEW x, Then(x)
  PROVE  /\ DOMAIN pass' = PassFields /\ pass'.pc = x /\ pass'.todo = pass.todo
         /\ pass'.spec = pass.spec /\ pass'.on = pass.on
  BY DEF RecTypes, Then, PassFields

LEMMA OverFacts ==
  ASSUME RecTypes, NEW a, Applied(a) \/ Failed(a)
  PROVE  /\ DOMAIN pass' = PassFields /\ pass'.pc = "next" /\ pass'.todo = pass.todo \ {a}
         /\ pass'.spec = pass.spec /\ pass'.on = pass.on
<1>1. CASE Applied(a)
  BY <1>1 DEF RecTypes, Applied, PassFields
<1>2. CASE Failed(a)
  BY <1>2 DEF RecTypes, Failed, PassFields
<1> QED
  BY <1>1, <1>2

\* What the writes do to a record.
LEMMA ExitedFacts ==
  ASSUME NEW r, IsRecord(r), NEW why, NEW seen \in BOOLEAN
  PROVE  LET x == Exited(r, why, seen)
         IN  /\ IsRecord(x) /\ x.restarts = r.restarts /\ x.why = why /\ x.spec = r.spec
             /\ seen => x.crashes = r.crashes + 1
             /\ ~seen => x.crashes = r.crashes
             /\ x.st = IF seen /\ r.restarts >= Attempts THEN "failed" ELSE "backoff"
  BY DEF Exited, IsRecord, RecFields

LEMMA StartFailureFacts ==
  ASSUME NEW r, IsRecord(r)
  PROVE  LET x == StartFailure(r)
         IN  /\ IsRecord(x) /\ x.why = "start"
             /\ \/ x.restarts = r.restarts /\ x.crashes = r.crashes /\ x.st = r.st
                   /\ x.spec = r.spec /\ r.st # "none"
                \/ x.restarts = 0 /\ x.crashes = 0 /\ x.st = "pending" /\ r.st = "none"
  BY DEF StartFailure, IsRecord, RecFields, NoRec

LEMMA MarkRunningFacts ==
  ASSUME NEW r, IsRecord(r)
  PROVE  LET x == MarkRunning(r)
         IN  /\ IsRecord(x) /\ x.restarts = r.restarts /\ x.crashes = r.crashes
             /\ x.why = r.why /\ x.spec = r.spec
             /\ x.st = IF r.st = "none" THEN "none" ELSE "running"
  BY DEF MarkRunning, IsRecord, RecFields

LEMMA NewRecordFacts ==
  ASSUME NEW r, IsRecord(r), NEW a
  PROVE  LET x == NewRecord(r, a)
             same == r.st # "none" /\ (r.spec = 0 \/ r.spec = pass.spec)
         IN  /\ IsRecord(x)
             /\ x.st = IF StepOf(a) = 0 THEN "running" ELSE "init"
             /\ ~same => x.restarts = 0 /\ x.crashes = 0 /\ x.why = "none"
             /\ same => /\ x.restarts = r.restarts + IF a.kind = "restart" THEN 1 ELSE 0
                        /\ x.crashes = r.crashes
                        /\ x.why \in {r.why, "none"}
<1> DEFINE same == r.st # "none" /\ (r.spec = 0 \/ r.spec = pass.spec)
           x == NewRecord(r, a)
<1>1. DOMAIN x = RecFields /\ x.st = (IF StepOf(a) = 0 THEN "running" ELSE "init")
  BY DEF NewRecord, RecordWith, NoRec, RecFields
<1>2. x.restarts = IF same THEN r.restarts + (IF a.kind = "restart" THEN 1 ELSE 0) ELSE 0
  BY DEF NewRecord, RecordWith, NoRec
<1>3. x.crashes = IF same THEN r.crashes ELSE 0
  BY DEF NewRecord, RecordWith, NoRec
<1>4. x.why = IF same /\ r.exited THEN r.why ELSE "none"
  BY DEF NewRecord, RecordWith, NoRec
<1> HIDE DEF x, same
<1>5. x.restarts \in Nat /\ x.crashes \in Nat
  BY <1>2, <1>3 DEF IsRecord
<1>6. IsRecord(x)
  BY <1>1, <1>5 DEF IsRecord
<1>7. (~same => x.restarts = 0 /\ x.crashes = 0 /\ x.why = "none") /\ (same => x.why \in {r.why, "none"})
  BY <1>2, <1>3, <1>4
<1>8. same => x.restarts = r.restarts + (IF a.kind = "restart" THEN 1 ELSE 0) /\ x.crashes = r.crashes
  BY <1>2, <1>3
<1> QED
  BY <1>1, <1>6, <1>7, <1>8 DEF x, same

\* Only the other allocs' actions, and the removal of init containers, wait
\* behind the action that is next.
LEMMA OthersWait ==
  ASSUME RecTypes, NEW a, IsNext(a), NEW b \in pass.todo, b # a
  PROVE  ~IsNext(b) /\ (b.i # a.i \/ b.kind = "reap")
<1>1. a \in pass.todo /\ Before(a, b)
  BY DEF IsNext
<1>2. ~IsNext(b)
  BY NextIsOne
<1>3. a.i \in Nat /\ b.i \in Nat
  BY <1>1, ReconcilerAssumption DEF RecTypes
<1> QED
  BY <1>1, <1>2, <1>3 DEF Before

\* Two records that the budget does not tell apart.
Alike(r, q) ==
  r.st = q.st /\ r.spec = q.spec /\ r.restarts = q.restarts /\ r.crashes = q.crashes /\ r.why = q.why

\* An alloc that a step does not touch.
LEMMA AllocStays ==
  ASSUME NEW i \in Allocs, AllocOK(i), Alike(rec'[i], rec[i]),
         task'[i].st = task[i].st, faults' = faults, deaths' = deaths,
         i \in witnessed => i \in witnessed',
         Mid(i) => Mid(i)', Starts(i) => Starts(i)'
  PROVE  AllocOK(i)'
<1>1. /\ rec'[i].st = rec[i].st /\ rec'[i].restarts = rec[i].restarts
      /\ rec'[i].crashes = rec[i].crashes /\ rec'[i].why = rec[i].why
  BY DEF Alike
<1>2. Spare(i)' = Spare(i) /\ Twice(i)' = Twice(i) /\ Trouble' = Trouble
  BY <1>1 DEF Spare, Twice, Trouble, Least
<1>3. Owing(i) => Owing(i)'
  BY <1>1 DEF Owing
<1>4. Least(rec[i].restarts)' = Least(rec[i].restarts)
  BY <1>1 DEF Least
<1> QED
  BY <1>1, <1>2, <1>3, <1>4 DEF AllocOK

\* A failed call or a death pays for the crash that was still to be charged.
LEMMA TroublePays ==
  ASSUME RecTypes, NEW i \in Allocs, AllocOK(i), IsRecord(rec[i])',
         Trouble' = Trouble + 1,
         \/ /\ rec'[i].st = rec[i].st /\ rec'[i].restarts = rec[i].restarts
            /\ rec'[i].crashes = rec[i].crashes
         \/ rec'[i].st \notin {"failed"} /\ rec'[i].restarts = 0 /\ rec'[i].crashes = 0
  PROVE  AllocOK(i)' /\ Spare(i)'
<1>1. rec[i].restarts \in Nat /\ rec[i].crashes \in Nat /\ Trouble \in Nat /\ Attempts \in Nat \ {0}
  BY ReconcilerAssumption DEF RecTypes, IsRecord, Trouble
<1>2. CASE /\ rec'[i].st = rec[i].st /\ rec'[i].restarts = rec[i].restarts
           /\ rec'[i].crashes = rec[i].crashes
  <2>1. Least(rec[i].restarts)' = Least(rec[i].restarts) /\ Least(rec[i].restarts) \in Nat
    BY <1>1, <1>2 DEF Least
  <2>2. Spare(i)'
    BY <1>1, <1>2, <2>1 DEF AllocOK, Spare
  <2>3. Spare(i) => Twice(i)'
    BY <1>1, <1>2, <2>1 DEF Spare, Twice
  <2>4. rec[i].st = "init" => Spare(i)
    BY DEF AllocOK, Owing
  <2>5. (rec[i].crashes <= Least(rec[i].restarts) + 1 + Trouble)'
    BY <1>1, <1>2, <2>1 DEF AllocOK
  <2> QED
    BY <1>2, <2>2, <2>3, <2>4, <2>5 DEF AllocOK
<1>3. CASE rec'[i].st \notin {"failed"} /\ rec'[i].restarts = 0 /\ rec'[i].crashes = 0
  <2>1. Least(rec[i].restarts)' = 0
    BY <1>1, <1>3 DEF Least
  <2>2. Spare(i)' /\ Twice(i)' /\ (rec[i].crashes <= Least(rec[i].restarts) + 1 + Trouble)'
    BY <1>1, <1>3, <2>1 DEF Spare, Twice
  <2> QED
    BY <1>3, <2>2 DEF AllocOK
<1> QED
  BY <1>2, <1>3

LEMMA TroubleCounts == (RecTypes => Trouble \in Nat) /\ (RecTypes' => Trouble' \in Nat)
  BY DEF RecTypes, Trouble

\* An action that waits behind one of another alloc.
LEMMA ActionStays ==
  ASSUME NEW b \in pass.todo, RecTypes, RecTypes', ActionOK(b), ~IsNext(b),
         Alike(rec'[b.i], rec[b.i]), task'[b.i].st = task[b.i].st,
         pass'.spec = pass.spec, Trouble' >= Trouble
  PROVE  ActionOK(b)'
<1> DEFINE i == b.i
<1>1. i \in Allocs
  BY DEF RecTypes
<1>2. /\ rec'[i].st = rec[i].st /\ rec'[i].restarts = rec[i].restarts
      /\ rec'[i].crashes = rec[i].crashes /\ rec'[i].spec = rec[i].spec
  BY DEF Alike
<1>3. /\ rec[i].restarts \in Nat /\ rec[i].crashes \in Nat /\ Attempts \in Nat
      /\ Trouble \in Nat /\ Trouble' \in Nat /\ Trouble' >= Trouble
  <2>1. IsRecord(rec[i])
    BY <1>1 DEF RecTypes
  <2>2. Trouble \in Nat /\ Trouble' \in Nat
    BY TroubleCounts
  <2>3. rec[i].restarts \in Nat /\ rec[i].crashes \in Nat
    BY <2>1 DEF IsRecord
  <2> QED
    BY <2>2, <2>3, ReconcilerAssumption
<1>4. Least(rec[i].restarts)' = Least(rec[i].restarts) /\ Least(rec[i].restarts) \in Nat
  BY <1>2, <1>3 DEF Least
<1>5. Spare(i) => Spare(i)'
  BY <1>2, <1>3, <1>4 DEF Spare
<1>6. Same(i)' = Same(i)
  BY <1>2 DEF Same
<1> QED
  BY <1>2, <1>5, <1>6 DEF ActionOK

\* The pass is in the middle of no other alloc's action.
LEMMA OneIsMid ==
  ASSUME RecTypes, NEW a, IsNext(a), NEW i, i # a.i
  PROVE  ~Mid(i) /\ ~Starts(i)
  BY NextIsOne DEF Mid, Starts

LEMMA OthersStay ==
  ASSUME RecTypes, NEW a, IsNext(a), NEW i \in Allocs, i # a.i, AllocOK(i),
         Alike(rec'[i], rec[i]), task'[i].st = task[i].st, faults' = faults, deaths' = deaths,
         i \in witnessed => i \in witnessed'
  PROVE  AllocOK(i)'
  BY OneIsMid, AllocStays

LEMMA AllStay ==
  ASSUME RecTypes, pass.pc \in {"idle", "next"}, NEW i \in Allocs, AllocOK(i),
         Alike(rec'[i], rec[i]), task'[i].st = task[i].st, faults' = faults, deaths' = deaths,
         i \in witnessed => i \in witnessed'
  PROVE  AllocOK(i)'
<1>1. ~Mid(i) /\ ~Starts(i)
  BY DEF Mid, Starts
<1> QED
  BY <1>1, AllocStays

\* When an action is over, what the plan relies on holds of the rest.
LEMMA ActionOver ==
  ASSUME BudgetInv, NEW a, IsNext(a), Applied(a) \/ Failed(a), RecTypes',
         Trouble' >= Trouble,
         \A i \in Allocs : i # a.i => Alike(rec'[i], rec[i]) /\ task'[i].st = task[i].st
  PROVE  PassOK' /\ \A b \in pass'.todo : ActionOK(b)'
<1>1. pass'.pc = "next" /\ pass'.todo = pass.todo \ {a} /\ pass'.spec = pass.spec
  BY OverFacts DEF BudgetInv
<1>2. PassOK'
  BY <1>1 DEF PassOK
<1>3. ASSUME NEW b \in pass'.todo
      PROVE  ActionOK(b)'
  <2>1. b \in pass.todo /\ b # a /\ ActionOK(b) /\ RecTypes
    BY <1>1 DEF BudgetInv
  <2>2. ~IsNext(b) /\ (b.i # a.i \/ b.kind = "reap")
    BY <2>1, OthersWait
  <2>3. CASE b.i # a.i
    <3>1. b.i \in Allocs
      BY <2>1 DEF RecTypes
    <3> QED
      BY <1>1, <2>1, <2>2, <2>3, <3>1, ActionStays
  <2>4. CASE b.kind = "reap"
    BY <2>4 DEF ActionOK, StepKinds
  <2> QED
    BY <2>2, <2>3, <2>4
<1> QED
  BY <1>2, <1>3

\* Every step that is a failed call or a death.
LEMMA TroubleKeeps ==
  ASSUME BudgetInv, RecTypes', Trouble' = Trouble + 1,
         \A i \in Allocs :
           \/ /\ rec'[i].st = rec[i].st /\ rec'[i].restarts = rec[i].restarts
              /\ rec'[i].crashes = rec[i].crashes
           \/ rec'[i].st \notin {"failed"} /\ rec'[i].restarts = 0 /\ rec'[i].crashes = 0
  PROVE  \A i \in Allocs : AllocOK(i)'
<1>1. \A i \in Allocs : IsRecord(rec[i])'
  BY DEF RecTypes
<1>2. RecTypes /\ \A i \in Allocs : AllocOK(i)
  BY DEF BudgetInv
<1> QED
  BY <1>1, <1>2, TroublePays

-----------------------------------------------------------------------------
(* The steps of a pass.                                                    *)

LEMMA TeardownBudget ==
  ASSUME BudgetInv, NEW a \in pass.todo, Teardown(a)
  PROVE  BudgetInv'
<1>1. RecTypes /\ PassOK /\ IsNext(a) /\ a.i \in Allocs /\ pass.pc = "next"
  BY DEF BudgetInv, RecTypes, Teardown
<1>2. /\ rec' = rec /\ faults' = faults /\ deaths' = deaths /\ odd' = odd /\ witnessed' = witnessed
      /\ a.kind \in TeardownKinds
  BY DEF Teardown
<1>3. ASSUME Failed(a), task' = task
      PROVE  BudgetInv'
  <2>1. pass'.pc = "next" /\ pass'.todo = pass.todo \ {a} /\ DOMAIN pass' = PassFields
    BY <1>1, <1>3, OverFacts
  <2>2. RecTypes'
    BY <1>1, <1>2, <1>3, <2>1 DEF RecTypes
  <2>3. \A i \in Allocs : AllocOK(i)'
    BY <1>1, <1>2, <1>3, AllStay DEF Alike, BudgetInv
  <2>4. PassOK' /\ \A b \in pass'.todo : ActionOK(b)'
    BY <1>1, <1>2, <1>3, <2>2, ActionOver DEF Alike, RecTypes, Trouble
  <2> QED
    BY <2>2, <2>3, <2>4 DEF BudgetInv
<1>4. ASSUME task' = [task EXCEPT ![a.i] = None],
             Then(IF a.kind = "remove" THEN "forget" ELSE "start")
      PROVE  BudgetInv'
  <2> DEFINE pc == IF a.kind = "remove" THEN "forget" ELSE "start"
  <2>1. /\ pass'.pc = pc /\ pass'.todo = pass.todo /\ DOMAIN pass' = PassFields
        /\ pass'.spec = pass.spec
    BY <1>1, <1>4, ThenFacts
  <2>2. /\ DOMAIN task' = Allocs /\ task'[a.i] = None
        /\ \A i \in Allocs : i # a.i => task'[i] = task[i]
    BY <1>1, <1>4 DEF RecTypes
  <2>3. \A b : IsNext(b)' <=> IsNext(b)
    BY <2>1 DEF IsNext
  <2>4. RecTypes'
    <3>1. \A i \in Allocs : DOMAIN task'[i] = {"st", "spec"} /\ task'[i].st \in ContainerStates
      BY <1>1, <2>2 DEF RecTypes, None, ContainerStates
    <3> QED
      BY <1>1, <1>2, <2>1, <2>2, <3>1 DEF RecTypes
  <2>5. ASSUME NEW i \in Allocs, i # a.i
        PROVE  AllocOK(i)'
    BY <1>1, <1>2, <2>2, <2>5, OthersStay DEF BudgetInv, Alike
  <2>6. AllocOK(a.i)'
    <3>1. AllocOK(a.i)
      BY <1>1 DEF BudgetInv
    <3>2. task'[a.i].st = "none" /\ Mid(a.i)' /\ ~Mid(a.i)
      BY <1>1, <2>1, <2>2, <2>3 DEF None, Mid
    <3>3. Owing(a.i) => Owing(a.i)'
      BY <1>2, <3>2 DEF Owing
    <3>4. Spare(a.i) => Spare(a.i)'
      BY <1>2 DEF Spare, Trouble, Least
    <3>5. (rec[a.i].crashes <= Least(rec[a.i].restarts) + 1 + Trouble)'
      BY <1>2, <3>1 DEF AllocOK, Trouble, Least
    <3> QED
      BY <1>2, <3>1, <3>2, <3>3, <3>4, <3>5 DEF AllocOK
  <2>7. PassOK'
    <3>1. ASSUME NEW b \in pass'.todo, IsNext(b)'
          PROVE  b = a
      BY <1>1, <2>3, <3>1, NextIsOne
    <3>2. task'[a.i].st = "none" /\ a.kind \notin {"reap"} /\ pass'.pc \in {"start", "forget"}
      BY <1>2, <2>1, <2>2 DEF None, TeardownKinds
    <3>3. (pass'.pc = "start" => a.kind # "remove") /\ (pass'.pc = "forget" => a.kind = "remove")
      BY <2>1
    <3> QED
      BY <3>1, <3>2, <3>3 DEF PassOK
  <2>8. ASSUME NEW b \in pass'.todo
        PROVE  ActionOK(b)'
    <3>1. b \in pass.todo /\ ActionOK(b)
      BY <2>1 DEF BudgetInv
    <3>2. CASE b = a
      <4>1. a.kind \notin StepKinds \cup {"create", "done", "start"}
        BY <1>2 DEF TeardownKinds, StepKinds
      <4>2. (Same(a.i) <=> Same(a.i)') /\ (Spare(a.i) <=> Spare(a.i)')
        BY <1>2, <2>1 DEF Same, Spare, Trouble, Least
      <4> QED
        BY <1>2, <3>1, <3>2, <4>1, <4>2 DEF ActionOK
    <3>3. CASE b # a
      <4>1. ~IsNext(b) /\ (b.i # a.i \/ b.kind = "reap")
        BY <1>1, <3>1, <3>3, OthersWait
      <4>2. CASE b.i # a.i
        BY <1>1, <1>2, <2>1, <2>2, <2>4, <3>1, <4>1, <4>2, ActionStays DEF Alike, RecTypes, Trouble
      <4>3. CASE b.kind = "reap"
        BY <4>3 DEF ActionOK, StepKinds
      <4> QED
        BY <4>1, <4>2, <4>3
    <3> QED
      BY <3>2, <3>3
  <2> QED
    BY <2>4, <2>5, <2>6, <2>7, <2>8 DEF BudgetInv
<1> QED
  BY <1>3, <1>4 DEF Teardown

LEMMA StartContainerBudget ==
  ASSUME BudgetInv, NEW a \in pass.todo, StartContainer(a)
  PROVE  BudgetInv'
<1>1. RecTypes /\ PassOK /\ IsNext(a) /\ a.i \in Allocs /\ AllocOK(a.i) /\ ActionOK(a)
  BY DEF BudgetInv, RecTypes, StartContainer, Starting
<1>2. /\ rec' = rec /\ faults' = faults /\ deaths' = deaths /\ odd' = odd /\ witnessed' = witnessed
      /\ Then("record")
  BY DEF StartContainer
<1>3. \/ pass.pc = "start"
      \/ pass.pc = "next" /\ a.kind \in {"create", "done", "start"} \cup StepKinds
  BY DEF StartContainer, Starting
<1>4. /\ DOMAIN task' = Allocs /\ \A i \in Allocs : i # a.i => task'[i] = task[i]
      /\ StepOf(a) # 0 => task' = task
      /\ DOMAIN task'[a.i] = {"st", "spec"} /\ task'[a.i].st \in ContainerStates
  <2>1. CASE StepOf(a) # 0
    BY <1>1, <2>1 DEF StartContainer, RecTypes
  <2>2. CASE StepOf(a) = 0
    BY <1>1, <2>2 DEF StartContainer, RecTypes, Container, ContainerStates
  <2> QED
    BY <2>1, <2>2
<1>5. /\ pass'.pc = "record" /\ pass'.todo = pass.todo /\ DOMAIN pass' = PassFields
      /\ pass'.spec = pass.spec
  BY <1>1, <1>2, ThenFacts
<1>6. \A b : IsNext(b)' <=> IsNext(b)
  BY <1>5 DEF IsNext
<1>7. RecTypes'
  <2>1. \A i \in Allocs : DOMAIN task'[i] = {"st", "spec"} /\ task'[i].st \in ContainerStates
    BY <1>1, <1>4 DEF RecTypes
  <2> QED
    BY <1>1, <1>2, <1>4, <1>5, <2>1 DEF RecTypes
<1>8. ASSUME NEW i \in Allocs, i # a.i
      PROVE  AllocOK(i)'
  BY <1>1, <1>2, <1>4, <1>8, OthersStay DEF BudgetInv, Alike
<1>9. AllocOK(a.i)'
  <2>1. Mid(a.i)' /\ ~Starts(a.i)
    BY <1>1, <1>3, <1>5, <1>6 DEF Mid, Starts
  <2>2. StepOf(a) = 0 => Starts(a.i)'
    BY <1>1, <1>5, <1>6 DEF Starts, StepOf
  <2>3. Owing(a.i) => Owing(a.i)'
    BY <1>2, <2>1 DEF Owing
  <2>4. (Spare(a.i) => Spare(a.i)') /\ (Twice(a.i) => Twice(a.i)')
    BY <1>2 DEF Spare, Twice, Trouble, Least
  <2>5. (rec[a.i].crashes <= Least(rec[a.i].restarts) + 1 + Trouble)'
    BY <1>1, <1>2 DEF AllocOK, Trouble, Least
  <2> QED
    BY <1>1, <1>2, <1>4, <2>1, <2>2, <2>3, <2>4, <2>5 DEF AllocOK
<1>10. PassOK'
  <2>1. ASSUME NEW b \in pass'.todo, IsNext(b)'
        PROVE  b = a
    BY <1>1, <1>6, <2>1, NextIsOne
  <2>2. a.kind \notin {"remove", "reap"}
    BY <1>1, <1>3 DEF PassOK, StepKinds
  <2>3. StepOf(a) # 0 /\ a.kind \notin StepKinds => task'[a.i].st = "none"
    <3>1. CASE pass.pc = "start"
      BY <1>1, <1>4, <3>1 DEF PassOK
    <3>2. CASE pass.pc = "next" /\ a.kind = "create"
      BY <1>1, <1>4, <3>2 DEF ActionOK
    <3>3. CASE a.kind \in {"done", "start"}
      BY <3>3 DEF StepOf
    <3> QED
      BY <1>3, <3>1, <3>2, <3>3
  <2>4. StepOf(a)' = StepOf(a)
    BY DEF StepOf
  <2> QED
    BY <1>5, <2>1, <2>2, <2>3, <2>4 DEF PassOK
<1>11. ASSUME NEW b \in pass'.todo
       PROVE  ActionOK(b)'
  <2>1. b \in pass.todo /\ ActionOK(b)
    BY <1>5 DEF BudgetInv
  <2>2. CASE b = a
    <3>1. (Same(a.i) <=> Same(a.i)') /\ (Spare(a.i) <=> Spare(a.i)')
      BY <1>2, <1>5 DEF Same, Spare, Trouble, Least
    <3>2. pass'.pc = "record" /\ IsNext(a)'
      BY <1>1, <1>5, <1>6
    <3> QED
      BY <1>1, <1>2, <2>2, <3>1, <3>2 DEF ActionOK
  <2>3. CASE b # a
    <3>1. ~IsNext(b) /\ (b.i # a.i \/ b.kind = "reap")
      BY <1>1, <2>1, <2>3, OthersWait
    <3>2. CASE b.i # a.i
      BY <1>1, <1>2, <1>4, <1>5, <1>7, <2>1, <3>1, <3>2, ActionStays DEF Alike, RecTypes, Trouble
    <3>3. CASE b.kind = "reap"
      BY <3>3 DEF ActionOK, StepKinds
    <3> QED
      BY <3>1, <3>2, <3>3
  <2> QED
    BY <2>2, <2>3
<1> QED
  BY <1>7, <1>8, <1>9, <1>10, <1>11 DEF BudgetInv

\* Only an init sequence finds its task there already.
LEMMA AlreadyExistsBudget ==
  ASSUME BudgetInv, NEW a \in pass.todo, AlreadyExists(a)
  PROVE  BudgetInv'
<1>1. RecTypes /\ PassOK /\ IsNext(a) /\ a.i \in Allocs /\ AllocOK(a.i) /\ ActionOK(a)
  BY DEF BudgetInv, RecTypes, AlreadyExists, Starting
<1>2. /\ rec' = [rec EXCEPT ![a.i] = StartFailure(@)] /\ faults' = faults /\ deaths' = deaths
      /\ odd' = odd /\ witnessed' = witnessed /\ task' = task /\ Failed(a)
      /\ task[a.i].st # "none" /\ a.kind # "start"
  BY DEF AlreadyExists
<1>3. pass.pc = "next" /\ rec[a.i].st = "init"
  <2>1. pass.pc # "start"
    BY <1>1, <1>2 DEF PassOK
  <2>2. pass.pc = "next" /\ a.kind \in {"create", "done", "start"} \cup StepKinds
    BY <2>1 DEF AlreadyExists, Starting
  <2>3. a.kind # "create"
    BY <1>1, <1>2, <2>2 DEF ActionOK
  <2> QED
    BY <1>1, <1>2, <2>2, <2>3 DEF ActionOK
<1>4. /\ DOMAIN rec' = Allocs /\ rec'[a.i] = StartFailure(rec[a.i])
      /\ \A i \in Allocs : i # a.i => rec'[i] = rec[i]
  BY <1>1, <1>2 DEF RecTypes
<1>5. /\ IsRecord(rec'[a.i]) /\ rec'[a.i].st = rec[a.i].st
      /\ rec'[a.i].restarts = rec[a.i].restarts /\ rec'[a.i].crashes = rec[a.i].crashes
  <2>1. IsRecord(rec[a.i])
    BY <1>1 DEF RecTypes
  <2> QED
    BY <1>3, <1>4, <2>1, StartFailureFacts
<1>6. /\ pass'.pc = "next" /\ pass'.todo = pass.todo \ {a} /\ DOMAIN pass' = PassFields
  BY <1>1, <1>2, OverFacts
<1>7. RecTypes'
  <2>1. \A i \in Allocs : IsRecord(rec'[i])
    BY <1>1, <1>4, <1>5 DEF RecTypes
  <2> QED
    BY <1>1, <1>2, <1>4, <1>6, <2>1 DEF RecTypes
<1>8. ASSUME NEW i \in Allocs, i # a.i
      PROVE  AllocOK(i)'
  BY <1>1, <1>2, <1>4, <1>8, OthersStay DEF BudgetInv, Alike
<1>9. AllocOK(a.i)'
  <2>1. Twice(a.i)
    BY <1>1, <1>2, <1>3 DEF AllocOK, Starts
  <2>2. Spare(a.i)
    BY <1>1, <1>3 DEF AllocOK, Owing
  <2>3. Spare(a.i)' /\ Twice(a.i)'
    BY <1>2, <1>5, <2>1, <2>2 DEF Spare, Twice, Trouble, Least
  <2>4. (rec[a.i].crashes <= Least(rec[a.i].restarts) + 1 + Trouble)'
    BY <1>1, <1>2, <1>5 DEF AllocOK, Trouble, Least
  <2> QED
    BY <1>3, <1>5, <2>3, <2>4 DEF AllocOK
<1>10. PassOK' /\ \A b \in pass'.todo : ActionOK(b)'
  BY <1>1, <1>2, <1>4, <1>7, ActionOver DEF Alike, RecTypes, Trouble
<1> QED
  BY <1>7, <1>8, <1>9, <1>10 DEF BudgetInv

LEMMA WriteRecordBudget ==
  ASSUME BudgetInv, NEW a \in pass.todo, WriteRecord(a)
  PROVE  BudgetInv'
<1> DEFINE i == a.i
           r == rec[i]
           x == rec'[i]
<1>1. RecTypes /\ PassOK /\ IsNext(a) /\ i \in Allocs /\ AllocOK(i) /\ ActionOK(a)
      /\ pass.pc = "record" /\ IsRecord(r) /\ a.kind \in ActionKinds
  BY DEF BudgetInv, RecTypes, WriteRecord
<1>2. /\ rec' = [rec EXCEPT ![a.i] = IF a.kind = "start" THEN MarkRunning(@) ELSE NewRecord(@, a)]
      /\ faults' = faults /\ deaths' = deaths /\ odd' = odd /\ witnessed \subseteq witnessed'
      /\ task' = task /\ Applied(a)
  BY DEF WriteRecord
<1>3. /\ DOMAIN rec' = Allocs /\ \A j \in Allocs : j # i => rec'[j] = rec[j]
      /\ x = IF a.kind = "start" THEN MarkRunning(r) ELSE NewRecord(r, a)
  BY <1>1, <1>2 DEF RecTypes
<1>4. IsRecord(x)
  <2>1. IsRecord(MarkRunning(r)) /\ IsRecord(NewRecord(r, a))
    BY <1>1, MarkRunningFacts, NewRecordFacts
  <2> QED
    BY <1>3, <2>1
<1>5. pass'.pc = "next" /\ pass'.todo = pass.todo \ {a} /\ DOMAIN pass' = PassFields
  BY <1>1, <1>2, OverFacts
<1>6. RecTypes'
  <2>1. \A j \in Allocs : IsRecord(rec'[j])
    BY <1>1, <1>3, <1>4 DEF RecTypes
  <2> QED
    BY <1>1, <1>2, <1>3, <1>5, <2>1 DEF RecTypes
<1>7. ASSUME NEW j \in Allocs, j # i
      PROVE  AllocOK(j)'
  BY <1>1, <1>2, <1>3, <1>7, OthersStay DEF BudgetInv, Alike
<1>8. PassOK' /\ \A b \in pass'.todo : ActionOK(b)'
  BY <1>1, <1>2, <1>3, <1>6, ActionOver DEF Alike, RecTypes, Trouble
<1>9. /\ Attempts \in Nat \ {0} /\ Trouble \in Nat /\ Trouble' = Trouble
      /\ r.restarts \in Nat /\ r.crashes \in Nat
  BY <1>1, <1>2, ReconcilerAssumption DEF RecTypes, IsRecord, Trouble
<1>10. ASSUME Spare(i)', x.st \in {"none", "running", "init"},
              x.st = "init" /\ task[i].st # "none" => Twice(i)'
       PROVE  AllocOK(i)'
  <2>1. Least(x.restarts) \in Nat /\ x.crashes \in Nat
    BY <1>4, <1>9 DEF Least, IsRecord
  <2>2. (rec[i].crashes <= Least(rec[i].restarts) + 1 + Trouble)'
    BY <1>9, <1>10, <2>1 DEF Spare, Least
  <2> QED
    BY <1>2, <1>10, <2>2 DEF AllocOK
<1>11. ASSUME a.kind = "start"
       PROVE  AllocOK(i)'
  <2>1. Spare(i) /\ x = MarkRunning(r)
    BY <1>1, <1>3, <1>11 DEF ActionOK
  <2>2. x.restarts = r.restarts /\ x.crashes = r.crashes /\ x.st \in {"none", "running"}
    BY <1>1, <2>1, MarkRunningFacts
  <2>3. Spare(i)'
    BY <1>9, <2>1, <2>2 DEF Spare, Least
  <2> QED
    BY <1>10, <2>2, <2>3
<1>12. ASSUME a.kind # "start"
       PROVE  AllocOK(i)'
  <2>1. /\ x.st = IF StepOf(a) = 0 THEN "running" ELSE "init"
        /\ ~Same(i) => x.restarts = 0 /\ x.crashes = 0
        /\ Same(i) => /\ x.restarts = r.restarts + IF a.kind = "restart" THEN 1 ELSE 0
                      /\ x.crashes = r.crashes
    <3> DEFINE y == NewRecord(r, a)
    <3>1. /\ y.st = IF StepOf(a) = 0 THEN "running" ELSE "init"
          /\ ~Same(i) => y.restarts = 0 /\ y.crashes = 0
          /\ Same(i) => /\ y.restarts = r.restarts + IF a.kind = "restart" THEN 1 ELSE 0
                        /\ y.crashes = r.crashes
      BY <1>1, NewRecordFacts DEF Same
    <3>2. x = y
      BY <1>3, <1>12
    <3> HIDE DEF y
    <3> QED
      BY <3>1, <3>2
  <2>2. StepOf(a) # 0 /\ a.kind \notin StepKinds => task[i].st = "none"
    BY <1>1 DEF PassOK
  <2>3. CASE ~Same(i)
    <3>1. Spare(i)'
      BY <1>9, <2>1, <2>3 DEF Spare, Least
    <3>2. a.kind \notin StepKinds
      BY <1>1, <2>3 DEF ActionOK
    <3> QED
      BY <1>10, <2>1, <2>2, <3>1, <3>2
  <2>4. CASE Same(i) /\ a.kind # "restart"
    <3>1. a.kind \in {"create", "recover", "done", "replace"} \cup StepKinds
      BY <1>1, <1>12, <2>4 DEF PassOK, ActionKinds, TeardownKinds
    <3>2. Spare(i)
      BY <1>1, <2>4, <3>1 DEF ActionOK
    <3>3. x.restarts = r.restarts /\ x.crashes = r.crashes
      BY <1>9, <2>1, <2>4
    <3>4. Spare(i)' /\ (Twice(i) => Twice(i)')
      BY <1>9, <3>2, <3>3 DEF Spare, Twice, Least
    <3>5. ASSUME StepOf(a) # 0, a.kind \in StepKinds, task[i].st # "none"
          PROVE  Twice(i)
      <4>1. ~Starts(i)
        BY <1>1, <3>5, NextIsOne DEF Starts
      <4> QED
        BY <1>1, <3>5, <4>1 DEF AllocOK, ActionOK
    <3> QED
      BY <1>10, <2>1, <2>2, <3>4, <3>5
  <2>5. CASE Same(i) /\ a.kind = "restart"
    <3>1. x.restarts = r.restarts + 1 /\ x.crashes = r.crashes
      BY <2>1, <2>5
    <3>2. Spare(i)'
      <4>1. CASE Spare(i)
        BY <1>9, <3>1, <4>1 DEF Spare, Least
      <4>2. CASE r.restarts < Attempts
        BY <1>1, <1>9, <3>1, <4>2 DEF AllocOK, Spare, Least
      <4> QED
        BY <1>1, <2>5, <4>1, <4>2 DEF ActionOK
    <3>3. a.kind \notin StepKinds
      BY <2>5 DEF StepKinds
    <3> QED
      BY <1>10, <2>1, <2>2, <3>2, <3>3
  <2> QED
    BY <2>3, <2>4, <2>5
<1> QED
  BY <1>6, <1>7, <1>8, <1>11, <1>12 DEF BudgetInv

LEMMA ForgetBudget ==
  ASSUME BudgetInv, NEW a \in pass.todo, Forget(a)
  PROVE  BudgetInv'
<1> DEFINE i == a.i
           r == rec[i]
           x == rec'[i]
           keeps == pass.on /\ (r.st = "failed" \/ r.restarts >= Attempts)
<1>1. RecTypes /\ PassOK /\ IsNext(a) /\ i \in Allocs /\ AllocOK(i) /\ pass.pc = "forget" /\ IsRecord(r)
  BY DEF BudgetInv, RecTypes, Forget
<1>2. /\ rec' = [rec EXCEPT ![a.i] = IF pass.on /\ (@.st = "failed" \/ @.restarts >= Attempts)
                                     THEN [@ EXCEPT !.st = "failed"] ELSE NoRec]
      /\ faults' = faults /\ deaths' = deaths /\ odd' = odd /\ witnessed' = witnessed
      /\ task' = task /\ Applied(a)
  BY DEF Forget
<1>3. /\ DOMAIN rec' = Allocs /\ \A j \in Allocs : j # i => rec'[j] = rec[j]
      /\ x = IF keeps THEN [r EXCEPT !.st = "failed"] ELSE NoRec
  BY <1>1, <1>2 DEF RecTypes
<1>4. /\ keeps => x.st = "failed" /\ x.restarts = r.restarts /\ x.crashes = r.crashes
      /\ ~keeps => x.st = "none" /\ x.restarts = 0 /\ x.crashes = 0
      /\ DOMAIN x = RecFields
  BY <1>1, <1>3 DEF IsRecord, RecFields, NoRec
<1> HIDE DEF keeps
<1>5. pass'.pc = "next" /\ pass'.todo = pass.todo \ {a} /\ DOMAIN pass' = PassFields
  BY <1>1, <1>2, OverFacts
<1>6. RecTypes'
  <2>1. IsRecord(x)
    BY <1>1, <1>4 DEF IsRecord
  <2>2. \A j \in Allocs : IsRecord(rec'[j])
    BY <1>1, <1>3, <2>1 DEF RecTypes
  <2> QED
    BY <1>1, <1>2, <1>3, <1>5, <2>2 DEF RecTypes
<1>7. ASSUME NEW j \in Allocs, j # i
      PROVE  AllocOK(j)'
  BY <1>1, <1>2, <1>3, <1>7, OthersStay DEF BudgetInv, Alike
<1>8. PassOK' /\ \A b \in pass'.todo : ActionOK(b)'
  BY <1>1, <1>2, <1>3, <1>6, ActionOver DEF Alike, RecTypes, Trouble
<1>9. AllocOK(i)'
  <2>1. /\ Attempts \in Nat \ {0} /\ Trouble \in Nat /\ Trouble' = Trouble
    BY <1>1, <1>2, ReconcilerAssumption DEF RecTypes, Trouble
  <2>2. CASE keeps
    <3>1. r.restarts >= Attempts
      BY <1>1, <2>2 DEF AllocOK, keeps
    <3>2. task'[i].st = "none"
      BY <1>1, <1>2 DEF PassOK
    <3>3. (rec[i].crashes <= Least(rec[i].restarts) + 1 + Trouble)'
      BY <1>1, <1>4, <2>1, <2>2 DEF AllocOK, Least
    <3> QED
      BY <1>4, <2>2, <3>1, <3>2, <3>3 DEF AllocOK, Owing
  <2>3. CASE ~keeps
    BY <1>4, <2>1, <2>3 DEF AllocOK, Spare, Least
  <2> QED
    BY <2>2, <2>3
<1> QED
  BY <1>6, <1>7, <1>8, <1>9 DEF BudgetInv

\* The failed removal of an init container is a trouble like others.
LEMMA ReapBudget ==
  ASSUME BudgetInv, NEW a \in pass.todo, Reap(a)
  PROVE  BudgetInv'
<1>1. RecTypes /\ PassOK /\ IsNext(a) /\ pass.pc = "next" /\ \A i \in Allocs : AllocOK(i)
  BY DEF BudgetInv, Reap
<1>2. /\ rec' = rec /\ deaths' = deaths /\ odd' = odd /\ witnessed' = witnessed
      /\ task' = task /\ (Applied(a) \/ Failed(a))
      /\ faults' = faults \/ faults' = faults + 1
  BY DEF Reap, Fault
<1>3. pass'.pc = "next" /\ pass'.todo = pass.todo \ {a} /\ DOMAIN pass' = PassFields
  BY <1>1, <1>2, OverFacts
<1>4. RecTypes'
  BY <1>1, <1>2, <1>3 DEF RecTypes
<1>5. PassOK' /\ \A b \in pass'.todo : ActionOK(b)'
  <2>1. Trouble' >= Trouble
    BY <1>1, <1>2 DEF RecTypes, Trouble
  <2> QED
    BY <1>1, <1>2, <1>4, <2>1, ActionOver DEF Alike
<1>6. \A i \in Allocs : AllocOK(i)'
  <2>1. CASE faults' = faults
    BY <1>1, <1>2, <2>1, AllStay DEF Alike
  <2>2. CASE faults' = faults + 1
    <3>1. Trouble' = Trouble + 1
      BY <1>1, <1>2, <2>2 DEF Trouble, RecTypes
    <3> QED
      BY <1>2, <1>4, <3>1, TroubleKeeps
  <2> QED
    BY <1>2, <2>1, <2>2
<1> QED
  BY <1>4, <1>5, <1>6 DEF BudgetInv

\* When there is no pass there is nothing it relies on.
LEMMA NoPassOK ==
  ASSUME pass' = NoPass
  PROVE  PassOK' /\ \A b \in pass'.todo : ActionOK(b)'
  BY DEF NoPass, PassOK

LEMMA EndPassBudget ==
  ASSUME BudgetInv, EndPass
  PROVE  BudgetInv'
<1>1. RecTypes /\ pass.pc = "next" /\ \A i \in Allocs : AllocOK(i)
  BY DEF BudgetInv, EndPass
<1>2. /\ rec' = rec /\ deaths' = deaths /\ odd' = odd /\ faults' = faults /\ task' = task
      /\ witnessed \subseteq witnessed' /\ pass' = NoPass
  BY DEF EndPass
<1>3. RecTypes'
  BY <1>1, <1>2 DEF RecTypes, NoPass, PassFields
<1>4. \A i \in Allocs : AllocOK(i)'
  BY <1>1, <1>2, AllStay DEF Alike
<1> QED
  BY <1>2, <1>3, <1>4, NoPassOK DEF BudgetInv

-----------------------------------------------------------------------------
(* Failed calls and deaths.                                                *)

LEMMA TeardownFailsBudget ==
  ASSUME BudgetInv, NEW a \in pass.todo, TeardownFails(a)
  PROVE  BudgetInv'
<1>1. RecTypes /\ PassOK /\ IsNext(a) /\ a.i \in Allocs
  BY DEF BudgetInv, RecTypes, TeardownFails
<1>2. /\ rec' = rec /\ deaths' = deaths /\ odd' = odd /\ faults' = faults + 1 /\ Failed(a)
  BY DEF TeardownFails, Fault
<1>3. PICK t \in {task[a.i], None, Container("stopped", task[a.i].spec)} : task' = [task EXCEPT ![a.i] = t]
  BY DEF TeardownFails
<1>4. DOMAIN t = {"st", "spec"} /\ t.st \in ContainerStates
  <2>1. DOMAIN task[a.i] = {"st", "spec"} /\ task[a.i].st \in ContainerStates
    BY <1>1 DEF RecTypes
  <2>2. CASE t = task[a.i]
    BY <2>1, <2>2
  <2>3. CASE t = None \/ t = Container("stopped", task[a.i].spec)
    BY <2>3 DEF None, Container, ContainerStates
  <2> QED
    BY <1>3, <2>2, <2>3
<1>5. pass'.pc = "next" /\ pass'.todo = pass.todo \ {a} /\ DOMAIN pass' = PassFields
  BY <1>1, <1>2, OverFacts
<1>6. /\ DOMAIN task' = Allocs /\ task'[a.i] = t
      /\ \A i \in Allocs : i # a.i => task'[i] = task[i]
  BY <1>1, <1>3 DEF RecTypes
<1>7. RecTypes'
  <2>1. \A i \in Allocs : DOMAIN task'[i] = {"st", "spec"} /\ task'[i].st \in ContainerStates
    BY <1>1, <1>4, <1>6 DEF RecTypes
  <2> QED
    BY <1>1, <1>2, <1>5, <1>6, <2>1 DEF RecTypes
<1>8. Trouble' = Trouble + 1
  BY <1>1, <1>2 DEF Trouble, RecTypes
<1>9. \A i \in Allocs : AllocOK(i)'
  BY <1>2, <1>7, <1>8, TroubleKeeps
<1>10. Trouble' >= Trouble
  BY <1>1, <1>2 DEF RecTypes, Trouble
<1>11. PassOK' /\ \A b \in pass'.todo : ActionOK(b)'
  BY <1>1, <1>2, <1>6, <1>7, <1>10, ActionOver DEF Alike
<1> QED
  BY <1>7, <1>9, <1>11 DEF BudgetInv

LEMMA StartFailsBudget ==
  ASSUME BudgetInv, NEW a \in pass.todo, StartFails(a)
  PROVE  BudgetInv'
<1>1. RecTypes /\ PassOK /\ IsNext(a) /\ a.i \in Allocs
  BY DEF BudgetInv, RecTypes, StartFails, Starting
<1>2. /\ rec' = [rec EXCEPT ![a.i] = StartFailure(@)] /\ deaths' = deaths /\ odd' = odd
      /\ faults' = faults + 1 /\ Failed(a)
  BY DEF StartFails, Fault
<1>3. \/ task' = [task EXCEPT ![a.i] = Container("created", pass.spec)]
      \/ task' = task
  BY DEF StartFails
<1>4. /\ DOMAIN task' = Allocs /\ \A i \in Allocs : i # a.i => task'[i] = task[i]
      /\ task'[a.i] \in {task[a.i], Container("created", pass.spec)}
  BY <1>1, <1>3 DEF RecTypes
<1>5. /\ DOMAIN rec' = Allocs /\ rec'[a.i] = StartFailure(rec[a.i])
      /\ \A i \in Allocs : i # a.i => rec'[i] = rec[i]
  BY <1>1, <1>2 DEF RecTypes
<1>6. /\ IsRecord(rec'[a.i])
      /\ \/ /\ rec'[a.i].st = rec[a.i].st /\ rec'[a.i].restarts = rec[a.i].restarts
            /\ rec'[a.i].crashes = rec[a.i].crashes
         \/ rec'[a.i].st = "pending" /\ rec'[a.i].restarts = 0 /\ rec'[a.i].crashes = 0
  <2>1. IsRecord(rec[a.i])
    BY <1>1 DEF RecTypes
  <2> QED
    BY <1>5, <2>1, StartFailureFacts
<1>7. pass'.pc = "next" /\ pass'.todo = pass.todo \ {a} /\ DOMAIN pass' = PassFields
  BY <1>1, <1>2, OverFacts
<1>8. RecTypes'
  <2>1. \A i \in Allocs : DOMAIN task'[i] = {"st", "spec"} /\ task'[i].st \in ContainerStates
    BY <1>1, <1>4 DEF RecTypes, Container, ContainerStates
  <2>2. \A i \in Allocs : IsRecord(rec'[i])
    BY <1>1, <1>5, <1>6 DEF RecTypes
  <2> QED
    BY <1>1, <1>2, <1>4, <1>5, <1>7, <2>1, <2>2 DEF RecTypes
<1>9. Trouble' = Trouble + 1 /\ Trouble' >= Trouble
  BY <1>1, <1>2 DEF Trouble, RecTypes
<1>10. \A i \in Allocs :
           \/ /\ rec'[i].st = rec[i].st /\ rec'[i].restarts = rec[i].restarts
              /\ rec'[i].crashes = rec[i].crashes
           \/ rec'[i].st \notin {"failed"} /\ rec'[i].restarts = 0 /\ rec'[i].crashes = 0
  BY <1>5, <1>6
<1>11. \A i \in Allocs : AllocOK(i)'
  BY <1>8, <1>9, <1>10, TroubleKeeps
<1>12. PassOK' /\ \A b \in pass'.todo : ActionOK(b)'
  BY <1>1, <1>2, <1>4, <1>5, <1>8, <1>9, ActionOver DEF Alike
<1> QED
  BY <1>8, <1>11, <1>12 DEF BudgetInv

LEMMA WriteFailsBudget ==
  ASSUME BudgetInv, NEW a \in pass.todo, WriteFails(a)
  PROVE  BudgetInv'
<1>1. RecTypes /\ PassOK /\ IsNext(a)
  BY DEF BudgetInv, WriteFails
<1>2. /\ rec' = rec /\ deaths' = deaths /\ odd' = odd /\ faults' = faults + 1 /\ Failed(a)
      /\ task' = task
  BY DEF WriteFails, Fault
<1>3. pass'.pc = "next" /\ pass'.todo = pass.todo \ {a} /\ DOMAIN pass' = PassFields
  BY <1>1, <1>2, OverFacts
<1>4. RecTypes'
  BY <1>1, <1>2, <1>3 DEF RecTypes
<1>5. Trouble' = Trouble + 1 /\ Trouble' >= Trouble
  BY <1>1, <1>2 DEF Trouble, RecTypes
<1>6. \A i \in Allocs : AllocOK(i)'
  BY <1>2, <1>4, <1>5, TroubleKeeps
<1>7. PassOK' /\ \A b \in pass'.todo : ActionOK(b)'
  BY <1>1, <1>2, <1>4, <1>5, ActionOver DEF Alike
<1> QED
  BY <1>4, <1>6, <1>7 DEF BudgetInv

LEMMA PassAbortsBudget ==
  ASSUME BudgetInv, PassAborts
  PROVE  BudgetInv'
<1>1. RecTypes /\ PassOK /\ pass.pc = "idle" /\ pass.todo = {}
  BY DEF BudgetInv, PassAborts, PassOK
<1>2. /\ rec' = rec /\ deaths' = deaths /\ odd' = odd /\ faults' = faults + 1
      /\ task' = task /\ pass' = pass
  BY DEF PassAborts, Fault
<1>3. RecTypes'
  BY <1>1, <1>2 DEF RecTypes
<1>4. Trouble' = Trouble + 1
  BY <1>1, <1>2 DEF Trouble, RecTypes
<1>5. \A i \in Allocs : AllocOK(i)'
  BY <1>2, <1>3, <1>4, TroubleKeeps
<1>6. PassOK' /\ \A b \in pass'.todo : ActionOK(b)'
  BY <1>1, <1>2 DEF PassOK
<1> QED
  BY <1>3, <1>5, <1>6 DEF BudgetInv

LEMMA DiesBudget ==
  ASSUME BudgetInv, Dies
  PROVE  BudgetInv'
<1>1. RecTypes
  BY DEF BudgetInv
<1>2. /\ rec' = rec /\ deaths' = deaths + 1 /\ odd' = odd /\ faults' = faults /\ pass' = NoPass
  BY DEF Dies, Crash, Reboot, CrashCreating, Restarted
<1>3. DOMAIN task' = Allocs /\ \A i \in Allocs : DOMAIN task'[i] = {"st", "spec"} /\ task'[i].st \in ContainerStates
  <2>1. CASE Crash
    BY <1>1, <2>1 DEF RecTypes, Crash
  <2>2. CASE Reboot
    BY <1>1, <2>2 DEF RecTypes, Reboot, None, ContainerStates
  <2>3. ASSUME NEW a \in pass.todo, CrashCreating(a)
        PROVE  DOMAIN task' = Allocs /\ \A i \in Allocs : DOMAIN task'[i] = {"st", "spec"} /\ task'[i].st \in ContainerStates
    <3>1. a.i \in Allocs /\ DOMAIN task = Allocs
      BY <1>1 DEF RecTypes
    <3>2. CASE task' = task
      BY <1>1, <3>2 DEF RecTypes
    <3>3. ASSUME NEW st \in {"stopped", "created"}, task' = [task EXCEPT ![a.i] = Container(st, pass.spec)]
          PROVE  DOMAIN task' = Allocs /\ \A i \in Allocs : DOMAIN task'[i] = {"st", "spec"} /\ task'[i].st \in ContainerStates
      <4>1. /\ DOMAIN task' = Allocs /\ task'[a.i] = Container(st, pass.spec)
            /\ \A i \in Allocs : i # a.i => task'[i] = task[i]
        BY <3>1, <3>3
      <4>2. DOMAIN task'[a.i] = {"st", "spec"} /\ task'[a.i].st \in ContainerStates
        BY <3>3, <4>1 DEF Container, ContainerStates
      <4> QED
        BY <1>1, <4>1, <4>2 DEF RecTypes
    <3> QED
      BY <2>3, <3>2, <3>3 DEF CrashCreating
  <2> QED
    BY <2>1, <2>2, <2>3 DEF Dies
<1>4. RecTypes'
  BY <1>1, <1>2, <1>3 DEF RecTypes, NoPass, PassFields
<1>5. Trouble' = Trouble + 1
  BY <1>1, <1>2 DEF Trouble, RecTypes
<1>6. \A i \in Allocs : AllocOK(i)'
  BY <1>2, <1>4, <1>5, TroubleKeeps
<1> QED
  BY <1>2, <1>4, <1>6, NoPassOK DEF BudgetInv

-----------------------------------------------------------------------------
(* The containers, the operator and the clock.                             *)

\* A container that runs exits, or is paused.
LEMMA ContainerStopsBudget ==
  ASSUME BudgetInv, NEW i \in Allocs, NEW st \in {"stopped", "paused"},
         Running(task[i]), task' = [task EXCEPT ![i].st = st],
         rec' = rec, witnessed' = witnessed, pass' = pass,
         faults' = faults, deaths' = deaths, odd' \in Nat
  PROVE  BudgetInv'
<1>1. RecTypes /\ PassOK /\ \A j \in Allocs : AllocOK(j)
  BY DEF BudgetInv
<1>2. /\ DOMAIN task' = Allocs /\ task'[i].st = st /\ DOMAIN task'[i] = {"st", "spec"}
      /\ \A j \in Allocs : j # i => task'[j] = task[j]
      /\ task[i].st = "running"
  BY <1>1 DEF RecTypes, Running
<1>3. RecTypes'
  <2>1. \A j \in Allocs : DOMAIN task'[j] = {"st", "spec"} /\ task'[j].st \in ContainerStates
    BY <1>1, <1>2 DEF RecTypes, ContainerStates
  <2> QED
    BY <1>1, <1>2, <2>1 DEF RecTypes
<1>4. \A b : IsNext(b)' <=> IsNext(b)
  BY DEF IsNext
<1>5. \A j : (Mid(j)' <=> Mid(j)) /\ (Starts(j)' <=> Starts(j))
  BY <1>4 DEF Mid, Starts, StepOf
<1>6. ASSUME NEW j \in Allocs, j # i
      PROVE  AllocOK(j)'
  BY <1>1, <1>2, <1>5, <1>6, AllocStays DEF Alike
<1>7. AllocOK(i)'
  <2>1. Owing(i) => Owing(i)'
    BY <1>2, <1>5 DEF Owing
  <2>2. (Spare(i) => Spare(i)') /\ (Twice(i) => Twice(i)')
    BY DEF Spare, Twice, Trouble, Least
  <2>3. AllocOK(i)
    BY <1>1
  <2>4. (rec[i].crashes <= Least(rec[i].restarts) + 1 + Trouble)'
    BY <2>3 DEF AllocOK, Trouble, Least
  <2> QED
    BY <1>2, <1>5, <2>1, <2>2, <2>3, <2>4 DEF AllocOK
<1>8. PassOK'
  <2>1. \A b \in pass.todo : b.i \in Allocs
    BY <1>1 DEF RecTypes
  <2>2. \A b \in pass.todo : task[b.i].st = "none" => task'[b.i].st = "none"
    BY <1>2, <2>1
  <2> QED
    BY <1>1, <1>4, <2>2 DEF PassOK, StepOf
<1>9. ASSUME NEW b \in pass.todo
      PROVE  ActionOK(b)'
  <2>1. b.i \in Allocs /\ ActionOK(b)
    BY <1>1 DEF RecTypes, BudgetInv
  <2>2. task[b.i].st = "none" => task'[b.i].st = "none"
    BY <1>2, <2>1
  <2>3. (Same(b.i)' <=> Same(b.i)) /\ (Spare(b.i)' <=> Spare(b.i))
    BY DEF Same, Spare, Trouble, Least
  <2> QED
    BY <1>4, <2>1, <2>2, <2>3 DEF ActionOK
<1> QED
  BY <1>3, <1>6, <1>7, <1>8, <1>9 DEF BudgetInv

\* A step that touches nothing the budget is about.
LEMMA FrameBudget ==
  ASSUME BudgetInv, DOMAIN rec' = Allocs,
         \A i \in Allocs : DOMAIN rec'[i] = RecFields /\ Alike(rec'[i], rec[i]),
         task' = task, witnessed' = witnessed, pass' = pass, odd' = odd,
         faults' = faults, deaths' = deaths
  PROVE  BudgetInv'
<1>1. RecTypes /\ PassOK /\ \A j \in Allocs : AllocOK(j)
  BY DEF BudgetInv
<1>2. RecTypes'
  <2>1. \A i \in Allocs : IsRecord(rec'[i])
    BY <1>1 DEF RecTypes, IsRecord, Alike
  <2> QED
    BY <1>1, <2>1 DEF RecTypes
<1>3. \A b : IsNext(b)' <=> IsNext(b)
  BY DEF IsNext
<1>4. \A j : (Mid(j)' <=> Mid(j)) /\ (Starts(j)' <=> Starts(j))
  BY <1>3 DEF Mid, Starts, StepOf
<1>5. \A j \in Allocs : AllocOK(j)'
  BY <1>1, <1>4, AllocStays
<1>6. PassOK'
  BY <1>1, <1>3 DEF PassOK, StepOf
<1>7. ASSUME NEW b \in pass.todo
      PROVE  ActionOK(b)'
  <2>1. b.i \in Allocs /\ ActionOK(b)
    BY <1>1 DEF RecTypes, BudgetInv
  <2>2. /\ rec'[b.i].st = rec[b.i].st /\ rec'[b.i].restarts = rec[b.i].restarts
        /\ rec'[b.i].crashes = rec[b.i].crashes /\ rec'[b.i].spec = rec[b.i].spec
    BY <2>1 DEF Alike
  <2>3. (Same(b.i)' <=> Same(b.i)) /\ (Spare(b.i)' <=> Spare(b.i))
    BY <2>2 DEF Same, Spare, Trouble, Least
  <2> QED
    BY <1>3, <2>1, <2>2, <2>3 DEF ActionOK
<1> QED
  BY <1>2, <1>5, <1>6, <1>7 DEF BudgetInv

\* Time only clears or sets a deadline.
LEMMA DeadlineFrame ==
  ASSUME RecTypes, NEW i \in Allocs, NEW f \in {"wait", "young", "late"}, NEW v,
         rec' = [rec EXCEPT ![i] = [rec[i] EXCEPT ![f] = v]]
  PROVE  DOMAIN rec' = Allocs /\ \A j \in Allocs : DOMAIN rec'[j] = RecFields /\ Alike(rec'[j], rec[j])
<1>1. DOMAIN rec = Allocs /\ \A j \in Allocs : DOMAIN rec[j] = RecFields
  BY DEF RecTypes, IsRecord
<1>2. DOMAIN rec' = Allocs /\ rec'[i] = [rec[i] EXCEPT ![f] = v] /\ \A j \in Allocs : j # i => rec'[j] = rec[j]
  BY <1>1
<1>3. DOMAIN rec'[i] = RecFields /\ Alike(rec'[i], rec[i])
  BY <1>1, <1>2 DEF Alike, RecFields
<1> QED
  BY <1>1, <1>2, <1>3 DEF Alike

LEMMA EnvironmentBudget ==
  ASSUME BudgetInv, Environment
  PROVE  BudgetInv'
<1>1. RecTypes /\ 0 \in Allocs
  BY ReconcilerAssumption DEF BudgetInv
<1>2. DOMAIN rec = Allocs /\ (\A i \in Allocs : DOMAIN rec[i] = RecFields) /\ odd \in Nat
  BY <1>1 DEF RecTypes, IsRecord
<1>3. ASSUME NEW i \in Allocs, Exit(i)
      PROVE  BudgetInv'
  <2>1. Running(task[i]) /\ task' = [task EXCEPT ![i].st = "stopped"]
    BY <1>3 DEF Exit
  <2>2. /\ rec' = rec /\ witnessed' = witnessed /\ pass' = pass /\ faults' = faults
        /\ deaths' = deaths /\ odd' = odd
    BY <1>3 DEF Exit
  <2> QED
    BY <1>2, <2>1, <2>2, ContainerStopsBudget
<1>4. ASSUME NEW i \in Allocs, Odd(i)
      PROVE  BudgetInv'
  <2>1. Running(task[i]) /\ task' = [task EXCEPT ![i].st = "paused"]
    BY <1>4 DEF Odd
  <2>2. /\ rec' = rec /\ witnessed' = witnessed /\ pass' = pass /\ faults' = faults
        /\ deaths' = deaths /\ odd' = odd + 1
    BY <1>4 DEF Odd
  <2>3. odd' \in Nat
    BY <1>2, <2>2
  <2> QED
    BY <2>1, <2>2, <2>3, ContainerStopsBudget
<1>5. ASSUME NEW i \in Allocs, NEW f \in {"wait", "young", "late"}, NEW v,
             DeadlinePasses(i, [rec[i] EXCEPT ![f] = v])
      PROVE  BudgetInv'
  BY <1>1, <1>5, DeadlineFrame, FrameBudget DEF DeadlinePasses
<1>6. ASSUME rec' = rec, task' = task, witnessed' = witnessed, pass' = pass, odd' = odd,
             faults' = faults, deaths' = deaths
      PROVE  BudgetInv'
  BY <1>2, <1>6, FrameBudget DEF Alike
<1>7. ASSUME NEW i \in Allocs, BackoffEnds(i) \/ Settles(i)
      PROVE  BudgetInv'
  BY <1>5, <1>7 DEF BackoffEnds, Settles
<1>8. CASE Overdue
  BY <1>1, <1>5, <1>8 DEF Overdue, Leader
<1>9. CASE \E k \in StepIds : StepDone(k) \/ StepFails(k)
  BY <1>6, <1>9 DEF StepDone, StepFails
<1>10. CASE Deploy \/ Scale \/ Delete \/ DependencyServes \/ DependencyFails
  BY <1>6, <1>10 DEF Deploy, Scale, Delete, Edit, DependencyServes, DependencyFails
<1> QED
  BY <1>3, <1>4, <1>7, <1>8, <1>9, <1>10 DEF Environment

-----------------------------------------------------------------------------
(* What a pass observes and plans.                                         *)

\* x is the record r after an exit.
IsExit(x, r, why, seen) ==
  /\ x.restarts = r.restarts /\ x.why = why
  /\ seen => x.crashes = r.crashes + 1
  /\ ~seen => x.crashes = r.crashes
  /\ x.st = IF seen /\ r.restarts >= Attempts THEN "failed" ELSE "backoff"

LEMMA ObservedFacts ==
  ASSUME NEW i \in Allocs, NEW r, IsRecord(r), NEW seen \in BOOLEAN
  PROVE  LET x == Observed(i, r, seen)
         IN  /\ IsRecord(x)
             /\ \/ Alike(x, r) /\ (r.st # "none" => ~Running(task[i]))
                   /\ ~(task[i].st = "stopped" /\ r.st \in {"running", "pending", "init"}
                        /\ Wanted(i, desired))
                \/ /\ Running(task[i]) /\ r.st # "none" /\ x.st = "running"
                   /\ x.restarts = r.restarts /\ x.crashes = r.crashes /\ x.why = r.why
                \/ /\ task[i].st = "stopped" /\ r.st \in {"running", "pending", "init"}
                   /\ IsExit(x, r, "exit", seen)
                \/ /\ i = Leader /\ Steps > 0 /\ r.st = "init" /\ task[i].st \notin {"running", "stopped"}
                   /\ IsExit(x, r, "init", seen)
<1> DEFINE x == Observed(i, r, seen)
           now == task[i].st = "stopped" /\ r.st \in {"running", "pending", "init"} /\ Wanted(i, desired)
           over == i = Leader /\ r.st = "init" /\ Wanted(i, desired) /\ InitOver(r)
<1>1. CASE r.st = "none"
  <2>1. x = r
    BY <1>1 DEF Observed
  <2> QED
    BY <1>1, <2>1 DEF Alike
<1>2. CASE r.st # "none" /\ Running(task[i])
  <2>1. x = [r EXCEPT !.spec = IF @ = 0 /\ desired.on THEN desired.spec ELSE @,
                      !.st = "running",
                      !.wait = @ /\ r.st = "running",
                      !.step = IF r.st = "running" THEN @ ELSE 0,
                      !.late = @ /\ r.st = "running"]
    BY <1>2 DEF Observed
  <2>2. /\ DOMAIN x = RecFields /\ x.st = "running" /\ x.restarts = r.restarts
        /\ x.crashes = r.crashes /\ x.why = r.why
    BY <2>1 DEF IsRecord, RecFields
  <2> QED
    BY <1>2, <2>2 DEF IsRecord
<1>3. CASE r.st # "none" /\ ~Running(task[i]) /\ now
  <2>1. x = Exited(r, "exit", seen)
    BY <1>3 DEF Observed
  <2> QED
    BY <1>3, <2>1, ExitedFacts DEF IsExit
<1>4. CASE r.st # "none" /\ ~Running(task[i]) /\ ~now /\ over
  <2> DEFINE e == Exited(r, "init", seen)
  <2>1. x = [e EXCEPT !.step = Live]
    BY <1>4 DEF Observed
  <2>2. IsRecord(e) /\ IsExit(e, r, "init", seen)
    BY ExitedFacts DEF IsExit
  <2> HIDE DEF e
  <2>3. /\ DOMAIN x = RecFields /\ x.st = e.st /\ x.restarts = e.restarts
        /\ x.crashes = e.crashes /\ x.why = e.why
    BY <2>1, <2>2 DEF IsRecord, RecFields
  <2>4. IsRecord(x) /\ IsExit(x, r, "init", seen)
    BY <2>2, <2>3 DEF IsRecord, IsExit
  <2>5. Steps > 0
    BY <1>4, ReconcilerAssumption DEF InitOver, StepIds
  <2> QED
    BY <1>4, <2>4, <2>5 DEF Running
<1>5. CASE r.st # "none" /\ ~Running(task[i]) /\ ~now /\ ~over
  <2>1. x = r
    BY <1>5 DEF Observed
  <2> QED
    BY <1>5, <2>1 DEF Alike
<1> QED
  BY <1>1, <1>2, <1>3, <1>4, <1>5

\* The kinds of action planned for an alloc that should exist, and when.
LEMMA PlanFacts ==
  ASSUME NEW i \in Allocs, NEW rs, NEW s, NEW seen \in BOOLEAN, task[i].st \in ContainerStates
  PROVE  LET kind == PlanAlloc(i, rs, s, seen)
             stale == Stale(rs[i], s)
         IN  /\ kind \in ActionKinds \cup {"none", "wait"} /\ kind # "reap"
             /\ rs[i].st = "failed" /\ ~stale => kind = "none"
             /\ kind = "create" => task[i].st = "none" /\ (stale \/ rs[i].st = "none" \/ rs[i].why # "init")
             /\ kind = "recover" => ~seen /\ ~stale
             /\ kind = "start" => task[i].st = "created"
             /\ kind = "replace" => stale
             /\ kind \in StepKinds \cup {"done"} => rs[i].st = "init" /\ ~stale /\ i = Leader
             /\ kind = "restart" /\ ~stale =>
                  \/ task[i].st = "paused"
                  \/ task[i].st = "stopped" /\ seen /\ ~(rs[i].restarts >= Attempts)
                     /\ ~(rs[i].st = "init" /\ i = Leader)
                  \/ task[i].st = "none" /\ rs[i].why = "init"
<1> DEFINE r == rs[i]
           kind == PlanAlloc(i, rs, s, seen)
           stale == Stale(r, s)
<1> USE DEF ActionKinds, StepKinds, TeardownKinds
<1> SUFFICES
      /\ kind \in ActionKinds \cup {"none", "wait"} /\ kind # "reap"
      /\ r.st = "failed" /\ ~stale => kind = "none"
      /\ kind = "create" => task[i].st = "none" /\ (stale \/ r.st = "none" \/ r.why # "init")
      /\ kind = "recover" => ~seen /\ ~stale
      /\ kind = "start" => task[i].st = "created"
      /\ kind = "replace" => stale
      /\ kind \in StepKinds \cup {"done"} => r.st = "init" /\ ~stale /\ i = Leader
      /\ kind = "restart" /\ ~stale =>
           \/ task[i].st = "paused"
           \/ task[i].st = "stopped" /\ seen /\ ~(r.restarts >= Attempts)
              /\ ~(r.st = "init" /\ i = Leader)
           \/ task[i].st = "none" /\ r.why = "init"
  OBVIOUS
<1>1. CASE r.st = "failed" /\ ~stale
  <2>1. kind = "none"
    BY <1>1 DEF PlanAlloc
  <2> HIDE DEF kind
  <2> QED
    BY <1>1, <2>1
<1>2. CASE r.st = "init" /\ i = Leader
  <2>1. kind = IF stale THEN "restart" ELSE PlanInit(r)
    BY <1>2 DEF PlanAlloc
  <2>2. PlanInit(r) \in StepKinds \cup {"done", "wait"}
    BY DEF PlanInit
  <2> HIDE DEF kind, stale
  <2> QED
    BY <1>2, <2>1, <2>2
<1>3. CASE ~(r.st = "failed" /\ ~stale) /\ ~(r.st = "init" /\ i = Leader)
  <2>1. CASE task[i].st = "none"
    <3>1. kind = IF r.st = "backoff" /\ r.wait /\ ~stale /\ seen THEN "none"
                 ELSE IF ~dep THEN "wait"
                 ELSE IF Steps > 0 /\ i # Leader /\ ~ServiceInitDone(rs, s) THEN "wait"
                 ELSE IF r.st # "none" /\ ~stale /\ r.why = "init"
                      THEN IF seen THEN "restart" ELSE "recover"
                 ELSE "create"
      BY <1>3, <2>1 DEF PlanAlloc
    <3> HIDE DEF kind, stale
    <3> QED
      BY <1>3, <2>1, <3>1
  <2>2. CASE task[i].st = "running"
    <3>1. kind = IF stale THEN "replace" ELSE "none"
      BY <1>3, <2>2 DEF PlanAlloc
    <3> HIDE DEF kind, stale
    <3> QED
      BY <1>3, <2>2, <3>1
  <2>3. CASE task[i].st = "created"
    <3>1. kind = "start"
      BY <1>3, <2>3 DEF PlanAlloc
    <3> HIDE DEF kind, stale
    <3> QED
      BY <1>3, <2>3, <3>1
  <2>4. CASE task[i].st = "stopped"
    <3>1. kind = IF stale THEN "restart" ELSE PlanRestart(r, seen)
      BY <1>3, <2>4 DEF PlanAlloc
    <3>2. /\ PlanRestart(r, seen) \in {"recover", "remove", "none", "restart"}
          /\ PlanRestart(r, seen) = "recover" => ~seen
          /\ PlanRestart(r, seen) = "restart" => seen /\ ~(r.restarts >= Attempts)
      BY DEF PlanRestart
    <3> HIDE DEF kind, stale
    <3> QED
      BY <1>3, <2>4, <3>1, <3>2
  <2>5. CASE task[i].st = "paused"
    <3>1. kind = "restart"
      BY <1>3, <2>5 DEF PlanAlloc
    <3> HIDE DEF kind, stale
    <3> QED
      BY <1>3, <2>5, <3>1
  <2> QED
    BY <2>1, <2>2, <2>3, <2>4, <2>5 DEF ContainerStates
<1> QED
  BY <1>1, <1>2, <1>3

\* Where the actions of a plan come from.
LEMMA TodoFacts ==
  ASSUME NEW rs, NEW d, NEW seen, NEW a \in PlanOf(rs, d, seen),
         \A i \in Allocs : task[i].st \in ContainerStates
  PROVE  /\ a.i \in Allocs /\ a.kind \in ActionKinds
         /\ a.kind = "reap" => a.k \in Nat
         /\ a.kind \notin {"reap", "remove"} =>
              Wanted(a.i, d) /\ a.kind = PlanAlloc(a.i, rs, d.spec, a.i \in seen)
<1> DEFINE kinds == Kinds(rs, d, seen)
<1>1. 0 \in Allocs /\ StepIds \subseteq Nat
  BY ReconcilerAssumption DEF StepIds
<1>2. CASE \E i \in Allocs : a = Action(kinds[i], i, IF kinds[i] \in StepKinds THEN Live ELSE 0)
                             /\ kinds[i] \notin {"none", "wait"}
  <2>1. PICK i \in Allocs : a = Action(kinds[i], i, IF kinds[i] \in StepKinds THEN Live ELSE 0)
                            /\ kinds[i] \notin {"none", "wait"}
    BY <1>2
  <2>2. a.i = i /\ a.kind = kinds[i]
    BY <2>1 DEF Action
  <2>3. kinds[i] = IF Wanted(i, d) THEN PlanAlloc(i, rs, d.spec, i \in seen)
                   ELSE IF task[i].st # "none" \/ rs[i].st # "none" THEN "remove" ELSE "none"
    BY DEF Kinds
  <2>4. PlanAlloc(i, rs, d.spec, i \in seen) \in (ActionKinds \cup {"none", "wait"}) \ {"reap"}
    <3> DEFINE c == i \in seen
    <3>1. c \in BOOLEAN
      OBVIOUS
    <3> HIDE DEF c
    <3>2. PlanAlloc(i, rs, d.spec, c) \in (ActionKinds \cup {"none", "wait"}) \ {"reap"}
      BY <3>1, PlanFacts
    <3> QED
      BY <3>2 DEF c
  <2> HIDE DEF kinds
  <2>5. "remove" \in ActionKinds
    BY DEF ActionKinds, TeardownKinds
  <2> QED
    BY <2>1, <2>2, <2>3, <2>4, <2>5
<1>3. CASE \E k \in StepIds : a = Action("reap", Leader, k)
  <2>1. a.i = 0 /\ a.kind = "reap" /\ a.k \in StepIds
    BY <1>3 DEF Action, Leader
  <2> QED
    BY <1>1, <2>1 DEF ActionKinds
<1> QED
  BY <1>2, <1>3 DEF PlanOf, Reaped

\* A pass charges each crash it witnesses, once, and plans an uncharged action
\* only where nothing is owed.
LEMMA BeginBudget ==
  ASSUME BudgetInv, Begin
  PROVE  BudgetInv'
<1> DEFINE seen == (witnessed \cup RunningNow) \cap Known
           probed == {i \in Allocs : /\ Checked /\ Wanted(i, desired)
                                     /\ Running(task[i]) /\ rec[i].st # "none"}
<1>1. RecTypes /\ pass.pc = "idle" /\ \A i \in Allocs : AllocOK(i)
  BY DEF BudgetInv, Begin
<1>2. PICK healthy \in SUBSET probed :
        /\ rec' = [i \in Allocs |->
                     Observed(i, IF i \in probed THEN [rec[i] EXCEPT !.healthy = i \in healthy]
                                 ELSE rec[i], i \in seen)]
        /\ witnessed' = seen
        /\ pass' = [pc |-> "next", todo |-> PlanOf(rec', desired, seen),
                    spec |-> desired.spec, count |-> desired.count, on |-> desired.on,
                    applied |-> Waits(rec', desired, seen)]
  BY DEF Begin
<1>3. task' = task /\ faults' = faults /\ deaths' = deaths /\ odd' = odd
  BY DEF Begin
<1>4. DOMAIN rec' = Allocs /\ \A i \in Allocs : task[i].st \in ContainerStates
  BY <1>1, <1>2 DEF RecTypes
<1>5. /\ pass'.pc = "next" /\ pass'.todo = PlanOf(rec', desired, seen) /\ pass'.spec = desired.spec
      /\ DOMAIN pass' = PassFields
  BY <1>2 DEF PassFields
<1>6. \A i \in Allocs : ~Mid(i) /\ ~Starts(i)
  BY <1>1 DEF Mid, Starts
<1>7. \A i \in Allocs : i \in witnessed /\ rec[i].st # "none" => i \in seen
  BY DEF Known
<1>8. Attempts \in Nat \ {0} /\ Trouble \in Nat /\ Trouble' = Trouble
  BY <1>1, <1>3, ReconcilerAssumption DEF RecTypes, Trouble
<1> HIDE DEF seen, probed
<1>9. ASSUME NEW i \in Allocs
      PROVE  IsRecord(rec'[i]) /\ AllocOK(i)'
  <2> DEFINE r == rec[i]
             h == IF i \in probed THEN [r EXCEPT !.healthy = i \in healthy] ELSE r
             x == rec'[i]
  <2>1. IsRecord(r) /\ AllocOK(i)
    BY <1>1 DEF RecTypes
  <2>2. IsRecord(h) /\ Alike(h, r)
    BY <2>1 DEF IsRecord, RecFields, Alike
  <2>3. x = Observed(i, h, i \in seen)
    BY <1>2
  <2> HIDE DEF h
  <2>4. /\ IsRecord(x)
        /\ \/ Alike(x, h)
           \/ /\ Running(task[i]) /\ h.st # "none" /\ x.st = "running"
              /\ x.restarts = h.restarts /\ x.crashes = h.crashes
           \/ task[i].st = "stopped" /\ h.st \in {"running", "pending", "init"}
              /\ IsExit(x, h, "exit", i \in seen)
           \/ h.st = "init" /\ task[i].st \notin {"running", "stopped"}
              /\ IsExit(x, h, "init", i \in seen)
    <3> DEFINE c == i \in seen
               y == Observed(i, h, c)
    <3>1. c \in BOOLEAN
      OBVIOUS
    <3> HIDE DEF c
    <3>2. /\ IsRecord(y)
          /\ \/ Alike(y, h)
             \/ /\ Running(task[i]) /\ h.st # "none" /\ y.st = "running"
                /\ y.restarts = h.restarts /\ y.crashes = h.crashes
             \/ task[i].st = "stopped" /\ h.st \in {"running", "pending", "init"}
                /\ IsExit(y, h, "exit", c)
             \/ h.st = "init" /\ task[i].st \notin {"running", "stopped"}
                /\ IsExit(y, h, "init", c)
      BY <2>2, <3>1, ObservedFacts
    <3> HIDE DEF y
    <3>3. x = y
      BY <2>3 DEF y, c
    <3> QED
      BY <3>2, <3>3 DEF c
  <2>5. /\ h.st = r.st /\ h.restarts = r.restarts /\ h.crashes = r.crashes /\ h.why = r.why
        /\ h.spec = r.spec /\ r.restarts \in Nat /\ r.crashes \in Nat
    BY <2>1, <2>2 DEF Alike, IsRecord
  <2>6. ~Mid(i) /\ ~Starts(i) /\ Least(r.restarts) \in Nat /\ task'[i] = task[i]
    BY <1>3, <1>6, <1>8, <2>5 DEF Least
  <2>7. ASSUME x.restarts = r.restarts
        PROVE  Least(rec[i].restarts)' = Least(r.restarts)
    BY <2>7 DEF Least
  <2>8. CASE Alike(x, h)
    <3>1. /\ x.st = r.st /\ x.restarts = r.restarts /\ x.crashes = r.crashes /\ x.why = r.why
      BY <2>5, <2>8 DEF Alike
    <3>2. (Spare(i) => Spare(i)') /\ (Twice(i) => Twice(i)')
      BY <1>8, <2>7, <3>1 DEF Spare, Twice
    <3>3. Owing(i) => Owing(i)'
      BY <1>2, <1>7, <2>6, <3>1 DEF Owing
    <3>4. (rec[i].crashes <= Least(rec[i].restarts) + 1 + Trouble)'
      BY <1>8, <2>1, <2>7, <3>1 DEF AllocOK
    <3> QED
      BY <2>1, <2>4, <2>6, <3>1, <3>2, <3>3, <3>4 DEF AllocOK
  <2>9. CASE Running(task[i]) /\ h.st # "none" /\ x.st = "running"
             /\ x.restarts = h.restarts /\ x.crashes = h.crashes
    <3>1. Spare(i)
      BY <2>1, <2>6, <2>9 DEF AllocOK, Owing, Running
    <3>2. Spare(i)'
      BY <1>8, <2>5, <2>7, <2>9, <3>1 DEF Spare
    <3>3. (rec[i].crashes <= Least(rec[i].restarts) + 1 + Trouble)'
      BY <1>8, <2>1, <2>5, <2>7, <2>9 DEF AllocOK
    <3> QED
      BY <2>4, <2>9, <3>2, <3>3 DEF AllocOK
  <2>10. ASSUME NEW why, r.st \in {"running", "pending", "init"}, IsExit(x, h, why, i \in seen),
                \/ task[i].st = "stopped"
                \/ r.st = "init" /\ why = "init" /\ task[i].st # "stopped"
         PROVE  AllocOK(i)'
    <3>1. Spare(i)
      BY <2>1, <2>10 DEF AllocOK, Owing
    <3>2. /\ x.restarts = r.restarts /\ x.why = why
          /\ i \in seen => x.crashes = r.crashes + 1
          /\ i \notin seen => x.crashes = r.crashes
          /\ x.st = IF i \in seen /\ r.restarts >= Attempts THEN "failed" ELSE "backoff"
      BY <2>5, <2>10 DEF IsExit
    <3>3. (rec[i].crashes <= Least(rec[i].restarts) + 1 + Trouble)'
      BY <1>8, <2>5, <2>6, <2>7, <3>1, <3>2 DEF Spare
    <3>4. CASE i \notin seen
      <4>1. Spare(i)'
        BY <1>8, <2>7, <3>1, <3>2, <3>4 DEF Spare
      <4> QED
        BY <3>2, <3>3, <3>4, <4>1 DEF AllocOK
    <3>5. CASE i \in seen /\ task[i].st \in {"stopped", "none"}
      <4>1. Owing(i)'
        BY <1>2, <1>8, <2>5, <2>6, <2>10, <3>2, <3>5 DEF Owing
      <4> QED
        BY <3>2, <3>3, <4>1 DEF AllocOK
    <3>6. CASE i \in seen /\ task[i].st \notin {"stopped", "none"}
      <4>1. Twice(i)
        BY <2>1, <2>6, <2>10, <3>6 DEF AllocOK
      <4>2. Spare(i)'
        BY <1>8, <2>7, <3>2, <3>6, <4>1 DEF Spare, Twice
      <4> QED
        BY <3>2, <3>3, <4>2 DEF AllocOK
    <3> QED
      BY <3>4, <3>5, <3>6
  <2>11. CASE task[i].st = "stopped" /\ h.st \in {"running", "pending", "init"}
              /\ IsExit(x, h, "exit", i \in seen)
    BY <2>4, <2>5, <2>10, <2>11
  <2>12. CASE h.st = "init" /\ task[i].st \notin {"running", "stopped"}
              /\ IsExit(x, h, "init", i \in seen)
    BY <2>4, <2>5, <2>10, <2>12
  <2> QED
    BY <2>4, <2>8, <2>9, <2>11, <2>12
<1>10. RecTypes'
  <2>1. \A a \in pass'.todo : /\ a.i \in Allocs /\ a.kind \in ActionKinds
                              /\ a.kind = "reap" => a.k \in Nat
    BY <1>4, <1>5, TodoFacts
  <2> QED
    BY <1>1, <1>3, <1>4, <1>5, <1>9, <2>1 DEF RecTypes
<1>11. PassOK'
  BY <1>5 DEF PassOK
<1>12. ASSUME NEW a \in pass'.todo
       PROVE  ActionOK(a)'
  <2> DEFINE i == a.i
             x == rec'[i]
             stale == Stale(x, desired.spec)
  <2>1. /\ i \in Allocs /\ a.kind \in ActionKinds
        /\ a.kind \notin {"reap", "remove"} =>
              a.kind = PlanAlloc(i, rec', desired.spec, i \in seen)
    BY <1>4, <1>5, TodoFacts
  <2>2. CASE a.kind \in {"reap", "remove"}
    BY <2>2 DEF ActionOK, StepKinds
  <2>3. CASE a.kind \notin {"reap", "remove"}
    <3>1. Same(i)' => x.st # "none" /\ ~stale
      BY <1>5, <2>1 DEF Same, Stale
    <3>2. x.st # "none" /\ ~stale => Same(i)'
      BY <1>5, <2>1 DEF Same, Stale
    <3> HIDE DEF stale
    <3>3. /\ x.st = "failed" /\ ~stale => a.kind = "none"
          /\ a.kind = "create" => task[i].st = "none" /\ (stale \/ x.st = "none" \/ x.why # "init")
          /\ a.kind = "recover" => i \notin seen /\ ~stale
          /\ a.kind = "start" => task[i].st = "created"
          /\ a.kind = "replace" => stale
          /\ a.kind \in StepKinds \cup {"done"} => x.st = "init" /\ ~stale
      <4> DEFINE c == i \in seen
                 rs == rec'
                 kind == PlanAlloc(i, rs, desired.spec, c)
                 old == Stale(rs[i], desired.spec)
      <4>1. c \in BOOLEAN
        OBVIOUS
      <4> HIDE DEF c, rs
      <4>2. /\ rs[i].st = "failed" /\ ~old => kind = "none"
            /\ kind = "create" => task[i].st = "none" /\ (old \/ rs[i].st = "none" \/ rs[i].why # "init")
            /\ kind = "recover" => ~c /\ ~old
            /\ kind = "start" => task[i].st = "created"
            /\ kind = "replace" => old
            /\ kind \in StepKinds \cup {"done"} => rs[i].st = "init" /\ ~old
        BY <1>4, <2>1, <4>1, PlanFacts
      <4>3. a.kind = kind /\ x = rs[i] /\ stale = old
        BY <2>1, <2>3 DEF c, rs, stale
      <4> HIDE DEF kind, old, x
      <4> QED
        BY <4>2, <4>3 DEF c
    <3>4. /\ AllocOK(i)' /\ task'[i] = task[i] /\ ~Mid(i)' /\ x.restarts \in Nat /\ Attempts \in Nat
          /\ witnessed' = seen
      <4>1. ~Mid(i)'
        BY <1>5 DEF Mid
      <4> QED
        BY <1>2, <1>3, <1>8, <1>9, <2>1, <4>1 DEF IsRecord
    <3>5. a.kind # "none"
      BY <2>1 DEF ActionKinds, TeardownKinds, StepKinds
    <3>6. Spare(i)' \/ Owing(i)'
      BY <3>4 DEF AllocOK
    <3>7. Same(i)' /\ Owing(i)' => /\ x.st = "backoff" /\ x.restarts < Attempts /\ i \in seen
                                   /\ task[i].st = "stopped" \/ (task[i].st = "none" /\ x.why = "init")
      BY <3>1, <3>3, <3>4, <3>5 DEF Owing
    <3>8. a.kind \in {"create", "recover", "done", "replace"} \cup StepKinds
            => (Same(i)' => Spare(i)')
      BY <3>1, <3>3, <3>6, <3>7
    <3>9. a.kind = "start" => Spare(i)'
      BY <3>3, <3>4, <3>6 DEF Owing
    <3>10. a.kind = "restart" => (Same(i)' => Spare(i)' \/ x.restarts < Attempts)
      BY <3>6, <3>7
    <3>11. /\ a.kind \in StepKinds => x.st = "init" /\ Same(i)'
           /\ a.kind = "done" => x.st = "init"
           /\ a.kind = "create" => task'[i].st = "none"
      BY <3>2, <3>3, <3>4
    <3> QED
      BY <3>8, <3>9, <3>10, <3>11 DEF ActionOK
  <2> QED
    BY <2>2, <2>3
<1> QED
  BY <1>9, <1>10, <1>11, <1>12 DEF BudgetInv

-----------------------------------------------------------------------------
LEMMA BudgetInvInit == Init => BudgetInv
<1> SUFFICES ASSUME Init PROVE BudgetInv
  OBVIOUS
<1>1. RecTypes
  BY DEF Init, RecTypes, IsRecord, RecFields, NoRec, None, NoPass, PassFields, ContainerStates
<1>2. PassOK /\ \A a \in pass.todo : ActionOK(a)
  BY DEF Init, NoPass, PassOK
<1>3. \A i \in Allocs : AllocOK(i)
  <2>1. \A i \in Allocs : rec[i].st = "none" /\ rec[i].restarts = 0 /\ rec[i].crashes = 0
    BY DEF Init, NoRec
  <2>2. Trouble = 0 /\ Attempts \in Nat \ {0}
    BY ReconcilerAssumption DEF Init, Trouble
  <2> QED
    BY <2>1, <2>2 DEF AllocOK, Spare, Least
<1> QED
  BY <1>1, <1>2, <1>3 DEF BudgetInv

LEMMA BudgetStep == BudgetInv /\ [Next]_vars => BudgetInv'
<1> SUFFICES ASSUME BudgetInv, [Next]_vars PROVE BudgetInv'
  OBVIOUS
<1>1. CASE UNCHANGED vars
  <2>1. DOMAIN rec = Allocs /\ \A i \in Allocs : DOMAIN rec[i] = RecFields
    BY DEF BudgetInv, RecTypes, IsRecord
  <2> QED
    BY <1>1, <2>1, FrameBudget DEF vars, Alike
<1>2. CASE Pass
  BY <1>2, BeginBudget, EndPassBudget, TeardownBudget, StartContainerBudget, AlreadyExistsBudget,
     WriteRecordBudget, ForgetBudget, ReapBudget DEF Pass
<1>3. CASE Faulty
  BY <1>3, PassAbortsBudget, TeardownFailsBudget, StartFailsBudget, WriteFailsBudget DEF Faulty
<1> QED
  BY <1>1, <1>2, <1>3, EnvironmentBudget, DiesBudget DEF Next

\* An alloc crashes at most once more than its restart budget, and once for each
\* failed call or death of the daemon that turned a charged restart into an
\* uncharged create, however passes, exits, deploys, scaling, init sequences
\* and restarts interleave (planRestart, create, stampInitStep, Observe).
THEOREM CrashesAreBounded == Spec => []BudgetHolds
<1>1. BudgetInv => BudgetHolds
  <2> SUFFICES ASSUME BudgetInv, NEW i \in Allocs
               PROVE  rec[i].crashes <= Attempts + 1 + faults + deaths
    BY DEF BudgetHolds
  <2>1. /\ AllocOK(i) /\ rec[i].restarts \in Nat /\ rec[i].crashes \in Nat /\ faults \in Nat
        /\ deaths \in Nat /\ Attempts \in Nat
    BY ReconcilerAssumption DEF BudgetInv, RecTypes, IsRecord
  <2> QED
    BY <2>1 DEF AllocOK, Least, Trouble
<1> QED
  BY <1>1, BudgetInvInit, BudgetStep, PTL DEF Spec

-----------------------------------------------------------------------------
(* Outages are free: no attempt is charged without a cause.                *)

\* The allocs without an init sequence.
Plain == {i \in Allocs : Steps > 0 => i # Leader}

RecStates == {"none", "pending", "init", "running", "backoff", "failed"}

\* The causes there were for charging alloc i.
Credit(i) == rec[i].crashes + odd + faults

\* The write that comes next charges alloc i.
Due(i) ==
  pass.pc = "record" /\ Same(i) /\ \E a \in pass.todo : IsNext(a) /\ a.i = i /\ a.kind = "restart"

\* What this daemon knows, or is about to know, to have run.
Watched(i) ==
  /\ ~Mid(i)
  /\ \/ task[i].st = "stopped" /\ i \in witnessed
     \/ task[i].st = "running" /\ (i \in witnessed \/ pass.pc # "idle")

FreeOK(i) ==
  /\ rec[i].st \in RecStates /\ rec[i].why # "init"
  /\ rec[i].st = "none" => rec[i].restarts = 0 /\ rec[i].crashes = 0
  /\ rec[i].restarts <= Credit(i)
  /\ task[i].st = "paused" => /\ odd >= 1 /\ rec[i].restarts + 1 <= Credit(i)
                              /\ Due(i) => rec[i].restarts + 2 <= Credit(i)
  /\ rec[i].st = "backoff" /\ Watched(i) => rec[i].restarts + 1 <= Credit(i)

FreeAction(a) ==
  a.i \in Plain /\ a.kind = "restart" /\ Same(a.i) => rec[a.i].restarts + 1 <= Credit(a.i)

\* A restart has its cause from the plan on; a container that is paused or
\* backs off has one that was not charged yet.
FreeInv ==
  /\ BudgetInv
  /\ \A i \in Plain : FreeOK(i)
  /\ \A a \in pass.todo : FreeAction(a)

LEMMA FreeTypes ==
  ASSUME RecTypes, NEW i \in Allocs
  PROVE  /\ rec[i].restarts \in Nat /\ rec[i].crashes \in Nat /\ odd \in Nat /\ faults \in Nat
         /\ Credit(i) \in Nat
  BY DEF RecTypes, IsRecord, Credit

\* An alloc that a step does not touch.
LEMMA FreeStays ==
  ASSUME RecTypes, RecTypes', NEW i \in Plain, FreeOK(i), Alike(rec'[i], rec[i]),
         task'[i].st = task[i].st, faults' >= faults, odd' >= odd,
         Due(i)' => Due(i), Watched(i)' => Watched(i)
  PROVE  FreeOK(i)'
<1>1. i \in Allocs
  BY DEF Plain
<1>2. /\ rec'[i].st = rec[i].st /\ rec'[i].restarts = rec[i].restarts
      /\ rec'[i].crashes = rec[i].crashes /\ rec'[i].why = rec[i].why
  BY DEF Alike
<1>3. /\ rec[i].restarts \in Nat /\ Credit(i) \in Nat /\ odd \in Nat /\ odd' \in Nat
      /\ Credit(i)' \in Nat /\ Credit(i)' >= Credit(i)
  <2>1. odd' \in Nat /\ faults' \in Nat
    BY DEF RecTypes
  <2>2. /\ rec[i].restarts \in Nat /\ rec[i].crashes \in Nat /\ odd \in Nat /\ faults \in Nat
        /\ Credit(i) \in Nat
    BY <1>1, FreeTypes
  <2> QED
    BY <1>2, <2>1, <2>2 DEF Credit
<1> QED
  BY <1>2, <1>3 DEF FreeOK

LEMMA FreeActionStays ==
  ASSUME RecTypes, RecTypes', NEW b \in pass.todo, FreeAction(b), Alike(rec'[b.i], rec[b.i]),
         pass'.spec = pass.spec, faults' >= faults, odd' >= odd
  PROVE  FreeAction(b)'
<1>1. b.i \in Allocs
  BY DEF RecTypes
<1>2. /\ rec'[b.i].st = rec[b.i].st /\ rec'[b.i].restarts = rec[b.i].restarts
      /\ rec'[b.i].crashes = rec[b.i].crashes /\ rec'[b.i].spec = rec[b.i].spec
  BY DEF Alike
<1>3. /\ rec[b.i].restarts \in Nat /\ Credit(b.i) \in Nat
      /\ Credit(b.i)' \in Nat /\ Credit(b.i)' >= Credit(b.i)
  <2>1. odd' \in Nat /\ faults' \in Nat
    BY DEF RecTypes
  <2>2. /\ rec[b.i].restarts \in Nat /\ rec[b.i].crashes \in Nat /\ odd \in Nat /\ faults \in Nat
        /\ Credit(b.i) \in Nat
    BY <1>1, FreeTypes
  <2> QED
    BY <1>2, <2>1, <2>2 DEF Credit
<1>4. Same(b.i)' <=> Same(b.i)
  BY <1>2 DEF Same
<1> QED
  BY <1>2, <1>3, <1>4 DEF FreeAction, Plain

\* When an action is over, the restarts that are left have their cause.
LEMMA FreeOver ==
  ASSUME RecTypes, RecTypes', NEW a, IsNext(a), Applied(a) \/ Failed(a),
         \A b \in pass.todo : FreeAction(b),
         faults' >= faults, odd' >= odd,
         \A j \in Allocs : j # a.i => Alike(rec'[j], rec[j])
  PROVE  \A b \in pass'.todo : FreeAction(b)'
<1>1. pass'.todo = pass.todo \ {a} /\ pass'.spec = pass.spec
  BY OverFacts
<1>2. SUFFICES ASSUME NEW b \in pass'.todo PROVE FreeAction(b)'
  OBVIOUS
<1>3. b \in pass.todo /\ b # a /\ b.i \in Allocs /\ FreeAction(b)
  BY <1>1 DEF RecTypes
<1>4. b.i # a.i \/ b.kind = "reap"
  BY <1>3, OthersWait
<1>5. CASE b.i # a.i
  BY <1>1, <1>3, <1>5, FreeActionStays
<1>6. CASE b.kind = "reap"
  BY <1>6 DEF FreeAction
<1> QED
  BY <1>4, <1>5, <1>6

\* The other allocs, in a step of the action of one of them.
LEMMA OthersFree ==
  ASSUME RecTypes, RecTypes', NEW a, IsNext(a), pass.pc # "idle",
         NEW i \in Plain, i # a.i, FreeOK(i),
         Alike(rec'[i], rec[i]), task'[i].st = task[i].st, faults' = faults, odd' = odd,
         i \in witnessed' => i \in witnessed,
         \A b : IsNext(b)' => IsNext(b) \/ pass'.pc \in {"idle", "next"}
  PROVE  FreeOK(i)'
<1>1. ~Mid(i)
  BY OneIsMid
<1>2. Watched(i)' => Watched(i)
  BY <1>1 DEF Watched
<1>3. ~Due(i)'
  BY NextIsOne DEF Due
<1>4. faults' >= faults /\ odd' >= odd
  BY DEF RecTypes
<1> QED
  BY <1>2, <1>3, <1>4, FreeStays

\* A failed call pays for whatever comes of it.
LEMMA FaultPays ==
  ASSUME RecTypes, RecTypes', NEW i \in Plain, FreeOK(i),
         rec'[i].st \in RecStates, rec'[i].why # "init",
         rec'[i].st = "none" => rec'[i].restarts = 0 /\ rec'[i].crashes = 0,
         rec'[i].restarts = rec[i].restarts, rec'[i].crashes = rec[i].crashes,
         task'[i].st = "paused" => task[i].st = "paused",
         faults' = faults + 1, odd' = odd, pass'.pc \in {"idle", "next"}
  PROVE  FreeOK(i)'
<1>1. i \in Allocs
  BY DEF Plain
<1>2. /\ rec[i].restarts \in Nat /\ Credit(i) \in Nat /\ Credit(i)' = Credit(i) + 1
  BY <1>1, FreeTypes DEF Credit
<1>3. ~Due(i)'
  BY DEF Due
<1>4. rec[i].restarts <= Credit(i)
  BY DEF FreeOK
<1>5. (rec[i].restarts + 1 <= Credit(i))' /\ (rec[i].restarts <= Credit(i))'
  BY <1>2, <1>4
<1>6. task'[i].st = "paused" => odd' >= 1
  BY DEF FreeOK
<1> QED
  BY <1>3, <1>5, <1>6 DEF FreeOK

-----------------------------------------------------------------------------
(* The steps, with the budget's invariant before and after them.           *)

LEMMA TeardownFree ==
  ASSUME FreeInv, BudgetInv', NEW a \in pass.todo, Teardown(a)
  PROVE  FreeInv'
<1>1. /\ RecTypes /\ RecTypes' /\ IsNext(a) /\ a.i \in Allocs /\ pass.pc = "next"
      /\ rec' = rec /\ faults' = faults /\ odd' = odd /\ witnessed' = witnessed
      /\ (\A i \in Plain : FreeOK(i)) /\ (\A b \in pass.todo : FreeAction(b))
  BY DEF FreeInv, BudgetInv, RecTypes, Teardown
<1>2. faults' >= faults /\ odd' >= odd
  BY <1>1 DEF RecTypes
<1>3. ASSUME Failed(a), task' = task
      PROVE  FreeInv'
  <2>1. pass'.pc = "next"
    BY <1>1, <1>3, OverFacts
  <2>2. ASSUME NEW i \in Plain
        PROVE  FreeOK(i)'
    <3>1. ~Due(i)' /\ ~Mid(i)
      BY <1>1, <2>1 DEF Due, Mid
    <3>2. Watched(i)' => Watched(i)
      BY <1>1, <1>3, <3>1 DEF Watched
    <3> QED
      BY <1>1, <1>2, <1>3, <3>1, <3>2, FreeStays DEF Alike
  <2>3. \A b \in pass'.todo : FreeAction(b)'
    BY <1>1, <1>2, <1>3, FreeOver DEF Alike
  <2> QED
    BY <2>2, <2>3 DEF FreeInv
<1>4. ASSUME task' = [task EXCEPT ![a.i] = None],
             Then(IF a.kind = "remove" THEN "forget" ELSE "start")
      PROVE  FreeInv'
  <2>1. pass'.pc # "record" /\ pass'.todo = pass.todo /\ pass'.spec = pass.spec
    BY <1>1, <1>4, ThenFacts
  <2>2. task'[a.i].st = "none" /\ \A i \in Allocs : i # a.i => task'[i] = task[i]
    BY <1>1, <1>4 DEF RecTypes, None
  <2>3. \A b : IsNext(b)' <=> IsNext(b)
    BY <2>1 DEF IsNext
  <2>4. ASSUME NEW i \in Plain
        PROVE  FreeOK(i)'
    <3>1. CASE i = a.i
      BY <1>1, <2>2, <3>1 DEF FreeOK, Credit, Watched
    <3>2. CASE i # a.i
      <4>1. i \in Allocs
        BY DEF Plain
      <4> QED
        BY <1>1, <2>2, <2>3, <3>2, <4>1, OthersFree DEF Alike
    <3> QED
      BY <3>1, <3>2
  <2>5. \A b \in pass'.todo : FreeAction(b)'
    BY <1>1, <1>2, <2>1, FreeActionStays DEF Alike
  <2> QED
    BY <2>4, <2>5 DEF FreeInv
<1> QED
  BY <1>3, <1>4 DEF Teardown

LEMMA StartContainerFree ==
  ASSUME FreeInv, BudgetInv', NEW a \in pass.todo, StartContainer(a)
  PROVE  FreeInv'
<1>1. /\ RecTypes /\ RecTypes' /\ IsNext(a) /\ a.i \in Allocs /\ pass.pc \in {"start", "next"}
      /\ rec' = rec /\ faults' = faults /\ odd' = odd /\ witnessed' = witnessed
      /\ (\A i \in Plain : FreeOK(i)) /\ (\A b \in pass.todo : FreeAction(b)) /\ Then("record")
  BY DEF FreeInv, BudgetInv, RecTypes, StartContainer, Starting
<1>2. faults' >= faults /\ odd' >= odd
  BY <1>1 DEF RecTypes
<1>3. /\ pass'.pc = "record" /\ pass'.todo = pass.todo /\ pass'.spec = pass.spec
  BY <1>1, ThenFacts
<1>4. \A b : IsNext(b)' <=> IsNext(b)
  BY <1>3 DEF IsNext
<1>5. /\ \A i \in Allocs : i # a.i => task'[i] = task[i]
      /\ StepOf(a) # 0 => task' = task
      /\ StepOf(a) = 0 => task'[a.i].st = "running"
  BY <1>1 DEF StartContainer, RecTypes, Container
<1>6. ASSUME NEW i \in Plain
      PROVE  FreeOK(i)'
  <2>1. i \in Allocs /\ FreeOK(i)
    BY <1>1 DEF Plain
  <2>2. CASE i # a.i
    BY <1>1, <1>4, <1>5, <2>1, <2>2, OthersFree DEF Alike
  <2>3. CASE i = a.i
    <3>1. Mid(i)'
      BY <1>1, <1>3, <1>4, <2>3 DEF Mid
    <3>2. CASE StepOf(a) # 0
      <4>1. a.kind # "restart"
        BY <2>3, <3>2 DEF StepOf, Plain, StepKinds
      <4>2. ~Due(i)'
        BY <1>1, <1>4, <4>1, NextIsOne DEF Due
      <4> QED
        BY <1>1, <1>5, <2>1, <3>1, <3>2, <4>2 DEF FreeOK, Credit, Watched
    <3>3. CASE StepOf(a) = 0
      BY <1>1, <1>5, <2>1, <2>3, <3>1, <3>3 DEF FreeOK, Credit, Watched
    <3> QED
      BY <3>2, <3>3
  <2> QED
    BY <2>2, <2>3
<1>7. \A b \in pass'.todo : FreeAction(b)'
  BY <1>1, <1>2, <1>3, FreeActionStays DEF Alike
<1> QED
  BY <1>6, <1>7 DEF FreeInv

LEMMA AlreadyExistsFree ==
  ASSUME FreeInv, BudgetInv', NEW a \in pass.todo, AlreadyExists(a)
  PROVE  FreeInv'
<1>1. /\ RecTypes /\ RecTypes' /\ IsNext(a) /\ a.i \in Allocs /\ PassOK /\ Failed(a)
      /\ task' = task /\ faults' = faults /\ odd' = odd /\ witnessed' = witnessed
      /\ (\A i \in Plain : FreeOK(i)) /\ (\A b \in pass.todo : FreeAction(b))
  BY DEF FreeInv, BudgetInv, RecTypes, AlreadyExists, Starting
<1>2. faults' >= faults /\ odd' >= odd
  BY <1>1 DEF RecTypes
<1>3. pass'.pc = "next"
  BY <1>1, OverFacts
<1>4. pass.pc = "next"
  BY <1>1 DEF AlreadyExists, Starting, PassOK
<1>5. rec'[a.i] = StartFailure(rec[a.i]) /\ \A i \in Allocs : i # a.i => rec'[i] = rec[i]
  BY <1>1 DEF AlreadyExists, RecTypes
<1>6. ASSUME NEW i \in Plain
      PROVE  FreeOK(i)'
  <2>1. i \in Allocs /\ FreeOK(i) /\ IsRecord(rec[i])
    BY <1>1 DEF Plain, RecTypes
  <2>2. CASE i # a.i
    BY <1>1, <1>3, <1>4, <1>5, <2>1, <2>2, OthersFree DEF Alike
  <2>3. CASE i = a.i
    <3>1. /\ rec'[i].why = "start"
          /\ \/ rec'[i].st = rec[i].st /\ rec[i].st # "none"
             \/ rec'[i].st = "pending" /\ rec[i].st = "none"
          /\ rec'[i].restarts = rec[i].restarts /\ rec'[i].crashes = rec[i].crashes
      <4> DEFINE y == StartFailure(rec[i])
      <4>1. /\ y.why = "start"
            /\ \/ y.restarts = rec[i].restarts /\ y.crashes = rec[i].crashes /\ y.st = rec[i].st
                  /\ rec[i].st # "none"
               \/ y.restarts = 0 /\ y.crashes = 0 /\ y.st = "pending" /\ rec[i].st = "none"
        BY <2>1, StartFailureFacts
      <4>2. rec'[i] = y
        BY <1>5, <2>3
      <4> HIDE DEF y
      <4> QED
        BY <2>1, <4>1, <4>2 DEF FreeOK
    <3>2. ~Due(i)' /\ ~Mid(i)
      BY <1>3, <1>4 DEF Due, Mid
    <3>3. Watched(i)' => Watched(i)
      BY <1>1, <1>4, <3>2 DEF Watched
    <3>4. Credit(i)' = Credit(i)
      BY <1>1, <3>1 DEF Credit
    <3> QED
      BY <1>1, <2>1, <3>1, <3>2, <3>3, <3>4 DEF FreeOK, RecStates
  <2> QED
    BY <2>2, <2>3
<1>7. \A b \in pass'.todo : FreeAction(b)'
  BY <1>1, <1>2, <1>5, FreeOver DEF Alike
<1> QED
  BY <1>6, <1>7 DEF FreeInv

LEMMA WriteRecordFree ==
  ASSUME FreeInv, BudgetInv', NEW a \in pass.todo, WriteRecord(a)
  PROVE  FreeInv'
<1>1. /\ RecTypes /\ RecTypes' /\ IsNext(a) /\ a.i \in Allocs /\ Applied(a) /\ pass.pc = "record"
      /\ task' = task /\ faults' = faults /\ odd' = odd /\ witnessed' = witnessed \cup {a.i}
      /\ (\A i \in Plain : FreeOK(i)) /\ (\A b \in pass.todo : FreeAction(b))
  BY DEF FreeInv, BudgetInv, RecTypes, WriteRecord
<1>2. faults' >= faults /\ odd' >= odd
  BY <1>1 DEF RecTypes
<1>3. pass'.pc = "next"
  BY <1>1, OverFacts
<1>4. /\ rec'[a.i] = IF a.kind = "start" THEN MarkRunning(rec[a.i]) ELSE NewRecord(rec[a.i], a)
      /\ \A i \in Allocs : i # a.i => rec'[i] = rec[i]
  BY <1>1 DEF WriteRecord, RecTypes
<1>5. ASSUME NEW i \in Plain
      PROVE  FreeOK(i)'
  <2> DEFINE r == rec[i]
             x == rec'[i]
  <2>1. i \in Allocs /\ FreeOK(i) /\ IsRecord(r)
    BY <1>1 DEF Plain, RecTypes
  <2>2. CASE i # a.i
    BY <1>1, <1>3, <1>4, <2>1, <2>2, OthersFree DEF Alike
  <2>3. CASE i = a.i
    <3>1. /\ r.restarts \in Nat /\ r.crashes \in Nat /\ odd \in Nat /\ faults \in Nat
          /\ Credit(i) \in Nat
      BY <1>1, <2>1, FreeTypes
    <3>2. ~Due(i)'
      BY <1>3 DEF Due
    <3>3. CASE a.kind = "start"
      <4> DEFINE y == MarkRunning(r)
      <4>1. /\ y.restarts = r.restarts /\ y.crashes = r.crashes /\ y.why = r.why
            /\ y.st = IF r.st = "none" THEN "none" ELSE "running"
        BY <2>1, MarkRunningFacts
      <4>2. x = y
        BY <1>4, <2>3, <3>3
      <4> HIDE DEF y
      <4>3. Credit(i)' = Credit(i)
        BY <1>1, <4>1, <4>2 DEF Credit
      <4> QED
        BY <1>1, <2>1, <3>2, <4>1, <4>2, <4>3 DEF FreeOK, RecStates
    <3>4. CASE a.kind # "start"
      <4> DEFINE y == NewRecord(r, a)
      <4>1. /\ y.st \in {"running", "init"}
            /\ ~Same(i) => y.restarts = 0 /\ y.crashes = 0 /\ y.why = "none"
            /\ Same(i) => /\ y.restarts = r.restarts + IF a.kind = "restart" THEN 1 ELSE 0
                          /\ y.crashes = r.crashes
                          /\ y.why \in {r.why, "none"}
        BY <2>1, NewRecordFacts DEF Same
      <4>2. x = y
        BY <1>4, <2>3, <3>4
      <4> HIDE DEF y
      <4>3. CASE ~Same(i)
        <5>1. x.restarts = 0 /\ x.crashes = 0 /\ x.why = "none" /\ Credit(i)' = odd + faults
          BY <1>1, <3>1, <4>1, <4>2, <4>3 DEF Credit
        <5> QED
          BY <1>1, <2>1, <3>1, <3>2, <4>1, <4>2, <5>1 DEF FreeOK, RecStates
      <4>4. CASE Same(i) /\ a.kind # "restart"
        <5>1. x.restarts = r.restarts /\ x.crashes = r.crashes /\ x.why \in {r.why, "none"}
              /\ Credit(i)' = Credit(i)
          BY <1>1, <3>1, <4>1, <4>2, <4>4 DEF Credit
        <5> QED
          BY <1>1, <2>1, <3>2, <4>1, <4>2, <5>1 DEF FreeOK, RecStates
      <4>5. CASE Same(i) /\ a.kind = "restart"
        <5>1. x.restarts = r.restarts + 1 /\ x.crashes = r.crashes /\ x.why \in {r.why, "none"}
              /\ Credit(i)' = Credit(i)
          BY <1>1, <4>1, <4>2, <4>5 DEF Credit
        <5>2. r.restarts + 1 <= Credit(i)
          BY <1>1, <2>3, <4>5 DEF FreeAction
        <5>3. Due(i)
          BY <1>1, <2>3, <4>5 DEF Due
        <5> QED
          BY <1>1, <2>1, <3>1, <3>2, <4>1, <4>2, <5>1, <5>2, <5>3 DEF FreeOK, RecStates
      <4> QED
        BY <4>3, <4>4, <4>5
    <3> QED
      BY <3>3, <3>4
  <2> QED
    BY <2>2, <2>3
<1>6. \A b \in pass'.todo : FreeAction(b)'
  BY <1>1, <1>2, <1>4, FreeOver DEF Alike
<1> QED
  BY <1>5, <1>6 DEF FreeInv

LEMMA ForgetFree ==
  ASSUME FreeInv, BudgetInv', NEW a \in pass.todo, Forget(a)
  PROVE  FreeInv'
<1>1. /\ RecTypes /\ RecTypes' /\ IsNext(a) /\ a.i \in Allocs /\ PassOK /\ Applied(a) /\ pass.pc = "forget"
      /\ task' = task /\ faults' = faults /\ odd' = odd /\ witnessed' = witnessed
      /\ (\A i \in Plain : FreeOK(i)) /\ (\A b \in pass.todo : FreeAction(b))
  BY DEF FreeInv, BudgetInv, RecTypes, Forget
<1>2. faults' >= faults /\ odd' >= odd
  BY <1>1 DEF RecTypes
<1>3. pass'.pc = "next"
  BY <1>1, OverFacts
<1>4. /\ rec'[a.i] = IF pass.on /\ (rec[a.i].st = "failed" \/ rec[a.i].restarts >= Attempts)
                     THEN [rec[a.i] EXCEPT !.st = "failed"] ELSE NoRec
      /\ \A i \in Allocs : i # a.i => rec'[i] = rec[i]
  BY <1>1 DEF Forget, RecTypes
<1>5. ASSUME NEW i \in Plain
      PROVE  FreeOK(i)'
  <2> DEFINE r == rec[i]
             x == rec'[i]
  <2>1. i \in Allocs /\ FreeOK(i) /\ IsRecord(r)
    BY <1>1 DEF Plain, RecTypes
  <2>2. CASE i # a.i
    BY <1>1, <1>3, <1>4, <2>1, <2>2, OthersFree DEF Alike
  <2>3. CASE i = a.i
    <3>1. task[i].st = "none"
      BY <1>1, <2>3 DEF PassOK
    <3>2. /\ odd \in Nat /\ faults \in Nat
      BY <1>1 DEF RecTypes
    <3>3. \/ x.st = "failed" /\ x.restarts = r.restarts /\ x.crashes = r.crashes /\ x.why = r.why
          \/ x.st = "none" /\ x.restarts = 0 /\ x.crashes = 0 /\ x.why = "none"
      BY <1>4, <2>1, <2>3 DEF NoRec, IsRecord, RecFields
    <3>4. (rec[i].restarts <= Credit(i))'
      BY <1>1, <2>1, <3>2, <3>3 DEF FreeOK, Credit
    <3> QED
      BY <1>1, <2>1, <3>1, <3>3, <3>4 DEF FreeOK, RecStates
  <2> QED
    BY <2>2, <2>3
<1>6. \A b \in pass'.todo : FreeAction(b)'
  BY <1>1, <1>2, <1>4, FreeOver DEF Alike
<1> QED
  BY <1>5, <1>6 DEF FreeInv

LEMMA ReapFree ==
  ASSUME FreeInv, BudgetInv', NEW a \in pass.todo, Reap(a)
  PROVE  FreeInv'
<1>1. /\ RecTypes /\ RecTypes' /\ IsNext(a) /\ (Applied(a) \/ Failed(a)) /\ pass.pc = "next"
      /\ rec' = rec /\ task' = task /\ odd' = odd /\ witnessed' = witnessed
      /\ (faults' = faults \/ faults' = faults + 1)
      /\ (\A i \in Plain : FreeOK(i)) /\ (\A b \in pass.todo : FreeAction(b))
  BY DEF FreeInv, BudgetInv, Reap, Fault
<1>2. faults' >= faults /\ odd' >= odd
  BY <1>1 DEF RecTypes
<1>3. pass'.pc = "next"
  BY <1>1, OverFacts
<1>4. ASSUME NEW i \in Plain
      PROVE  FreeOK(i)'
  <2>1. ~Due(i)' /\ ~Mid(i)
    BY <1>1, <1>3 DEF Due, Mid
  <2>2. Watched(i)' => Watched(i)
    BY <1>1, <2>1 DEF Watched
  <2> QED
    BY <1>1, <1>2, <2>1, <2>2, FreeStays DEF Alike
<1>5. \A b \in pass'.todo : FreeAction(b)'
  BY <1>1, <1>2, FreeOver DEF Alike
<1> QED
  BY <1>4, <1>5 DEF FreeInv

\* What is found running at the end of a pass was started in it or witnessed.
LEMMA EndPassFree ==
  ASSUME FreeInv, BudgetInv', EndPass
  PROVE  FreeInv'
<1>1. /\ RecTypes /\ RecTypes' /\ pass.pc = "next" /\ pass' = NoPass
      /\ rec' = rec /\ task' = task /\ odd' = odd /\ faults' = faults
      /\ witnessed' \subseteq witnessed \cup RunningNow
      /\ (\A i \in Plain : FreeOK(i))
  BY DEF FreeInv, BudgetInv, EndPass
<1>2. faults' >= faults /\ odd' >= odd
  BY <1>1 DEF RecTypes
<1>3. ASSUME NEW i \in Plain
      PROVE  FreeOK(i)'
  <2>1. ~Due(i)' /\ ~Mid(i)
    BY <1>1 DEF Due, Mid, NoPass
  <2>2. i \in RunningNow => task[i].st = "running"
    BY ReconcilerAssumption DEF RunningNow, Plain, Running, StepIds
  <2>3. Watched(i)' => Watched(i)
    BY <1>1, <2>1, <2>2 DEF Watched, NoPass
  <2> QED
    BY <1>1, <1>2, <2>1, <2>3, FreeStays DEF Alike
<1>4. \A b \in pass'.todo : FreeAction(b)'
  BY <1>1 DEF NoPass
<1> QED
  BY <1>3, <1>4 DEF FreeInv

\* A call that fails and ends its action.
LEMMA FaultyFree ==
  ASSUME FreeInv, BudgetInv', NEW a \in pass.todo,
         TeardownFails(a) \/ StartFails(a) \/ WriteFails(a)
  PROVE  FreeInv'
<1>1. /\ RecTypes /\ RecTypes' /\ IsNext(a) /\ Failed(a) /\ a.i \in Allocs
      /\ odd' = odd /\ faults' = faults + 1
      /\ (\A i \in Plain : FreeOK(i)) /\ (\A b \in pass.todo : FreeAction(b))
  BY DEF FreeInv, BudgetInv, TeardownFails, StartFails, WriteFails, Starting, Fault, RecTypes
<1>2. faults' >= faults /\ odd' >= odd
  BY <1>1 DEF RecTypes
<1>3. pass'.pc = "next"
  BY <1>1, OverFacts
<1>4. /\ rec'[a.i] \in {rec[a.i], StartFailure(rec[a.i])}
      /\ \A i \in Allocs : i # a.i => rec'[i] = rec[i]
  BY <1>1 DEF TeardownFails, StartFails, WriteFails, RecTypes
<1>5. \A i \in Allocs : task'[i].st = "paused" => task[i].st = "paused"
  <2>1. CASE TeardownFails(a)
    <3>1. PICK t \in {task[a.i], None, Container("stopped", task[a.i].spec)} : task' = [task EXCEPT ![a.i] = t]
      BY <2>1 DEF TeardownFails
    <3>2. t.st = "paused" => task[a.i].st = "paused"
      BY <3>1 DEF None, Container
    <3> QED
      BY <1>1, <3>1, <3>2 DEF RecTypes
  <2>2. CASE StartFails(a)
    BY <1>1, <2>2 DEF StartFails, RecTypes, Container
  <2>3. CASE WriteFails(a)
    BY <2>3 DEF WriteFails
  <2> QED
    BY <2>1, <2>2, <2>3
<1>6. ASSUME NEW i \in Plain
      PROVE  FreeOK(i)'
  <2>1. i \in Allocs /\ FreeOK(i) /\ IsRecord(rec[i])
    BY <1>1 DEF Plain, RecTypes
  <2>2. /\ rec'[i].restarts = rec[i].restarts /\ rec'[i].crashes = rec[i].crashes
        /\ rec'[i].st \in {rec[i].st, "pending"} /\ rec'[i].why \in {rec[i].why, "start"}
    <3> DEFINE y == StartFailure(rec[i])
    <3>1. /\ y.why = "start" /\ y.st \in {rec[i].st, "pending"}
          /\ \/ y.restarts = rec[i].restarts /\ y.crashes = rec[i].crashes
             \/ y.restarts = 0 /\ y.crashes = 0 /\ rec[i].st = "none"
      BY <2>1, StartFailureFacts
    <3>2. rec'[i] = rec[i] \/ rec'[i] = y
      BY <1>4, <2>1
    <3> HIDE DEF y
    <3> QED
      BY <2>1, <3>1, <3>2 DEF FreeOK
  <2>3. /\ rec'[i].st \in RecStates /\ rec'[i].why # "init"
        /\ rec'[i].st = "none" => rec'[i].restarts = 0 /\ rec'[i].crashes = 0
    BY <2>1, <2>2 DEF FreeOK, RecStates
  <2> QED
    BY <1>1, <1>3, <1>5, <2>1, <2>2, <2>3, FaultPays
<1>7. \A b \in pass'.todo : FreeAction(b)'
  BY <1>1, <1>2, <1>4, FreeOver DEF Alike
<1> QED
  BY <1>6, <1>7 DEF FreeInv

LEMMA PassAbortsFree ==
  ASSUME FreeInv, BudgetInv', PassAborts
  PROVE  FreeInv'
<1>1. /\ RecTypes /\ RecTypes' /\ pass' = pass /\ pass.pc = "idle" /\ pass.todo = {}
      /\ rec' = rec /\ task' = task /\ odd' = odd /\ faults' = faults + 1
      /\ (\A i \in Plain : FreeOK(i))
  BY DEF FreeInv, BudgetInv, PassAborts, Fault, PassOK
<1>2. \A i \in Plain : FreeOK(i)'
  BY <1>1, FaultPays DEF FreeOK
<1>3. \A b \in pass'.todo : FreeAction(b)'
  BY <1>1
<1> QED
  BY <1>2, <1>3 DEF FreeInv

\* A new daemon has witnessed nothing, so nothing is charged for an outage.
LEMMA DiesFree ==
  ASSUME FreeInv, BudgetInv', Dies
  PROVE  FreeInv'
<1>1. /\ RecTypes /\ RecTypes' /\ pass' = NoPass /\ witnessed' = {}
      /\ rec' = rec /\ odd' = odd /\ faults' = faults
      /\ (\A i \in Plain : FreeOK(i))
  BY DEF FreeInv, BudgetInv, Dies, Crash, Reboot, CrashCreating, Restarted
<1>2. \A i \in Allocs : task'[i].st = "paused" => task[i].st = "paused"
  <2>1. CASE Crash
    BY <2>1 DEF Crash
  <2>2. CASE Reboot
    BY <1>1, <2>2 DEF Reboot, None, RecTypes
  <2>3. ASSUME NEW a \in pass.todo, CrashCreating(a)
        PROVE  \A i \in Allocs : task'[i].st = "paused" => task[i].st = "paused"
    <3>1. a.i \in Allocs /\ DOMAIN task = Allocs
      BY <1>1 DEF RecTypes
    <3>2. ASSUME NEW st \in {"stopped", "created"}, task' = [task EXCEPT ![a.i] = Container(st, pass.spec)]
          PROVE  \A i \in Allocs : task'[i].st = "paused" => task[i].st = "paused"
      BY <3>1, <3>2 DEF Container
    <3> QED
      BY <2>3, <3>2 DEF CrashCreating
  <2> QED
    BY <2>1, <2>2, <2>3 DEF Dies
<1>3. ASSUME NEW i \in Plain
      PROVE  FreeOK(i)'
  <2>1. ~Due(i)' /\ ~Watched(i)'
    BY <1>1 DEF Due, Watched, NoPass
  <2>2. task'[i].st = "paused" => task[i].st = "paused"
    BY <1>2 DEF Plain
  <2> QED
    BY <1>1, <2>1, <2>2 DEF FreeOK, Credit
<1>4. \A b \in pass'.todo : FreeAction(b)'
  BY <1>1 DEF NoPass
<1> QED
  BY <1>3, <1>4 DEF FreeInv

\* A container that is paused gives the cause of its restart itself.
LEMMA EnvironmentFree ==
  ASSUME FreeInv, BudgetInv', Environment
  PROVE  FreeInv'
<1>1. /\ RecTypes /\ RecTypes' /\ 0 \in Allocs
      /\ (\A i \in Plain : FreeOK(i)) /\ (\A b \in pass.todo : FreeAction(b))
  BY ReconcilerAssumption DEF FreeInv, BudgetInv
<1>2. /\ DOMAIN rec = Allocs /\ DOMAIN task = Allocs /\ odd \in Nat /\ faults \in Nat
      /\ \A i \in Allocs : DOMAIN task[i] = {"st", "spec"}
  BY <1>1 DEF RecTypes
<1>3. ASSUME pass' = pass
      PROVE  /\ \A b : IsNext(b)' <=> IsNext(b)
             /\ \A i : Mid(i)' <=> Mid(i)
  <2>1. \A b : IsNext(b)' <=> IsNext(b)
    BY <1>3 DEF IsNext
  <2> QED
    BY <1>3, <2>1 DEF Mid
<1>4. ASSUME NEW i \in Allocs, Exit(i)
      PROVE  FreeInv'
  <2>1. /\ rec' = rec /\ pass' = pass /\ witnessed' = witnessed /\ odd' = odd /\ faults' = faults
        /\ task[i].st = "running" /\ task' = [task EXCEPT ![i].st = "stopped"]
    BY <1>4 DEF Exit, Running
  <2>2. task'[i].st = "stopped" /\ \A j \in Allocs : j # i => task'[j] = task[j]
    BY <1>2, <2>1
  <2>3. faults' >= faults /\ odd' >= odd
    BY <1>2, <2>1
  <2>4. ASSUME NEW j \in Plain
        PROVE  FreeOK(j)'
    <3>1. j \in Allocs /\ FreeOK(j)
      BY <1>1 DEF Plain
    <3>2. Due(j)' => Due(j)
      BY <1>3, <2>1 DEF Due, Same
    <3>3. Watched(j)' => Watched(j)
      BY <1>3, <2>1, <2>2, <3>1 DEF Watched
    <3>4. task'[j].st = "paused" => task[j].st = "paused"
      BY <2>2, <3>1
    <3> QED
      BY <2>1, <3>1, <3>2, <3>3, <3>4 DEF FreeOK, Credit
  <2>5. \A b \in pass'.todo : FreeAction(b)'
    BY <1>1, <2>1, <2>3, FreeActionStays DEF Alike
  <2> QED
    BY <2>4, <2>5 DEF FreeInv
<1>5. ASSUME NEW i \in Allocs, Odd(i)
      PROVE  FreeInv'
  <2>1. /\ rec' = rec /\ pass' = pass /\ witnessed' = witnessed /\ odd' = odd + 1 /\ faults' = faults
        /\ task[i].st = "running" /\ task' = [task EXCEPT ![i].st = "paused"]
    BY <1>5 DEF Odd, Running
  <2>2. task'[i].st = "paused" /\ \A j \in Allocs : j # i => task'[j] = task[j]
    BY <1>2, <2>1
  <2>3. faults' >= faults /\ odd' >= odd /\ odd' >= 1
    BY <1>2, <2>1
  <2>4. ASSUME NEW j \in Plain
        PROVE  FreeOK(j)'
    <3>1. j \in Allocs /\ FreeOK(j)
      BY <1>1 DEF Plain
    <3>2. Due(j)' => Due(j)
      BY <1>3, <2>1 DEF Due, Same
    <3>3. CASE j # i
      <4>1. Watched(j)' => Watched(j)
        BY <1>3, <2>1, <2>2, <3>1, <3>3 DEF Watched
      <4> QED
        BY <1>1, <2>1, <2>2, <2>3, <3>1, <3>2, <3>3, <4>1, FreeStays DEF Alike
    <3>4. CASE j = i
      <4>1. /\ rec[j].restarts \in Nat /\ rec[j].crashes \in Nat /\ Credit(j) \in Nat
        BY <1>1, <3>1, FreeTypes
      <4>2. Credit(j)' = Credit(j) + 1
        <5>1. rec'[j].crashes = rec[j].crashes /\ odd' = odd + 1 /\ faults' = faults /\ odd \in Nat /\ faults \in Nat
          BY <1>2, <2>1
        <5> QED
          BY <4>1, <5>1 DEF Credit
      <4>3. Due(j) => rec[j].restarts + 1 <= Credit(j)
        BY <1>1 DEF Due, FreeAction
      <4>4. ~Watched(j)'
        BY <2>2, <3>4 DEF Watched
      <4> QED
        BY <2>1, <2>3, <3>1, <3>2, <4>1, <4>2, <4>3, <4>4 DEF FreeOK
    <3> QED
      BY <3>3, <3>4
  <2>5. \A b \in pass'.todo : FreeAction(b)'
    BY <1>1, <2>1, <2>3, FreeActionStays DEF Alike
  <2> QED
    BY <2>4, <2>5 DEF FreeInv
<1>6. ASSUME \A j \in Allocs : Alike(rec'[j], rec[j]), task' = task, witnessed' = witnessed,
             pass' = pass, odd' = odd, faults' = faults
      PROVE  FreeInv'
  <2>1. faults' >= faults /\ odd' >= odd
    BY <1>2, <1>6
  <2>2. ASSUME NEW j \in Plain
        PROVE  FreeOK(j)'
    <3>1. j \in Allocs /\ FreeOK(j) /\ Alike(rec'[j], rec[j])
      BY <1>1, <1>6 DEF Plain
    <3>2. Due(j)' => Due(j)
      BY <1>3, <1>6, <3>1 DEF Due, Same, Alike
    <3>3. Watched(j)' => Watched(j)
      BY <1>3, <1>6 DEF Watched
    <3> QED
      BY <1>1, <1>6, <2>1, <3>1, <3>2, <3>3, FreeStays
  <2>3. ASSUME NEW b \in pass'.todo
        PROVE  FreeAction(b)'
    <3>1. b \in pass.todo /\ b.i \in Allocs
      BY <1>1, <1>6 DEF RecTypes
    <3> QED
      BY <1>1, <1>6, <2>1, <3>1, FreeActionStays
  <2> QED
    BY <2>2, <2>3 DEF FreeInv
<1>7. ASSUME NEW i \in Allocs, NEW f \in {"wait", "young", "late"}, NEW v,
             DeadlinePasses(i, [rec[i] EXCEPT ![f] = v])
      PROVE  FreeInv'
  <2>1. \A j \in Allocs : Alike(rec'[j], rec[j])
    BY <1>1, <1>7, DeadlineFrame DEF DeadlinePasses
  <2> QED
    BY <1>6, <1>7, <2>1 DEF DeadlinePasses
<1>8. ASSUME rec' = rec, task' = task, witnessed' = witnessed, pass' = pass, odd' = odd,
             faults' = faults
      PROVE  FreeInv'
  BY <1>6, <1>8 DEF Alike
<1>9. ASSUME NEW i \in Allocs, BackoffEnds(i) \/ Settles(i)
      PROVE  FreeInv'
  BY <1>7, <1>9 DEF BackoffEnds, Settles
<1>10. CASE Overdue
  BY <1>1, <1>7, <1>10 DEF Overdue, Leader
<1>11. CASE \E k \in StepIds : StepDone(k) \/ StepFails(k)
  BY <1>8, <1>11 DEF StepDone, StepFails
<1>12. CASE Deploy \/ Scale \/ Delete \/ DependencyServes \/ DependencyFails
  BY <1>8, <1>12 DEF Deploy, Scale, Delete, Edit, DependencyServes, DependencyFails
<1> QED
  BY <1>4, <1>5, <1>9, <1>10, <1>11, <1>12 DEF Environment

\* A pass plans a restart of the same spec for a container that is paused, or
\* for one that stopped after this daemon witnessed it.
LEMMA BeginFree ==
  ASSUME FreeInv, BudgetInv', Begin
  PROVE  FreeInv'
<1> DEFINE seen == (witnessed \cup RunningNow) \cap Known
           probed == {i \in Allocs : /\ Checked /\ Wanted(i, desired)
                                     /\ Running(task[i]) /\ rec[i].st # "none"}
<1>1. /\ RecTypes /\ RecTypes' /\ pass.pc = "idle" /\ \A i \in Plain : FreeOK(i)
      /\ task' = task /\ faults' = faults /\ odd' = odd
  BY DEF FreeInv, BudgetInv, Begin
<1>2. PICK healthy \in SUBSET probed :
        /\ rec' = [i \in Allocs |->
                     Observed(i, IF i \in probed THEN [rec[i] EXCEPT !.healthy = i \in healthy]
                                 ELSE rec[i], i \in seen)]
        /\ witnessed' = seen
        /\ pass' = [pc |-> "next", todo |-> PlanOf(rec', desired, seen),
                    spec |-> desired.spec, count |-> desired.count, on |-> desired.on,
                    applied |-> Waits(rec', desired, seen)]
  BY DEF Begin
<1>3. \A i \in Allocs : task[i].st \in ContainerStates
  BY <1>1 DEF RecTypes
<1>4. pass'.pc = "next" /\ pass'.todo = PlanOf(rec', desired, seen) /\ pass'.spec = desired.spec
  BY <1>2
<1>5. \A i \in Plain : i \in seen => i \in witnessed \/ task[i].st = "running"
  BY ReconcilerAssumption DEF RunningNow, Plain, Running, StepIds
<1>6. \A i \in Allocs : ~Mid(i) /\ ~Mid(i)' /\ ~Due(i)'
  BY <1>1, <1>4 DEF Mid, Due
<1> HIDE DEF seen, probed
<1>7. ASSUME NEW i \in Plain
      PROVE  /\ FreeOK(i)'
             /\ /\ task[i].st = "stopped" /\ i \in seen /\ Wanted(i, desired)
                /\ rec'[i].st \notin {"none", "failed"}
                => rec'[i].restarts + 1 <= Credit(i)'
  <2> DEFINE r == rec[i]
             h == IF i \in probed THEN [r EXCEPT !.healthy = i \in healthy] ELSE r
             x == rec'[i]
  <2>1. i \in Allocs /\ IsRecord(r) /\ FreeOK(i)
    BY <1>1 DEF RecTypes, Plain
  <2>2. IsRecord(h) /\ Alike(h, r)
    BY <2>1 DEF IsRecord, RecFields, Alike
  <2>3. x = Observed(i, h, i \in seen)
    BY <1>2, <2>1
  <2> HIDE DEF h
  <2>4. \/ Alike(x, h) /\ (h.st # "none" => ~Running(task[i]))
           /\ ~(task[i].st = "stopped" /\ h.st \in {"running", "pending", "init"}
                /\ Wanted(i, desired))
        \/ /\ Running(task[i]) /\ h.st # "none" /\ x.st = "running"
           /\ x.restarts = h.restarts /\ x.crashes = h.crashes /\ x.why = h.why
        \/ task[i].st = "stopped" /\ h.st \in {"running", "pending", "init"}
           /\ IsExit(x, h, "exit", i \in seen)
    <3> DEFINE c == i \in seen
               y == Observed(i, h, c)
    <3>1. c \in BOOLEAN
      OBVIOUS
    <3> HIDE DEF c
    <3>2. \/ Alike(y, h) /\ (h.st # "none" => ~Running(task[i]))
             /\ ~(task[i].st = "stopped" /\ h.st \in {"running", "pending", "init"}
                  /\ Wanted(i, desired))
          \/ /\ Running(task[i]) /\ h.st # "none" /\ y.st = "running"
             /\ y.restarts = h.restarts /\ y.crashes = h.crashes /\ y.why = h.why
          \/ task[i].st = "stopped" /\ h.st \in {"running", "pending", "init"}
             /\ IsExit(y, h, "exit", c)
          \/ i = Leader /\ Steps > 0
      BY <2>1, <2>2, <3>1, ObservedFacts
    <3>3. ~(i = Leader /\ Steps > 0)
      BY DEF Plain
    <3> HIDE DEF y
    <3>4. x = y
      BY <2>3 DEF y, c
    <3> QED
      BY <3>2, <3>3, <3>4 DEF c
  <2>5. /\ h.st = r.st /\ h.restarts = r.restarts /\ h.crashes = r.crashes /\ h.why = r.why
        /\ r.restarts \in Nat /\ r.crashes \in Nat /\ odd \in Nat /\ faults \in Nat
    BY <1>1, <2>1, <2>2, FreeTypes DEF Alike
  <2>6. ~Mid(i) /\ ~Mid(i)' /\ ~Due(i)' /\ task'[i] = task[i]
    BY <1>1, <1>6, <2>1
  <2>7. CASE Alike(x, h) /\ (h.st # "none" => ~Running(task[i]))
             /\ ~(task[i].st = "stopped" /\ h.st \in {"running", "pending", "init"}
                  /\ Wanted(i, desired))
    <3>1. /\ x.st = r.st /\ x.restarts = r.restarts /\ x.crashes = r.crashes /\ x.why = r.why
          /\ Credit(i)' = Credit(i)
      BY <1>1, <2>5, <2>7 DEF Alike, Credit
    <3>2. x.st = "backoff" /\ Watched(i)' => Watched(i)
      BY <1>2, <1>5, <2>5, <2>6, <2>7, <3>1 DEF Watched, Running
    <3>3. FreeOK(i)'
      BY <1>1, <2>1, <2>6, <3>1, <3>2 DEF FreeOK
    <3>4. ASSUME task[i].st = "stopped", i \in seen, Wanted(i, desired), x.st \notin {"none", "failed"}
          PROVE  x.st = "backoff" /\ Watched(i)
      <4>1. x.st = "backoff"
        BY <2>1, <2>5, <2>7, <3>1, <3>4 DEF FreeOK, RecStates
      <4> QED
        BY <1>5, <2>6, <3>4, <4>1 DEF Watched
    <3>5. r.st = "backoff" /\ Watched(i) => r.restarts + 1 <= Credit(i)
      BY <2>1 DEF FreeOK
    <3> QED
      BY <3>1, <3>3, <3>4, <3>5
  <2>8. CASE Running(task[i]) /\ h.st # "none" /\ x.st = "running"
             /\ x.restarts = h.restarts /\ x.crashes = h.crashes /\ x.why = h.why
    <3>1. Credit(i)' = Credit(i) /\ task[i].st = "running"
      BY <1>1, <2>5, <2>8 DEF Credit, Running
    <3> QED
      BY <2>1, <2>5, <2>6, <2>8, <3>1 DEF FreeOK, RecStates
  <2>9. CASE task[i].st = "stopped" /\ h.st \in {"running", "pending", "init"}
             /\ IsExit(x, h, "exit", i \in seen)
    <3>1. /\ x.restarts = r.restarts /\ x.why = "exit" /\ x.st \in {"failed", "backoff"}
          /\ i \in seen => x.crashes = r.crashes + 1
          /\ i \notin seen => x.crashes = r.crashes
      BY <2>5, <2>9 DEF IsExit
    <3>2. r.restarts <= r.crashes + odd + faults
      BY <2>1 DEF FreeOK, Credit
    <3>3. x.restarts <= Credit(i)' /\ (i \in seen => x.restarts + 1 <= Credit(i)')
      BY <1>1, <2>5, <3>1, <3>2 DEF Credit
    <3>4. Watched(i)' => i \in seen
      BY <1>2, <2>6, <2>9 DEF Watched
    <3> QED
      BY <2>6, <2>9, <3>1, <3>3, <3>4 DEF FreeOK, RecStates
  <2> QED
    BY <2>4, <2>7, <2>8, <2>9
<1>8. ASSUME NEW a \in pass'.todo, a.i \in Plain, a.kind = "restart", Same(a.i)'
      PROVE  rec'[a.i].restarts + 1 <= Credit(a.i)'
  <2> DEFINE i == a.i
             c == i \in seen
             rs == rec'
             kind == PlanAlloc(i, rs, desired.spec, c)
             old == Stale(rs[i], desired.spec)
  <2>1. i \in Allocs /\ Wanted(i, desired) /\ "restart" = PlanAlloc(i, rec', desired.spec, i \in seen)
    BY <1>3, <1>4, <1>8, TodoFacts
  <2>2. rec'[i].st # "none" /\ ~Stale(rec'[i], desired.spec)
    BY <1>4, <1>8 DEF Same, Stale
  <2>3. c \in BOOLEAN
    OBVIOUS
  <2>4. kind = "restart" /\ rs[i].st # "none" /\ ~old
    BY <2>1, <2>2
  <2> HIDE DEF c, rs
  <2>5. /\ rs[i].st # "failed"
        /\ \/ task[i].st = "paused"
           \/ task[i].st = "stopped" /\ c
           \/ task[i].st = "none" /\ rs[i].why = "init"
    <3>1. /\ rs[i].st = "failed" /\ ~old => kind = "none"
          /\ kind = "restart" /\ ~old =>
               \/ task[i].st = "paused"
               \/ task[i].st = "stopped" /\ c
               \/ task[i].st = "none" /\ rs[i].why = "init"
      BY <1>3, <2>1, <2>3, PlanFacts
    <3> HIDE DEF kind, old
    <3> QED
      BY <2>4, <3>1
  <2>6. FreeOK(i)' /\ rec'[i].why # "init"
    BY <1>7, <1>8 DEF FreeOK
  <2>7. CASE task[i].st = "paused"
    BY <1>1, <2>6, <2>7 DEF FreeOK
  <2>8. CASE task[i].st = "stopped" /\ c
    BY <1>7, <1>8, <2>1, <2>2, <2>5, <2>8 DEF c, rs
  <2> QED
    BY <2>5, <2>6, <2>7, <2>8 DEF rs
<1>9. \A a \in pass'.todo : FreeAction(a)'
  <2>1. Plain' = Plain
    BY DEF Plain
  <2> QED
    BY <1>8, <2>1 DEF FreeAction
<1> QED
  BY <1>7, <1>9 DEF FreeInv

\* An attempt of an alloc's restart budget is charged only for an exit this
\* daemon witnessed, for a container in an unexpected state, or for one that a
\* failed call left behind: never for what happened while the daemon or the
\* node was down (planRestart, witness, create).
THEOREM OutagesCostNothing == Spec => []OutagesAreFree
<1>1. Init => FreeInv
  <2> SUFFICES ASSUME Init PROVE FreeInv
    OBVIOUS
  <2>1. \A i \in Plain : FreeOK(i)
    BY DEF Init, NoRec, None, FreeOK, Plain, RecStates, Credit
  <2>2. \A a \in pass.todo : FreeAction(a)
    BY DEF Init, NoPass
  <2> QED
    BY <2>1, <2>2, BudgetInvInit DEF FreeInv
<1>2. FreeInv /\ [Next]_vars => FreeInv'
  <2> SUFFICES ASSUME FreeInv, [Next]_vars PROVE FreeInv'
    OBVIOUS
  <2>1. BudgetInv'
    BY BudgetStep DEF FreeInv
  <2>2. CASE UNCHANGED vars
    <3>1. \A i \in Plain : FreeOK(i)'
      BY <2>2 DEF FreeInv, vars, FreeOK, Credit, Due, Watched, Same, Mid, IsNext
    <3>2. \A a \in pass'.todo : FreeAction(a)'
      BY <2>2 DEF FreeInv, vars, FreeAction, Same, Credit
    <3> QED
      BY <2>1, <3>1, <3>2 DEF FreeInv
  <2>3. CASE Pass
    BY <2>1, <2>3, BeginFree, EndPassFree, TeardownFree, StartContainerFree, AlreadyExistsFree,
       WriteRecordFree, ForgetFree, ReapFree DEF Pass
  <2>4. CASE Faulty
    BY <2>1, <2>4, PassAbortsFree, FaultyFree DEF Faulty
  <2> QED
    BY <2>1, <2>2, <2>3, <2>4, EnvironmentFree, DiesFree DEF Next
<1>3. FreeInv => OutagesAreFree
  BY DEF FreeInv, FreeOK, OutagesAreFree, Plain, Credit
<1> QED
  BY <1>1, <1>2, <1>3, PTL DEF Spec

-----------------------------------------------------------------------------
(* The init sequence runs before its task, and a step at a time.           *)

StepTypes ==
  DOMAIN init = StepIds /\ \A k \in StepIds : DOMAIN init[k] = {"st", "spec"} /\ init[k].st \in StepStates

\* No container is no container at all.
TaskShape == \A i \in Allocs : task[i].st = "none" => task[i] = None

Quiet == \A k \in StepIds : ~Running(init[k])
AllDone == \A k \in StepIds : init[k].st = "done"
ToReap(k) == \E a \in pass.todo : a.kind = "reap" /\ a.k = k

\* What the plan of the pass may rely on when it comes to an action of the
\* leader's sequence.
SequenceAction(a) ==
  /\ a.kind = "done" => a.i = Leader /\ AllDone /\ \A k \in StepIds : ~ToReap(k)
  /\ a.kind \in StepKinds => a.i = Leader /\ a.k \in StepIds /\ task[Leader].st = "none"
  /\ a.kind = "reap" => a.i = Leader /\ a.k \in StepIds
  /\ a.kind = "start" /\ a.i = Leader => task[Leader].st # "none"

\* While the leader has a task, no step runs, and all are done if the record
\* still says init.  That takes a failed call or a death, but for the moment
\* between the task's start and its record; what is reaped then is removed first.
OrderInv ==
  /\ StepTypes
  /\ task[Leader].st # "none" => Quiet
  /\ rec[Leader].st = "init" /\ task[Leader].st # "none" =>
       /\ AllDone
       /\ Trouble = 0 => Starts(Leader)
       /\ (\E k \in StepIds : ToReap(k)) =>
            \E b \in pass.todo : b.i = Leader /\ b.kind = "remove"
  /\ \A a \in pass.todo : SequenceAction(a)

LEMMA TaskShapeStep ==
  ASSUME RecTypes, TaskShape, [Next]_vars
  PROVE  TaskShape'
<1>1. DOMAIN task = Allocs /\ \A i \in Allocs : DOMAIN task[i] = {"st", "spec"}
  BY DEF RecTypes
<1>2. CASE task' = task
  BY <1>2 DEF TaskShape
<1>3. ASSUME NEW i \in Allocs, NEW t, t.st # "none" \/ t = None \/ t = task[i],
             task' = [task EXCEPT ![i] = t]
      PROVE  TaskShape'
  BY <1>1, <1>3 DEF TaskShape
<1>4. ASSUME NEW a \in pass.todo, Teardown(a)
      PROVE  TaskShape'
  BY <1>2, <1>3, <1>4 DEF Teardown, RecTypes
<1>5. ASSUME NEW a \in pass.todo, NEW st \in {"created", "running", "stopped"}, NEW s,
             task' = [task EXCEPT ![a.i] = Container(st, s)]
      PROVE  TaskShape'
  <2>1. a.i \in Allocs /\ Container(st, s).st # "none"
    BY <1>5 DEF RecTypes, Container
  <2> QED
    BY <1>3, <1>5, <2>1
<1>6. ASSUME NEW a \in pass.todo, StartContainer(a)
      PROVE  TaskShape'
  BY <1>2, <1>5, <1>6 DEF StartContainer
<1>7. ASSUME NEW a \in pass.todo, StartFails(a)
      PROVE  TaskShape'
  BY <1>2, <1>5, <1>7 DEF StartFails
<1>8. ASSUME NEW a \in pass.todo, CrashCreating(a)
      PROVE  TaskShape'
  BY <1>2, <1>5, <1>8 DEF CrashCreating
<1>9. ASSUME NEW a \in pass.todo, TeardownFails(a)
      PROVE  TaskShape'
  <2>1. PICK t \in {task[a.i], None, Container("stopped", task[a.i].spec)} :
          task' = [task EXCEPT ![a.i] = t]
    BY <1>9 DEF TeardownFails
  <2>2. a.i \in Allocs /\ (t.st # "none" \/ t = None \/ t = task[a.i])
    BY DEF RecTypes, Container
  <2> QED
    BY <1>3, <2>1, <2>2
<1>10. ASSUME NEW i \in Allocs, Exit(i) \/ Odd(i)
       PROVE  TaskShape'
  <2>1. PICK st \in {"stopped", "paused"} : task' = [task EXCEPT ![i].st = st]
    BY <1>10 DEF Exit, Odd
  <2>2. task'[i].st # "none" /\ \A j \in Allocs : j # i => task'[j] = task[j]
    BY <1>1, <2>1
  <2> QED
    BY <2>2 DEF TaskShape
<1>11. CASE Reboot
  <2>1. \A i \in Allocs :
          task'[i] = IF task[i] = None THEN None ELSE [task[i] EXCEPT !.st = "stopped"]
    BY <1>11 DEF Reboot
  <2>2. \A i \in Allocs : task[i] # None => task'[i].st = "stopped"
    BY <1>1, <2>1
  <2> QED
    BY <2>1, <2>2 DEF TaskShape
<1>12. CASE Pass
  BY <1>2, <1>4, <1>6, <1>12
     DEF Pass, Begin, EndPass, AlreadyExists, WriteRecord, Forget, Reap
<1>13. CASE Faulty
  BY <1>2, <1>7, <1>9, <1>13 DEF Faulty, PassAborts, WriteFails
<1>14. CASE Environment
  BY <1>2, <1>10, <1>14
     DEF Environment, BackoffEnds, Settles, DeadlinePasses, StepDone, StepFails, Deploy, Scale,
         Delete, Edit, DependencyServes, DependencyFails, Overdue
<1>15. CASE Dies
  BY <1>2, <1>8, <1>11, <1>15 DEF Dies, Crash
<1> QED
  BY <1>2, <1>12, <1>13, <1>14, <1>15 DEF Next, vars

LEMMA LeaderFacts == Leader \in Allocs /\ StepIds \subseteq Nat \ {0}
  BY ReconcilerAssumption DEF Leader, StepIds

\* What waits behind an action of the leader relies on nothing.
LEMMA RestRelies ==
  ASSUME RecTypes, OrderInv, NEW a, IsNext(a), a.i = Leader, NEW b \in pass.todo, b # a
  PROVE  SequenceAction(b)'
<1>1. b.i # Leader \/ b.kind = "reap"
  BY OthersWait
<1>2. SequenceAction(b)
  BY DEF OrderInv
<1>3. b.kind = "reap" => b.kind \notin {"done", "start"} \cup StepKinds
  BY DEF StepKinds
<1> QED
  BY <1>1, <1>2, <1>3 DEF SequenceAction

\* An action of another alloc, and the leader's sequence.
LEMMA OtherAllocOrder ==
  ASSUME BudgetInv, OrderInv, Trouble' >= Trouble, Trouble' \in Nat,
         NEW a \in pass.todo, IsNext(a), a.i # Leader,
         DOMAIN init' = DOMAIN init, \A k \in StepIds : init'[k] = init[k],
         task'[Leader].st = task[Leader].st, rec'[Leader].st = rec[Leader].st,
         pass'.todo = pass.todo \/ pass'.todo = pass.todo \ {a}
  PROVE  OrderInv'
<1>1. RecTypes /\ Trouble \in Nat
  BY TroubleCounts DEF BudgetInv
<1>2. ~Starts(Leader)
  BY <1>1, NextIsOne DEF Starts
<1>3. \A k : ToReap(k)' => ToReap(k)
  BY DEF ToReap
<1>4. \A b \in pass.todo : b.i = Leader => b \in pass'.todo
  OBVIOUS
<1>5. \A b \in pass'.todo : SequenceAction(b)'
  BY <1>3 DEF OrderInv, SequenceAction, AllDone
<1>6. (StepTypes /\ (task[Leader].st # "none" => Quiet))'
  BY DEF OrderInv, StepTypes, Quiet
<1>7. ASSUME rec'[Leader].st = "init", task'[Leader].st # "none"
      PROVE  /\ AllDone' /\ Trouble' # 0
             /\ (\E k \in StepIds : ToReap(k)') =>
                  \E b \in pass'.todo : b.i = Leader /\ b.kind = "remove"
  <2>1. AllDone' /\ Trouble # 0
    BY <1>2, <1>7 DEF OrderInv, AllDone
  <2> QED
    BY <1>1, <1>3, <1>4, <1>7, <2>1 DEF OrderInv
<1> QED
  BY <1>5, <1>6, <1>7 DEF OrderInv

\* The leader has no task.
LEMMA NoTaskOrder ==
  ASSUME StepTypes', task'[Leader].st = "none", \A b \in pass'.todo : SequenceAction(b)'
  PROVE  OrderInv'
  BY DEF OrderInv

\* The step an action starts.
LEMMA StepOfFacts ==
  ASSUME BudgetInv, OrderInv, Steps > 0, NEW a \in pass.todo, IsNext(a)
  PROVE  /\ StepOf(a) # 0 => a.i = Leader /\ StepOf(a) \in StepIds
         /\ a.i = Leader => (StepOf(a) = 0 <=> a.kind \in {"done", "start"})
         /\ a.i = Leader /\ StepOf(a) # 0 /\ (Starting(a) \/ pass.pc = "record")
              => task[Leader].st = "none"
<1>1. SequenceAction(a) /\ ActionOK(a) /\ PassOK /\ a.kind \in ActionKinds
  BY DEF OrderInv, BudgetInv, RecTypes
<1>2. 1 \in StepIds /\ StepIds \subseteq Nat \ {0}
  BY ReconcilerAssumption, LeaderFacts DEF StepIds
<1>3. CASE a.kind \in StepKinds
  <2>1. StepOf(a) = a.k /\ a.i = Leader /\ a.k \in StepIds /\ task[Leader].st = "none"
    BY <1>1, <1>3 DEF StepOf, SequenceAction
  <2>2. a.kind \notin {"done", "start"}
    BY <1>3 DEF StepKinds
  <2> QED
    BY <1>2, <2>1, <2>2
<1>4. CASE a.kind \notin StepKinds
  <2>1. StepOf(a) = IF a.i = Leader /\ a.kind \notin {"done", "start"} THEN 1 ELSE 0
    BY <1>4 DEF StepOf
  <2>2. ASSUME a.i = Leader, StepOf(a) # 0, Starting(a) \/ pass.pc = "record"
        PROVE  task[Leader].st = "none"
    <3>1. CASE pass.pc \in {"start", "record"}
      BY <1>1, <1>4, <2>2, <3>1 DEF PassOK
    <3>2. CASE pass.pc = "next" /\ a.kind \in {"create", "done", "start"} \cup StepKinds
      BY <1>1, <1>4, <2>1, <2>2, <3>2 DEF ActionOK
    <3> QED
      BY <2>2, <3>1, <3>2 DEF Starting
  <2> QED
    BY <1>2, <2>1, <2>2
<1> QED
  BY <1>3, <1>4

LEMMA TeardownOrder ==
  ASSUME BudgetInv, BudgetInv', OrderInv, Steps > 0, NEW a \in pass.todo, Teardown(a)
  PROVE  OrderInv'
<1>1. /\ RecTypes /\ IsNext(a) /\ a.i \in Allocs /\ Trouble' = Trouble /\ Trouble' \in Nat
      /\ a.kind \in TeardownKinds /\ rec' = rec /\ pass.pc = "next" /\ StepTypes
  BY TroubleCounts DEF BudgetInv, RecTypes, Teardown, Trouble, OrderInv
<1>2. DOMAIN task = Allocs /\ Leader \in Allocs
  BY <1>1, LeaderFacts DEF RecTypes
<1>3. CASE a.kind = "remove" /\ rec[a.i].st = "none"
  <2>1. Failed(a) /\ UNCHANGED <<task, init>>
    BY <1>3 DEF Teardown
  <2>2. pass'.todo = pass.todo \ {a}
    BY <1>1, <2>1, OverFacts
  <2>3. CASE a.i # Leader
    BY <1>1, <2>1, <2>2, <2>3, OtherAllocOrder
  <2>4. CASE a.i = Leader
    <3>1. \A b \in pass'.todo : SequenceAction(b)'
      BY <1>1, <2>2, <2>4, RestRelies
    <3> QED
      BY <1>1, <1>3, <2>1, <2>4, <3>1 DEF OrderInv, StepTypes, Quiet
  <2> QED
    BY <2>3, <2>4
<1>4. CASE ~(a.kind = "remove" /\ rec[a.i].st = "none")
  <2>1. /\ task' = [task EXCEPT ![a.i] = None]
        /\ init' = IF a.i = Leader THEN [k \in StepIds |-> None] ELSE init
        /\ \E x : Then(x)
    BY <1>4 DEF Teardown
  <2>2. pass'.todo = pass.todo
    BY <1>1, <2>1, ThenFacts
  <2>3. CASE a.i # Leader
    BY <1>1, <1>2, <2>1, <2>2, <2>3, OtherAllocOrder
  <2>4. CASE a.i = Leader
    <3>1. a.kind \notin {"done", "start", "reap"} \cup StepKinds
      BY <1>1 DEF TeardownKinds, StepKinds
    <3>2. \A b \in pass'.todo : SequenceAction(b)'
      BY <1>1, <2>2, <2>4, <3>1, RestRelies DEF SequenceAction
    <3>3. task'[Leader].st = "none"
      BY <1>2, <2>1, <2>4 DEF None
    <3>4. StepTypes'
      BY <2>1, <2>4 DEF StepTypes, None, StepStates
    <3> QED
      BY <3>2, <3>3, <3>4, NoTaskOrder
  <2> QED
    BY <2>3, <2>4
<1> QED
  BY <1>3, <1>4

LEMMA StartContainerOrder ==
  ASSUME BudgetInv, BudgetInv', OrderInv, Steps > 0, NEW a \in pass.todo, StartContainer(a)
  PROVE  OrderInv'
<1>1. /\ RecTypes /\ IsNext(a) /\ a.i \in Allocs /\ Trouble' = Trouble /\ Trouble' \in Nat
      /\ rec' = rec /\ Starting(a) /\ pass.pc # "record" /\ StepTypes /\ SequenceAction(a)
  BY TroubleCounts DEF BudgetInv, RecTypes, StartContainer, Starting, Trouble, OrderInv
<1>2. DOMAIN task = Allocs /\ Leader \in Allocs
  BY <1>1, LeaderFacts DEF RecTypes
<1>3. pass'.todo = pass.todo /\ pass'.pc = "record"
  BY <1>1, ThenFacts DEF StartContainer
<1>4. CASE StepOf(a) # 0
  <2>1. a.i = Leader /\ StepOf(a) \in StepIds /\ task[Leader].st = "none"
    BY <1>1, <1>4, StepOfFacts
  <2>2. task' = task /\ \/ init' = init
                        \/ init' = [init EXCEPT ![StepOf(a)] = Container("running", pass.spec)]
    BY <1>4 DEF StartContainer
  <2>3. StepTypes'
    BY <1>1, <2>1, <2>2 DEF StepTypes, Container, StepStates
  <2>4. a.kind \notin {"done", "start"}
    BY <1>1, <1>4, <2>1, StepOfFacts
  <2>5. SequenceAction(a)'
    BY <1>1, <2>1, <2>2, <2>4 DEF SequenceAction
  <2>6. \A b \in pass'.todo : SequenceAction(b)'
    BY <1>1, <1>3, <2>1, <2>5, RestRelies
  <2> QED
    BY <2>1, <2>2, <2>3, <2>6, NoTaskOrder
<1>5. CASE StepOf(a) = 0
  <2>1. init' = init /\ \E s : task' = [task EXCEPT ![a.i] = Container("running", s)]
    BY <1>5 DEF StartContainer
  <2>2. CASE a.i # Leader
    BY <1>1, <1>2, <1>3, <2>1, <2>2, OtherAllocOrder
  <2>3. CASE a.i = Leader
    <3>1. a.kind \in {"done", "start"} /\ task'[Leader].st = "running"
      BY <1>1, <1>2, <1>5, <2>1, <2>3, StepOfFacts DEF Container
    <3>2. \A k : ToReap(k)' = ToReap(k)
      BY <1>3 DEF ToReap
    <3>3. Starts(Leader)'
      <4>1. IsNext(a)' /\ StepOf(a)' = 0
        BY <1>1, <1>3, <1>5 DEF IsNext, StepOf
      <4> QED
        BY <1>3, <2>3, <4>1 DEF Starts
    <3>4. SequenceAction(a)'
      <4>1. a.kind \notin StepKinds /\ a.kind # "reap"
        BY <3>1 DEF StepKinds
      <4> QED
        BY <1>1, <2>1, <3>1, <3>2, <4>1 DEF SequenceAction, AllDone
    <3>5. \A b \in pass'.todo : SequenceAction(b)'
      BY <1>1, <1>3, <2>3, <3>4, RestRelies
    <3>6. CASE a.kind = "done"
      <4>1. AllDone /\ \A k \in StepIds : ~ToReap(k)
        BY <1>1, <3>6 DEF SequenceAction
      <4>2. AllDone' /\ Quiet'
        BY <2>1, <4>1 DEF AllDone, Quiet, Running
      <4> QED
        BY <1>1, <2>1, <3>2, <3>3, <3>5, <4>1, <4>2 DEF OrderInv, StepTypes
    <3>7. CASE a.kind = "start"
      <4>1. task[Leader].st # "none"
        BY <1>1, <2>3, <3>7 DEF SequenceAction
      <4>2. Quiet' /\ (rec[Leader].st = "init" => AllDone')
        BY <2>1, <4>1 DEF OrderInv, AllDone, Quiet
      <4> QED
        BY <1>1, <1>3, <2>1, <3>2, <3>3, <3>5, <4>1, <4>2 DEF OrderInv, StepTypes
    <3> QED
      BY <3>1, <3>6, <3>7
  <2> QED
    BY <2>2, <2>3
<1> QED
  BY <1>4, <1>5

\* An action that fails before its record is over: the leader's record is what
\* it was, and so is its task.
LEMMA AlreadyExistsOrder ==
  ASSUME BudgetInv, BudgetInv', OrderInv, Steps > 0, NEW a \in pass.todo, AlreadyExists(a)
  PROVE  OrderInv'
<1>1. /\ RecTypes /\ IsNext(a) /\ a.i \in Allocs /\ Trouble' = Trouble /\ Trouble' \in Nat
      /\ UNCHANGED <<task, init>> /\ Starting(a) /\ pass.pc # "record" /\ StepTypes
      /\ SequenceAction(a) /\ StepOf(a) = 0 /\ a.kind # "start" /\ task[a.i].st # "none"
      /\ rec' = [rec EXCEPT ![a.i] = StartFailure(@)]
  BY TroubleCounts DEF BudgetInv, RecTypes, AlreadyExists, Starting, Trouble, OrderInv
<1>2. DOMAIN rec = Allocs /\ Leader \in Allocs /\ IsRecord(rec[Leader])
  BY <1>1, LeaderFacts DEF RecTypes
<1>3. pass'.todo = pass.todo \ {a}
  BY <1>1, OverFacts DEF AlreadyExists
<1>4. CASE a.i # Leader
  BY <1>1, <1>2, <1>3, <1>4, OtherAllocOrder
<1>5. CASE a.i = Leader
  <2>1. a.kind = "done"
    BY <1>1, <1>5, StepOfFacts
  <2>2. AllDone /\ AllDone' /\ \A k \in StepIds : ~ToReap(k) /\ ~ToReap(k)'
    BY <1>1, <1>3, <2>1 DEF SequenceAction, AllDone, ToReap
  <2>3. \A b \in pass'.todo : SequenceAction(b)'
    BY <1>1, <1>3, <1>5, RestRelies
  <2>4. rec'[Leader].st = "init" => rec[Leader].st = "init"
    <3>1. rec'[Leader] = StartFailure(rec[Leader])
      BY <1>1, <1>2, <1>5
    <3>2. StartFailure(rec[Leader]).st \in {rec[Leader].st, "pending"}
      BY <1>2, StartFailureFacts
    <3> QED
      BY <3>1, <3>2
  <2>5. ~Starts(Leader)
    BY <1>1 DEF Starts
  <2> QED
    BY <1>1, <1>5, <2>2, <2>3, <2>4, <2>5 DEF OrderInv, StepTypes, Quiet
<1> QED
  BY <1>4, <1>5

LEMMA StartFailsOrder ==
  ASSUME BudgetInv, BudgetInv', OrderInv, Steps > 0, NEW a \in pass.todo, StartFails(a)
  PROVE  OrderInv'
<1>1. /\ RecTypes /\ IsNext(a) /\ a.i \in Allocs /\ Trouble' = Trouble + 1
      /\ Trouble \in Nat /\ Trouble' \in Nat
      /\ Starting(a) /\ pass.pc # "record" /\ StepTypes /\ SequenceAction(a)
      /\ rec' = [rec EXCEPT ![a.i] = StartFailure(@)]
  BY TroubleCounts DEF BudgetInv, RecTypes, StartFails, Fault, Starting, Trouble, OrderInv
<1>2. /\ DOMAIN rec = Allocs /\ DOMAIN task = Allocs /\ Leader \in Allocs /\ IsRecord(rec[Leader])
  BY <1>1, LeaderFacts DEF RecTypes
<1>3. pass'.todo = pass.todo \ {a}
  BY <1>1, OverFacts DEF StartFails
<1>4. CASE StepOf(a) # 0
  <2>1. a.i = Leader /\ StepOf(a) \in StepIds /\ task[Leader].st = "none"
    BY <1>1, <1>4, StepOfFacts
  <2>2. task' = task /\ \/ init' = init
                        \/ init' = [init EXCEPT ![StepOf(a)] = Container("created", pass.spec)]
    BY <1>4 DEF StartFails
  <2>3. StepTypes'
    BY <1>1, <2>1, <2>2 DEF StepTypes, Container, StepStates
  <2>4. \A b \in pass'.todo : SequenceAction(b)'
    BY <1>1, <1>3, <2>1, RestRelies
  <2> QED
    BY <2>1, <2>2, <2>3, <2>4, NoTaskOrder
<1>5. CASE StepOf(a) = 0
  <2>1. /\ init' = init
        /\ \/ task' = task
           \/ task[a.i].st = "none" /\ task' = [task EXCEPT ![a.i] = Container("created", pass.spec)]
    BY <1>5 DEF StartFails
  <2>2. CASE a.i # Leader
    <3>1. task'[Leader] = task[Leader] /\ rec'[Leader] = rec[Leader]
      BY <1>1, <1>2, <2>1, <2>2
    <3>2. Trouble' >= Trouble
      BY <1>1
    <3> QED
      BY <1>1, <1>3, <2>1, <2>2, <3>1, <3>2, OtherAllocOrder
  <2>3. CASE a.i = Leader
    <3>1. \A b \in pass'.todo : SequenceAction(b)'
      BY <1>1, <1>3, <2>3, RestRelies
    <3>2. \A k : ToReap(k)' => ToReap(k)
      BY <1>3 DEF ToReap
    <3>3. rec'[Leader].st = "init" => rec[Leader].st = "init"
      <4>1. rec'[Leader] = StartFailure(rec[Leader])
        BY <1>1, <1>2, <2>3
      <4>2. StartFailure(rec[Leader]).st \in {rec[Leader].st, "pending"}
        BY <1>2, StartFailureFacts
      <4> QED
        BY <4>1, <4>2
    <3>4. a.kind \in {"done", "start"}
      BY <1>1, <1>5, <2>3, StepOfFacts
    <3>5. CASE a.kind = "done"
      <4>1. AllDone /\ \A k \in StepIds : ~ToReap(k)
        BY <1>1, <3>5 DEF SequenceAction
      <4>2. AllDone' /\ Quiet'
        BY <2>1, <4>1 DEF AllDone, Quiet, Running
      <4> QED
        BY <1>1, <2>1, <3>1, <3>2, <4>1, <4>2 DEF OrderInv, StepTypes
    <3>6. CASE a.kind = "start"
      <4>1. task[Leader].st # "none" /\ task' = task
        BY <1>1, <2>1, <2>3, <3>6 DEF SequenceAction
      <4>2. Quiet' /\ (rec[Leader].st = "init" => AllDone')
        BY <2>1, <4>1 DEF OrderInv, AllDone, Quiet
      <4>3. \A b \in pass.todo : b.kind = "remove" => b \in pass'.todo
        BY <1>3, <3>6
      <4> QED
        BY <1>1, <1>3, <2>1, <3>1, <3>2, <3>3, <4>1, <4>2, <4>3 DEF OrderInv, StepTypes
    <3> QED
      BY <3>4, <3>5, <3>6
  <2> QED
    BY <2>2, <2>3
<1> QED
  BY <1>4, <1>5

LEMMA WriteRecordOrder ==
  ASSUME BudgetInv, BudgetInv', OrderInv, Steps > 0, NEW a \in pass.todo, WriteRecord(a)
  PROVE  OrderInv'
<1>1. /\ RecTypes /\ IsNext(a) /\ a.i \in Allocs /\ Trouble' = Trouble /\ Trouble' \in Nat
      /\ UNCHANGED <<task, init>> /\ pass.pc = "record" /\ StepTypes
      /\ rec' = [rec EXCEPT ![a.i] = IF a.kind = "start" THEN MarkRunning(@) ELSE NewRecord(@, a)]
  BY TroubleCounts DEF BudgetInv, RecTypes, WriteRecord, Trouble, OrderInv
<1>2. DOMAIN rec = Allocs /\ Leader \in Allocs /\ IsRecord(rec[Leader])
  BY <1>1, LeaderFacts DEF RecTypes
<1>3. pass'.todo = pass.todo \ {a}
  BY <1>1, OverFacts DEF WriteRecord
<1>4. CASE a.i # Leader
  BY <1>1, <1>2, <1>3, <1>4, OtherAllocOrder
<1>5. CASE a.i = Leader
  <2>1. \A b \in pass'.todo : SequenceAction(b)'
    BY <1>1, <1>3, <1>5, RestRelies
  <2>2. StepTypes'
    BY <1>1 DEF StepTypes
  <2>3. CASE StepOf(a) # 0
    <3>1. task'[Leader].st = "none"
      BY <1>1, <1>5, <2>3, StepOfFacts
    <3> QED
      BY <2>1, <2>2, <3>1, NoTaskOrder
  <2>4. CASE StepOf(a) = 0
    <3>1. rec'[Leader].st # "init"
      <4>1. CASE a.kind = "start"
        <5>1. rec'[Leader] = MarkRunning(rec[Leader])
          BY <1>1, <1>2, <1>5, <4>1
        <5>2. MarkRunning(rec[Leader]).st \in {"none", "running"}
          BY <1>2, MarkRunningFacts
        <5> QED
          BY <5>1, <5>2
      <4>2. CASE a.kind # "start"
        <5>1. rec'[Leader] = NewRecord(rec[Leader], a)
          BY <1>1, <1>2, <1>5, <4>2
        <5>2. NewRecord(rec[Leader], a).st = "running"
          BY <1>2, <2>4, NewRecordFacts
        <5> QED
          BY <5>1, <5>2
      <4> QED
        BY <4>1, <4>2
    <3> QED
      BY <1>1, <2>1, <2>2, <3>1 DEF OrderInv, Quiet
  <2> QED
    BY <2>3, <2>4
<1> QED
  BY <1>4, <1>5

LEMMA WriteFailsOrder ==
  ASSUME BudgetInv, BudgetInv', OrderInv, NEW a \in pass.todo, WriteFails(a)
  PROVE  OrderInv'
<1>1. /\ RecTypes /\ IsNext(a) /\ a.i \in Allocs /\ Trouble' = Trouble + 1
      /\ Trouble \in Nat /\ Trouble' \in Nat /\ PassOK
      /\ UNCHANGED <<rec, task, init>> /\ pass.pc \in {"record", "forget"} /\ StepTypes
  BY TroubleCounts DEF BudgetInv, RecTypes, WriteFails, Fault, Trouble, OrderInv
<1>2. pass'.todo = pass.todo \ {a}
  BY <1>1, OverFacts DEF WriteFails
<1>3. CASE a.i # Leader
  BY <1>1, <1>2, <1>3, OtherAllocOrder
<1>4. CASE a.i = Leader
  <2>1. \A b \in pass'.todo : SequenceAction(b)'
    BY <1>1, <1>2, <1>4, RestRelies
  <2>2. \A k : ToReap(k)' => ToReap(k)
    BY <1>2 DEF ToReap
  <2>3. task[Leader].st # "none" => a.kind # "remove"
    BY <1>1, <1>4 DEF PassOK
  <2>4. \A b \in pass.todo : b.kind = "remove" /\ task[Leader].st # "none" => b \in pass'.todo
    BY <1>2, <2>3
  <2>5. (StepTypes /\ (task[Leader].st # "none" => Quiet))'
    BY <1>1 DEF OrderInv, StepTypes, Quiet
  <2>6. ASSUME rec'[Leader].st = "init", task'[Leader].st # "none"
        PROVE  /\ AllDone' /\ Trouble' # 0
               /\ (\E k \in StepIds : ToReap(k)') =>
                    \E b \in pass'.todo : b.i = Leader /\ b.kind = "remove"
    BY <1>1, <2>2, <2>4, <2>6 DEF OrderInv, AllDone
  <2> QED
    BY <2>1, <2>5, <2>6 DEF OrderInv
<1> QED
  BY <1>3, <1>4

LEMMA ForgetOrder ==
  ASSUME BudgetInv, BudgetInv', OrderInv, NEW a \in pass.todo, Forget(a)
  PROVE  OrderInv'
<1>1. /\ RecTypes /\ IsNext(a) /\ a.i \in Allocs /\ Trouble' = Trouble /\ Trouble' \in Nat
      /\ UNCHANGED <<task, init>> /\ pass.pc = "forget" /\ StepTypes /\ task[a.i].st = "none"
      /\ \A i \in Allocs : i # a.i => rec'[i] = rec[i]
  BY TroubleCounts DEF BudgetInv, RecTypes, Forget, Trouble, OrderInv, PassOK
<1>2. pass'.todo = pass.todo \ {a} /\ Leader \in Allocs
  BY <1>1, OverFacts, LeaderFacts DEF Forget
<1>3. CASE a.i # Leader
  BY <1>1, <1>2, <1>3, OtherAllocOrder
<1>4. CASE a.i = Leader
  <2>1. \A b \in pass'.todo : SequenceAction(b)'
    BY <1>1, <1>2, <1>4, RestRelies
  <2> QED
    BY <1>1, <1>4, <2>1, NoTaskOrder DEF StepTypes
<1> QED
  BY <1>3, <1>4

\* A container that is reaped is of no sequence that has its task.
LEMMA ReapOrder ==
  ASSUME BudgetInv, BudgetInv', OrderInv, NEW a \in pass.todo, Reap(a)
  PROVE  OrderInv'
<1>1. /\ RecTypes /\ IsNext(a) /\ a.kind = "reap" /\ a.i = Leader /\ a.k \in StepIds
      /\ UNCHANGED <<rec, task>> /\ StepTypes /\ init' \in {init, [init EXCEPT ![a.k] = None]}
  BY DEF BudgetInv, Reap, OrderInv, SequenceAction
<1>2. pass'.todo = pass.todo \ {a}
  BY <1>1, OverFacts DEF Reap
<1>3. \A b \in pass'.todo : SequenceAction(b)'
  BY <1>1, <1>2, RestRelies
<1>4. StepTypes' /\ (Quiet => Quiet')
  BY <1>1 DEF StepTypes, Quiet, None, StepStates, Running
<1>5. ~(rec[Leader].st = "init" /\ task[Leader].st # "none")
  <2> SUFFICES ASSUME rec[Leader].st = "init" /\ task[Leader].st # "none"
               PROVE  FALSE
    OBVIOUS
  <2>1. ToReap(a.k)
    BY <1>1 DEF ToReap
  <2>2. PICK b \in pass.todo : b.i = Leader /\ b.kind = "remove"
    BY <1>1, <2>1 DEF OrderInv
  <2>3. a # b
    BY <1>1, <2>2
  <2>4. Before(a, b) /\ a.i = b.i
    BY <1>1, <2>2, <2>3 DEF IsNext
  <2> QED
    BY <2>2, <2>4, ReconcilerAssumption DEF Before, Leader
<1> QED
  BY <1>1, <1>3, <1>4, <1>5 DEF OrderInv

\* The one teardown that may fail finds a leader whose record says init without
\* a task.
LEMMA TeardownFailsOrder ==
  ASSUME Trouble' <= 1, BudgetInv, BudgetInv', OrderInv, NEW a \in pass.todo, TeardownFails(a)
  PROVE  OrderInv'
<1>1. /\ RecTypes /\ IsNext(a) /\ a.i \in Allocs /\ Trouble' = Trouble + 1
      /\ Trouble \in Nat /\ Trouble' \in Nat /\ Trouble = 0
      /\ rec' = rec /\ pass.pc = "next" /\ StepTypes
  <2>1. /\ RecTypes /\ RecTypes' /\ IsNext(a) /\ rec' = rec /\ pass.pc = "next" /\ StepTypes
        /\ faults' = faults + 1 /\ deaths' = deaths
    BY DEF BudgetInv, TeardownFails, Fault, OrderInv
  <2>2. a.i \in Allocs /\ faults \in Nat /\ deaths \in Nat
    BY <2>1 DEF RecTypes
  <2>3. Trouble' = Trouble + 1 /\ Trouble \in Nat /\ Trouble' \in Nat
    BY <2>1, <2>2 DEF Trouble
  <2>4. Trouble = 0
    BY <2>3
  <2> QED
    BY <2>1, <2>2, <2>3, <2>4
<1>2. DOMAIN task = Allocs /\ Leader \in Allocs
  BY <1>1, LeaderFacts DEF RecTypes
<1>3. pass'.todo = pass.todo \ {a}
  BY <1>1, OverFacts DEF TeardownFails
<1>4. PICK left \in SUBSET StepIds, t \in {task[a.i], None, Container("stopped", task[a.i].spec)} :
        /\ a.i # Leader => left = StepIds
        /\ t # task[a.i] => (task[a.i].st # "none" /\ (a.i = Leader => left = {}))
        /\ init' = [k \in StepIds |-> IF k \in left THEN init[k] ELSE None]
        /\ task' = [task EXCEPT ![a.i] = t]
  BY DEF TeardownFails
<1>5. CASE a.i # Leader
  <2>1. DOMAIN init' = DOMAIN init /\ \A k \in StepIds : init'[k] = init[k]
    BY <1>1, <1>4, <1>5 DEF StepTypes
  <2>2. task'[Leader] = task[Leader]
    BY <1>2, <1>4, <1>5
  <2>3. Trouble' >= Trouble
    BY <1>1
  <2> QED
    BY <1>1, <1>3, <1>5, <2>1, <2>2, <2>3, OtherAllocOrder
<1>6. CASE a.i = Leader
  <2>1. \A b \in pass'.todo : SequenceAction(b)'
    BY <1>1, <1>3, <1>6, RestRelies
  <2>2. StepTypes' /\ (Quiet => Quiet')
    BY <1>1, <1>4 DEF StepTypes, Quiet, None, StepStates, Running
  <2>3. task'[Leader].st # "none" => task[Leader].st # "none"
    BY <1>2, <1>4, <1>6
  <2>4. ~(rec[Leader].st = "init" /\ task[Leader].st # "none")
    BY <1>1 DEF OrderInv, Starts
  <2> QED
    BY <1>1, <2>1, <2>2, <2>3, <2>4 DEF OrderInv
<1> QED
  BY <1>5, <1>6

\* No pass is under way: what is left is about the leader alone.
LEMMA BetweenOrder ==
  ASSUME OrderInv, pass'.todo = {}, StepTypes', rec'[Leader].st = rec[Leader].st,
         task'[Leader].st # "none" => task[Leader].st # "none",
         Quiet => Quiet', AllDone => AllDone', ~Starts(Leader) \/ Trouble' # 0,
         Trouble' = 0 => Trouble = 0
  PROVE  OrderInv'
<1>1. \A k : ~ToReap(k)'
  BY DEF ToReap
<1> QED
  BY <1>1 DEF OrderInv

LEMMA EndPassOrder ==
  ASSUME BudgetInv, OrderInv, EndPass \/ PassAborts
  PROVE  OrderInv'
<1>1. /\ RecTypes /\ Trouble \in Nat /\ (Trouble' = Trouble \/ Trouble' = Trouble + 1)
      /\ UNCHANGED <<rec, task, init>> /\ pass'.todo = {} /\ ~Starts(Leader)
  BY TroubleCounts
     DEF BudgetInv, PassOK, RecTypes, EndPass, PassAborts, Fault, Trouble, NoPass, Starts
<1> QED
  BY <1>1, BetweenOrder DEF OrderInv, StepTypes, Quiet, AllDone

LEMMA DiesOrder ==
  ASSUME BudgetInv, TaskShape, OrderInv, Steps > 0, Dies
  PROVE  OrderInv'
<1>1. /\ RecTypes /\ Trouble' # 0 /\ pass'.todo = {} /\ rec' = rec /\ StepTypes
      /\ DOMAIN task = Allocs /\ Leader \in Allocs
  BY TroubleCounts, LeaderFacts
     DEF BudgetInv, RecTypes, Dies, Crash, Reboot, CrashCreating, Restarted, Trouble, NoPass, OrderInv
<1>2. CASE Crash
  BY <1>1, <1>2, BetweenOrder DEF Crash, StepTypes, Quiet, AllDone
<1>3. CASE Reboot
  <2>1. \A k \in StepIds : init'[k] = IF init[k] = None THEN None ELSE [init[k] EXCEPT !.st = "done"]
    BY <1>3 DEF Reboot
  <2>2. DOMAIN init' = StepIds
    BY <1>3 DEF Reboot
  <2>3. StepTypes' /\ Quiet'
    BY <1>1, <2>1, <2>2 DEF StepTypes, Quiet, None, Running, StepStates
  <2>4. AllDone => AllDone'
    BY <1>1, <2>1 DEF StepTypes, AllDone, None
  <2>5. task'[Leader].st # "none" => task[Leader].st # "none"
    <3>1. task'[Leader] = IF task[Leader] = None THEN None ELSE [task[Leader] EXCEPT !.st = "stopped"]
      BY <1>1, <1>3 DEF Reboot
    <3>2. task[Leader].st = "none" => task[Leader] = None
      BY <1>1 DEF TaskShape
    <3> QED
      BY <3>1, <3>2 DEF None
  <2> QED
    BY <1>1, <2>3, <2>4, <2>5, BetweenOrder
<1>4. CASE \E a \in pass.todo : CrashCreating(a)
  <2>1. PICK a \in pass.todo : CrashCreating(a)
    BY <1>4
  <2>2. IsNext(a) /\ Starting(a) /\ SequenceAction(a) /\ a.kind # "start" /\ a.i \in Allocs
    BY <1>1, <2>1 DEF CrashCreating, Starting, OrderInv, RecTypes
  <2>3. CASE StepOf(a) # 0
    <3>1. StepOf(a) \in StepIds /\ task[Leader].st = "none" /\ a.i = Leader
      BY <2>2, <2>3, StepOfFacts
    <3>2. PICK st \in {"done", "created"} : init' = [init EXCEPT ![StepOf(a)] = Container(st, pass.spec)]
      BY <2>1, <2>3 DEF CrashCreating
    <3>3. task' = task
      BY <2>1, <2>3 DEF CrashCreating
    <3>4. StepTypes'
      BY <1>1, <3>1, <3>2 DEF StepTypes, Container, StepStates
    <3> QED
      BY <1>1, <3>1, <3>3, <3>4, NoTaskOrder
  <2>4. CASE StepOf(a) = 0
    <3>1. init' = init /\ \E st \in {"stopped", "created"} :
                             task' = [task EXCEPT ![a.i] = Container(st, pass.spec)]
      BY <2>1, <2>4 DEF CrashCreating
    <3>2. StepTypes' /\ (Quiet => Quiet') /\ (AllDone => AllDone')
      BY <1>1, <3>1 DEF StepTypes, Quiet, AllDone
    <3>3. CASE a.i # Leader
      <4>1. task'[Leader] = task[Leader]
        BY <1>1, <3>1, <3>3
      <4> QED
        BY <1>1, <3>2, <4>1, BetweenOrder
    <3>4. CASE a.i = Leader
      <4>1. AllDone
        BY <2>2, <2>4, <3>4, StepOfFacts DEF SequenceAction
      <4>2. AllDone' /\ Quiet' /\ \A k : ~ToReap(k)'
        BY <1>1, <3>2, <4>1 DEF AllDone, Quiet, Running, ToReap
      <4> QED
        BY <1>1, <3>2, <4>2 DEF OrderInv
    <3> QED
      BY <3>3, <3>4
  <2> QED
    BY <2>3, <2>4
<1> QED
  BY <1>2, <1>3, <1>4 DEF Dies

\* A step that runs is one the task waits for.
LEMMA StepExitOrder ==
  ASSUME OrderInv, NEW k \in StepIds, NEW st \in {"done", "failed"}, Running(init[k]),
         init' = [init EXCEPT ![k].st = st], task' = task, pass' = pass
  PROVE  OrderInv'
<1>1. StepTypes /\ task[Leader].st = "none" /\ ~AllDone
  BY DEF OrderInv, Quiet, AllDone, Running
<1>2. StepTypes'
  BY <1>1 DEF StepTypes, StepStates
<1>3. ASSUME NEW a \in pass'.todo
      PROVE  SequenceAction(a)'
  <2>1. SequenceAction(a) /\ a.kind # "done"
    BY <1>1, <1>3 DEF OrderInv, SequenceAction
  <2> QED
    BY <2>1 DEF SequenceAction
<1> QED
  BY <1>1, <1>2, <1>3, NoTaskOrder

LEMMA EnvironmentOrder ==
  ASSUME BudgetInv, OrderInv, Environment
  PROVE  OrderInv'
<1>1. RecTypes /\ DOMAIN task = Allocs /\ DOMAIN rec = Allocs /\ Leader \in Allocs /\ PassOK
      /\ \A i \in Allocs : DOMAIN task[i] = {"st", "spec"} /\ DOMAIN rec[i] = RecFields
  BY LeaderFacts DEF BudgetInv, RecTypes, IsRecord
<1>2. ASSUME init' = init, pass' = pass, faults' = faults, deaths' = deaths,
             rec'[Leader].st = rec[Leader].st,
             task'[Leader].st # "none" <=> task[Leader].st # "none"
      PROVE  OrderInv'
  <2>1. (StepTypes <=> StepTypes') /\ (Quiet <=> Quiet') /\ (AllDone <=> AllDone') /\ Trouble' = Trouble
    BY <1>2 DEF StepTypes, Quiet, AllDone, Trouble
  <2>2. \A k : ToReap(k)' <=> ToReap(k)
    BY <1>2 DEF ToReap
  <2>3. Starts(Leader)' <=> Starts(Leader)
    <3>1. \A a \in pass.todo : IsNext(a)' <=> IsNext(a)
      BY <1>2 DEF IsNext
    <3> QED
      BY <1>2, <3>1 DEF Starts
  <2>4. \A a \in pass.todo : SequenceAction(a) => SequenceAction(a)'
    BY <1>2, <2>1, <2>2 DEF SequenceAction
  <2> QED
    BY <1>2, <2>1, <2>2, <2>3, <2>4 DEF OrderInv
<1>3. ASSUME NEW i \in Allocs, Exit(i) \/ Odd(i)
      PROVE  OrderInv'
  <2>1. PICK st \in {"stopped", "paused"} : task' = [task EXCEPT ![i].st = st]
    BY <1>3 DEF Exit, Odd
  <2>2. task[i].st = "running" /\ UNCHANGED <<init, pass, faults, deaths, rec>>
    BY <1>3 DEF Exit, Odd, Running
  <2>3. task'[i].st # "none" /\ \A j \in Allocs : j # i => task'[j] = task[j]
    BY <1>1, <2>1
  <2>4. task'[Leader].st # "none" <=> task[Leader].st # "none"
    BY <1>1, <2>2, <2>3
  <2> QED
    BY <1>2, <2>2, <2>4
<1>4. ASSUME NEW i \in Allocs, NEW r, DeadlinePasses(i, r), r.st = rec[i].st
      PROVE  OrderInv'
  <2>1. rec'[Leader].st = rec[Leader].st
    BY <1>1, <1>4 DEF DeadlinePasses
  <2> QED
    BY <1>2, <1>4, <2>1 DEF DeadlinePasses
<1>5. ASSUME NEW i \in Allocs, BackoffEnds(i) \/ Settles(i)
      PROVE  OrderInv'
  <2>1. [rec[i] EXCEPT !.wait = FALSE].st = rec[i].st /\ [rec[i] EXCEPT !.young = FALSE].st = rec[i].st
    BY <1>1 DEF RecFields
  <2> QED
    BY <1>4, <1>5, <2>1 DEF BackoffEnds, Settles
<1>6. CASE Overdue
  <2>1. [rec[Leader] EXCEPT !.late = TRUE].st = rec[Leader].st
    BY <1>1 DEF RecFields
  <2> QED
    BY <1>1, <1>4, <1>6, <2>1 DEF Overdue
<1>7. ASSUME NEW k \in StepIds, StepDone(k) \/ StepFails(k)
      PROVE  OrderInv'
  BY <1>7, StepExitOrder DEF StepDone, StepFails
<1>8. CASE Deploy \/ Scale \/ Delete \/ DependencyServes \/ DependencyFails
  BY <1>2, <1>8 DEF Deploy, Scale, Delete, Edit, DependencyServes, DependencyFails
<1> QED
  BY <1>3, <1>5, <1>6, <1>7, <1>8 DEF Environment

\* There is a live step, or every step is done.
LEMMA LiveFacts ==
  /\ Live \in 1..(Steps + 1) /\ IsLive(Live)
  /\ Live \notin StepIds <=> AllDone
  /\ AllDone => \A k \in StepIds : k <= Live
<1> DEFINE left == {k \in StepIds : init[k].st # "done"}
<1>1. Steps \in Nat /\ StepIds = 1..Steps /\ StepIds \subseteq Nat
  BY ReconcilerAssumption DEF StepIds
<1>2. \E k \in 1..(Steps + 1) : IsLive(k)
  <2>1. CASE left = {}
    <3>1. IsLive(Steps + 1)
      BY <1>1, <2>1 DEF IsLive
    <3> QED
      BY <1>1, <3>1
  <2>2. CASE left # {}
    <3>1. PICK k \in left : \A j \in left : ~ (<<j, k>> \in OpToRel(<, Nat))
      <4>1. left \subseteq Nat
        BY <1>1
      <4> HIDE DEF left
      <4> QED
        BY <2>2, <4>1, NatLessThanWellFounded, WFMin, Zenon
    <3>2. \A j \in left : ~(j < k)
      BY <1>1, <3>1 DEF OpToRel
    <3>3. k \in StepIds /\ init[k].st # "done"
      OBVIOUS
    <3>4. IsLive(k) /\ k \in 1..(Steps + 1)
      BY <1>1, <3>2, <3>3 DEF IsLive
    <3> QED
      BY <3>4
  <2> QED
    BY <2>1, <2>2
<1>3. Live \in 1..(Steps + 1) /\ IsLive(Live)
  BY <1>2 DEF Live
<1> QED
  BY <1>1, <1>3 DEF IsLive, AllDone

\* What is planned for the leader's sequence.
LEMMA LeaderPlan ==
  ASSUME NEW rs, NEW d, NEW seen, NEW a \in PlanOf(rs, d, seen),
         \A i \in Allocs : task[i].st \in ContainerStates
  PROVE  /\ a.kind \in StepKinds =>
              /\ a.i = Leader /\ a.k = Live /\ Live \in StepIds
              /\ rs[Leader].st = "init" /\ Wanted(Leader, d)
              /\ a.kind = "stepStart" => init[Live].st = "none"
              /\ a.kind = "stepRerun" => init[Live].st # "none" /\ ~Running(init[Live])
         /\ a.kind = "done" =>
              a.i = Leader /\ Live \notin StepIds /\ rs[Leader].st = "init" /\ Wanted(Leader, d)
         /\ a.kind = "start" => task[a.i].st = "created"
         /\ a.kind = "reap" =>
              /\ a.i = Leader /\ a.k \in Reaped(rs, d, Kinds(rs, d, seen))
         /\ a.kind # "reap" => a.kind = Kinds(rs, d, seen)[a.i]
<1> DEFINE kinds == Kinds(rs, d, seen)
           i == a.i
           c == i \in seen
           kind == PlanAlloc(i, rs, d.spec, c)
<1>1. \/ \E j \in Allocs : a = Action(kinds[j], j, IF kinds[j] \in StepKinds THEN Live ELSE 0)
      \/ \E k \in Reaped(rs, d, kinds) : a = Action("reap", Leader, k)
  BY DEF PlanOf
<1> HIDE DEF kinds
<1>2. CASE \E k \in Reaped(rs, d, kinds) : a = Action("reap", Leader, k)
  <2>1. a.i = Leader /\ a.kind = "reap" /\ a.k \in Reaped(rs, d, kinds)
    BY <1>2 DEF Action
  <2> QED
    BY <2>1 DEF StepKinds, kinds
<1>3. CASE \E j \in Allocs : a = Action(kinds[j], j, IF kinds[j] \in StepKinds THEN Live ELSE 0)
  <2>1. i \in Allocs /\ a.kind = kinds[i] /\ (a.kind \in StepKinds => a.k = Live)
    BY <1>3 DEF Action
  <2>2. a.kind \notin {"reap", "remove"} => Wanted(i, d) /\ a.kind = kind
    BY TodoFacts
  <2>3. c \in BOOLEAN /\ task[i].st \in ContainerStates
    BY <2>1
  <2>4. a.kind # "reap"
    <3>1. kinds[i] = IF Wanted(i, d) THEN kind
                     ELSE IF task[i].st # "none" \/ rs[i].st # "none" THEN "remove" ELSE "none"
      BY <2>1 DEF kinds, Kinds
    <3> HIDE DEF c
    <3>2. kind # "reap"
      BY <2>1, <2>3, PlanFacts
    <3> HIDE DEF kind
    <3> QED
      BY <2>1, <3>1, <3>2
  <2> HIDE DEF c
  <2>5. /\ kind \in StepKinds \cup {"done"} => rs[i].st = "init" /\ ~Stale(rs[i], d.spec) /\ i = Leader
        /\ kind = "start" => task[i].st = "created"
    BY <2>1, <2>3, PlanFacts
  <2>6. kind \in StepKinds \cup {"done"} => kind = PlanInit(rs[Leader])
    BY <2>5 DEF PlanAlloc
  <2> HIDE DEF kind
  <2>7. /\ PlanInit(rs[Leader]) = "done" => Live \notin StepIds
        /\ PlanInit(rs[Leader]) \in StepKinds => Live \in StepIds
        /\ PlanInit(rs[Leader]) = "stepStart" => init[Live].st = "none"
        /\ PlanInit(rs[Leader]) = "stepRerun" => init[Live].st # "none" /\ ~Running(init[Live])
    BY DEF PlanInit, StepKinds
  <2>8. "remove" \notin StepKinds /\ "done" \notin StepKinds /\ "start" \notin StepKinds
    BY DEF StepKinds
  <2> QED
    BY <2>1, <2>2, <2>4, <2>5, <2>6, <2>7, <2>8 DEF kinds
<1> QED
  BY <1>1, <1>2, <1>3

\* An alloc that should not be there is removed.
LEMMA RemovePlanned ==
  ASSUME NEW rs, NEW d, NEW seen, NEW i \in Allocs, ~Wanted(i, d), task[i].st # "none"
  PROVE  \E b \in PlanOf(rs, d, seen) : b.i = i /\ b.kind = "remove"
<1> DEFINE kinds == Kinds(rs, d, seen)
           b == Action("remove", i, 0)
<1>1. kinds[i] = "remove"
  BY DEF Kinds
<1>2. "remove" \notin StepKinds /\ b.i = i /\ b.kind = "remove"
  BY DEF StepKinds, Action
<1>3. b \in PlanOf(rs, d, seen)
  BY <1>1, <1>2 DEF PlanOf
<1> QED
  BY <1>2, <1>3

LEMMA BeginOrder ==
  ASSUME BudgetInv, OrderInv, Begin
  PROVE  OrderInv'
<1> DEFINE seen == (witnessed \cup RunningNow) \cap Known
           probed == {i \in Allocs : /\ Checked /\ Wanted(i, desired)
                                     /\ Running(task[i]) /\ rec[i].st # "none"}
<1>1. RecTypes /\ pass.pc = "idle" /\ Leader \in Allocs
  BY LeaderFacts DEF BudgetInv, Begin
<1>2. PICK healthy \in SUBSET probed :
        /\ rec' = [i \in Allocs |->
                     Observed(i, IF i \in probed THEN [rec[i] EXCEPT !.healthy = i \in healthy]
                                 ELSE rec[i], i \in seen)]
        /\ pass' = [pc |-> "next", todo |-> PlanOf(rec', desired, seen),
                    spec |-> desired.spec, count |-> desired.count, on |-> desired.on,
                    applied |-> Waits(rec', desired, seen)]
  BY DEF Begin
<1>3. /\ task' = task /\ init' = init /\ Trouble' = Trouble
      /\ pass'.todo = PlanOf(rec', desired, seen)
  BY <1>2 DEF Begin, Trouble
<1>4. \A i \in Allocs : task[i].st \in ContainerStates
  BY <1>1 DEF RecTypes
<1> HIDE DEF seen, probed
<1>5. rec'[Leader].st = "init" => rec[Leader].st = "init"
  <2> DEFINE r == rec[Leader]
             c == Leader \in seen
             h == IF Leader \in probed THEN [r EXCEPT !.healthy = Leader \in healthy] ELSE r
             y == Observed(Leader, h, c)
  <2>1. IsRecord(h) /\ h.st = r.st
    BY <1>1 DEF RecTypes, IsRecord, RecFields
  <2>2. c \in BOOLEAN /\ rec'[Leader] = y
    BY <1>1, <1>2
  <2> HIDE DEF h, c
  <2>3. \/ Alike(y, h)
        \/ y.st = "running"
        \/ IsExit(y, h, "exit", c)
        \/ IsExit(y, h, "init", c)
    BY <1>1, <2>1, <2>2, ObservedFacts
  <2> HIDE DEF y
  <2>4. y.st = "init" => h.st = "init"
    BY <2>3 DEF Alike, IsExit
  <2> QED
    BY <2>1, <2>2, <2>4
<1>6. rec'[Leader].st = "init" /\ task[Leader].st # "none" => AllDone /\ Trouble # 0
  BY <1>1, <1>5 DEF OrderInv, Starts
<1>7. ASSUME NEW a \in pass'.todo
      PROVE  /\ a.kind \in StepKinds =>
                  a.i = Leader /\ a.k \in StepIds /\ Live \in StepIds /\ rec'[Leader].st = "init"
             /\ a.kind = "done" => /\ a.i = Leader /\ Live \notin StepIds /\ rec'[Leader].st = "init"
                                   /\ desired.on
             /\ a.kind = "start" => task[a.i].st = "created"
             /\ a.kind = "reap" => /\ a.i = Leader /\ a.k \in StepIds
                                   /\ ~(rec'[Leader].st = "init" /\ desired.on /\ a.k <= Live)
  BY <1>3, <1>4, <1>7, LeaderPlan DEF Wanted, Reaped
<1>8. ASSUME NEW k \in StepIds, ToReap(k)', AllDone, rec'[Leader].st = "init"
      PROVE  ~desired.on
  BY <1>7, <1>8, LiveFacts DEF ToReap
<1>9. StepTypes' /\ (Quiet => Quiet') /\ (AllDone => AllDone')
  BY <1>3 DEF OrderInv, StepTypes, Quiet, AllDone
<1>10. ASSUME NEW a \in pass'.todo
       PROVE  SequenceAction(a)'
  <2>1. CASE a.kind = "done"
    <3>1. AllDone /\ \A k \in StepIds : ~ToReap(k)'
      BY <1>7, <1>8, <1>10, <2>1, LiveFacts
    <3> QED
      BY <1>7, <1>9, <1>10, <2>1, <3>1 DEF SequenceAction, StepKinds
  <2>2. CASE a.kind \in StepKinds
    <3>1. task'[Leader].st = "none"
      BY <1>3, <1>6, <1>7, <1>10, <2>2, LiveFacts
    <3> QED
      BY <1>7, <1>10, <2>2, <3>1 DEF SequenceAction, StepKinds
  <2>3. CASE a.kind \notin StepKinds /\ a.kind # "done"
    <3>1. a.kind = "start" /\ a.i = Leader => task'[Leader].st # "none"
      BY <1>3, <1>7, <1>10
    <3> QED
      BY <1>7, <1>10, <2>3, <3>1 DEF SequenceAction
  <2> QED
    BY <2>1, <2>2, <2>3
<1>11. ASSUME NEW k \in StepIds, ToReap(k)', rec'[Leader].st = "init", task[Leader].st # "none"
       PROVE  \E b \in pass'.todo : b.i = Leader /\ b.kind = "remove"
  <2>1. ~Wanted(Leader, desired)
    BY <1>6, <1>8, <1>11 DEF Wanted
  <2> QED
    BY <1>1, <1>3, <1>11, <2>1, RemovePlanned
<1> QED
  BY <1>3, <1>6, <1>9, <1>10, <1>11 DEF OrderInv

LEMMA OrderInit == Init => TaskShape /\ OrderInv
<1> SUFFICES ASSUME Init PROVE TaskShape /\ OrderInv
  OBVIOUS
<1>1. task = [i \in Allocs |-> None] /\ init = [k \in StepIds |-> None] /\ pass.todo = {}
      /\ Leader \in Allocs
  BY LeaderFacts DEF Init, NoPass
<1>2. task[Leader].st = "none" /\ TaskShape
  BY <1>1 DEF TaskShape, None
<1>3. StepTypes
  BY <1>1 DEF StepTypes, None, StepStates
<1> QED
  BY <1>1, <1>2, <1>3 DEF OrderInv

\* Troubles are never taken back.
LEMMA TroubleGrows ==
  ASSUME RecTypes, [Next]_vars
  PROVE  Trouble \in Nat /\ Trouble' \in Nat /\ Trouble' >= Trouble
<1>1. faults \in Nat /\ deaths \in Nat
  BY DEF RecTypes
<1>2. (faults' = faults \/ faults' = faults + 1) /\ (deaths' = deaths \/ deaths' = deaths + 1)
  <2>1. CASE Pass
    BY <2>1 DEF Pass, Begin, EndPass, Teardown, StartContainer, AlreadyExists, WriteRecord, Forget, Reap, Fault
  <2>2. CASE Faulty
    BY <2>2 DEF Faulty, PassAborts, TeardownFails, StartFails, WriteFails, Fault
  <2>3. CASE Environment
    BY <2>3 DEF Environment, Exit, Odd, BackoffEnds, Settles, DeadlinePasses, StepDone, StepFails, Deploy,
                Scale, Delete, Edit, DependencyServes, DependencyFails, Overdue
  <2>4. CASE Dies
    BY <2>4 DEF Dies, Crash, Reboot, CrashCreating, Restarted
  <2> QED
    BY <2>1, <2>2, <2>3, <2>4 DEF Next, vars
<1> QED
  BY <1>1, <1>2 DEF Trouble

LEMMA OrderStep ==
  ASSUME Trouble' <= 1, Steps > 0, BudgetInv, TaskShape, OrderInv, [Next]_vars
  PROVE  OrderInv'
<1>1. BudgetInv'
  BY BudgetStep
<1>2. CASE Pass
  BY <1>1, <1>2, BeginOrder, EndPassOrder, TeardownOrder, StartContainerOrder, AlreadyExistsOrder,
     WriteRecordOrder, ForgetOrder, ReapOrder DEF Pass
<1>3. CASE Faulty
  BY <1>1, <1>3, EndPassOrder, TeardownFailsOrder, StartFailsOrder, WriteFailsOrder DEF Faulty
<1>4. CASE Environment
  BY <1>4, EnvironmentOrder
<1>5. CASE Dies
  BY <1>5, DiesOrder
<1>6. CASE UNCHANGED vars
  <2>1. UNCHANGED <<rec, task, init, pass, faults, deaths>>
    BY <1>6 DEF vars
  <2>2. \A a \in pass.todo : IsNext(a)' <=> IsNext(a)
    BY <2>1 DEF IsNext
  <2>3. Starts(Leader)' <=> Starts(Leader)
    BY <2>1, <2>2 DEF Starts
  <2> QED
    BY <2>1, <2>3 DEF OrderInv, StepTypes, Quiet, AllDone, ToReap, SequenceAction, Trouble
<1> QED
  BY <1>2, <1>3, <1>4, <1>5, <1>6 DEF Next

\* planInit, create, initContainersToReap (the R32 rule "run to completion
\* before its task"): whatever is deployed and exits, and even if a call fails
\* or the daemon dies once, the leader's task and a step of its init sequence
\* never run at the same time.
THEOREM StepsFinishFirst == Spec => [](Trouble <= 1 => StepsBeforeTask)
<1> DEFINE Inv == BudgetInv /\ TaskShape /\ (Trouble <= 1 => OrderInv)
<1>1. CASE Steps > 0
  <2>1. Init => Inv
    BY BudgetInvInit, OrderInit
  <2>2. Inv /\ [Next]_vars => Inv'
    <3> SUFFICES ASSUME Inv, [Next]_vars
                 PROVE  Inv'
      OBVIOUS
    <3>1. BudgetInv' /\ TaskShape' /\ Trouble \in Nat /\ Trouble' \in Nat /\ Trouble' >= Trouble
      BY BudgetStep, TaskShapeStep, TroubleGrows DEF BudgetInv
    <3>2. Trouble' <= 1 => Trouble <= 1
      BY <3>1
    <3> QED
      BY <1>1, <3>1, <3>2, OrderStep
  <2>3. Inv => (Trouble <= 1 => StepsBeforeTask)
    BY DEF OrderInv, Quiet, StepsBeforeTask, Running
  <2> QED
    BY <2>1, <2>2, <2>3, PTL DEF Spec
<1>2. CASE ~(Steps > 0)
  <2>1. StepsBeforeTask
    BY <1>2, ReconcilerAssumption DEF StepsBeforeTask, StepIds
  <2> QED
    BY <2>1, PTL
<1> QED
  BY <1>1, <1>2

-----------------------------------------------------------------------------
(* As long as nothing fails, the steps run one at a time.                  *)

\* A step's container is there only if the steps before it are done.
Prefix == \A j, k \in StepIds : j < k /\ init[k].st # "none" => init[j].st = "done"

OneRuns == \A j, k \in StepIds : Running(init[j]) /\ Running(init[k]) => j = k

\* Every container of the sequence is being removed.
Leaving == \A k \in StepIds : init[k].st # "none" => ToReap(k)

\* What is reaped is a whole sequence, which the leader's own action does not
\* begin anew; a step is started when the ones before it are done.
ReapOK(a) ==
  a.kind = "reap" =>
    /\ Leaving
    /\ \A b \in pass.todo : b.i = Leader =>
         b.kind \in {"reap", "remove", "start"} \/ (b.kind = "create" /\ init[1].st # "none")
StepOK(a) ==
  /\ a.kind \in StepKinds => \A j \in StepIds : j < a.k => init[j].st = "done"
  /\ a.kind = "stepRerun" /\ pass.pc # "record" => init[a.k].st \in {"created", "failed"}

\* Either the containers are those of a sequence, or the leader's action is over
\* and all of them are being removed.
SequenceInv ==
  /\ OneRuns
  /\ Prefix \/ (Leaving /\ \A a \in pass.todo : a.i = Leader => a.kind = "reap")
  /\ \A a \in pass.todo : ReapOK(a) /\ StepOK(a)

LEMMA PrefixRunsOne == Prefix => OneRuns
<1> SUFFICES ASSUME Prefix, NEW j \in StepIds, NEW k \in StepIds, Running(init[j]), Running(init[k])
             PROVE  j = k
  BY DEF OneRuns
<1>1. j \in Nat /\ k \in Nat
  BY LeaderFacts
<1>2. ~(j < k) /\ ~(k < j)
  BY DEF Prefix, Running
<1> QED
  BY <1>1, <1>2

\* The leader goes first: behind an action, only its own removals are the leader's.
LEMMA LeaderFirst ==
  ASSUME RecTypes, NEW a, IsNext(a), NEW b \in pass.todo, b.i = Leader
  PROVE  a.i = Leader /\ (b = a \/ b.kind = "reap")
<1>1. a \in pass.todo /\ (b = a \/ Before(a, b))
  BY DEF IsNext
<1>2. a.i \in Nat /\ b.i \in Nat
  BY <1>1, ReconcilerAssumption DEF RecTypes
<1> QED
  BY <1>1, <1>2 DEF Before, Leader

\* A step that leaves the init containers alone, in the middle of an action.
LEMMA MidSequence ==
  ASSUME SequenceInv, init' = init, pass'.todo = pass.todo,
         pass'.pc = "record" \/ pass'.pc = pass.pc \/ pass.pc = "next"
  PROVE  SequenceInv'
<1>1. \A k : ToReap(k)' <=> ToReap(k)
  BY DEF ToReap
<1>2. (Prefix' <=> Prefix) /\ (OneRuns' <=> OneRuns)
  BY DEF Prefix, OneRuns
<1>3. Leaving' <=> Leaving
  BY <1>1 DEF Leaving
<1>4. \A a \in pass.todo : (ReapOK(a) => ReapOK(a)') /\ (StepOK(a) => StepOK(a)')
  BY <1>3 DEF ReapOK, StepOK
<1> QED
  BY <1>2, <1>3, <1>4 DEF SequenceInv

\* The same, at the end of an action that reaps nothing.
LEMMA OverSequence ==
  ASSUME RecTypes, OrderInv, SequenceInv, init' = init, NEW a \in pass.todo, IsNext(a), a.kind # "reap",
         pass'.todo = pass.todo \ {a}
  PROVE  SequenceInv'
<1>1. \A k : ToReap(k)' <=> ToReap(k)
  BY DEF ToReap
<1>2. (Prefix' <=> Prefix) /\ (OneRuns' <=> OneRuns)
  BY DEF Prefix, OneRuns
<1>3. Leaving' <=> Leaving
  BY <1>1 DEF Leaving
<1>4. ASSUME NEW b \in pass'.todo
      PROVE  ReapOK(b)' /\ StepOK(b)'
  <2>1. b \in pass.todo /\ b # a /\ ReapOK(b) /\ SequenceAction(b)
    BY <1>4 DEF SequenceInv, OrderInv
  <2>2. b.kind \notin StepKinds /\ b.kind # "stepRerun"
    BY <2>1, LeaderFirst DEF SequenceAction, StepKinds
  <2> QED
    BY <1>3, <2>1, <2>2 DEF ReapOK, StepOK
<1> QED
  BY <1>2, <1>3, <1>4 DEF SequenceInv

LEMMA TeardownSequence ==
  ASSUME BudgetInv, OrderInv, SequenceInv, NEW a \in pass.todo, Teardown(a)
  PROVE  SequenceInv'
<1>1. RecTypes /\ IsNext(a) /\ pass.pc = "next" /\ a.kind \in TeardownKinds /\ a.kind # "reap"
      /\ a.kind \notin StepKinds
  BY DEF BudgetInv, Teardown, TeardownKinds, StepKinds
<1>2. CASE Failed(a) /\ init' = init
  <2>1. pass'.todo = pass.todo \ {a}
    BY <1>1, <1>2, OverFacts
  <2> QED
    BY <1>1, <1>2, <2>1, OverSequence
<1>3. ASSUME NEW pc, Then(pc), init' = IF a.i = Leader THEN [k \in StepIds |-> None] ELSE init
      PROVE  SequenceInv'
  <2>1. pass'.todo = pass.todo
    BY <1>1, <1>3, ThenFacts
  <2>2. CASE a.i # Leader
    BY <1>1, <1>3, <2>1, <2>2, MidSequence
  <2>3. CASE a.i = Leader
    <3>1. \A k \in StepIds : init'[k].st = "none"
      BY <1>3, <2>3 DEF None
    <3>2. Prefix' /\ OneRuns' /\ Leaving'
      BY <3>1 DEF Prefix, OneRuns, Leaving, Running
    <3>3. ASSUME NEW b \in pass.todo
          PROVE  ReapOK(b)' /\ StepOK(b)'
      <4>1. ReapOK(b) /\ SequenceAction(b) /\ \A c \in pass.todo : c.i = Leader => c = a \/ c.kind = "reap"
        BY <1>1, <3>3, LeaderFirst DEF SequenceInv, OrderInv
      <4>2. b.kind \notin StepKinds /\ b.kind # "stepRerun"
        BY <1>1, <3>3, <4>1 DEF SequenceAction, StepKinds
      <4>3. b.kind = "reap" => \A c \in pass.todo : c.i = Leader => c.kind \in {"reap", "remove", "start"}
        BY <1>1, <4>1 DEF ReapOK, TeardownKinds
      <4> QED
        BY <2>1, <3>2, <4>2, <4>3 DEF ReapOK, StepOK
    <3> QED
      BY <2>1, <3>2, <3>3 DEF SequenceInv
  <2> QED
    BY <2>2, <2>3
<1> QED
  BY <1>2, <1>3 DEF Teardown

\* A container is started only behind a finished sequence.
LEMMA StartContainerSequence ==
  ASSUME BudgetInv, OrderInv, SequenceInv, Steps > 0, NEW a \in pass.todo, StartContainer(a)
  PROVE  SequenceInv'
<1> DEFINE k == StepOf(a)
<1>1. RecTypes /\ PassOK /\ IsNext(a) /\ Starting(a) /\ StepTypes /\ a.kind \in ActionKinds
  BY DEF BudgetInv, RecTypes, StartContainer, Starting, OrderInv
<1>2. pass'.todo = pass.todo /\ pass'.pc = "record"
  BY <1>1, ThenFacts DEF StartContainer
<1>3. CASE init' = init
  BY <1>2, <1>3, MidSequence
<1>4. CASE init' # init
  <2>1. /\ k # 0 /\ init' = [init EXCEPT ![k] = Container("running", pass.spec)]
        /\ a.kind # "stepAdopt" /\ (a.kind = "stepRerun" \/ init[k].st = "none")
    BY <1>4 DEF StartContainer
  <2>2. a.i = Leader /\ k \in StepIds /\ a.kind \notin {"done", "start"}
    BY <1>1, <2>1, StepOfFacts
  <2>3. a.kind \notin {"reap", "remove"}
    BY <1>1 DEF Starting, PassOK, StepKinds
  <2>4. SequenceAction(a) /\ ReapOK(a) /\ StepOK(a) /\ Prefix
    BY <2>2, <2>3 DEF OrderInv, SequenceInv
  <2>5. /\ a.kind \in StepKinds => k = a.k
        /\ a.kind \notin StepKinds => k = 1
    BY <2>1, <2>2 DEF StepOf
  <2> HIDE DEF k
  <2>6. StepIds \subseteq Nat \ {0} /\ k \in Nat
    BY <2>2, LeaderFacts
  <2>7. \A j \in StepIds : j < k => init[j].st = "done"
    BY <2>4, <2>5, <2>6 DEF StepOK
  <2>8. init[k].st # "done"
    BY <2>1, <2>4, <2>5, <1>1 DEF StepOK, Starting, StepKinds
  <2>9. \A j \in StepIds : k < j => init[j].st = "none"
    BY <2>2, <2>4, <2>8 DEF Prefix
  <2>10. /\ init'[k].st = "running"
         /\ \A j \in StepIds : j # k => init'[j] = init[j]
    BY <1>1, <2>1, <2>2 DEF StepTypes, Container
  <2>11. Prefix'
    <3> SUFFICES ASSUME NEW j \in StepIds, NEW m \in StepIds, j < m, init'[m].st # "none"
                 PROVE  init'[j].st = "done"
      BY DEF Prefix
    <3>1. j \in Nat /\ m \in Nat
      BY <2>6
    <3>2. m <= k
      BY <2>6, <2>9, <2>10, <3>1
    <3>3. j < k /\ j # k
      BY <2>6, <3>1, <3>2
    <3> QED
      BY <2>7, <2>10, <3>3
  <2>12. OneRuns'
    <3> SUFFICES ASSUME NEW j \in StepIds, Running(init'[j])
                 PROVE  j = k
      BY DEF OneRuns
    <3>1. ASSUME j # k PROVE FALSE
      <4>1. Running(init[j]) /\ j \in Nat
        BY <2>6, <2>10, <3>1
      <4> QED
        BY <2>6, <2>7, <2>9, <3>1, <4>1 DEF Running
    <3> QED
      BY <3>1
  <2>13. ASSUME NEW b \in pass.todo
         PROVE  ReapOK(b)' /\ StepOK(b)'
    <3>1. b.kind # "reap"
      <4>1. b.kind = "reap" => a.kind = "create" /\ init[1].st # "none"
        BY <2>2, <2>3, <2>13 DEF SequenceInv, ReapOK
      <4>2. a.kind = "create" => k = 1 /\ a.kind # "stepRerun"
        BY <2>5 DEF StepKinds
      <4> QED
        BY <2>1, <4>1, <4>2
    <3>2. b.kind \in StepKinds => b = a
      BY <1>1, <2>13, <3>1, LeaderFirst DEF OrderInv, SequenceAction
    <3>3. b.kind \in StepKinds => \A j \in StepIds : j < b.k => init'[j].st = "done"
      <4>1. b.kind \in StepKinds => b.k = k
        BY <2>5, <3>2
      <4>2. \A j \in StepIds : j < k => j # k
        BY <2>6
      <4> QED
        BY <2>7, <2>10, <4>1, <4>2
    <3> QED
      BY <1>2, <3>1, <3>3 DEF ReapOK, StepOK
  <2> QED
    BY <1>2, <2>11, <2>12, <2>13 DEF SequenceInv
<1> QED
  BY <1>3, <1>4

\* The removals of a sequence, one container at a time.
LEMMA ReapSequence ==
  ASSUME BudgetInv, OrderInv, SequenceInv, NEW a \in pass.todo, Reap(a), faults' = faults
  PROVE  SequenceInv'
<1>1. RecTypes /\ IsNext(a) /\ a.kind = "reap" /\ a.i = Leader /\ a.k \in StepIds /\ StepTypes
      /\ Leaving /\ OneRuns
  BY DEF BudgetInv, Reap, OrderInv, SequenceAction, SequenceInv, ReapOK
<1>2. init' = [init EXCEPT ![a.k] = None] /\ Applied(a)
  <2>1. faults \in Nat
    BY <1>1 DEF RecTypes
  <2> QED
    BY <2>1 DEF Reap, Fault
<1>3. pass'.todo = pass.todo \ {a}
  BY <1>1, <1>2, OverFacts
<1>4. init'[a.k].st = "none" /\ \A k \in StepIds : k # a.k => init'[k] = init[k]
  BY <1>1, <1>2 DEF StepTypes, None
<1>5. OneRuns'
  BY <1>1, <1>4 DEF OneRuns, Running
<1>6. Leaving'
  BY <1>1, <1>3, <1>4 DEF Leaving, ToReap
<1>7. \A b \in pass'.todo : b.i = Leader => b.kind = "reap"
  BY <1>1, <1>3, LeaderFirst
<1>8. ASSUME NEW b \in pass'.todo
      PROVE  ReapOK(b)' /\ StepOK(b)'
  <2>1. b.kind \notin StepKinds /\ b.kind # "stepRerun"
    BY <1>3, <1>7, <1>8 DEF OrderInv, SequenceAction, StepKinds
  <2> QED
    BY <1>6, <1>7, <2>1 DEF ReapOK, StepOK
<1> QED
  BY <1>5, <1>6, <1>7, <1>8 DEF SequenceInv

\* A set without two elements has at most one.
LEMMA OneAtMost ==
  ASSUME NEW S, \A x, y \in S : x = y
  PROVE  Cardinality(S) <= 1
<1>1. CASE S = {}
  BY <1>1, FS_EmptySet
<1>2. ASSUME NEW x \in S
      PROVE  Cardinality(S) <= 1
  <2>1. S = {x}
    BY <1>2
  <2> QED
    BY <2>1, FS_Singleton
<1> QED
  BY <1>1, <1>2

\* Between two passes the containers are those of a sequence.
LEMMA IdlePrefix ==
  ASSUME SequenceInv, pass.todo = {}
  PROVE  Prefix
<1>1. Leaving => \A k \in StepIds : init[k].st = "none"
  BY DEF Leaving, ToReap
<1> QED
  BY <1>1 DEF SequenceInv, Prefix

\* A container that runs is stopped, by its own end.
LEMMA StepExitSequence ==
  ASSUME StepTypes, OrderInv, SequenceInv, NEW k \in StepIds, Running(init[k]),
         NEW st \in {"done", "failed"}, init' = [init EXCEPT ![k].st = st], pass' = pass
  PROVE  SequenceInv'
<1>1. /\ init[k].st = "running" /\ init'[k].st = st
      /\ \A j \in StepIds : j # k => init'[j] = init[j]
  BY DEF StepTypes, Running
<1>2. \A j \in StepIds : /\ init'[j].st # "none" <=> init[j].st # "none"
                         /\ init[j].st = "done" => init'[j].st = "done"
                         /\ Running(init'[j]) => Running(init[j])
  BY <1>1 DEF Running
<1>3. OneRuns'
  BY <1>2 DEF SequenceInv, OneRuns
<1>4. Prefix => Prefix'
  BY <1>2 DEF Prefix
<1>5. Leaving => Leaving'
  BY <1>2 DEF Leaving, ToReap
<1>6. ASSUME NEW a \in pass.todo
      PROVE  ReapOK(a)' /\ StepOK(a)'
  <2>1. ReapOK(a) /\ StepOK(a) /\ SequenceAction(a)
    BY <1>6 DEF SequenceInv, OrderInv
  <2>2. a.kind \in StepKinds => a.k \in StepIds /\ \A j \in StepIds : j < a.k => init'[j].st = "done"
    BY <1>2, <2>1 DEF SequenceAction, StepOK
  <2>3. a.kind = "stepRerun" /\ pass'.pc # "record" => init'[a.k].st \in {"created", "failed"}
    <3>1. a.kind = "stepRerun" /\ pass'.pc # "record" =>
            a.k \in StepIds /\ init[a.k].st \in {"created", "failed"} /\ a.k # k
      BY <1>1, <2>1, <2>2 DEF StepOK, StepKinds
    <3> QED
      BY <1>1, <3>1
  <2>4. ReapOK(a)'
    <3>1. CASE Steps > 0
      <4>1. 1 \in StepIds
        BY <3>1, ReconcilerAssumption DEF StepIds
      <4> QED
        BY <1>2, <1>5, <2>1, <4>1 DEF ReapOK
    <3>2. CASE ~(Steps > 0)
      BY <3>2, ReconcilerAssumption DEF StepIds
    <3> QED
      BY <3>1, <3>2
  <2> QED
    BY <2>2, <2>3, <2>4 DEF StepOK
<1> QED
  BY <1>3, <1>4, <1>5, <1>6 DEF SequenceInv

\* The plan of a pass: a sequence is reaped as a whole, or not at all.
LEMMA BeginSequence ==
  ASSUME BudgetInv, OrderInv, SequenceInv, Begin
  PROVE  SequenceInv'
<1> DEFINE seen == (witnessed \cup RunningNow) \cap Known
           kinds == Kinds(rec', desired, seen)
<1>1. RecTypes /\ pass.pc = "idle" /\ pass.todo = {} /\ StepTypes
  BY DEF BudgetInv, PassOK, Begin, OrderInv
<1>2. init' = init /\ pass'.todo = PlanOf(rec', desired, seen)
  BY DEF Begin
<1>3. \A i \in Allocs : task[i].st \in ContainerStates
  BY <1>1 DEF RecTypes
<1> HIDE DEF seen
<1>4. Prefix /\ OneRuns
  BY <1>1, IdlePrefix, PrefixRunsOne
<1>5. \A k \in StepIds : init[k].st # "none" => k <= Live
  <2> SUFFICES ASSUME NEW k \in StepIds, init[k].st # "none", ~(k <= Live)
               PROVE  FALSE
    OBVIOUS
  <2>1. Live \in StepIds /\ Live < k
    BY LiveFacts, ReconcilerAssumption DEF StepIds
  <2>2. init[Live].st # "done"
    BY <2>1, LiveFacts DEF IsLive
  <2> QED
    BY <1>4, <2>1, <2>2 DEF Prefix
<1>6. ASSUME NEW k \in Reaped(rec', desired, kinds)
      PROVE  ToReap(k)'
  <2>1. Action("reap", Leader, k) \in pass'.todo
    BY <1>2, <1>6 DEF PlanOf
  <2> QED
    BY <2>1 DEF ToReap, Action
<1>7. ASSUME NEW a \in pass'.todo, a.kind = "reap"
      PROVE  ReapOK(a)'
  <2>1. a.k \in Reaped(rec', desired, kinds)
    BY <1>2, <1>3, <1>7, LeaderPlan
  <2>2. /\ a.k \in StepIds /\ init[a.k].st # "none"
        /\ kinds[Leader] \notin {"restart", "replace", "recover"}
        /\ ~(rec'[Leader].st = "init" /\ desired.on)
    BY <1>5, <2>1 DEF Reaped, TeardownKinds
  <2>3. ASSUME NEW k \in StepIds, init[k].st # "none"
        PROVE  ToReap(k)'
    <3>1. k \in Reaped(rec', desired, kinds)
      BY <2>1, <2>2, <2>3 DEF Reaped
    <3> QED
      BY <1>6, <3>1
  <2>4. init[1].st # "none"
    <3>1. 1 \in StepIds /\ a.k \in Nat /\ (a.k = 1 \/ 1 < a.k)
      BY <2>2, ReconcilerAssumption DEF StepIds
    <3> QED
      BY <1>4, <2>2, <3>1 DEF Prefix
  <2>5. ASSUME NEW b \in pass'.todo, b.i = Leader
        PROVE  b.kind \in {"reap", "remove", "start", "create"}
    <3>1. b.kind \in ActionKinds
      BY <1>2, <1>3, <2>5, TodoFacts
    <3>2. b.kind # "reap" => b.kind = kinds[Leader]
      BY <1>2, <1>3, <2>5, LeaderPlan
    <3>3. b.kind \notin StepKinds \cup {"done"}
      BY <1>2, <1>3, <2>2, <2>5, LeaderPlan DEF Wanted
    <3> HIDE DEF kinds
    <3> QED
      BY <2>2, <3>1, <3>2, <3>3 DEF ActionKinds, TeardownKinds
  <2> QED
    BY <1>2, <2>3, <2>4, <2>5 DEF ReapOK, Leaving
<1>8. ASSUME NEW a \in pass'.todo
      PROVE  StepOK(a)'
  <2>1. /\ a.kind \in StepKinds => a.k = Live /\ Live \in StepIds
        /\ a.kind = "stepRerun" => init[Live].st # "none" /\ ~Running(init[Live])
    BY <1>2, <1>3, <1>8, LeaderPlan DEF StepKinds
  <2>2. a.kind \in StepKinds => init[Live].st # "done" /\ \A j \in StepIds : j < a.k => init[j].st = "done"
    BY <2>1, LiveFacts DEF IsLive
  <2>3. a.kind = "stepRerun" => a.k = Live /\ init[Live].st \in {"created", "failed"}
    BY <1>1, <2>1, <2>2 DEF StepTypes, StepStates, StepKinds, Running
  <2> QED
    BY <1>2, <2>2, <2>3 DEF StepOK
<1>9. \A a \in pass'.todo : ReapOK(a)'
  BY <1>7 DEF ReapOK
<1>10. Prefix' /\ OneRuns'
  BY <1>2, <1>4 DEF Prefix, OneRuns
<1> QED
  BY <1>8, <1>9, <1>10 DEF SequenceInv

LEMMA SequenceStep ==
  ASSUME Trouble' = 0, Steps > 0, BudgetInv, OrderInv, SequenceInv, [Next]_vars
  PROVE  SequenceInv'
<1>1. RecTypes /\ PassOK /\ Trouble = 0 /\ faults = 0 /\ deaths = 0 /\ StepTypes
  <2>1. RecTypes /\ PassOK /\ StepTypes
    BY DEF BudgetInv, OrderInv
  <2>2. Trouble = 0
    BY <2>1, TroubleGrows
  <2> QED
    BY <2>1, <2>2 DEF RecTypes, Trouble
<1>2. faults' = 0 /\ deaths' = 0
  <2>1. BudgetInv'
    BY BudgetStep
  <2>2. faults' \in Nat /\ deaths' \in Nat
    BY <2>1 DEF BudgetInv, RecTypes
  <2>3. \A x, y \in Nat : x + y = 0 => x = 0 /\ y = 0
    OBVIOUS
  <2>4. faults' + deaths' = 0
    BY DEF Trouble
  <2> QED
    BY <2>2, <2>3, <2>4
<1>3. ~Fault /\ ~Restarted
  BY <1>1, <1>2 DEF Fault, Restarted
<1>4. ASSUME init' = init, pass' = pass
      PROVE  SequenceInv'
  BY <1>4, MidSequence
<1>5. CASE EndPass
  <2>1. pass.todo = {} /\ pass'.todo = {} /\ init' = init
    BY <1>5 DEF EndPass, NoPass
  <2>2. Prefix' /\ OneRuns'
    BY <2>1, IdlePrefix, PrefixRunsOne DEF Prefix, OneRuns
  <2> QED
    BY <2>1, <2>2 DEF SequenceInv
<1>6. ASSUME NEW a \in pass.todo, AlreadyExists(a) \/ WriteRecord(a) \/ Forget(a)
      PROVE  SequenceInv'
  <2>1. IsNext(a) /\ init' = init /\ pass'.todo = pass.todo \ {a}
    BY <1>1, <1>6, OverFacts DEF AlreadyExists, WriteRecord, Forget, Starting
  <2>2. a.kind # "reap"
    BY <1>1, <1>6, <2>1 DEF AlreadyExists, WriteRecord, Forget, Starting, PassOK, StepKinds
  <2> QED
    BY <1>1, <2>1, <2>2, OverSequence
<1>7. CASE Pass
  BY <1>1, <1>2, <1>5, <1>6, <1>7, BeginSequence, TeardownSequence, StartContainerSequence, ReapSequence
     DEF Pass
<1>8. ~Faulty /\ ~Dies
  BY <1>3 DEF Faulty, PassAborts, TeardownFails, StartFails, WriteFails, Dies, Crash, Reboot, CrashCreating
<1>9. ASSUME NEW k \in StepIds, StepDone(k) \/ StepFails(k)
      PROVE  SequenceInv'
  BY <1>1, <1>9, StepExitSequence DEF StepDone, StepFails
<1>10. CASE Environment
  BY <1>4, <1>9, <1>10
     DEF Environment, Exit, Odd, BackoffEnds, Settles, DeadlinePasses, Deploy,
         Scale, Delete, Edit, DependencyServes, DependencyFails, Overdue
<1> QED
  BY <1>4, <1>7, <1>8, <1>10 DEF Next, vars

\* init.go, "must not migrate it three times": as long as no call fails and the
\* daemon lives, whatever is deployed, scaled, deleted or exits, no two steps of
\* an init sequence, of one spec or of two, run at the same time.
THEOREM StepsRunAlone == Spec => [](Trouble = 0 => OneMigration)
<1> DEFINE Inv == /\ BudgetInv /\ TaskShape
                  /\ Trouble <= 1 => OrderInv
                  /\ Trouble = 0 => SequenceInv
<1>1. CASE Steps > 0
  <2>1. Init => Inv
    <3>1. ASSUME Init PROVE SequenceInv
      <4>1. pass.todo = {} /\ \A k \in StepIds : init[k].st = "none"
        BY <3>1 DEF Init, NoPass, None
      <4>2. Prefix
        BY <4>1 DEF Prefix
      <4> QED
        BY <4>1, <4>2, PrefixRunsOne DEF SequenceInv
    <3> QED
      BY <3>1, BudgetInvInit, OrderInit
  <2>2. Inv /\ [Next]_vars => Inv'
    <3> SUFFICES ASSUME Inv, [Next]_vars
                 PROVE  Inv'
      OBVIOUS
    <3>1. BudgetInv' /\ TaskShape' /\ Trouble \in Nat /\ Trouble' \in Nat /\ Trouble' >= Trouble
      BY BudgetStep, TaskShapeStep, TroubleGrows DEF BudgetInv
    <3>2. (Trouble' <= 1 => Trouble <= 1) /\ (Trouble' = 0 => Trouble = 0 /\ Trouble <= 1)
      BY <3>1
    <3> QED
      BY <1>1, <3>1, <3>2, OrderStep, SequenceStep
  <2>3. Inv => (Trouble = 0 => OneMigration)
    BY OneAtMost DEF SequenceInv, OneRuns, OneMigration
  <2> QED
    BY <2>1, <2>2, <2>3, PTL DEF Spec
<1>2. CASE ~(Steps > 0)
  <2>1. OneMigration
    <3>1. {k \in StepIds : Running(init[k])} = {}
      BY <1>2, ReconcilerAssumption DEF StepIds
    <3> QED
      BY <3>1, FS_EmptySet DEF OneMigration
  <2> QED
    BY <2>1, PTL
<1> QED
  BY <1>1, <1>2

-----------------------------------------------------------------------------
(* The ledger of the restarts: what is recorded of an alloc moves as          *)
(* AllocLifecycle says.                                                       *)

\* The declared service is well formed, and a pass works on what is declared.
DesiredOK ==
  /\ DOMAIN desired = {"spec", "count", "on"} /\ desired.spec \in 1..MaxSpec /\ desired.on \in BOOLEAN
  /\ pass.pc # "idle" => pass.on = desired.on /\ pass.spec = desired.spec

\* As long as nothing went wrong, no container is left unstarted, and what was
\* given up does not run, unless a pass has just started it for another spec.
LedgerOK(i) ==
  /\ rec[i].st \in RecStates /\ rec[i].spec \in 0..MaxSpec
  /\ rec[i].st = "none" => rec[i].restarts = 0
  /\ task[i].st = "created" => Trouble # 0
  /\ rec[i].st = "failed" /\ Running(task[i]) /\ ~Mid(i) => Trouble # 0

\* What was given up is started again only for another spec.
LedgerAction(a) ==
  /\ a.kind \notin {"remove", "reap"} /\ rec[a.i].st = "failed" => rec[a.i].spec \notin {0, pass.spec}
  /\ a.kind = "start" => Trouble # 0

LedgerInv ==
  /\ BudgetInv /\ DesiredOK
  /\ \A i \in Allocs : LedgerOK(i)
  /\ \A a \in pass.todo : LedgerAction(a)

\* The record of alloc i stays, or moves as the ledger allows.
Moves(i) ==
  Life(rec'[i]) = Life(rec[i]) \/ Lifecycle!Move(Life(rec[i]), Life(rec'[i]))

\* The records move as the ledger allows, and go on doing so.
LedgerKept == LedgerInv' /\ \A i \in Allocs : Moves(i)

\* The ledger's entry for a record.
LEMMA LifeFacts ==
  ASSUME NEW r, r.st \in RecStates
  PROVE  /\ r.st = "none" => Life(r) = Lifecycle!Absent
         /\ r.st # "none" => Life(r) = [phase |-> Life(r).phase, spec |-> r.spec, spent |-> r.restarts]
         /\ r.st \in {"pending", "init"} => Life(r).phase = "starting"
         /\ r.st = "running" => Life(r).phase = "up"
         /\ r.st = "backoff" => Life(r).phase = "down"
         /\ r.st = "failed" => Life(r).phase = "failed"
<1>1. CASE r.st = "none"
  BY <1>1 DEF Life, Lifecycle!Absent
<1>2. CASE r.st \in {"pending", "init"}
  BY <1>2 DEF Life
<1>3. CASE r.st = "running"
  BY <1>3 DEF Life
<1>4. CASE r.st = "backoff"
  BY <1>4 DEF Life
<1>5. CASE r.st = "failed"
  BY <1>5 DEF Life
<1> QED
  BY <1>1, <1>2, <1>3, <1>4, <1>5 DEF RecStates

\* A container found running tells a record without a spec which one it is.
LEMMA ObservedSpec ==
  ASSUME NEW i, NEW r, IsRecord(r), NEW seen \in BOOLEAN
  PROVE  \/ Observed(i, r, seen).spec = r.spec
         \/ r.spec = 0 /\ Observed(i, r, seen).spec = desired.spec
<1> DEFINE x == Observed(i, r, seen)
<1>1. CASE r.st # "none" /\ Running(task[i])
  <2>1. x = [r EXCEPT !.spec = IF @ = 0 /\ desired.on THEN desired.spec ELSE @,
                      !.st = "running",
                      !.wait = @ /\ r.st = "running",
                      !.step = IF r.st = "running" THEN @ ELSE 0,
                      !.late = @ /\ r.st = "running"]
    BY <1>1 DEF Observed
  <2> HIDE DEF x
  <2>2. x.spec = IF r.spec = 0 /\ desired.on THEN desired.spec ELSE r.spec
    BY <2>1 DEF IsRecord, RecFields
  <2> QED
    BY <2>2 DEF x
<1>2. ASSUME NEW why
      PROVE  Exited(r, why, seen).spec = r.spec /\ DOMAIN Exited(r, why, seen) = RecFields
  BY DEF Exited, IsRecord, RecFields
<1>3. CASE x = r
  BY <1>3
<1>4. CASE x = Exited(r, "exit", seen)
  BY <1>2, <1>4
<1>5. CASE x = [Exited(r, "init", seen) EXCEPT !.step = Live]
  <2> DEFINE e == Exited(r, "init", seen)
  <2>1. e.spec = r.spec /\ DOMAIN e = RecFields
    BY <1>2
  <2>2. x = [e EXCEPT !.step = Live]
    BY <1>5
  <2> HIDE DEF x, e
  <2>3. x.spec = e.spec
    BY <2>1, <2>2 DEF RecFields
  <2> QED
    BY <2>1, <2>3 DEF x
<1> QED
  BY <1>1, <1>3, <1>4, <1>5 DEF Observed

\* A record that is written for a started container says the spec of the pass.
LEMMA NewRecordSpec ==
  ASSUME NEW r, NEW a
  PROVE  NewRecord(r, a).spec = pass.spec
  BY DEF NewRecord, RecordWith, NoRec

\* A failed start tells a record no spec.
LEMMA StartFailureSpec ==
  ASSUME NEW r, IsRecord(r)
  PROVE  StartFailure(r).spec = IF r.st = "none" THEN 0 ELSE r.spec
  BY DEF StartFailure, NoRec, IsRecord, RecFields

\* An alloc that a step does not touch.
LEMMA LedgerStays ==
  ASSUME NEW i \in Allocs, LedgerOK(i), Alike(rec'[i], rec[i]),
         task'[i].st = "created" => task[i].st = "created", Running(task'[i]) => Running(task[i]),
         Mid(i) => Mid(i)', Trouble \in Nat, Trouble' \in Nat, Trouble' >= Trouble
  PROVE  LedgerOK(i)' /\ Moves(i)
<1>1. rec'[i].st = rec[i].st /\ rec'[i].restarts = rec[i].restarts /\ rec'[i].spec = rec[i].spec
  BY DEF Alike
<1>2. Trouble # 0 => Trouble' # 0
  OBVIOUS
<1>3. LedgerOK(i)'
  BY <1>1, <1>2 DEF LedgerOK
<1>4. Life(rec'[i]) = Life(rec[i])
  BY <1>1 DEF Life
<1> QED
  BY <1>3, <1>4 DEF Moves

\* Once something went wrong only the record matters.
LEMMA LedgerTroubled ==
  ASSUME NEW i \in Allocs, LedgerOK(i), Alike(rec'[i], rec[i]), Trouble' # 0
  PROVE  LedgerOK(i)' /\ Moves(i)
<1>1. rec'[i].st = rec[i].st /\ rec'[i].restarts = rec[i].restarts /\ rec'[i].spec = rec[i].spec
  BY DEF Alike
<1>2. LedgerOK(i)'
  BY <1>1 DEF LedgerOK
<1>3. Life(rec'[i]) = Life(rec[i])
  BY <1>1 DEF Life
<1> QED
  BY <1>2, <1>3 DEF Moves

LEMMA LedgerActionStays ==
  ASSUME NEW b, LedgerAction(b), Alike(rec'[b.i], rec[b.i]), pass'.spec = pass.spec,
         Trouble \in Nat, Trouble' \in Nat, Trouble' >= Trouble
  PROVE  LedgerAction(b)'
<1>1. rec'[b.i].st = rec[b.i].st /\ rec'[b.i].spec = rec[b.i].spec
  BY DEF Alike
<1>2. Trouble # 0 => Trouble' # 0
  OBVIOUS
<1> QED
  BY <1>1, <1>2 DEF LedgerAction

\* When an action is over, what the plan relies on holds of the rest.
LEMMA LedgerOver ==
  ASSUME RecTypes, NEW a, IsNext(a), Applied(a) \/ Failed(a), \A b \in pass.todo : LedgerAction(b),
         Trouble \in Nat, Trouble' \in Nat, Trouble' >= Trouble,
         \A j \in Allocs : j # a.i => Alike(rec'[j], rec[j])
  PROVE  \A b \in pass'.todo : LedgerAction(b)'
<1>1. pass'.todo = pass.todo \ {a} /\ pass'.spec = pass.spec
  BY OverFacts
<1>2. SUFFICES ASSUME NEW b \in pass'.todo PROVE LedgerAction(b)'
  OBVIOUS
<1>3. b \in pass.todo /\ b # a /\ b.i \in Allocs /\ LedgerAction(b)
  BY <1>1 DEF RecTypes
<1>4. b.i # a.i \/ b.kind = "reap"
  BY <1>3, OthersWait
<1>5. CASE b.i # a.i
  BY <1>1, <1>3, <1>5, LedgerActionStays
<1>6. CASE b.kind = "reap"
  BY <1>6 DEF LedgerAction
<1> QED
  BY <1>4, <1>5, <1>6

\* The pass goes on with what it loaded, or is over.
LEMMA DesiredStays ==
  ASSUME DesiredOK, desired' = desired,
         \/ pass'.pc = "idle"
         \/ pass.pc # "idle" /\ pass'.spec = pass.spec /\ pass'.on = pass.on
  PROVE  DesiredOK'
  BY DEF DesiredOK

\* What every step of an action may use.
LEMMA LedgerFacts ==
  ASSUME LedgerInv, [Next]_vars
  PROVE  /\ RecTypes /\ PassOK /\ BudgetInv /\ BudgetInv' /\ DesiredOK
         /\ Trouble \in Nat /\ Trouble' \in Nat /\ Trouble' >= Trouble
         /\ \A i \in Allocs : IsRecord(rec[i]) /\ LedgerOK(i) /\ DOMAIN rec = Allocs /\ DOMAIN task = Allocs
         /\ \A a \in pass.todo : a.i \in Allocs /\ LedgerAction(a)
<1>1. BudgetInv /\ BudgetInv' /\ RecTypes /\ PassOK
  BY BudgetStep DEF LedgerInv, BudgetInv
<1> QED
  BY <1>1, TroubleGrows DEF LedgerInv, RecTypes

\* A step between two passes, or one that touches no alloc.
LEMMA LedgerFrame ==
  ASSUME LedgerInv, [Next]_vars, desired' = desired, pass' = pass,
         \A i \in Allocs : /\ Alike(rec'[i], rec[i])
                           /\ task'[i].st = "created" => task[i].st = "created"
                           /\ Running(task'[i]) => Running(task[i])
  PROVE  LedgerKept
<1>1. \A i : Mid(i) => Mid(i)'
  BY DEF Mid, IsNext
<1>2. \A i \in Allocs : LedgerOK(i)' /\ Moves(i)
  BY <1>1, LedgerFacts, LedgerStays
<1>3. \A b \in pass'.todo : LedgerAction(b)'
  BY LedgerFacts, LedgerActionStays
<1>4. DesiredOK'
  BY LedgerFacts DEF DesiredOK
<1> QED
  BY <1>2, <1>3, <1>4, LedgerFacts DEF LedgerKept, LedgerInv

\* An action is over that touched its own alloc, if any.
LEMMA LedgerOverKept ==
  ASSUME LedgerInv, [Next]_vars, NEW a, IsNext(a), Applied(a) \/ Failed(a), desired' = desired,
         \A j \in Allocs : j # a.i => /\ Alike(rec'[j], rec[j])
                                      /\ task'[j].st = "created" => task[j].st = "created"
                                      /\ Running(task'[j]) => Running(task[j]),
         pass.pc # "idle", LedgerOK(a.i)', Moves(a.i)
  PROVE  LedgerKept
<1>1. pass'.spec = pass.spec /\ pass'.on = pass.on
  BY LedgerFacts, OverFacts
<1>2. ASSUME NEW j \in Allocs, j # a.i PROVE LedgerOK(j)' /\ Moves(j)
  <2>1. ~Mid(j)
    BY <1>2, LedgerFacts, OneIsMid
  <2> QED
    BY <1>2, <2>1, LedgerFacts, LedgerStays
<1>3. \A b \in pass'.todo : LedgerAction(b)'
  BY LedgerFacts, LedgerOver
<1>4. DesiredOK'
  BY <1>1, LedgerFacts, DesiredStays
<1> QED
  BY <1>2, <1>3, <1>4, LedgerFacts DEF LedgerKept, LedgerInv

LEMMA TeardownLedger ==
  ASSUME LedgerInv, [Next]_vars, NEW a \in pass.todo, Teardown(a)
  PROVE  LedgerKept
<1>1. /\ IsNext(a) /\ pass.pc = "next" /\ a.i \in Allocs /\ LedgerOK(a.i)
      /\ rec' = rec /\ faults' = faults /\ deaths' = deaths /\ desired' = desired
  BY LedgerFacts DEF Teardown
<1>2. ~Mid(a.i)
  BY <1>1 DEF Mid
<1>3. CASE Failed(a) /\ task' = task
  <2>1. LedgerOK(a.i)' /\ Moves(a.i)
    BY <1>1, <1>2, <1>3, LedgerFacts, LedgerStays DEF Alike
  <2> QED
    BY <1>1, <1>3, <2>1, LedgerOverKept DEF Alike
<1>4. ASSUME task' = [task EXCEPT ![a.i] = None], NEW pc, pc # "idle", Then(pc)
      PROVE  LedgerKept
  <2>1. pass'.todo = pass.todo /\ pass'.spec = pass.spec /\ pass'.on = pass.on
    BY <1>4, LedgerFacts, ThenFacts
  <2>2. task'[a.i].st = "none" /\ \A j \in Allocs : j # a.i => task'[j] = task[j]
    BY <1>1, <1>4, LedgerFacts DEF None
  <2>3. \A i : ~Mid(i)
    BY <1>1 DEF Mid
  <2>4. \A j \in Allocs : /\ task'[j].st = "created" => task[j].st = "created"
                          /\ Running(task'[j]) => Running(task[j])
    BY <2>2 DEF Running
  <2>5. \A i \in Allocs : LedgerOK(i)' /\ Moves(i)
    BY <1>1, <2>3, <2>4, LedgerFacts, LedgerStays DEF Alike
  <2>6. \A b \in pass'.todo : LedgerAction(b)'
    BY <1>1, <2>1, LedgerFacts, LedgerActionStays DEF Alike
  <2>7. DesiredOK'
    BY <1>1, <2>1, LedgerFacts, DesiredStays
  <2> QED
    BY <2>5, <2>6, <2>7, LedgerFacts DEF LedgerKept, LedgerInv
<1>5. "forget" # "idle" /\ "start" # "idle"
  OBVIOUS
<1> QED
  BY <1>3, <1>4, <1>5 DEF Teardown

\* A pass that has started an alloc is in the middle of its action.
LEMMA StartContainerLedger ==
  ASSUME LedgerInv, [Next]_vars, NEW a \in pass.todo, StartContainer(a)
  PROVE  LedgerKept
<1>1. /\ IsNext(a) /\ pass.pc # "idle" /\ a.i \in Allocs /\ DOMAIN task = Allocs
      /\ rec' = rec /\ faults' = faults /\ deaths' = deaths /\ desired' = desired /\ Then("record")
  BY LedgerFacts DEF StartContainer, Starting
<1>2. pass'.pc = "record" /\ pass'.todo = pass.todo /\ pass'.spec = pass.spec /\ pass'.on = pass.on
  BY <1>1, LedgerFacts, ThenFacts
<1>3. IsNext(a)' /\ Mid(a.i)'
  BY <1>1, <1>2 DEF IsNext, Mid
<1>4. /\ \A j \in Allocs : j # a.i => task'[j] = task[j]
      /\ task'[a.i] = task[a.i] \/ task'[a.i].st = "running"
  <2>1. CASE StepOf(a) # 0
    BY <2>1 DEF StartContainer
  <2>2. CASE StepOf(a) = 0
    <3>1. PICK s : task' = [task EXCEPT ![a.i] = Container("running", s)]
      BY <2>2 DEF StartContainer
    <3> QED
      BY <1>1, <3>1 DEF Container
  <2> QED
    BY <2>1, <2>2
<1>5. ASSUME NEW j \in Allocs, j # a.i PROVE LedgerOK(j)' /\ Moves(j)
  <2>1. ~Mid(j)
    BY <1>1, <1>5, LedgerFacts, OneIsMid
  <2> QED
    BY <1>1, <1>4, <1>5, <2>1, LedgerFacts, LedgerStays DEF Alike
<1>6. LedgerOK(a.i)' /\ Moves(a.i)
  <2>1. LedgerOK(a.i)
    BY <1>1, LedgerFacts
  <2> QED
    BY <1>1, <1>3, <1>4, <2>1 DEF LedgerOK, Moves, Trouble
<1>7. \A b \in pass'.todo : LedgerAction(b)'
  BY <1>1, <1>2, LedgerFacts, LedgerActionStays DEF Alike
<1>8. DesiredOK'
  BY <1>1, <1>2, LedgerFacts, DesiredStays
<1> QED
  BY <1>5, <1>6, <1>7, <1>8, LedgerFacts DEF LedgerKept, LedgerInv

\* The reason a start failed, on the record.
LEMMA StartFailureLedger ==
  ASSUME NEW i \in Allocs, LedgerInv, [Next]_vars, rec'[i] = StartFailure(rec[i])
  PROVE  /\ Moves(i) /\ rec'[i].st \in RecStates /\ rec'[i].spec \in 0..MaxSpec
         /\ rec'[i].st # "none"
         /\ rec'[i].st = "failed" => rec[i].st = "failed"
<1>1. IsRecord(rec[i]) /\ LedgerOK(i)
  BY LedgerFacts
<1>2. CASE rec[i].st = "none"
  <2>1. rec'[i].st = "pending" /\ rec'[i].spec = 0 /\ rec'[i].restarts = 0
    BY <1>1, <1>2, StartFailureFacts, StartFailureSpec
  <2>2. Life(rec[i]) = Lifecycle!Absent
    BY <1>2, LifeFacts DEF RecStates
  <2>3. Life(rec'[i]).phase = "starting" /\ Life(rec'[i]).spec = 0 /\ Life(rec'[i]).spent = 0
    BY <2>1 DEF Life
  <2>4. Lifecycle!Begins(Life(rec[i]), Life(rec'[i]))
    BY <2>2, <2>3 DEF Lifecycle!Begins
  <2>5. Moves(i)
    BY <2>4 DEF Moves, Lifecycle!Move
  <2> QED
    BY <1>2, <2>1, <2>5, ReconcilerAssumption DEF RecStates
<1>3. CASE rec[i].st # "none"
  <2>1. /\ rec'[i].st = rec[i].st /\ rec'[i].spec = rec[i].spec /\ rec'[i].restarts = rec[i].restarts
    BY <1>1, <1>3, StartFailureFacts
  <2>2. Life(rec'[i]) = Life(rec[i])
    BY <2>1 DEF Life
  <2> QED
    BY <1>1, <1>3, <2>1, <2>2 DEF Moves, LedgerOK
<1> QED
  BY <1>2, <1>3

LEMMA AlreadyExistsLedger ==
  ASSUME LedgerInv, [Next]_vars, NEW a \in pass.todo, AlreadyExists(a)
  PROVE  LedgerKept
<1>1. /\ IsNext(a) /\ Failed(a) /\ a.i \in Allocs /\ DOMAIN rec = Allocs /\ LedgerOK(a.i)
      /\ task' = task /\ faults' = faults /\ deaths' = deaths /\ desired' = desired
      /\ rec' = [rec EXCEPT ![a.i] = StartFailure(@)] /\ task[a.i].st # "none"
  BY LedgerFacts DEF AlreadyExists, Starting
<1>2. pass.pc = "next" /\ ~Mid(a.i)
  <2>1. pass.pc # "start"
    BY <1>1, LedgerFacts DEF PassOK
  <2> QED
    BY <2>1 DEF AlreadyExists, Starting, Mid
<1>3. rec'[a.i] = StartFailure(rec[a.i]) /\ \A j \in Allocs : j # a.i => rec'[j] = rec[j]
  BY <1>1
<1>4. LedgerOK(a.i)' /\ Moves(a.i)
  <2>1. /\ Moves(a.i) /\ rec'[a.i].st \in RecStates /\ rec'[a.i].spec \in 0..MaxSpec
        /\ rec'[a.i].st # "none" /\ (rec'[a.i].st = "failed" => rec[a.i].st = "failed")
    BY <1>1, <1>3, StartFailureLedger
  <2>2. Trouble' = Trouble
    BY <1>1 DEF Trouble
  <2> QED
    BY <1>1, <1>2, <2>1, <2>2 DEF LedgerOK
<1> QED
  BY <1>1, <1>2, <1>3, <1>4, LedgerOverKept DEF Alike

\* The record of a started alloc: the spec of the pass, and what the budget says.
LEMMA NewRecordLedger ==
  ASSUME NEW i \in Allocs, NEW a, LedgerInv, [Next]_vars, rec'[i] = NewRecord(rec[i], a),
         pass.spec \in 1..MaxSpec, rec[i].st = "failed" => rec[i].spec \notin {0, pass.spec}
  PROVE  Moves(i) /\ rec'[i].st \in {"running", "init"} /\ rec'[i].spec \in 0..MaxSpec
<1> DEFINE r == rec[i]
           x == rec'[i]
<1>1. IsRecord(r) /\ LedgerOK(i)
  BY LedgerFacts
<1>2. /\ x.st = (IF StepOf(a) = 0 THEN "running" ELSE "init") /\ x.spec = pass.spec
      /\ ~Same(i) => x.restarts = 0
      /\ Same(i) => x.restarts = r.restarts + IF a.kind = "restart" THEN 1 ELSE 0
  <2> DEFINE y == NewRecord(r, a)
  <2>1. /\ y.st = (IF StepOf(a) = 0 THEN "running" ELSE "init") /\ y.spec = pass.spec
        /\ ~Same(i) => y.restarts = 0
        /\ Same(i) => y.restarts = r.restarts + IF a.kind = "restart" THEN 1 ELSE 0
    BY <1>1, NewRecordFacts, NewRecordSpec DEF Same
  <2>2. x = y
    OBVIOUS
  <2> HIDE DEF y, x
  <2> QED
    BY <2>1, <2>2
<1>3. /\ x.st \in {"running", "init"} /\ x.st \in RecStates
      /\ Life(x).phase \in {"starting", "up"} /\ Life(x).spec = pass.spec /\ Life(x).spent = x.restarts
  <2>1. x.st \in {"running", "init"}
    BY <1>2
  <2> HIDE DEF x
  <2> QED
    BY <1>2, <2>1 DEF Life, RecStates
<1>4. CASE ~Same(i)
  <2>1. Life(r) = Lifecycle!Absent \/ (Life(r).spec \notin {0, pass.spec} /\ pass.spec # 0)
    <3>1. CASE r.st = "none"
      BY <3>1, LifeFacts DEF RecStates
    <3>2. CASE r.st # "none"
      <4>1. r.spec # 0 /\ r.spec # pass.spec
        BY <1>4, <3>2 DEF Same
      <4>2. Life(r).spec = r.spec
        BY <3>2 DEF Life
      <4>3. pass.spec # 0
        BY ReconcilerAssumption
      <4> QED
        BY <4>1, <4>2, <4>3
    <3> QED
      BY <3>1, <3>2
  <2>2. Life(x).spent = 0
    BY <1>2, <1>3, <1>4
  <2> HIDE DEF x, r
  <2>3. Lifecycle!Begins(Life(r), Life(x))
    BY <1>3, <2>1, <2>2 DEF Lifecycle!Begins
  <2> QED
    BY <1>2, <1>3, <2>3, ReconcilerAssumption DEF Moves, Lifecycle!Move, x, r
<1>5. CASE Same(i)
  <2>1. r.st # "none" /\ (r.spec = 0 \/ r.spec = pass.spec) /\ r.st # "failed" /\ r.st \in RecStates
    BY <1>1, <1>5 DEF Same, LedgerOK
  <2>2. Life(r).phase \in {"starting", "up", "down"} /\ Life(r).spec = r.spec /\ Life(r).spent = r.restarts
    BY <2>1 DEF Life, RecStates
  <2>3. x.restarts \in {r.restarts, r.restarts + 1}
    BY <1>1, <1>2, <1>5 DEF IsRecord
  <2> HIDE DEF x, r
  <2>4. Lifecycle!SameSpec(Life(r), Life(x))
    BY <1>3, <2>1, <2>2 DEF Lifecycle!SameSpec
  <2>5. Lifecycle!GoesOn(Life(r), Life(x))
    BY <1>3, <2>2, <2>3, <2>4 DEF Lifecycle!GoesOn, Lifecycle!Alive
  <2> QED
    BY <1>2, <1>3, <2>5, ReconcilerAssumption DEF Moves, Lifecycle!Move, x, r
<1> QED
  BY <1>4, <1>5

\* Only a pass that found it created marks an alloc running.
LEMMA MarkRunningLedger ==
  ASSUME NEW i \in Allocs, LedgerInv, [Next]_vars, rec'[i] = MarkRunning(rec[i]), Trouble # 0
  PROVE  Moves(i) /\ rec'[i].st \in {"none", "running"} /\ rec'[i].spec \in 0..MaxSpec
         /\ (rec'[i].st = "none" => rec'[i].restarts = 0)
<1> DEFINE r == rec[i]
           x == rec'[i]
<1>1. IsRecord(r) /\ LedgerOK(i)
  BY LedgerFacts
<1>2. x.restarts = r.restarts /\ x.spec = r.spec /\ x.st = IF r.st = "none" THEN "none" ELSE "running"
  BY <1>1, MarkRunningFacts
<1>3. r.st \in RecStates /\ r.spec \in 0..MaxSpec /\ (r.st = "none" => r.restarts = 0)
  BY <1>1 DEF LedgerOK
<1> HIDE DEF r, x
<1>4. Life(x) = Life(r) \/ Lifecycle!Move(Life(r), Life(x))
  <2>1. CASE r.st = "none"
    BY <1>2, <2>1 DEF Life
  <2>2. CASE r.st # "none"
    <3>1. Life(x).phase = "up" /\ Life(x).spec = r.spec /\ Life(x).spent = r.restarts
      BY <1>2, <2>2 DEF Life
    <3>2. Life(r).spec = r.spec /\ Life(r).spent = r.restarts
      BY <2>2 DEF Life
    <3>3. Lifecycle!SameSpec(Life(r), Life(x))
      BY <3>1, <3>2 DEF Lifecycle!SameSpec
    <3>4. CASE r.st = "failed"
      <4>1. Life(r).phase = "failed"
        BY <3>4 DEF Life
      <4>2. Lifecycle!IsFound(Life(r), Life(x))
        BY <3>1, <3>2, <3>3, <4>1 DEF Lifecycle!IsFound, Trouble
      <4> QED
        BY <4>2 DEF Lifecycle!Move
    <3>5. CASE r.st # "failed"
      <4>1. Life(r).phase \in {"starting", "up", "down"}
        BY <1>3, <2>2, <3>5 DEF Life, RecStates
      <4>2. Lifecycle!GoesOn(Life(r), Life(x))
        BY <3>1, <3>2, <3>3, <4>1 DEF Lifecycle!GoesOn, Lifecycle!Alive
      <4> QED
        BY <4>2 DEF Lifecycle!Move
    <3> QED
      BY <3>4, <3>5
  <2> QED
    BY <2>1, <2>2
<1> QED
  BY <1>2, <1>3, <1>4 DEF Moves, r, x

LEMMA WriteRecordLedger ==
  ASSUME LedgerInv, [Next]_vars, NEW a \in pass.todo, WriteRecord(a)
  PROVE  LedgerKept
<1>1. /\ IsNext(a) /\ Applied(a) /\ a.i \in Allocs /\ DOMAIN rec = Allocs /\ LedgerOK(a.i) /\ LedgerAction(a)
      /\ task' = task /\ faults' = faults /\ deaths' = deaths /\ desired' = desired /\ pass.pc = "record"
      /\ rec' = [rec EXCEPT ![a.i] = IF a.kind = "start" THEN MarkRunning(@) ELSE NewRecord(@, a)]
  BY LedgerFacts DEF WriteRecord
<1>2. /\ rec'[a.i] = IF a.kind = "start" THEN MarkRunning(rec[a.i]) ELSE NewRecord(rec[a.i], a)
      /\ \A j \in Allocs : j # a.i => rec'[j] = rec[j]
  BY <1>1
<1>3. a.kind \notin {"remove", "reap"}
  BY <1>1, LedgerFacts DEF PassOK
<1>4. pass.spec \in 1..MaxSpec
  BY <1>1, LedgerFacts DEF DesiredOK
<1>5. /\ Moves(a.i) /\ rec'[a.i].st \in {"none", "running", "init"} /\ rec'[a.i].spec \in 0..MaxSpec
      /\ rec'[a.i].st = "none" => rec'[a.i].restarts = 0
  <2>1. CASE a.kind = "start"
    BY <1>1, <1>2, <2>1, MarkRunningLedger DEF LedgerAction
  <2>2. CASE a.kind # "start"
    BY <1>1, <1>2, <1>3, <1>4, <2>2, NewRecordLedger DEF LedgerAction
  <2> QED
    BY <2>1, <2>2
<1>6. LedgerOK(a.i)'
  <2>1. Trouble' = Trouble
    BY <1>1 DEF Trouble
  <2> QED
    BY <1>1, <1>5, <2>1 DEF LedgerOK, RecStates
<1> QED
  BY <1>1, <1>2, <1>5, <1>6, LedgerOverKept DEF Alike

LEMMA ForgetLedger ==
  ASSUME LedgerInv, [Next]_vars, NEW a \in pass.todo, Forget(a)
  PROVE  LedgerKept
<1> DEFINE i == a.i
           r == rec[i]
           x == rec'[i]
           keeps == pass.on /\ (r.st = "failed" \/ r.restarts >= Attempts)
<1>1. /\ IsNext(a) /\ Applied(a) /\ i \in Allocs /\ DOMAIN rec = Allocs /\ LedgerOK(i) /\ IsRecord(r)
      /\ task' = task /\ faults' = faults /\ deaths' = deaths /\ desired' = desired /\ pass.pc = "forget"
      /\ rec' = [rec EXCEPT ![a.i] = IF pass.on /\ (@.st = "failed" \/ @.restarts >= Attempts)
                                     THEN [@ EXCEPT !.st = "failed"] ELSE NoRec]
  BY LedgerFacts DEF Forget
<1>2. /\ \A j \in Allocs : j # i => rec'[j] = rec[j]
      /\ x = IF keeps THEN [r EXCEPT !.st = "failed"] ELSE NoRec
  BY <1>1
<1>3. /\ keeps => x.st = "failed" /\ x.restarts = r.restarts /\ x.spec = r.spec
      /\ ~keeps => x.st = "none" /\ x.restarts = 0 /\ x.spec = 0
  BY <1>1, <1>2 DEF IsRecord, RecFields, NoRec
<1>4. task'[i].st = "none"
  BY <1>1, LedgerFacts DEF PassOK
<1>5. r.st \in RecStates /\ r.spec \in 0..MaxSpec /\ (r.st = "none" => r.restarts = 0) /\ r.restarts \in Nat
  BY <1>1 DEF LedgerOK, IsRecord
<1>6. pass.on = desired.on /\ desired.on \in BOOLEAN
  BY <1>1, LedgerFacts DEF DesiredOK
<1> HIDE DEF r, x, i
<1>7. Life(x) = Life(r) \/ Lifecycle!Move(Life(r), Life(x))
  <2>1. CASE keeps /\ r.st = "failed"
    BY <1>3, <2>1 DEF Life
  <2>2. CASE keeps /\ r.st # "failed"
    <3>1. r.restarts >= Attempts /\ r.st # "none"
      BY <1>5, <2>2, ReconcilerAssumption
    <3>2. Life(x) = [phase |-> "failed", spec |-> r.spec, spent |-> r.restarts]
      BY <1>3, <2>2 DEF Life
    <3>3. /\ Life(r) = [phase |-> Life(r).phase, spec |-> r.spec, spent |-> r.restarts]
          /\ Life(r).phase \in {"starting", "up", "down"}
      BY <1>5, <2>2, <3>1, LifeFacts DEF RecStates
    <3>4. Lifecycle!IsGivenUp(Life(r), Life(x))
      BY <3>1, <3>2, <3>3 DEF Lifecycle!IsGivenUp, Lifecycle!Alive
    <3> QED
      BY <3>4 DEF Lifecycle!Move
  <2>3. CASE ~keeps
    <3>1. Life(x) = Lifecycle!Absent
      BY <1>3, <2>3, LifeFacts DEF RecStates
    <3>2. CASE r.st = "none"
      BY <1>5, <3>1, <3>2, LifeFacts
    <3>3. CASE r.st # "none"
      <4>1. Life(r).spent = r.restarts /\ (Life(r).phase = "failed" => r.st = "failed")
        BY <1>5, <3>3 DEF Life, RecStates
      <4>2. desired.on => Life(r).phase # "failed" /\ Life(r).spent < Attempts
        BY <1>5, <1>6, <2>3, <4>1, ReconcilerAssumption
      <4>3. Lifecycle!IsForgotten(Life(r), Life(x))
        BY <3>1, <4>2 DEF Lifecycle!IsForgotten
      <4> QED
        BY <4>3 DEF Lifecycle!Move
    <3> QED
      BY <3>2, <3>3
  <2> QED
    BY <2>1, <2>2, <2>3
<1>8. LedgerOK(i)'
  <2>1. /\ x.st \in RecStates /\ x.spec \in 0..MaxSpec
        /\ x.st = "none" => x.restarts = 0
    BY <1>3, <1>5, ReconcilerAssumption DEF RecStates
  <2> QED
    BY <1>4, <2>1 DEF LedgerOK, Running, x, i
<1>9. Moves(i)
  BY <1>7 DEF Moves, r, x
<1> QED
  BY <1>1, <1>2, <1>8, <1>9, LedgerOverKept DEF Alike, i

LEMMA ReapLedger ==
  ASSUME LedgerInv, [Next]_vars, NEW a \in pass.todo, Reap(a)
  PROVE  LedgerKept
<1>1. /\ IsNext(a) /\ (Applied(a) \/ Failed(a)) /\ a.i \in Allocs /\ LedgerOK(a.i) /\ pass.pc = "next"
      /\ rec' = rec /\ task' = task /\ desired' = desired
  BY LedgerFacts DEF Reap
<1>2. LedgerOK(a.i)' /\ Moves(a.i)
  BY <1>1, LedgerFacts, LedgerStays DEF Alike, Mid
<1> QED
  BY <1>1, <1>2, LedgerOverKept DEF Alike

\* A pass ends, or is lost with the daemon.
LEMMA NoPassLedger ==
  ASSUME LedgerInv, [Next]_vars, rec' = rec, desired' = desired, pass' = NoPass,
         Trouble' # 0 \/ (task' = task /\ pass.pc = "next" )
  PROVE  LedgerKept
<1>1. \A i \in Allocs : LedgerOK(i)' /\ Moves(i)
  <2>1. CASE Trouble' # 0
    BY <2>1, LedgerFacts, LedgerTroubled DEF Alike
  <2>2. CASE task' = task /\ pass.pc = "next"
    BY <2>2, LedgerFacts, LedgerStays DEF Alike, Mid
  <2> QED
    BY <2>1, <2>2
<1>2. pass'.pc = "idle" /\ pass'.todo = {}
  BY DEF NoPass
<1>3. DesiredOK'
  BY <1>2, LedgerFacts, DesiredStays
<1> QED
  BY <1>1, <1>2, <1>3, LedgerFacts DEF LedgerKept, LedgerInv

LEMMA FaultyLedger ==
  ASSUME LedgerInv, [Next]_vars, Faulty
  PROVE  LedgerKept
<1>1. Trouble' # 0 /\ desired' = desired
  <2>1. faults \in Nat /\ deaths \in Nat
    BY LedgerFacts DEF RecTypes
  <2>2. faults' = faults + 1 /\ deaths' = deaths /\ desired' = desired
    BY DEF Faulty, PassAborts, TeardownFails, StartFails, WriteFails, Fault
  <2> QED
    BY <2>1, <2>2 DEF Trouble
<1>2. CASE PassAborts
  BY <1>2, LedgerFrame DEF PassAborts, Alike
<1>3. ASSUME NEW a \in pass.todo, IsNext(a), Failed(a), pass.pc # "idle",
             rec' = rec \/ rec' = [rec EXCEPT ![a.i] = StartFailure(@)]
      PROVE  LedgerKept
  <2>1. a.i \in Allocs /\ DOMAIN rec = Allocs
    BY LedgerFacts
  <2>2. \A j \in Allocs : j # a.i => rec'[j] = rec[j]
    BY <1>3, <2>1
  <2>3. ASSUME NEW j \in Allocs, rec'[j] = rec[j] PROVE LedgerOK(j)' /\ Moves(j)
    BY <1>1, <2>3, LedgerFacts, LedgerTroubled DEF Alike
  <2>4. LedgerOK(a.i)' /\ Moves(a.i)
    <3>1. CASE rec' = rec
      BY <2>1, <2>3, <3>1
    <3>2. CASE rec' = [rec EXCEPT ![a.i] = StartFailure(@)]
      <4>1. rec'[a.i] = StartFailure(rec[a.i])
        BY <2>1, <3>2
      <4>2. /\ Moves(a.i) /\ rec'[a.i].st \in RecStates /\ rec'[a.i].spec \in 0..MaxSpec
            /\ rec'[a.i].st # "none"
        BY <2>1, <4>1, StartFailureLedger
      <4> QED
        BY <1>1, <4>2 DEF LedgerOK
    <3> QED
      BY <1>3, <3>1, <3>2
  <2>5. pass'.spec = pass.spec /\ pass'.on = pass.on
    BY <1>3, LedgerFacts, OverFacts
  <2>6. \A b \in pass'.todo : LedgerAction(b)'
    BY <1>3, <2>2, LedgerFacts, LedgerOver DEF Alike
  <2>7. DesiredOK'
    BY <1>1, <1>3, <2>5, LedgerFacts, DesiredStays
  <2> QED
    BY <2>2, <2>3, <2>4, <2>6, <2>7, LedgerFacts DEF LedgerKept, LedgerInv
<1>4. ASSUME NEW a \in pass.todo, TeardownFails(a) PROVE LedgerKept
  BY <1>3, <1>4 DEF TeardownFails
<1>5. ASSUME NEW a \in pass.todo, StartFails(a) PROVE LedgerKept
  BY <1>3, <1>5 DEF StartFails, Starting
<1>6. ASSUME NEW a \in pass.todo, WriteFails(a) PROVE LedgerKept
  BY <1>3, <1>6 DEF WriteFails
<1> QED
  BY <1>2, <1>4, <1>5, <1>6 DEF Faulty

LEMMA DiesLedger ==
  ASSUME LedgerInv, [Next]_vars, Dies
  PROVE  LedgerKept
<1>1. rec' = rec /\ deaths' = deaths + 1 /\ faults' = faults /\ pass' = NoPass /\ desired' = desired
  BY DEF Dies, Crash, Reboot, CrashCreating, Restarted
<1>2. faults \in Nat /\ deaths \in Nat
  BY LedgerFacts DEF RecTypes
<1>3. Trouble' # 0
  BY <1>1, <1>2 DEF Trouble
<1> QED
  BY <1>1, <1>3, NoPassLedger

\* What happens between the steps of a pass: the records only change their deadlines.
LEMMA EnvironmentLedger ==
  ASSUME LedgerInv, [Next]_vars, Environment
  PROVE  LedgerKept
<1>1. RecTypes /\ 0 \in Allocs /\ DOMAIN task = Allocs /\ \A i \in Allocs : DOMAIN task[i] = {"st", "spec"}
  BY LedgerFacts, ReconcilerAssumption DEF RecTypes
<1>2. ASSUME desired' = desired, pass' = pass, task' = task, \A i \in Allocs : Alike(rec'[i], rec[i])
      PROVE  LedgerKept
  BY <1>2, LedgerFrame
<1>3. ASSUME NEW i \in Allocs, NEW st \in {"stopped", "paused"}, task' = [task EXCEPT ![i].st = st],
             desired' = desired, pass' = pass, rec' = rec
      PROVE  LedgerKept
  <2>1. task'[i].st = st /\ \A j \in Allocs : j # i => task'[j] = task[j]
    BY <1>1, <1>3
  <2>2. \A j \in Allocs : /\ task'[j].st = "created" => task[j].st = "created"
                          /\ Running(task'[j]) => Running(task[j])
    BY <2>1 DEF Running
  <2> QED
    BY <1>3, <2>2, LedgerFrame DEF Alike
<1>4. ASSUME NEW i \in Allocs, Exit(i) \/ Odd(i) PROVE LedgerKept
  <2>1. CASE Exit(i)
    BY <1>3, <2>1 DEF Exit
  <2>2. CASE Odd(i)
    BY <1>3, <2>2 DEF Odd
  <2> QED
    BY <1>4, <2>1, <2>2
<1>5. ASSUME NEW i \in Allocs, NEW f \in {"wait", "young", "late"}, NEW v,
             DeadlinePasses(i, [rec[i] EXCEPT ![f] = v])
      PROVE  LedgerKept
  BY <1>1, <1>2, <1>5, DeadlineFrame DEF DeadlinePasses
<1>6. ASSUME NEW i \in Allocs, BackoffEnds(i) \/ Settles(i) PROVE LedgerKept
  BY <1>5, <1>6 DEF BackoffEnds, Settles
<1>7. CASE Overdue
  BY <1>1, <1>5, <1>7 DEF Overdue, Leader
<1>8. CASE \E k \in StepIds : StepDone(k) \/ StepFails(k)
  BY <1>2, <1>8 DEF StepDone, StepFails, Alike
<1>9. CASE DependencyServes \/ DependencyFails
  BY <1>2, <1>9 DEF DependencyServes, DependencyFails, Alike
<1>10. CASE Deploy \/ Scale \/ Delete
  <2>1. /\ rec' = rec /\ task' = task /\ pass' = pass /\ faults' = faults /\ deaths' = deaths
        /\ pass.pc = "idle"
    BY <1>10 DEF Deploy, Scale, Delete, Edit
  <2>2. DOMAIN desired' = {"spec", "count", "on"} /\ desired'.spec \in 1..MaxSpec /\ desired'.on \in BOOLEAN
    <3>1. DesiredOK
      BY LedgerFacts
    <3>2. CASE Deploy
      BY <3>1, <3>2 DEF DesiredOK, Deploy, Edit
    <3>3. CASE Scale
      BY <3>1, <3>3 DEF DesiredOK, Scale, Edit
    <3>4. CASE Delete
      BY <3>1, <3>4 DEF DesiredOK, Delete, Edit
    <3> QED
      BY <1>10, <3>2, <3>3, <3>4
  <2>3. \A i \in Allocs : LedgerOK(i)' /\ Moves(i)
    BY <2>1, LedgerFacts, LedgerStays DEF Alike, Mid, IsNext
  <2>4. \A b \in pass'.todo : LedgerAction(b)'
    BY <2>1, LedgerFacts, LedgerActionStays DEF Alike
  <2>5. DesiredOK'
    BY <2>1, <2>2 DEF DesiredOK
  <2> QED
    BY <2>3, <2>4, <2>5, LedgerFacts DEF LedgerKept, LedgerInv
<1> QED
  BY <1>4, <1>6, <1>7, <1>8, <1>9, <1>10 DEF Environment

\* What a pass observes of one alloc: it runs, or it went down, or neither.
LEMMA ObservedLedger ==
  ASSUME LedgerInv, [Next]_vars, pass.pc = "idle", NEW i \in Allocs, NEW h, IsRecord(h), Alike(h, rec[i]),
         NEW seen \in BOOLEAN, rec'[i] = Observed(i, h, seen), UNCHANGED <<task, faults, deaths>>
  PROVE  LedgerOK(i)' /\ Moves(i)
<1> DEFINE r == rec[i]
           x == rec'[i]
<1>1. /\ r.st \in RecStates /\ r.spec \in 0..MaxSpec /\ (r.st = "none" => r.restarts = 0)
      /\ task[i].st = "created" => Trouble # 0
      /\ r.st = "failed" /\ Running(task[i]) => Trouble # 0
  BY LedgerFacts DEF LedgerOK, Mid
<1>2. h.st = r.st /\ h.spec = r.spec /\ h.restarts = r.restarts
  BY DEF Alike
<1>3. desired.spec \in 1..MaxSpec /\ Trouble' = Trouble
  BY LedgerFacts DEF DesiredOK, Trouble
<1>4. \/ /\ x.st = r.st /\ x.restarts = r.restarts /\ (r.st # "none" => ~Running(task[i]))
         /\ x.spec = r.spec
      \/ Running(task[i]) /\ r.st # "none" /\ x.st = "running" /\ x.restarts = r.restarts
      \/ /\ ~Running(task[i]) /\ r.st \in {"running", "pending", "init"} /\ x.restarts = r.restarts
         /\ x.st = IF seen /\ r.restarts >= Attempts THEN "failed" ELSE "backoff"
         /\ x.spec = r.spec
  <2> DEFINE y == Observed(i, h, seen)
  <2>1. \/ Alike(y, h) /\ (h.st # "none" => ~Running(task[i]))
        \/ /\ Running(task[i]) /\ h.st # "none" /\ y.st = "running" /\ y.restarts = h.restarts
        \/ /\ task[i].st # "running" /\ h.st \in {"running", "pending", "init"} /\ y.restarts = h.restarts
           /\ y.st = IF seen /\ h.restarts >= Attempts THEN "failed" ELSE "backoff"
    BY ObservedFacts DEF IsExit
  <2>2. ~Running(task[i]) => y.spec = h.spec
    <3>1. ASSUME NEW why
          PROVE  Exited(h, why, seen).spec = h.spec /\ DOMAIN Exited(h, why, seen) = RecFields
      BY DEF Exited, IsRecord, RecFields
    <3>2. ASSUME NEW e, e.spec = h.spec, DOMAIN e = RecFields
          PROVE  [e EXCEPT !.step = Live].spec = h.spec
      BY <3>2 DEF RecFields
    <3> QED
      BY <3>1, <3>2 DEF Observed
  <2>3. x = y
    OBVIOUS
  <2> HIDE DEF y, x, r
  <2> QED
    BY <1>2, <2>1, <2>2, <2>3 DEF Alike, Running
<1>5. x.spec = r.spec \/ (r.spec = 0 /\ x.spec = desired.spec)
  <2> DEFINE y == Observed(i, h, seen)
  <2>1. y.spec = h.spec \/ (h.spec = 0 /\ y.spec = desired.spec)
    BY ObservedSpec
  <2>2. x = y
    OBVIOUS
  <2> HIDE DEF y, x, r
  <2> QED
    BY <1>2, <2>1, <2>2
<1> HIDE DEF r, x
<1>6. /\ x.st \in RecStates /\ x.spec \in 0..MaxSpec /\ (x.st = "none" => x.restarts = 0)
      /\ x.st = "failed" => ~Running(task[i])
  <2>1. x.spec \in 0..MaxSpec
    BY <1>1, <1>3, <1>5
  <2>2. x.st \in RecStates /\ (x.st = "none" => x.restarts = 0) /\ (x.st = "failed" => ~Running(task[i]))
    BY <1>1, <1>4 DEF RecStates
  <2> QED
    BY <2>1, <2>2
<1>7. LedgerOK(i)'
  BY <1>1, <1>3, <1>6 DEF LedgerOK, x
<1>8. CASE x.st = r.st /\ x.restarts = r.restarts /\ x.spec = r.spec
  <2>1. Life(x) = Life(r)
    BY <1>8 DEF Life
  <2> QED
    BY <1>7, <2>1 DEF Moves, x, r
<1>9. CASE Running(task[i]) /\ r.st # "none" /\ x.st = "running" /\ x.restarts = r.restarts
  <2>1. Life(x).phase = "up" /\ Life(x).spec = x.spec /\ Life(x).spent = r.restarts
    BY <1>9 DEF Life
  <2>2. Life(r).spec = r.spec /\ Life(r).spent = r.restarts
    BY <1>9 DEF Life
  <2>3. Lifecycle!SameSpec(Life(r), Life(x))
    BY <1>3, <1>5, <2>1, <2>2 DEF Lifecycle!SameSpec
  <2>4. CASE r.st = "failed"
    <3>1. Life(r).phase = "failed" /\ faults + deaths # 0
      BY <1>1, <1>9, <2>4 DEF Life, Trouble
    <3>2. Lifecycle!IsFound(Life(r), Life(x))
      BY <2>1, <2>2, <2>3, <3>1 DEF Lifecycle!IsFound
    <3> QED
      BY <1>7, <3>2 DEF Moves, Lifecycle!Move, x, r
  <2>5. CASE r.st # "failed"
    <3>1. Life(r).phase \in {"starting", "up", "down"}
      BY <1>1, <1>9, <2>5 DEF Life, RecStates
    <3>2. Lifecycle!GoesOn(Life(r), Life(x))
      BY <2>1, <2>2, <2>3, <3>1 DEF Lifecycle!GoesOn, Lifecycle!Alive
    <3> QED
      BY <1>7, <3>2 DEF Moves, Lifecycle!Move, x, r
  <2> QED
    BY <2>4, <2>5
<1>10. CASE /\ r.st \in {"running", "pending", "init"} /\ x.restarts = r.restarts /\ x.spec = r.spec
            /\ x.st = IF seen /\ r.restarts >= Attempts THEN "failed" ELSE "backoff"
  <2>1. /\ Life(r) = [phase |-> Life(r).phase, spec |-> r.spec, spent |-> r.restarts]
        /\ Life(r).phase \in {"starting", "up"}
    BY <1>1, <1>10, LifeFacts
  <2>2. CASE seen /\ r.restarts >= Attempts
    <3>1. Life(x) = [phase |-> "failed", spec |-> r.spec, spent |-> r.restarts]
      BY <1>10, <2>2 DEF Life
    <3>2. Lifecycle!IsGivenUp(Life(r), Life(x))
      BY <2>1, <2>2, <3>1 DEF Lifecycle!IsGivenUp, Lifecycle!Alive
    <3> QED
      BY <1>7, <3>2 DEF Moves, Lifecycle!Move, x, r
  <2>3. CASE ~(seen /\ r.restarts >= Attempts)
    <3>1. Life(x) = [phase |-> "down", spec |-> r.spec, spent |-> r.restarts]
      BY <1>10, <2>3 DEF Life
    <3>2. Lifecycle!GoesDown(Life(r), Life(x))
      BY <2>1, <3>1 DEF Lifecycle!GoesDown
    <3> QED
      BY <1>7, <3>2 DEF Moves, Lifecycle!Move, x, r
  <2> QED
    BY <2>2, <2>3
<1> QED
  BY <1>4, <1>8, <1>9, <1>10

LEMMA BeginLedger ==
  ASSUME LedgerInv, [Next]_vars, Begin
  PROVE  LedgerKept
<1> DEFINE seen == (witnessed \cup RunningNow) \cap Known
           probed == {i \in Allocs : /\ Checked /\ Wanted(i, desired)
                                     /\ Running(task[i]) /\ rec[i].st # "none"}
<1>1. PICK healthy \in SUBSET probed :
        /\ rec' = [i \in Allocs |->
                     Observed(i, IF i \in probed THEN [rec[i] EXCEPT !.healthy = i \in healthy]
                                 ELSE rec[i], i \in seen)]
        /\ pass' = [pc |-> "next", todo |-> PlanOf(rec', desired, seen),
                    spec |-> desired.spec, count |-> desired.count, on |-> desired.on,
                    applied |-> Waits(rec', desired, seen)]
  BY DEF Begin
<1>2. pass.pc = "idle" /\ UNCHANGED <<task, faults, deaths, desired>>
  BY DEF Begin
<1>3. pass'.todo = PlanOf(rec', desired, seen) /\ pass'.spec = desired.spec /\ pass'.on = desired.on
  BY <1>1
<1> HIDE DEF seen, probed
<1>4. ASSUME NEW i \in Allocs
      PROVE  LedgerOK(i)' /\ Moves(i)
  <2> DEFINE h == IF i \in probed THEN [rec[i] EXCEPT !.healthy = i \in healthy] ELSE rec[i]
             c == i \in seen
  <2>1. IsRecord(rec[i])
    BY LedgerFacts
  <2>2. IsRecord(h) /\ Alike(h, rec[i])
    BY <2>1 DEF IsRecord, RecFields, Alike
  <2>3. rec'[i] = Observed(i, h, c) /\ c \in BOOLEAN
    BY <1>1
  <2> HIDE DEF h, c
  <2> QED
    BY <1>2, <2>2, <2>3, ObservedLedger
<1>5. ASSUME NEW a \in pass'.todo
      PROVE  LedgerAction(a)'
  <2> DEFINE c == a.i \in seen
  <2>1. \A i \in Allocs : task[i].st \in ContainerStates
    BY LedgerFacts DEF RecTypes
  <2>2. /\ a.i \in Allocs /\ a.kind \in ActionKinds
        /\ a.kind \notin {"reap", "remove"} => a.kind = PlanAlloc(a.i, rec', desired.spec, c)
    BY <1>3, <1>5, <2>1, TodoFacts
  <2>3. c \in BOOLEAN
    OBVIOUS
  <2> HIDE DEF c
  <2>4. LET kind == PlanAlloc(a.i, rec', desired.spec, c)
        IN  /\ rec'[a.i].st = "failed" /\ ~Stale(rec'[a.i], desired.spec) => kind = "none"
            /\ kind = "start" => task[a.i].st = "created"
    BY <2>1, <2>2, <2>3, PlanFacts
  <2>5. a.kind # "none" /\ "start" \notin {"reap", "remove"}
    BY <2>2 DEF ActionKinds, TeardownKinds, StepKinds
  <2>6. a.kind \notin {"reap", "remove"} /\ rec'[a.i].st = "failed" => Stale(rec'[a.i], desired.spec)
    BY <2>2, <2>4, <2>5
  <2>7. a.kind = "start" => Trouble' # 0
    <3>1. a.kind = "start" => task[a.i].st = "created"
      BY <2>2, <2>4, <2>5
    <3>2. task[a.i].st = "created" => Trouble # 0
      BY <2>2, LedgerFacts DEF LedgerOK
    <3> QED
      BY <1>2, <3>1, <3>2 DEF Trouble
  <2> QED
    BY <1>3, <2>6, <2>7 DEF LedgerAction, Stale
<1>6. DesiredOK'
  BY <1>2, <1>3, LedgerFacts DEF DesiredOK
<1> QED
  BY <1>4, <1>5, <1>6, LedgerFacts DEF LedgerKept, LedgerInv

LEMMA LedgerInvInit == Init => LedgerInv
<1> SUFFICES ASSUME Init PROVE LedgerInv
  OBVIOUS
<1>1. BudgetInv
  BY BudgetInvInit
<1>2. pass.pc = "idle" /\ pass.todo = {}
  BY DEF Init, NoPass
<1>3. DesiredOK
  BY <1>2, ReconcilerAssumption DEF Init, DesiredOK
<1>4. \A i \in Allocs : LedgerOK(i)
  BY ReconcilerAssumption DEF Init, NoRec, None, LedgerOK, RecStates
<1> QED
  BY <1>1, <1>2, <1>3, <1>4 DEF LedgerInv

LEMMA LedgerStep ==
  ASSUME LedgerInv, [Next]_vars
  PROVE  LedgerKept
<1>1. CASE Pass
  <2>1. CASE EndPass
    BY <2>1, NoPassLedger DEF EndPass
  <2> QED
    BY <1>1, <2>1, BeginLedger, TeardownLedger, StartContainerLedger, AlreadyExistsLedger,
       WriteRecordLedger, ForgetLedger, ReapLedger DEF Pass
<1>2. CASE UNCHANGED vars
  BY <1>2, LedgerFrame DEF vars, Alike
<1> QED
  BY <1>1, <1>2, FaultyLedger, EnvironmentLedger, DiesLedger DEF Next

\* types.go, "Attempts is the maximum number of restarts before the alloc is left
\* failed" (planRestart, create, stampInitStep, remove, Observe): however passes,
\* failures, edits, exits and restarts of the daemon interleave, the records of
\* the allocs keep the ledger of AllocLifecycle: while an alloc keeps its record
\* and its spec the attempts it has spent only grow, one at a time; it is given up
\* only when all are spent, and then until it has another spec, unless a failed
\* call or a death left a container that the loop finds running; and while the
\* service is declared an alloc without attempts is not forgotten.
THEOREM RecordsKeepTheLedger == Spec => KeepsLedger
<1>1. Init => Lifecycle!Init
  <2> SUFFICES ASSUME Init PROVE Lifecycle!Init
    OBVIOUS
  <2>1. desired.on \in BOOLEAN /\ ~(faults + deaths # 0)
    BY DEF Init
  <2>2. \A i \in Allocs : rec[i].st = "none"
    BY DEF Init, NoRec
  <2>3. \A i \in Allocs : Life(rec[i]) = Lifecycle!Absent
    BY <2>2, LifeFacts DEF RecStates
  <2> QED
    BY <2>1, <2>3 DEF Lifecycle!Init
<1>2. LedgerInv /\ [Next]_vars => LedgerInv' /\ [Lifecycle!Next]_(Lifecycle!vars)
  <2> SUFFICES ASSUME LedgerInv, [Next]_vars
               PROVE  LedgerInv' /\ (Lifecycle!Next \/ UNCHANGED Lifecycle!vars)
    OBVIOUS
  <2>1. LedgerInv' /\ \A i \in Allocs : Moves(i)
    BY LedgerStep DEF LedgerKept
  <2>2. Trouble # 0 => Trouble' # 0
    BY LedgerFacts
  <2>3. (faults + deaths # 0)' \in {(faults + deaths # 0), TRUE}
    BY <2>2 DEF Trouble
  <2>4. CASE desired'.on = desired.on
    <3>1. Lifecycle!Record
      BY <2>1, <2>3, <2>4 DEF Lifecycle!Record, Moves
    <3> QED
      BY <2>1, <3>1 DEF Lifecycle!Next
  <2>5. CASE desired'.on # desired.on
    <3>1. Deploy \/ Scale \/ Delete
      BY <2>5 DEF Next, Pass, Begin, EndPass, Teardown, StartContainer, AlreadyExists, WriteRecord, Forget,
         Reap, Faulty, PassAborts, TeardownFails, StartFails, WriteFails, Environment, Exit, Odd, BackoffEnds,
         Settles, DeadlinePasses, StepDone, StepFails, DependencyServes, DependencyFails, Overdue,
         Dies, Crash, Reboot, CrashCreating, vars
    <3>2. rec' = rec /\ faults' = faults /\ deaths' = deaths
      BY <3>1 DEF Deploy, Scale, Delete, Edit
    <3>3. desired'.on \in BOOLEAN
      BY <2>1 DEF LedgerInv, DesiredOK
    <3>4. Lifecycle!Declare
      BY <3>2, <3>3 DEF Lifecycle!Declare
    <3> QED
      BY <2>1, <3>4 DEF Lifecycle!Next
  <2> QED
    BY <2>4, <2>5
<1> QED
  BY <1>1, <1>2, LedgerInvInit, PTL DEF Spec, KeepsLedger, Lifecycle!Spec
=============================================================================
