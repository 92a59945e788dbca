-------------------------- MODULE ReplicationProofs --------------------------
(***************************************************************************)
(* NoChangeLost, proved for every number of keys, writes, archives, sink   *)
(* errors and crashes, any retention and any read limit, in the setting    *)
(* where it holds: the loop is the only goroutine taking snapshots, an     *)
(* Apply changes one record, and no restore rewinds the node.  The three   *)
(* conditions are needed: NoChangeLost is violated by two snapshots at     *)
(* once, by a batch the read limit cuts (run repl_cut_batch) and after a   *)
(* restore that skips the replay (README, section 5).                      *)
(* NewestRestores, where no batch is empty, no failed Put has landed and   *)
(* every boot could list the sink, or with one fault of any kind.          *)
(* RestoreNotStale, with any number of goroutines taking snapshots.        *)
(* And NoBootOnPartial, for restores that an operator asks for.            *)
(***************************************************************************)
EXTENDS Replication, TLAPS, FiniteSetTheorems, WellFoundedInduction

Loop == job["run"]

PCs == {"idle", "again", "put", "cursor", "prune", "startup", "index", "copy", "upload",
        "manifest", "load", "bump", "delSnap", "delManifest", "pruneSegs"}

\* Every change up to n is in the sink.
Safe(n) == \A i \in 1..st.index, k \in Keys : i <= n /\ Changed(i, k) => InSink(i, k)

\* Types, and what a node that is never restored keeps constant.
Typed ==
    /\ DOMAIN st = {"index", "data", "log", "past"}
    /\ st.index \in Nat
    /\ st.data \in [Keys -> Nat]
    /\ st.log \subseteq Change /\ IsFiniteSet(st.log)
    /\ st.past \in [0..st.index -> [Keys -> Nat]]
    /\ st.past[st.index] = st.data
    /\ exists = TRUE
    /\ request = {}
    /\ restores = 0
    /\ writes \in Nat
    /\ nextId \in Nat
    /\ shipped \in Nat /\ shipped <= st.index

\* The log holds exactly what Apply changed, from some index on.
LogInv ==
    \A c \in st.log :
        /\ c.index \in 1..st.index
        /\ \A d \in st.log : c.index = d.index => c = d
        /\ \A i \in 1..st.index, k \in Keys :
              Changed(i, k) => /\ c.index = i => c.key = k /\ c.val = st.past[i][k]
                               /\ c.index < i => Holds(st.log, i, k)

\* NoChangeLost, also while the daemon is down; and the cursor tells the truth.
Known ==
    /\ Safe(shipped)
    /\ \A i \in 1..st.index, k \in Keys :
           Changed(i, k) => Holds(st.log, i, k) \/ InSink(i, k)

\* A segment that is there makes everything up to its end safe.
SegInv ==
    \A s \in segments :
        /\ s.from \in Nat /\ s.to \in Nat /\ s.to <= st.index
        /\ s.changes \subseteq Change
        /\ \A c \in s.changes : s.from <= c.index /\ c.index <= s.to
        /\ Safe(s.to)

\* Later archives cover more, and the newest one can be fetched.
ManInv ==
    /\ \A m \in manifests : m.id \in Nat /\ m.id < nextId /\ m.index \in Nat /\ m.index <= st.index
    /\ \A m, n \in manifests : m.id < n.id => m.index <= n.index
    /\ \A m, n \in manifests : m.id = n.id => m = n
    /\ manifests = {} \/ \E m \in manifests : IsNewest(m) /\ Intact(m.id)

\* What the loop knows at each of its steps.
JobInv ==
    /\ DOMAIN job = {"run"}
    /\ DOMAIN Loop = {"pc", "batch", "id", "index", "copy", "victims"}
    /\ Loop.pc \in PCs
    /\ Loop.id \in Nat
    /\ Loop.index \in Nat /\ Loop.index <= st.index
    /\ Loop.batch \subseteq Change
    /\ Loop.victims \subseteq Nat
    /\ Loop.pc = "put" =>
          /\ Loop.batch \subseteq st.log
          /\ \A c \in Loop.batch : c.index > shipped
          /\ \A c \in Loop.batch, d \in st.log :
                shipped < d.index /\ d.index <= c.index => d \in Loop.batch
    /\ Loop.pc \in {"cursor", "prune", "bump"} => Safe(Loop.index)
    /\ Loop.pc \in {"index", "copy", "upload", "manifest"} =>
          Loop.id < nextId /\ \A m \in manifests : m.id < Loop.id
    /\ Loop.pc \in {"copy", "upload", "manifest"} =>
          \A m \in manifests : m.index <= Loop.index
    /\ Loop.pc = "upload" => \E s \in Loop.copy : TRUE
    /\ Loop.pc = "manifest" => Intact(Loop.id)
    /\ Loop.pc = "load" => \E m \in manifests : m.index >= Loop.index /\ Intact(m.id)
    /\ Loop.pc \in {"delSnap", "delManifest"} =>
          \A v \in Loop.victims : \E m \in manifests : v < m.id
    /\ Loop.pc = "pruneSegs" =>
          Loop.index = 0 \/ \E m \in manifests : m.index >= Loop.index /\ Intact(m.id)

IInv == Typed /\ LogInv /\ Known /\ SegInv /\ ManInv /\ JobInv

-----------------------------------------------------------------------------
\* The setting of the theorems below.
Alone == Threads = {"run"} /\ MaxBatch = 1 /\ MaxRestores = 0

\* Changes returns a prefix of what is pending: with a change it returns every
\* change of a smaller index (its cursor walks the log in key order).
LEMMA ChangesPrefix ==
    ASSUME NEW s, NEW since \in Nat, NEW limit \in Nat,
           IsFiniteSet(s.log), s.log \subseteq Change,
           NEW c \in Changes(s, since, limit), NEW d \in s.log,
           since < d.index, d.index < c.index
    PROVE  d \in Changes(s, since, limit)
<1> DEFINE pending == Pending(s, since)
<1> DEFINE below(e) == {f \in pending : Before(f, e)}
<1>1. pending \subseteq s.log /\ IsFiniteSet(pending)
  BY FS_Subset DEF Pending
<1>2. c \in pending /\ d \in pending /\ Cardinality(below(c)) < limit
  BY DEF Changes, Pending
<1>3. c \in Change /\ d \in Change /\ \A f \in pending : f \in Change
  BY <1>1, <1>2
<1>4. below(d) \subseteq below(c)
  BY <1>3 DEF Before, Change
<1>5. IsFiniteSet(below(c)) /\ IsFiniteSet(below(d))
  BY <1>1, FS_Subset
<1>6. Cardinality(below(d)) <= Cardinality(below(c))
  BY <1>4, <1>5, FS_Subset
<1>7. Cardinality(below(c)) \in Nat /\ Cardinality(below(d)) \in Nat
  BY <1>5, FS_CardinalityType
<1>8. Cardinality(below(d)) < limit
  BY <1>2, <1>6, <1>7
<1> QED BY <1>2, <1>8 DEF Changes

\* What is read is pending.
LEMMA ChangesPending ==
    ASSUME NEW s, NEW since, NEW limit
    PROVE  /\ Changes(s, since, limit) \subseteq s.log
           /\ \A c \in Changes(s, since, limit) : c.index > since
BY DEF Changes, Pending

\* Steps that leave the file and the sink alone keep everything but JobInv.
LEMMA Frame ==
    ASSUME IInv, st' = st, segments' = segments, snaps' = snaps, manifests' = manifests,
           exists' = exists, request' = request, restores' = restores, writes' = writes,
           nextId' \in Nat, nextId' >= nextId,
           shipped' = shipped \/ (shipped' \in Nat /\ shipped' <= st.index /\ Safe(shipped'))
    PROVE  /\ Typed' /\ LogInv' /\ Known' /\ SegInv' /\ ManInv'
           /\ \A n : Safe(n)' <=> Safe(n)
           /\ \A i : Intact(i)' <=> Intact(i)
<1>1. Typed'
  BY DEF IInv, Typed
<1>2. LogInv'
  BY DEF IInv, LogInv, Changed, Holds
<1>3. \A i : Intact(i)' <=> Intact(i)
  BY DEF Intact
<1>4. \A i, k : InSink(i, k)' <=> InSink(i, k)
  BY DEF InSink, Holds, Intact
<1>5. \A n : Safe(n)' <=> Safe(n)
  BY <1>4 DEF Safe, Changed
<1>6. Known'
  <2>1. Safe(shipped)'
    BY <1>4 DEF IInv, Known, Safe, Changed
  <2> QED BY <1>4, <2>1 DEF IInv, Known, Changed, Holds
<1>7. SegInv'
  BY <1>5 DEF IInv, SegInv
<1>8. ManInv'
  BY <1>3 DEF IInv, ManInv, IsNewest, Typed
<1> QED BY <1>1, <1>2, <1>3, <1>5, <1>6, <1>7, <1>8

\* A loop between two rounds knows nothing it could be wrong about.
LEMMA JobIdle ==
    ASSUME DOMAIN job' = {"run"}, job'["run"] = Idle \/ job'["run"] = [Idle EXCEPT !.pc = "startup"],
           st'.index \in Nat
    PROVE  JobInv'
BY DEF JobInv, Loop, Idle, PCs

\* Steps of the loop that touch neither the file nor the sink.
LEMMA ShipReadKeeps ==
    ASSUME Alone, ReplicationAssumption, IInv, ShipRead
    PROVE  IInv'
<1> DEFINE batch == Changes(st, shipped, ReadLimit)
<1>1. Typed' /\ LogInv' /\ Known' /\ SegInv' /\ ManInv'
  BY Frame DEF IInv, Typed, ShipRead, node, sink
<1>2. DOMAIN job' = {"run"} /\ st' = st /\ st.index \in Nat /\ shipped' = shipped
  BY DEF IInv, Typed, JobInv, ShipRead, Return, node
<1>3. CASE job'["run"] = Idle
  BY <1>1, <1>2, <1>3, JobIdle DEF IInv
<1>4. CASE job'["run"] = [Idle EXCEPT !.pc = "put", !.batch = batch]
  <2>1. batch \subseteq st.log /\ \A c \in batch : c.index > shipped
    BY ChangesPending
  <2>2. ReadLimit \in Nat
    BY DEF ReadLimit, ReplicationAssumption
  <2>3. ASSUME NEW c \in batch, NEW d \in st.log, shipped < d.index, d.index <= c.index
        PROVE  d \in batch
    <3>1. c \in st.log /\ c.index \in Nat /\ d.index \in Nat
      BY <2>1 DEF IInv, Typed, Change
    <3>2. CASE d.index < c.index
      BY <2>2, <2>3, <3>2, ChangesPrefix DEF IInv, Typed
    <3>3. CASE d.index = c.index
      BY <3>1, <3>3 DEF IInv, LogInv
    <3> QED BY <2>3, <3>1, <3>2, <3>3
  <2> HIDE DEF batch
  <2>4. /\ job'["run"].pc = "put" /\ job'["run"].batch = batch /\ job'["run"].index = 0
        /\ job'["run"].id = 0 /\ job'["run"].victims = {}
        /\ DOMAIN job'["run"] = {"pc", "batch", "id", "index", "copy", "victims"}
    BY <1>4 DEF Idle
  <2>5. batch \subseteq Change
    BY <2>1 DEF IInv, Typed
  <2>6. JobInv'
    BY <1>2, <2>1, <2>3, <2>4, <2>5 DEF JobInv, Loop, PCs
  <2> QED BY <1>1, <2>6 DEF IInv
<1> QED BY <1>2, <1>3, <1>4 DEF ShipRead, Return, IInv, JobInv

LEMMA ShipCursorKeeps ==
    ASSUME Alone, IInv, ShipCursor
    PROVE  IInv'
<1>1. /\ DOMAIN job' = {"run"} /\ st' = st /\ shipped' = Loop.index
      /\ Loop.pc = "cursor" /\ job'["run"] = [Loop EXCEPT !.pc = "prune"]
      /\ nextId' = nextId /\ segments' = segments /\ manifests' = manifests /\ snaps' = snaps
  BY DEF IInv, JobInv, ShipCursor, Go, At, Loop, node, sink
<1>2. /\ shipped' \in Nat /\ shipped' <= st.index /\ Safe(shipped')
      /\ nextId' \in Nat /\ nextId' >= nextId
  BY <1>1 DEF IInv, JobInv, Typed
<1>3. /\ Typed' /\ LogInv' /\ Known' /\ SegInv' /\ ManInv'
      /\ \A n : Safe(n)' <=> Safe(n)
  BY <1>1, <1>2, Frame DEF ShipCursor, node
<1>4. /\ Loop'.pc = "prune" /\ Loop'.index = Loop.index /\ Loop'.id = Loop.id
      /\ Loop'.batch = Loop.batch /\ Loop'.victims = Loop.victims /\ DOMAIN Loop' = DOMAIN Loop
  BY <1>1 DEF Loop, IInv, JobInv
<1>5. Safe(Loop.index)
  BY <1>1 DEF IInv, JobInv
<1>6. Safe(Loop.index)'
  BY <1>1, <1>3, <1>4, <1>5 DEF Safe, InSink, Changed, Holds, Intact
<1>7. JobInv'
  BY <1>1, <1>4, <1>6 DEF IInv, JobInv, PCs
<1> QED BY <1>3, <1>7 DEF IInv

LEMMA SnapBeginKeeps ==
    ASSUME Alone, IInv, SnapBegin("run")
    PROVE  IInv'
<1>1. /\ DOMAIN job' = {"run"} /\ st' = st /\ shipped' = shipped /\ nextId' = nextId + 1
      /\ job'["run"] = [Idle EXCEPT !.pc = "index", !.id = nextId]
      /\ segments' = segments /\ manifests' = manifests /\ snaps' = snaps
  BY DEF IInv, JobInv, SnapBegin, At, Loop, node, sink
<1>2. Typed' /\ LogInv' /\ Known' /\ SegInv' /\ ManInv'
  BY <1>1, Frame DEF SnapBegin, node, IInv, Typed
<1>3. /\ Loop'.pc = "index" /\ Loop'.id = nextId /\ Loop'.index = 0
      /\ Loop'.batch = {} /\ Loop'.victims = {}
      /\ DOMAIN Loop' = {"pc", "batch", "id", "index", "copy", "victims"}
  BY <1>1 DEF Loop, Idle
<1>4. nextId \in Nat /\ st.index \in Nat /\ \A m \in manifests : m.id < nextId
  BY DEF IInv, Typed, ManInv
<1>5. JobInv'
  BY <1>1, <1>3, <1>4 DEF JobInv, PCs
<1> QED BY <1>2, <1>5 DEF IInv

LEMMA StartupFailsKeeps ==
    ASSUME Alone, IInv, StartupFails
    PROVE  IInv'
<1>1. Typed' /\ LogInv' /\ Known' /\ SegInv' /\ ManInv'
  BY Frame DEF StartupFails, IInv, Typed, node, sink
<1>2. DOMAIN job' = {"run"} /\ job'["run"] = Idle /\ st'.index \in Nat
  BY DEF IInv, JobInv, Typed, StartupFails, Return, node
<1> QED BY <1>1, <1>2, JobIdle DEF IInv

LEMMA SnapIndexKeeps ==
    ASSUME Alone, IInv, SnapIndex("run")
    PROVE  IInv'
<1>1. /\ DOMAIN job' = {"run"} /\ st' = st /\ shipped' = shipped /\ nextId' = nextId
      /\ Loop.pc = "index" /\ job'["run"] = [Loop EXCEPT !.pc = "copy", !.index = st.index]
      /\ segments' = segments /\ manifests' = manifests /\ snaps' = snaps
  BY DEF IInv, JobInv, SnapIndex, At, Loop, node, sink
<1>2. Typed' /\ LogInv' /\ Known' /\ SegInv' /\ ManInv'
  BY <1>1, Frame DEF SnapIndex, node, IInv, Typed
<1>3. /\ Loop'.pc = "copy" /\ Loop'.id = Loop.id /\ Loop'.index = st.index
      /\ Loop'.batch = Loop.batch /\ Loop'.victims = Loop.victims /\ DOMAIN Loop' = DOMAIN Loop
  BY <1>1 DEF Loop, IInv, JobInv
<1>4. st.index \in Nat /\ \A m \in manifests : m.index <= st.index
  BY DEF IInv, Typed, ManInv
<1>5. JobInv'
  BY <1>1, <1>3, <1>4 DEF IInv, JobInv, PCs
<1> QED BY <1>2, <1>5 DEF IInv

LEMMA SnapCopyKeeps ==
    ASSUME Alone, IInv, SnapCopy("run")
    PROVE  IInv'
<1>1. /\ DOMAIN job' = {"run"} /\ st' = st /\ shipped' = shipped /\ nextId' = nextId
      /\ Loop.pc = "copy" /\ job'["run"] = [Loop EXCEPT !.pc = "upload", !.copy = {st}]
      /\ segments' = segments /\ manifests' = manifests /\ snaps' = snaps
  BY DEF IInv, JobInv, SnapCopy, At, Loop, node, sink
<1>2. Typed' /\ LogInv' /\ Known' /\ SegInv' /\ ManInv'
  BY <1>1, Frame DEF SnapCopy, node, IInv, Typed
<1>3. /\ Loop'.pc = "upload" /\ Loop'.id = Loop.id /\ Loop'.index = Loop.index
      /\ Loop'.batch = Loop.batch /\ Loop'.victims = Loop.victims /\ DOMAIN Loop' = DOMAIN Loop
      /\ Loop'.copy = {st}
  BY <1>1 DEF Loop, IInv, JobInv
<1>4. JobInv'
  BY <1>1, <1>3 DEF IInv, JobInv, PCs
<1> QED BY <1>2, <1>4 DEF IInv

LEMMA SnapLoadKeeps ==
    ASSUME Alone, IInv, SnapLoad("run")
    PROVE  IInv'
<1> DEFINE top == MaxOf(shipped, Loop.index)
<1>1. /\ DOMAIN job' = {"run"} /\ st' = st /\ shipped' = shipped /\ nextId' = nextId
      /\ Loop.pc = "load" /\ job'["run"] = [Loop EXCEPT !.pc = "bump", !.index = top]
      /\ segments' = segments /\ manifests' = manifests /\ snaps' = snaps
  BY DEF IInv, JobInv, SnapLoad, At, Loop, node, sink
<1>2. Typed' /\ LogInv' /\ Known' /\ SegInv' /\ ManInv'
  BY <1>1, Frame DEF SnapLoad, node, IInv, Typed
<1>3. /\ Loop'.pc = "bump" /\ Loop'.id = Loop.id /\ Loop'.index = top
      /\ Loop'.batch = Loop.batch /\ Loop'.victims = Loop.victims /\ DOMAIN Loop' = DOMAIN Loop
  BY <1>1 DEF Loop, IInv, JobInv
<1>4. top \in Nat /\ top <= st.index
  BY DEF IInv, JobInv, Typed, MaxOf
<1>5. Safe(shipped)
  BY DEF IInv, Known
<1>6. Safe(Loop.index)
  <2>1. PICK m \in manifests : m.index >= Loop.index /\ Intact(m.id)
    BY <1>1 DEF IInv, JobInv
  <2>2. m.index \in Nat /\ Loop.index \in Nat
    BY DEF IInv, JobInv, ManInv
  <2> QED BY <2>1, <2>2 DEF Safe, InSink
<1>7. Safe(top)
  BY <1>5, <1>6 DEF MaxOf
<1>8. Safe(Loop.index)'
  BY <1>1, <1>3, <1>7 DEF Safe, InSink, Changed, Holds, Intact
<1>9. JobInv'
  BY <1>1, <1>3, <1>4, <1>8 DEF IInv, JobInv, PCs
<1> QED BY <1>2, <1>9 DEF IInv

LEMMA SnapBumpKeeps ==
    ASSUME Alone, ReplicationAssumption, IInv, SnapBump("run")
    PROVE  IInv'
<1>1. /\ DOMAIN job' = {"run"} /\ st' = st /\ shipped' = Loop.index /\ nextId' = nextId
      /\ Loop.pc = "bump"
      /\ job'["run"] = [Loop EXCEPT !.pc = "delSnap", !.victims = Beyond(manifests)]
      /\ segments' = segments /\ manifests' = manifests /\ snaps' = snaps
  BY DEF IInv, JobInv, SnapBump, At, Loop, node, sink
<1>2. Loop.index \in Nat /\ Loop.index <= st.index /\ Safe(Loop.index)
  BY <1>1 DEF IInv, JobInv
<1>3. Typed' /\ LogInv' /\ Known' /\ SegInv' /\ ManInv'
  BY <1>1, <1>2, Frame DEF SnapBump, node, IInv, Typed
<1>4. ASSUME NEW v \in Beyond(manifests)
      PROVE  v \in Nat /\ \E m \in manifests : v < m.id
  <2>1. PICK n \in manifests : v = n.id /\ Cardinality({o \in manifests : o.id > n.id}) >= Retention
    BY <1>4 DEF Beyond
  <2>2. {o \in manifests : o.id > n.id} # {}
    BY <2>1, FS_EmptySet DEF ReplicationAssumption
  <2> QED BY <2>1, <2>2 DEF IInv, ManInv
<1>5. /\ Loop'.pc = "delSnap" /\ Loop'.id = Loop.id /\ Loop'.index = Loop.index
      /\ Loop'.batch = Loop.batch /\ Loop'.victims = Beyond(manifests) /\ DOMAIN Loop' = DOMAIN Loop
  BY <1>1 DEF Loop, IInv, JobInv
<1>6. JobInv'
  BY <1>1, <1>4, <1>5 DEF IInv, JobInv, PCs
<1> QED BY <1>3, <1>6 DEF IInv

LEMMA SnapOldestKeeps ==
    ASSUME Alone, IInv, SnapOldest("run")
    PROVE  IInv'
<1>1a. /\ st' = st /\ shipped' = shipped /\ nextId' = nextId
      /\ segments' = segments /\ manifests' = manifests /\ snaps' = snaps /\ st.index \in Nat
  BY DEF IInv, Typed, SnapOldest, node, sink
<1>1b. DOMAIN job' = {"run"}
  <2>1. CASE Return("run")
    BY <2>1 DEF Return, IInv, JobInv
  <2>2. CASE ~Return("run")
    <3>1. PICK i \in {0} \cup {m.index : m \in manifests} :
             job' = [job EXCEPT !["run"] = [job["run"] EXCEPT !.pc = "pruneSegs", !.index = i]]
      BY <2>2 DEF SnapOldest
    <3>2. job' = [job EXCEPT !["run"] = job'["run"]] /\ DOMAIN job = {"run"}
      BY <3>1 DEF IInv, JobInv
    <3> QED BY <3>2
  <2> QED BY <2>1, <2>2
<1>1. /\ DOMAIN job' = {"run"} /\ st' = st /\ shipped' = shipped /\ nextId' = nextId
      /\ segments' = segments /\ manifests' = manifests /\ snaps' = snaps /\ st.index \in Nat
  BY <1>1a, <1>1b
<1>2. Typed' /\ LogInv' /\ Known' /\ SegInv' /\ ManInv'
  <2>1. /\ exists' = exists /\ request' = request /\ restores' = restores /\ writes' = writes
    BY DEF SnapOldest, node
  <2> QED BY <1>1, <2>1, Frame DEF IInv, Typed
<1>3. CASE Return("run")
  BY <1>1, <1>2, <1>3, JobIdle DEF Return, IInv, JobInv
<1>4. ASSUME NEW i \in {0} \cup {m.index : m \in manifests},
             job' = [job EXCEPT !["run"] = [job["run"] EXCEPT !.pc = "pruneSegs", !.index = i]]
      PROVE  IInv'
  <2>1. /\ Loop'.pc = "pruneSegs" /\ Loop'.id = Loop.id /\ Loop'.index = i
        /\ Loop'.batch = Loop.batch /\ Loop'.victims = Loop.victims /\ DOMAIN Loop' = DOMAIN Loop
    BY <1>4 DEF Loop, IInv, JobInv
  <2>2. i \in Nat /\ i <= st.index
    BY DEF IInv, ManInv, Typed
  <2>3. i = 0 \/ \E m \in manifests : m.index >= i /\ Intact(m.id)
    <3>1. CASE i # 0
      <4>1. PICK m \in manifests : i = m.index
        BY <3>1
      <4>2. PICK n \in manifests : IsNewest(n) /\ Intact(n.id)
        BY DEF IInv, ManInv
      <4>3. m.id <= n.id /\ m.id \in Nat /\ n.id \in Nat /\ m.index \in Nat /\ n.index \in Nat
        BY <4>2 DEF IsNewest, IInv, ManInv
      <4>4. m.index <= n.index
        BY <4>3 DEF IInv, ManInv
      <4> QED BY <4>1, <4>2, <4>3, <4>4
    <3> QED BY <3>1
  <2>4. (\E m \in manifests : m.index >= i /\ Intact(m.id))' <=> \E m \in manifests : m.index >= i /\ Intact(m.id)
    BY <1>1 DEF Intact
  <2>5. JobInv'
    BY <1>1, <2>1, <2>2, <2>3, <2>4 DEF IInv, JobInv, PCs
  <2> QED BY <1>2, <2>5 DEF IInv
<1> QED BY <1>3, <1>4 DEF SnapOldest

LEMMA CrashKeeps ==
    ASSUME Alone, IInv, Crash
    PROVE  IInv'
<1>1. Typed' /\ LogInv' /\ Known' /\ SegInv' /\ ManInv'
  BY Frame DEF Crash, IInv, Typed, node, sink, Safe
<1>2. DOMAIN job' = {"run"} /\ job'["run"] = Idle /\ st'.index \in Nat
  BY DEF Alone, IInv, Typed, Crash, node
<1> QED BY <1>1, <1>2, JobIdle DEF IInv

LEMMA BootKeeps ==
    ASSUME Alone, IInv, Boot
    PROVE  IInv'
<1>1. /\ DOMAIN job' = {"run"} /\ st' = st /\ nextId' = nextId /\ st.index \in Nat
      /\ job'["run"] = [Loop EXCEPT !.pc = "startup"]
      /\ segments' = segments /\ manifests' = manifests /\ snaps' = snaps
  BY DEF IInv, JobInv, Typed, Boot, Loop, sink
<1>2. ASSUME NEW i \in InSinkIndexes
      PROVE  i \in Nat /\ i <= st.index /\ Safe(i)
  <2>1. CASE i = 0
    BY <1>1, <2>1 DEF Safe
  <2>2. CASE \E s \in segments : i = s.to
    BY <2>2 DEF IInv, SegInv
  <2>3. ASSUME NEW m \in manifests, i = m.index
        PROVE  i \in Nat /\ i <= st.index /\ Safe(i)
    <3>1. PICK n \in manifests : IsNewest(n) /\ Intact(n.id)
      BY DEF IInv, ManInv
    <3>2. m.id <= n.id /\ m.id \in Nat /\ n.id \in Nat /\ m.index \in Nat /\ n.index \in Nat
      BY <3>1 DEF IsNewest, IInv, ManInv
    <3>3. m.index <= n.index /\ m.index <= st.index
      BY <3>2 DEF IInv, ManInv
    <3> QED BY <2>3, <3>1, <3>2, <3>3 DEF Safe, InSink
  <2> QED BY <1>2, <2>1, <2>2, <2>3 DEF InSinkIndexes
<1>3. shipped' \in Nat /\ shipped' <= st.index /\ Safe(shipped')
  BY <1>1, <1>2 DEF Boot, Safe
<1>4. Typed' /\ LogInv' /\ Known' /\ SegInv' /\ ManInv'
  BY <1>1, <1>3, Frame DEF Boot, IInv, Typed
<1>5. /\ Loop'.pc = "startup" /\ Loop'.id = Loop.id /\ Loop'.index = Loop.index
      /\ Loop'.batch = Loop.batch /\ Loop'.victims = Loop.victims /\ DOMAIN Loop' = DOMAIN Loop
  BY <1>1 DEF Loop, IInv, JobInv
<1>6. JobInv'
  BY <1>1, <1>5 DEF IInv, JobInv, PCs
<1> QED BY <1>4, <1>6 DEF IInv

-----------------------------------------------------------------------------
\* A write: one key, one new index, one new log entry if it changed anything.
LEMMA WriteKeeps ==
    ASSUME Alone, KeysAssumption, IInv,
           NEW puts \in SUBSET Keys, NEW dels \in SUBSET Keys, Write(puts, dels)
    PROVE  IInv'
<1> DEFINE v == writes + 1
           batch == [k \in puts \cup dels |-> IF k \in puts THEN v ELSE Absent]
<1>0. PICK n : n = st.index + 1
  OBVIOUS
<1> DEFINE new == {[index |-> n, key |-> k, val |-> batch[k]] : k \in Effective(st, batch)}
<1>1. PICK key \in Keys : puts \cup dels = {key}
  <2>1. IsFiniteSet(puts \cup dels)
    BY FS_Subset DEF KeysAssumption
  <2>2. Cardinality(puts \cup dels) = 1
    BY DEF Write, Alone
  <2> QED BY <2>1, <2>2, FS_Singleton
<1>2. DOMAIN batch = {key} /\ batch[key] \in Nat
  BY <1>1 DEF IInv, Typed, Absent
<1>3. /\ st' = Apply(st, batch) /\ segments' = segments /\ snaps' = snaps /\ manifests' = manifests
      /\ exists' = exists /\ request' = request /\ restores' = restores /\ writes' = v
      /\ nextId' = nextId /\ shipped' = shipped /\ job' = job
  BY DEF Write, sink
<1>4. st.index \in Nat /\ n \in Nat /\ n = st.index + 1
  BY <1>0 DEF IInv, Typed
<1>5. Effective(st, batch) \subseteq {key}
  BY <1>2 DEF Effective
<1> HIDE DEF batch
<1>6. /\ DOMAIN st' = {"index", "data", "log", "past"}
      /\ st'.index = n /\ st'.data = Updated(st, batch) /\ st'.log = st.log \cup new
      /\ st'.past = [i \in 0..n |-> IF i = n THEN Updated(st, batch) ELSE st.past[i]]
  BY <1>0, <1>3 DEF Apply
<1>7. Updated(st, batch) \in [Keys -> Nat]
  BY <1>2 DEF Updated, IInv, Typed
<1>8. /\ \A i \in 0..st.index : st'.past[i] = st.past[i]
      /\ st'.past[n] = Updated(st, batch) /\ st'.past[n - 1] = st.data
  BY <1>4, <1>6, <1>7 DEF IInv, Typed
<1>8a. st'.past \in [0..n -> [Keys -> Nat]]
  BY <1>4, <1>6, <1>7 DEF IInv, Typed
<1> HIDE DEF new
<1>9a. new = {} \/ new = {[index |-> n, key |-> key, val |-> batch[key]]}
  BY <1>5 DEF new
<1>9. new \subseteq Change /\ IsFiniteSet(new) /\ \A c \in new : c.index = n /\ c.key = key /\ c.val = batch[key]
  <2>1. IsFiniteSet(new)
    BY <1>9a, FS_EmptySet, FS_Singleton
  <2> QED BY <1>2, <1>4, <1>9a, <2>1 DEF Change
<1>10. Typed'
  <2>1. IsFiniteSet(st.log \cup new)
    BY <1>9, FS_Union DEF IInv, Typed
  <2>2. st'.past[st'.index] = st'.data
    BY <1>6, <1>8
  <2>3. shipped' \in Nat /\ shipped' <= st'.index /\ writes' \in Nat
    BY <1>3, <1>4, <1>6 DEF IInv, Typed
  <2>4. st'.past \in [0..st'.index -> [Keys -> Nat]] /\ st'.data \in [Keys -> Nat]
    BY <1>6, <1>7, <1>8a
  <2>5. st'.log \subseteq Change /\ IsFiniteSet(st'.log)
    BY <1>6, <1>9, <2>1 DEF IInv, Typed
  <2> QED BY <1>3, <1>4, <1>6, <2>2, <2>3, <2>4, <2>5 DEF IInv, Typed
<1>11. \A i \in 1..st.index, k \in Keys : Changed(i, k)' <=> Changed(i, k)
  BY <1>4, <1>8 DEF Changed
<1>12. ASSUME NEW k \in Keys, Changed(n, k)'
       PROVE  k = key /\ st'.past[n][k] = batch[key]
              /\ [index |-> n, key |-> key, val |-> batch[key]] \in new
  <2>1. Updated(st, batch)[k] # st.data[k]
    BY <1>4, <1>8, <1>12 DEF Changed
  <2>2. k = key /\ Updated(st, batch)[k] = batch[key]
    BY <1>2, <2>1 DEF Updated
  <2>3. key \in Effective(st, batch)
    BY <1>2, <2>1, <2>2 DEF Effective, Absent
  <2>4. [index |-> n, key |-> key, val |-> batch[key]] \in new
    BY <2>3 DEF new
  <2> QED BY <1>8, <2>2, <2>4
<1>13. \A i \in 1..st.index, k \in Keys : InSink(i, k) => InSink(i, k)'
  BY <1>3, <1>4, <1>8 DEF InSink, Holds, Intact
<1>14. \A i \in 1..st.index, k \in Keys : Holds(st.log, i, k) => Holds(st.log, i, k)'
  BY <1>4, <1>6, <1>8 DEF Holds
<1>15. ASSUME NEW k \in Keys, Changed(n, k)'
       PROVE  Holds(st.log, n, k)'
  <2>1. PICK c \in new : TRUE
    BY <1>12, <1>15
  <2>2. c \in st'.log /\ c.index = n /\ c.key = k /\ c.val = st'.past[n][k]
    BY <1>6, <1>9, <1>12, <1>15
  <2> QED BY <2>2 DEF Holds
<1>16. n = st.index + 1 /\ \A i \in 1..n : i \in 1..st.index \/ i = n
  BY <1>4
<1>17. \A b : b \in Nat /\ b <= st.index /\ Safe(b) => Safe(b)'
  BY <1>4, <1>6, <1>11, <1>13, <1>16 DEF Safe
<1>18. LogInv'
  <2>1. ASSUME NEW c \in st'.log
        PROVE  /\ c.index \in 1..n
               /\ \A d \in st'.log : c.index = d.index => c = d
    <3>1. \A d \in st.log : d.index \in 1..st.index
      BY DEF IInv, LogInv
    <3>2. \A d, e \in new : d = e
      BY <1>9a
    <3>3. \A d, e \in st.log : d.index = e.index => d = e
      BY DEF IInv, LogInv
    <3> QED BY <1>4, <1>6, <1>9, <3>1, <3>2, <3>3
  <2>2. ASSUME NEW c \in st'.log, NEW i \in 1..n, NEW k \in Keys, Changed(i, k)'
        PROVE  /\ c.index = i => c.key = k /\ c.val = st'.past[i][k]
               /\ c.index < i => Holds(st.log, i, k)'
    <3>1. CASE i \in 1..st.index /\ c \in st.log
      <4>1. Changed(i, k)
        BY <1>11, <2>2, <3>1
      <4>2. LogInv
        BY DEF IInv
      <4>3. c.index = i => c.key = k /\ c.val = st.past[i][k]
        BY <3>1, <4>1, <4>2 DEF LogInv
      <4>4. c.index < i => Holds(st.log, i, k)
        BY <3>1, <4>1, <4>2 DEF LogInv
      <4>5. st'.past[i] = st.past[i]
        BY <1>4, <1>8, <3>1
      <4> QED BY <1>14, <3>1, <4>3, <4>4, <4>5
    <3>2. CASE i \in 1..st.index /\ c \in new
      BY <1>4, <1>9, <1>16, <3>2
    <3>3. CASE i = n /\ c \in st.log
      <4>1. c.index \in 1..st.index
        BY <3>3 DEF IInv, LogInv
      <4>2. c.index # i
        BY <1>4, <3>3, <4>1
      <4>3. Holds(st.log, n, k)'
        BY <1>15, <2>2, <3>3
      <4> QED BY <3>3, <4>2, <4>3
    <3>4. CASE i = n /\ c \in new
      BY <1>4, <1>9, <1>12, <1>16, <2>2, <3>4
    <3> QED BY <1>6, <1>16, <3>1, <3>2, <3>3, <3>4
  <2> QED BY <1>6, <2>1, <2>2 DEF LogInv
<1>19. Known'
  <2>1. Safe(shipped)'
    BY <1>3, <1>17 DEF IInv, Known, Typed
  <2>2. ASSUME NEW i \in 1..n, NEW k \in Keys, Changed(i, k)'
        PROVE  Holds(st.log, i, k)' \/ InSink(i, k)'
    <3>1. CASE i = n
      BY <1>15, <2>2, <3>1
    <3>2. CASE i \in 1..st.index
      BY <1>11, <1>13, <1>14, <2>2, <3>2 DEF IInv, Known
    <3> QED BY <1>16, <3>1, <3>2
  <2> QED BY <1>6, <2>1, <2>2 DEF Known
<1>20. SegInv'
  BY <1>3, <1>4, <1>6, <1>16, <1>17 DEF IInv, SegInv
<1>21. ManInv'
  BY <1>3, <1>4, <1>6, <1>16 DEF IInv, ManInv, IsNewest, Intact
<1>22. JobInv'
  <2>1. Loop' = Loop
    BY <1>3 DEF Loop
  <2>2. Loop.pc \in {"cursor", "prune", "bump"} => Safe(Loop.index)'
    BY <1>17, <2>1 DEF IInv, JobInv
  <2>3. Loop.pc = "put" =>
          /\ Loop.batch \subseteq st'.log
          /\ \A c \in Loop.batch : c.index > shipped
          /\ \A c \in Loop.batch, d \in st'.log :
                shipped < d.index /\ d.index <= c.index => d \in Loop.batch
    BY <1>4, <1>6, <1>9, <1>16 DEF IInv, JobInv, LogInv
  <2> QED BY <1>3, <1>4, <1>6, <1>16, <2>1, <2>2, <2>3 DEF IInv, JobInv, Intact
<1> QED BY <1>10, <1>18, <1>19, <1>20, <1>21, <1>22 DEF IInv

\* What is pruned from the log is in the sink.
LEMMA ShipPruneKeeps ==
    ASSUME Alone, IInv, ShipPrune
    PROVE  IInv'
<1>0. PICK upto : upto = Loop.index
  OBVIOUS
<1>1. /\ DOMAIN job' = {"run"} /\ shipped' = shipped /\ nextId' = nextId /\ Loop.pc = "prune"
      /\ segments' = segments /\ manifests' = manifests /\ snaps' = snaps
      /\ exists' = exists /\ request' = request /\ restores' = restores /\ writes' = writes
      /\ st' = st \/ st' = PruneChanges(st, upto)
  BY <1>0 DEF IInv, JobInv, ShipPrune, At, Go, Return, Loop, sink
<1>2. /\ st'.index = st.index /\ st'.data = st.data /\ st'.past = st.past /\ DOMAIN st' = DOMAIN st
      /\ st'.log = st.log \/ st'.log = Pending(st, upto)
  BY <1>1 DEF PruneChanges, IInv, Typed
<1>3. upto \in Nat /\ Safe(upto)
  BY <1>0, <1>1 DEF IInv, JobInv
<1>4. st'.log \subseteq st.log /\ \A c \in st.log : c.index > upto => c \in st'.log
  BY <1>2 DEF Pending
<1>5. Typed'
  <2>1. IsFiniteSet(st'.log)
    BY <1>4, FS_Subset DEF IInv, Typed
  <2> QED BY <1>1, <1>2, <1>4, <2>1 DEF IInv, Typed
<1>6. \A i, k : (Changed(i, k)' <=> Changed(i, k)) /\ (InSink(i, k)' <=> InSink(i, k))
  BY <1>1, <1>2 DEF Changed, InSink, Holds, Intact
<1>7. \A n : Safe(n)' <=> Safe(n)
  BY <1>2, <1>6 DEF Safe
<1>8. st'.log = st.log \/ \A c \in st'.log : c.index > upto
  BY <1>2 DEF Pending
<1>9. LogInv'
  <2>1. ASSUME NEW c \in st'.log, NEW i \in 1..st.index, NEW k \in Keys, Changed(i, k), c.index < i
        PROVE  Holds(st.log, i, k)'
    <3>1. c \in st.log /\ Holds(st.log, i, k)
      BY <1>4, <2>1 DEF IInv, LogInv
    <3>2. PICK d \in st.log : d.index = i /\ d.key = k /\ d.val = st.past[i][k]
      BY <3>1 DEF Holds
    <3>3. c.index \in Nat
      BY <3>1 DEF IInv, Typed, Change
    <3>4. d \in st'.log
      BY <1>3, <1>4, <1>8, <2>1, <3>2, <3>3
    <3> QED BY <1>2, <3>2, <3>4 DEF Holds
  <2> QED BY <1>2, <1>4, <1>6, <2>1 DEF IInv, LogInv
<1>10. Known'
  <2>1. Safe(shipped)'
    BY <1>1, <1>2, <1>6 DEF Safe, IInv, Known
  <2>2. ASSUME NEW i \in 1..st.index, NEW k \in Keys, Changed(i, k)
        PROVE  Holds(st.log, i, k)' \/ InSink(i, k)
    <3>1. CASE i <= upto
      BY <1>3, <2>2, <3>1 DEF Safe
    <3>2. CASE ~(i <= upto)
      BY <1>2, <1>3, <1>4, <2>2, <3>2 DEF IInv, Known, Holds
    <3> QED BY <3>1, <3>2
  <2> QED BY <1>2, <1>6, <2>1, <2>2 DEF Known
<1>11. SegInv' /\ ManInv'
  BY <1>1, <1>2, <1>7 DEF IInv, SegInv, ManInv, IsNewest, Intact
<1>12. JobInv'
  <2>1. CASE job'["run"] = Idle
    BY <1>1, <1>2, <2>1, JobIdle DEF IInv, Typed
  <2>2. CASE job'["run"] = [Loop EXCEPT !.pc = "again"]
    <3>1. /\ Loop'.pc = "again" /\ Loop'.id = Loop.id /\ Loop'.index = Loop.index
          /\ Loop'.batch = Loop.batch /\ Loop'.victims = Loop.victims /\ DOMAIN Loop' = DOMAIN Loop
      BY <2>2 DEF Loop, IInv, JobInv
    <3> QED BY <1>1, <1>2, <3>1 DEF IInv, JobInv, PCs
  <2> QED BY <2>1, <2>2 DEF ShipPrune, Go, Return, Loop, IInv, JobInv
<1> QED BY <1>5, <1>9, <1>10, <1>11, <1>12 DEF IInv

\* A segment that lands makes everything up to its end safe and, when it takes
\* the place of one with the same bounds, holds at least what that one held.
LEMMA SegmentLands ==
    ASSUME IInv, Loop.pc = "put", NEW first \in Loop.batch, NEW last \in Loop.batch,
           IsFirst(first, Loop.batch), IsLast(last, Loop.batch),
           PutSegment(Loop.batch, first, last),
           st' = st, snaps' = snaps, manifests' = manifests
    PROVE  /\ \A i \in 1..st.index, k \in Keys : Changed(i, k) /\ InSink(i, k) => InSink(i, k)'
           /\ \A i \in 1..st.index, k \in Keys : Changed(i, k) /\ i <= last.index => InSink(i, k)'
<1> DEFINE seg == SegmentOf(Loop.batch, first, last)
<1>1. /\ Loop.batch \subseteq st.log /\ st.log \subseteq Change /\ shipped \in Nat /\ st.index \in Nat
      /\ \A c \in Loop.batch : c.index > shipped
      /\ \A c \in Loop.batch, d \in st.log : shipped < d.index /\ d.index <= c.index => d \in Loop.batch
  BY DEF IInv, Typed, JobInv
<1>2. first \in st.log /\ last \in st.log /\ first.index \in Nat /\ last.index \in Nat
  BY <1>1 DEF Change
<1>3. seg.from = first.index /\ seg.to = last.index /\ seg.changes = Loop.batch
  BY DEF SegmentOf
<1>4. seg \in segments' /\ \A s \in segments : s \in segments' \/ (s.from = first.index /\ s.to = last.index)
  BY DEF PutSegment
<1> HIDE DEF seg
<1>5. ASSUME NEW i \in 1..st.index, NEW k \in Keys, Holds(Loop.batch, i, k)
      PROVE  InSink(i, k)'
  BY <1>3, <1>4, <1>5 DEF InSink, Holds
<1>6. ASSUME NEW i \in 1..st.index, NEW k \in Keys, Changed(i, k), Holds(st.log, i, k),
             shipped < i, i <= last.index
      PROVE  InSink(i, k)'
  <2>1. Holds(Loop.batch, i, k)
    BY <1>1, <1>6 DEF Holds
  <2> QED BY <1>5, <2>1
<1>7. ASSUME NEW i \in 1..st.index, NEW k \in Keys, Changed(i, k), InSink(i, k)
      PROVE  InSink(i, k)'
  <2>1. CASE \E m \in manifests : m.index >= i /\ Intact(m.id)
    BY <2>1 DEF InSink, Intact
  <2>2. ASSUME NEW s \in segments, Holds(s.changes, i, k)
        PROVE  InSink(i, k)'
    <3>1. CASE s \in segments'
      BY <2>2, <3>1 DEF InSink, Holds
    <3>2. CASE s.from = first.index /\ s.to = last.index
      <4>1. first.index <= i /\ i <= last.index
        BY <2>2, <3>2 DEF Holds, IInv, SegInv
      <4>2. Holds(st.log, i, k)
        <5>1. CASE first.index = i
          BY <1>2, <1>7, <5>1 DEF IInv, LogInv, Holds
        <5>2. CASE first.index < i
          BY <1>2, <1>7, <5>2 DEF IInv, LogInv
        <5> QED BY <1>2, <4>1, <5>1, <5>2
      <4>3. shipped < i
        BY <1>1, <1>2, <4>1
      <4> QED BY <1>6, <1>7, <4>1, <4>2, <4>3
    <3> QED BY <1>4, <3>1, <3>2
  <2> QED BY <1>7, <2>1, <2>2 DEF InSink
<1>8. ASSUME NEW i \in 1..st.index, NEW k \in Keys, Changed(i, k), i <= last.index
      PROVE  InSink(i, k)'
  <2>1. CASE InSink(i, k)
    BY <1>7, <1>8, <2>1
  <2>2. CASE ~InSink(i, k)
    <3>1. Holds(st.log, i, k) /\ ~(i <= shipped)
      BY <1>8, <2>2 DEF IInv, Known, Safe
    <3> QED BY <1>1, <1>6, <1>8, <3>1
  <2> QED BY <2>1, <2>2
<1> QED BY <1>7, <1>8

\* Steps that only grow or thin out the sink, and lose no change doing so.
LEMMA SinkStep ==
    ASSUME IInv, st' = st, shipped' = shipped, nextId' = nextId, exists' = exists,
           request' = request, restores' = restores, writes' = writes,
           \A i \in 1..st.index, k \in Keys : Changed(i, k) /\ InSink(i, k) => InSink(i, k)'
    PROVE  /\ Typed' /\ LogInv' /\ Known'
           /\ \A n : Safe(n) => Safe(n)'
<1>1. Typed' /\ LogInv'
  BY DEF IInv, Typed, LogInv, Changed, Holds
<1>2. \A i, k : (Changed(i, k)' <=> Changed(i, k)) /\ (Holds(st.log, i, k)' <=> Holds(st.log, i, k))
  BY DEF Changed, Holds
<1>3. \A n : Safe(n) => Safe(n)'
  BY <1>2 DEF Safe
<1>4. Safe(shipped)'
  BY <1>2 DEF Safe, IInv, Known
<1>5. Known'
  BY <1>2, <1>4 DEF IInv, Known
<1> QED BY <1>1, <1>3, <1>5

LEMMA ShipPutKeeps ==
    ASSUME Alone, IInv, ShipPut
    PROVE  IInv'
<1>1. /\ DOMAIN job' = {"run"} /\ st' = st /\ shipped' = shipped /\ nextId' = nextId /\ Loop.pc = "put"
      /\ manifests' = manifests /\ snaps' = snaps /\ st.index \in Nat
      /\ exists' = exists /\ request' = request /\ restores' = restores /\ writes' = writes
  BY DEF IInv, JobInv, Typed, ShipPut, At, Return, Loop, node
<1>2. PICK first \in Loop.batch, last \in Loop.batch :
          /\ IsFirst(first, Loop.batch) /\ IsLast(last, Loop.batch)
          /\ \/ /\ PutSegment(Loop.batch, first, last)
                /\ job' = [job EXCEPT !["run"] = [job["run"] EXCEPT !.pc = "cursor", !.index = last.index]]
             \/ (segments' = segments \/ PutSegment(Loop.batch, first, last)) /\ Return("run")
  BY DEF ShipPut, Loop
<1>3. CASE segments' = segments /\ Return("run")
  <2>1. Typed' /\ LogInv' /\ Known' /\ SegInv' /\ ManInv'
    BY <1>1, <1>3, Frame DEF IInv, Typed
  <2> QED BY <1>1, <1>3, <2>1, JobIdle DEF Return, IInv, JobInv
<1>4. CASE PutSegment(Loop.batch, first, last)
  <2>1. /\ \A i \in 1..st.index, k \in Keys : Changed(i, k) /\ InSink(i, k) => InSink(i, k)'
        /\ \A i \in 1..st.index, k \in Keys : Changed(i, k) /\ i <= last.index => InSink(i, k)'
    BY <1>1, <1>2, <1>4, SegmentLands
  <2>2. Typed' /\ LogInv' /\ Known' /\ \A n : Safe(n) => Safe(n)'
    BY <1>1, <2>1, SinkStep
  <2>3. Safe(last.index)'
    BY <1>1, <2>1 DEF Safe, Changed
  <2>4. /\ Loop.batch \subseteq Change /\ first.index \in Nat /\ last.index \in Nat /\ last.index <= st.index
    BY <1>1, <1>2 DEF IInv, JobInv, LogInv, Change
  <2>5. SegInv'
    <3> DEFINE seg == SegmentOf(Loop.batch, first, last)
    <3>1. seg.from = first.index /\ seg.to = last.index /\ seg.changes = Loop.batch
      BY DEF SegmentOf
    <3>2. \A s \in segments' : s \in segments \/ s = seg
      BY <1>4 DEF PutSegment
    <3>3. \A c \in Loop.batch : first.index <= c.index /\ c.index <= last.index
      BY <1>2 DEF IsFirst, IsLast
    <3> HIDE DEF seg
    <3>4. ASSUME NEW s \in segments'
          PROVE  /\ s.from \in Nat /\ s.to \in Nat /\ s.to <= st.index
                 /\ s.changes \subseteq Change
                 /\ \A c \in s.changes : s.from <= c.index /\ c.index <= s.to
                 /\ Safe(s.to)'
      <4>1. CASE s \in segments
        BY <2>2, <4>1 DEF IInv, SegInv
      <4>2. CASE s = seg
        BY <2>3, <2>4, <3>1, <3>3, <4>2
      <4> QED BY <3>2, <4>1, <4>2
    <3> QED BY <1>1, <3>4 DEF SegInv
  <2>6. ManInv'
    BY <1>1 DEF IInv, ManInv, IsNewest, Intact
  <2>7. CASE Return("run")
    BY <1>1, <2>2, <2>5, <2>6, <2>7, JobIdle DEF Return, IInv, JobInv
  <2>8. CASE job' = [job EXCEPT !["run"] = [job["run"] EXCEPT !.pc = "cursor", !.index = last.index]]
    <3>1. /\ Loop'.pc = "cursor" /\ Loop'.id = Loop.id /\ Loop'.index = last.index
          /\ Loop'.batch = Loop.batch /\ Loop'.victims = Loop.victims /\ DOMAIN Loop' = DOMAIN Loop
      BY <2>8 DEF Loop, IInv, JobInv
    <3>2. Safe(Loop.index)'
      BY <2>3, <3>1 DEF Safe
    <3>3. JobInv'
      BY <1>1, <2>4, <3>1, <3>2 DEF IInv, JobInv, PCs
    <3> QED BY <2>2, <2>5, <2>6, <3>3 DEF IInv
  <2> QED BY <1>2, <2>7, <2>8
<1> QED BY <1>2, <1>3, <1>4

LEMMA SnapUploadKeeps ==
    ASSUME Alone, IInv, SnapUpload("run")
    PROVE  IInv'
<1>1. /\ DOMAIN job' = {"run"} /\ st' = st /\ shipped' = shipped /\ nextId' = nextId /\ Loop.pc = "upload"
      /\ segments' = segments /\ manifests' = manifests /\ st.index \in Nat /\ snaps \subseteq snaps'
      /\ exists' = exists /\ request' = request /\ restores' = restores /\ writes' = writes
  BY DEF IInv, JobInv, Typed, SnapUpload, At, Go, Return, Loop, node
<1>2. \A i : Intact(i) => Intact(i)'
  BY <1>1 DEF Intact
<1>3. \A i, k : InSink(i, k) => InSink(i, k)'
  BY <1>1, <1>2 DEF InSink, Holds
<1>4. Typed' /\ LogInv' /\ Known' /\ \A n : Safe(n) => Safe(n)'
  BY <1>1, <1>3, SinkStep
<1>5. SegInv' /\ ManInv'
  BY <1>1, <1>2, <1>4 DEF IInv, SegInv, ManInv, IsNewest
<1>6. CASE Return("run")
  BY <1>1, <1>4, <1>5, <1>6, JobIdle DEF Return, IInv, JobInv
<1>7. CASE /\ snaps' = snaps \cup {[id |-> job["run"].id, st |-> s] : s \in job["run"].copy}
           /\ Go("run", "manifest")
  <2>1. Intact(Loop.id)'
    <3>1. PICK s \in Loop.copy : TRUE
      BY <1>1 DEF IInv, JobInv
    <3>2. [id |-> Loop.id, st |-> s] \in snaps'
      BY <1>7 DEF Loop
    <3>3. Loop'.id = Loop.id
      BY <1>7 DEF Loop, Go, IInv, JobInv
    <3> QED BY <3>2, <3>3 DEF Intact
  <2>2. /\ Loop'.pc = "manifest" /\ Loop'.id = Loop.id /\ Loop'.index = Loop.index
        /\ Loop'.batch = Loop.batch /\ Loop'.victims = Loop.victims /\ DOMAIN Loop' = DOMAIN Loop
    BY <1>7 DEF Loop, Go, IInv, JobInv
  <2>3. JobInv'
    BY <1>1, <2>1, <2>2 DEF IInv, JobInv, PCs
  <2> QED BY <1>4, <1>5, <2>3 DEF IInv
<1> QED BY <1>6, <1>7 DEF SnapUpload

\* Steps on the archives that keep the newest one safe keep every change safe.
LEMMA ArchiveStep ==
    ASSUME IInv, st' = st, segments' = segments,
           NEW m \in manifests', IsNewest(m)', Intact(m.id)', m.index \in Nat,
           \A n \in manifests : n.index \in Nat /\ n.index <= m.index
    PROVE  \A i \in 1..st.index, k \in Keys : Changed(i, k) /\ InSink(i, k) => InSink(i, k)'
<1> SUFFICES ASSUME NEW i \in 1..st.index, NEW k \in Keys, Changed(i, k), InSink(i, k)
             PROVE  InSink(i, k)'
  OBVIOUS
<1>1. CASE \E s \in segments : Holds(s.changes, i, k)
  BY <1>1 DEF InSink, Holds
<1>2. CASE \E n \in manifests : n.index >= i /\ Intact(n.id)
  BY <1>2 DEF InSink
<1> QED BY <1>1, <1>2 DEF InSink

LEMMA SnapManifestKeeps ==
    ASSUME Alone, IInv, SnapManifest("run")
    PROVE  IInv'
<1>1. /\ DOMAIN job' = {"run"} /\ st' = st /\ shipped' = shipped /\ nextId' = nextId
      /\ Loop.pc = "manifest" /\ segments' = segments /\ snaps' = snaps /\ st.index \in Nat
      /\ exists' = exists /\ request' = request /\ restores' = restores /\ writes' = writes
  BY DEF IInv, JobInv, Typed, SnapManifest, At, Return, Loop, node
<1>2. CASE manifests' = manifests /\ Return("run")
  <2>1. Typed' /\ LogInv' /\ Known' /\ SegInv' /\ ManInv'
    BY <1>1, <1>2, Frame DEF IInv, Typed
  <2> QED BY <1>1, <1>2, <2>1, JobIdle DEF Return, IInv, JobInv
<1>3. CASE manifests' = manifests \cup {[id |-> Loop.id, index |-> Loop.index]}
  <2>1. PICK new : new = [id |-> Loop.id, index |-> Loop.index]
    OBVIOUS
  <2>2. /\ manifests' = manifests \cup {new} /\ new.id = Loop.id /\ new.index = Loop.index
    BY <1>3, <2>1
  <2>3. /\ new.id \in Nat /\ new.id < nextId /\ new.index \in Nat /\ new.index <= st.index
        /\ Intact(new.id)
        /\ \A m \in manifests : m.id \in Nat /\ m.id < new.id /\ m.index \in Nat /\ m.index <= new.index
    BY <1>1, <2>2 DEF IInv, JobInv, ManInv
  <2>4. Intact(new.id)' /\ IsNewest(new)'
    BY <1>1, <2>2, <2>3 DEF Intact, IsNewest
  <2>5. \A i \in 1..st.index, k \in Keys : Changed(i, k) /\ InSink(i, k) => InSink(i, k)'
    BY <1>1, <2>2, <2>3, <2>4, ArchiveStep
  <2>6. Typed' /\ LogInv' /\ Known' /\ \A n : Safe(n) => Safe(n)'
    BY <1>1, <2>5, SinkStep
  <2>7. SegInv'
    BY <1>1, <2>6 DEF IInv, SegInv
  <2>8. ManInv'
    <3>1. /\ \A m \in manifests : m.id \in Nat /\ m.id < nextId /\ m.index \in Nat /\ m.index <= st.index
          /\ \A m, n \in manifests : m.id < n.id => m.index <= n.index
          /\ \A m, n \in manifests : m.id = n.id => m = n
      BY DEF IInv, ManInv
    <3>2. \A m \in manifests' : /\ m.id \in Nat /\ m.id < nextId /\ m.index \in Nat /\ m.index <= st.index
      BY <2>2, <2>3, <3>1
    <3>3. \A m, n \in manifests' : m.id < n.id => m.index <= n.index
      BY <2>2, <2>3, <3>1
    <3>4. \A m, n \in manifests' : m.id = n.id => m = n
      BY <2>2, <2>3, <3>1
    <3> QED BY <1>1, <2>2, <2>4, <3>2, <3>3, <3>4 DEF ManInv
  <2>9. CASE Return("run")
    BY <1>1, <2>6, <2>7, <2>8, <2>9, JobIdle DEF Return, IInv, JobInv
  <2>10. CASE job' = [job EXCEPT !["run"] = [job["run"] EXCEPT !.pc = "load", !.copy = {}]]
    <3>1. /\ Loop'.pc = "load" /\ Loop'.id = Loop.id /\ Loop'.index = Loop.index
          /\ Loop'.batch = Loop.batch /\ Loop'.victims = Loop.victims /\ DOMAIN Loop' = DOMAIN Loop
      BY <2>10 DEF Loop, IInv, JobInv
    <3>2. \E m \in manifests' : m.index >= Loop'.index /\ Intact(m.id)'
      BY <2>2, <2>3, <2>4, <3>1
    <3>3. JobInv'
      BY <1>1, <3>1, <3>2 DEF IInv, JobInv, PCs
    <3> QED BY <2>6, <2>7, <2>8, <3>3 DEF IInv
  <2> QED BY <1>3, <2>9, <2>10 DEF SnapManifest, Loop
<1> QED BY <1>2, <1>3 DEF SnapManifest, Loop

\* Retention's victims are older than the newest archive, which covers them.
LEMMA NewestCovers ==
    ASSUME IInv, Loop.pc \in {"delSnap", "delManifest"}, NEW v \in Loop.victims
    PROVE  \E m \in manifests : /\ IsNewest(m) /\ Intact(m.id) /\ m.id # v /\ m.index \in Nat
                                /\ \A u \in Loop.victims : u < m.id
                                /\ \A n \in manifests : n.index \in Nat /\ n.index <= m.index
<1>1. PICK n \in manifests : v < n.id
  BY DEF IInv, JobInv
<1>2. PICK m \in manifests : IsNewest(m) /\ Intact(m.id)
  BY <1>1 DEF IInv, ManInv
<1>3. v \in Nat /\ n.id \in Nat /\ m.id \in Nat /\ n.id <= m.id /\ m.index \in Nat
  BY <1>1, <1>2 DEF IInv, ManInv, JobInv, IsNewest
<1>4. \A u \in Loop.victims : u < m.id
  <2> SUFFICES ASSUME NEW u \in Loop.victims PROVE u < m.id
    OBVIOUS
  <2>1. PICK o \in manifests : u < o.id
    BY DEF IInv, JobInv
  <2>2. u \in Nat /\ o.id \in Nat /\ o.id <= m.id
    BY <1>2, <2>1 DEF IInv, ManInv, JobInv, IsNewest
  <2> QED BY <1>3, <2>1, <2>2
<1>5. \A o \in manifests : o.index \in Nat /\ o.index <= m.index
  <2> SUFFICES ASSUME NEW o \in manifests PROVE o.index \in Nat /\ o.index <= m.index
    OBVIOUS
  <2>1. o.id \in Nat /\ o.id <= m.id /\ o.index \in Nat
    BY <1>2 DEF IInv, ManInv, IsNewest
  <2>2. CASE o.id = m.id
    BY <1>3, <2>1, <2>2 DEF IInv, ManInv
  <2>3. CASE o.id < m.id
    BY <2>1, <2>3 DEF IInv, ManInv
  <2> QED BY <1>3, <2>1, <2>2, <2>3
<1> QED BY <1>1, <1>2, <1>3, <1>4, <1>5

LEMMA SnapDelSnapKeeps ==
    ASSUME Alone, IInv, SnapDelSnap("run")
    PROVE  IInv'
<1>1. /\ st' = st /\ shipped' = shipped /\ nextId' = nextId /\ Loop.pc = "delSnap"
      /\ segments' = segments /\ manifests' = manifests /\ st.index \in Nat
      /\ exists' = exists /\ request' = request /\ restores' = restores /\ writes' = writes
  BY DEF IInv, Typed, SnapDelSnap, At, Loop, node
<1>2. PICK v \in Loop.victims :
         \/ snaps' = {s \in snaps : s.id # v} /\ job' = [job EXCEPT !["run"].pc = "delManifest"]
         \/ snaps' = snaps /\ job' = [job EXCEPT !["run"].victims = {}]
  BY DEF SnapDelSnap, Loop, Go
<1>3. PICK m \in manifests : /\ IsNewest(m) /\ Intact(m.id) /\ m.id # v /\ m.index \in Nat
                             /\ \A n \in manifests : n.index \in Nat /\ n.index <= m.index
  BY <1>1, NewestCovers
<1>4. m \in manifests' /\ IsNewest(m)' /\ Intact(m.id)'
  BY <1>1, <1>2, <1>3 DEF IsNewest, Intact
<1>5. \A i \in 1..st.index, k \in Keys : Changed(i, k) /\ InSink(i, k) => InSink(i, k)'
  BY <1>1, <1>3, <1>4, ArchiveStep
<1>6. Typed' /\ LogInv' /\ Known' /\ \A n : Safe(n) => Safe(n)'
  BY <1>1, <1>5, SinkStep
<1>7. SegInv'
  BY <1>1, <1>6 DEF IInv, SegInv
<1>8. ManInv'
  BY <1>1, <1>4 DEF IInv, ManInv
<1>9. /\ DOMAIN job' = {"run"} /\ DOMAIN Loop' = DOMAIN Loop /\ Loop'.pc \in {"delSnap", "delManifest"}
      /\ Loop'.id = Loop.id /\ Loop'.index = Loop.index /\ Loop'.batch = Loop.batch
      /\ Loop'.victims \subseteq Loop.victims
  BY <1>1, <1>2 DEF Loop, IInv, JobInv
<1>10. JobInv'
  <2>1. \A u \in Loop'.victims : u \in Nat /\ \E n \in manifests' : u < n.id
    BY <1>1, <1>9 DEF IInv, JobInv
  <2> QED BY <1>1, <1>9, <2>1 DEF IInv, JobInv, PCs
<1> QED BY <1>6, <1>7, <1>8, <1>10 DEF IInv

LEMMA SnapDelManifestKeeps ==
    ASSUME Alone, IInv, SnapDelManifest("run")
    PROVE  IInv'
<1>1. /\ st' = st /\ shipped' = shipped /\ nextId' = nextId /\ Loop.pc = "delManifest"
      /\ segments' = segments /\ snaps' = snaps /\ st.index \in Nat
      /\ exists' = exists /\ request' = request /\ restores' = restores /\ writes' = writes
  BY DEF IInv, Typed, SnapDelManifest, At, Loop, node
<1>2. PICK v \in Loop.victims :
         \/ /\ manifests' = {m \in manifests : m.id # v}
            /\ job' = [job EXCEPT !["run"] = [job["run"] EXCEPT !.pc = "delSnap",
                                               !.victims = job["run"].victims \ {v}]]
         \/ /\ manifests' = manifests
            /\ job' = [job EXCEPT !["run"] = [job["run"] EXCEPT !.pc = "delSnap", !.victims = {}]]
  BY DEF SnapDelManifest, Loop
<1>3. PICK m \in manifests : /\ IsNewest(m) /\ Intact(m.id) /\ m.id # v /\ m.index \in Nat
                             /\ \A u \in Loop.victims : u < m.id
                             /\ \A n \in manifests : n.index \in Nat /\ n.index <= m.index
  BY <1>1, NewestCovers
<1>4. /\ m \in manifests' /\ manifests' \subseteq manifests
      /\ IsNewest(m)' /\ Intact(m.id)'
  BY <1>1, <1>2, <1>3 DEF IsNewest, Intact
<1>5. \A i \in 1..st.index, k \in Keys : Changed(i, k) /\ InSink(i, k) => InSink(i, k)'
  BY <1>1, <1>3, <1>4, ArchiveStep
<1>6. Typed' /\ LogInv' /\ Known' /\ \A n : Safe(n) => Safe(n)'
  BY <1>1, <1>5, SinkStep
<1>7. SegInv'
  BY <1>1, <1>6 DEF IInv, SegInv
<1>8. ManInv'
  BY <1>1, <1>4 DEF IInv, ManInv
<1>9. /\ DOMAIN job' = {"run"} /\ DOMAIN Loop' = DOMAIN Loop /\ Loop'.pc = "delSnap"
      /\ Loop'.id = Loop.id /\ Loop'.index = Loop.index /\ Loop'.batch = Loop.batch
      /\ Loop'.victims \subseteq Loop.victims
  <2>1. PICK vs \in SUBSET Loop.victims :
           job' = [job EXCEPT !["run"] = [Loop EXCEPT !.pc = "delSnap", !.victims = vs]]
    BY <1>2 DEF Loop
  <2> QED BY <2>1 DEF Loop, IInv, JobInv
<1>10. JobInv'
  <2>1. \A u \in Loop'.victims : u \in Nat /\ \E n \in manifests' : u < n.id
    BY <1>3, <1>4, <1>9 DEF IInv, JobInv
  <2> QED BY <1>1, <1>9, <2>1 DEF IInv, JobInv, PCs
<1> QED BY <1>6, <1>7, <1>8, <1>10 DEF IInv

LEMMA SnapPruneSegsKeeps ==
    ASSUME Alone, IInv, SnapPruneSegs("run")
    PROVE  IInv'
<1>1. /\ DOMAIN job' = {"run"} /\ st' = st /\ shipped' = shipped /\ nextId' = nextId
      /\ Loop.pc = "pruneSegs" /\ job'["run"] = Idle
      /\ manifests' = manifests /\ snaps' = snaps /\ st.index \in Nat
      /\ exists' = exists /\ request' = request /\ restores' = restores /\ writes' = writes
  BY DEF IInv, JobInv, Typed, SnapPruneSegs, At, Return, Loop, node
<1>2. segments' \subseteq segments /\ \A s \in segments : s \in segments' \/ s.to <= Loop.index
  BY DEF SnapPruneSegs, Covered, Loop
<1>3. ASSUME NEW i \in 1..st.index, NEW k \in Keys, Changed(i, k), InSink(i, k)
      PROVE  InSink(i, k)'
  <2>1. CASE \E m \in manifests : m.index >= i /\ Intact(m.id)
    BY <1>1, <2>1 DEF InSink, Intact
  <2>2. ASSUME NEW s \in segments, Holds(s.changes, i, k)
        PROVE  InSink(i, k)'
    <3>1. CASE s \in segments'
      BY <1>1, <2>2, <3>1 DEF InSink, Holds
    <3>2. CASE s \notin segments'
      <4>1. i <= s.to /\ s.to \in Nat /\ s.to <= Loop.index /\ Loop.index \in Nat
        BY <1>2, <2>2, <3>2 DEF Holds, IInv, SegInv, JobInv
      <4>2. PICK m \in manifests : m.index >= Loop.index /\ Intact(m.id)
        BY <1>1, <4>1 DEF IInv, JobInv
      <4>3. m.index \in Nat
        BY DEF IInv, ManInv
      <4> QED BY <1>1, <4>1, <4>2, <4>3 DEF InSink, Intact
    <3> QED BY <3>1, <3>2
  <2> QED BY <1>3, <2>1, <2>2 DEF InSink
<1>4. Typed' /\ LogInv' /\ Known' /\ \A n : Safe(n) => Safe(n)'
  BY <1>1, <1>3, SinkStep
<1>5. SegInv'
  BY <1>1, <1>2, <1>4 DEF IInv, SegInv
<1>6. ManInv'
  BY <1>1 DEF IInv, ManInv, IsNewest, Intact
<1> QED BY <1>1, <1>4, <1>5, <1>6, JobIdle DEF IInv

\* A node that keeps its disk and has no request staged never restores.
LEMMA NoRestore ==
    ASSUME Alone, IInv
    PROVE  /\ ~(\E m \in manifests, skip \in BOOLEAN : Stage(m, skip))
           /\ ~LoseDisk /\ ~RestoreDone /\ ~RestoreFails /\ ~ReplayFails
<1>1. restores = 0 /\ MaxRestores = 0 /\ exists = TRUE /\ request = {}
  BY DEF Alone, IInv, Typed
<1>2. \A r : ~Wanted(r)
  BY <1>1 DEF Wanted
<1>3. ~LoseDisk /\ ~(\E m \in manifests, skip \in BOOLEAN : Stage(m, skip))
  BY <1>1 DEF LoseDisk, Stage
<1>4. ~RestoreDone /\ ~RestoreFails /\ ~ReplayFails
  BY <1>2 DEF RestoreDone, RestoreFails, ReplayFails, Restores
<1> QED BY <1>3, <1>4

LEMMA InitHolds ==
    ASSUME Alone, Init
    PROVE  IInv
<1>1. /\ st.index = 0 /\ st.data = NoData /\ st.log = {} /\ st.past = [i \in {0} |-> NoData]
      /\ DOMAIN st = {"index", "data", "log", "past"}
  BY DEF Init, EmptyStore
<1>2. NoData \in [Keys -> Nat] /\ 0..0 = {0}
  BY DEF NoData, Absent
<1>3. IsFiniteSet(st.log)
  BY <1>1, FS_EmptySet
<1>4. Typed
  BY <1>1, <1>2, <1>3 DEF Init, Typed
<1>5. LogInv /\ Known /\ SegInv /\ ManInv
  BY <1>1 DEF Init, LogInv, Known, Safe, SegInv, ManInv
<1>6. DOMAIN job = {"run"} /\ Loop = Idle
  BY DEF Init, Alone, Loop
<1>7. JobInv
  BY <1>1, <1>6 DEF JobInv, Idle, PCs
<1> QED BY <1>4, <1>5, <1>7 DEF IInv

\* The invariant is inductive: it holds at the start and every action keeps it.
THEOREM ReplicationInvariant ==
    ASSUME Alone
    PROVE  Spec => []IInv
<1>1. Init => IInv
  BY InitHolds
<1>2. IInv /\ [Next]_vars => IInv'
  <2> SUFFICES ASSUME IInv, [Next]_vars
               PROVE  IInv'
    OBVIOUS
  <2>1. CASE UNCHANGED vars
    <3>1. /\ Typed' /\ LogInv' /\ Known' /\ SegInv' /\ ManInv'
          /\ \A n : Safe(n)' <=> Safe(n)
          /\ \A i : Intact(i)' <=> Intact(i)
      BY <2>1, Frame DEF vars, IInv, Typed
    <3>2. /\ Loop' = Loop /\ job' = job /\ st' = st /\ shipped' = shipped
          /\ nextId' = nextId /\ manifests' = manifests
      BY <2>1 DEF vars, Loop
    <3>3. Safe(Loop.index) => Safe(Loop.index)'
      BY <2>1, <3>2 DEF vars, Safe, Changed, InSink, Holds, Intact
    <3>4. Intact(Loop.id) => Intact(Loop.id)'
      BY <2>1, <3>2 DEF vars, Intact
    <3>5. JobInv'
      BY <3>1, <3>2, <3>3, <3>4 DEF IInv, JobInv
    <3> QED BY <3>1, <3>5 DEF IInv
  <2>2. CASE \E puts, dels \in SUBSET Keys : Write(puts, dels)
    BY <2>2, KeysAssumption, WriteKeeps
  <2>3. CASE RunStep
    BY <2>3, ReplicationAssumption, ShipReadKeeps, ShipPutKeeps, ShipCursorKeeps, ShipPruneKeeps,
       StartupFailsKeeps DEF RunStep
  <2>4. CASE \E t \in Threads : SnapBegin(t) \/ SnapStep(t)
    <3>1. SnapBegin("run") \/ SnapStep("run")
      BY <2>4 DEF Alone
    <3> QED BY <3>1, ReplicationAssumption, SnapBeginKeeps, SnapIndexKeeps, SnapCopyKeeps,
               SnapUploadKeeps, SnapManifestKeeps, SnapLoadKeeps, SnapBumpKeeps, SnapDelSnapKeeps,
               SnapDelManifestKeeps, SnapOldestKeeps, SnapPruneSegsKeeps DEF SnapStep
  <2>5. CASE Crash \/ Boot
    BY <2>5, CrashKeeps, BootKeeps
  <2>6. CASE \/ \E m \in manifests, skip \in BOOLEAN : Stage(m, skip)
             \/ LoseDisk \/ RestoreDone \/ RestoreFails \/ ReplayFails
    BY <2>6, NoRestore
  <2> QED BY <2>1, <2>2, <2>3, <2>4, <2>5, <2>6 DEF Next
<1> QED BY <1>1, <1>2, PTL DEF Spec

\* ShipOnce's order (put, then cursor, then prune) and Snapshot's (copy, upload,
\* manifest, then cursor and retention) lose no change: whatever the crashes,
\* the sink's errors, the retention and the read limit, each change the node
\* made is in its log, in a segment, or inside an archive that can be fetched.
THEOREM ReplicationLosesNothing ==
    ASSUME Alone
    PROVE  Spec => []NoChangeLost
<1>1. IInv => NoChangeLost
  BY DEF IInv, Known, NoChangeLost
<1> QED BY <1>1, ReplicationInvariant, PTL

\* Resume and the two stores of the cursor never put it past a change that is
\* only in the log: whatever it passes is in the sink.
THEOREM CursorTellsTheTruth ==
    ASSUME Alone
    PROVE  Spec => []Safe(shipped)
<1>1. IInv => Safe(shipped)
  BY DEF IInv, Known
<1> QED BY <1>1, ReplicationInvariant, PTL

-----------------------------------------------------------------------------
(* NewestRestores: the chain of segments above the newest archive.         *)

\* The setting of the chain theorems: every batch changes something and a Put
\* that reports an error has not landed.  Both are needed (README, section 5).
Gapless == Alone /\ ~MissingDeletes /\ ~LateLanding

\* A change that nothing in the sink reaches is in the log, whatever its index.
LogDense ==
    \A i \in 1..st.index :
        (\E j \in InSinkIndexes : j >= i) \/ (\E c \in st.log : c.index = i)

\* The loop's cursor is the highest index in the sink, once it has stored what
\* it holds; and a batch it is about to put begins right above it.
CursorTop ==
    up =>
        /\ IF Loop.pc \in {"cursor", "bump"} THEN IsMax(Loop.index, InSinkIndexes)
           ELSE IF Loop.pc = "load" THEN IsMax(MaxOf(shipped, Loop.index), InSinkIndexes)
           ELSE IsMax(shipped, InSinkIndexes)
        /\ Loop.pc \in {"copy", "upload", "manifest"} => shipped <= Loop.index
        /\ Loop.pc = "prune" => Loop.index <= shipped
        /\ Loop.pc = "put" => \E c \in Loop.batch : c.index = shipped + 1

\* Above the newest archive each segment begins where the archive or another
\* segment ends, and no two overlap.
Chained(from) ==
    /\ \A s \in Above(from) :
          s.from = from + 1 \/ \E u \in Above(from) : s.from = u.to + 1
    /\ \A s, u \in Above(from) : s = u \/ s.to < u.from \/ u.to < s.from

ChainInv ==
    /\ LogDense
    /\ CursorTop
    /\ \A s \in segments : s.from <= s.to
    /\ \A m \in manifests : IsNewest(m) => Chained(m.index)

\* Every boot could list the sink.
Listed == ~up /\ up' => IsMax(shipped', InSinkIndexes)

\* The log, the segments and the archives decide all of ChainInv but the cursor.
LEMMA ChainFrame ==
    ASSUME ChainInv, st' = st, segments' = segments, manifests' = manifests, CursorTop'
    PROVE  ChainInv'
<1>1. InSinkIndexes' = InSinkIndexes /\ \A i : Above(i)' = Above(i)
  BY DEF InSinkIndexes, Above
<1>2. LogDense'
  BY <1>1 DEF ChainInv, LogDense
<1>3. \A m \in manifests' : IsNewest(m)' => Chained(m.index)'
  BY <1>1 DEF ChainInv, IsNewest, Chained
<1> QED BY <1>2, <1>3 DEF ChainInv

\* What is read begins right above the cursor: no index is missing in the log.
LEMMA ReadFromCursor ==
    ASSUME ReplicationAssumption, IInv, LogDense, IsMax(shipped, InSinkIndexes),
           Changes(st, shipped, ReadLimit) # {}
    PROVE  \E c \in Changes(st, shipped, ReadLimit) : c.index = shipped + 1
<1> DEFINE batch == Changes(st, shipped, ReadLimit)
<1>1. PICK c \in batch : TRUE
  OBVIOUS
<1>2. c \in st.log /\ c.index > shipped
  BY <1>1, ChangesPending
<1>3. /\ c.index \in Nat /\ c.index <= st.index /\ shipped \in Nat /\ st.index \in Nat
      /\ \A d \in st.log : d.index \in Nat
  BY <1>2 DEF IInv, Typed, LogInv, Change
<1>4. shipped + 1 \in 1..st.index
  BY <1>2, <1>3
<1>5. \A j \in InSinkIndexes : j <= shipped /\ j \in Nat
  BY DEF IsMax, InSinkIndexes, IInv, SegInv, ManInv
<1>6. ~ \E j \in InSinkIndexes : j >= shipped + 1
  BY <1>3, <1>5
<1>7. PICK d \in st.log : d.index = shipped + 1
  BY <1>4, <1>6 DEF LogDense
<1>8. CASE d.index = c.index
  BY <1>1, <1>7, <1>8
<1>9. CASE d.index < c.index
  <2>1. ReadLimit \in Nat
    BY DEF ReadLimit, ReplicationAssumption
  <2>2. shipped < d.index /\ IsFiniteSet(st.log) /\ st.log \subseteq Change
    BY <1>3, <1>7 DEF IInv, Typed
  <2>3. d \in batch
    BY <1>1, <1>3, <1>9, <2>1, <2>2, ChangesPrefix
  <2> QED BY <1>7, <2>3
<1> QED BY <1>2, <1>3, <1>7, <1>8, <1>9

\* The loop's steps that leave the log, the segments and the manifests alone.
LEMMA ChainShipRead ==
    ASSUME ReplicationAssumption, IInv, ChainInv, ShipRead
    PROVE  ChainInv'
<1> DEFINE batch == Changes(st, shipped, ReadLimit)
<1>1. /\ up /\ up' = up /\ st' = st /\ shipped' = shipped /\ segments' = segments /\ manifests' = manifests
      /\ Loop.pc \in {"idle", "again"}
  BY DEF ShipRead, At, Loop, node, sink
<1>2. IsMax(shipped, InSinkIndexes) /\ InSinkIndexes' = InSinkIndexes
  BY <1>1 DEF ChainInv, CursorTop, InSinkIndexes
<1>3. \/ Loop'.pc = "idle"
      \/ batch # {} /\ Loop'.pc = "put" /\ Loop'.batch = batch
  <2>1. "run" \in DOMAIN job
    BY DEF IInv, JobInv
  <2> DEFINE next == [Idle EXCEPT !.pc = "put", !.batch = batch]
  <2>2. Idle.pc = "idle" /\ next.pc = "put" /\ next.batch = batch
    BY DEF Idle
  <2> HIDE DEF next, batch
  <2>3. Loop' = Idle \/ (batch # {} /\ Loop' = next)
    BY <2>1 DEF ShipRead, Return, Loop, next, batch
  <2> QED BY <2>2, <2>3
<1>4. batch # {} => \E c \in batch : c.index = shipped + 1
  BY <1>2, ReadFromCursor DEF ChainInv
<1> HIDE DEF batch
<1>5. CursorTop'
  BY <1>1, <1>2, <1>3, <1>4 DEF CursorTop
<1> QED BY <1>1, <1>5, ChainFrame

LEMMA ChainShipCursor ==
    ASSUME IInv, ChainInv, ShipCursor
    PROVE  ChainInv'
<1>1. /\ up /\ up' = up /\ st' = st /\ shipped' = Loop.index /\ segments' = segments /\ manifests' = manifests
      /\ Loop.pc = "cursor" /\ Loop'.pc = "prune" /\ Loop'.index = Loop.index /\ Loop.index \in Nat
  BY DEF ShipCursor, Go, At, Loop, node, sink, IInv, JobInv
<1>2. IsMax(shipped', InSinkIndexes) /\ InSinkIndexes' = InSinkIndexes
  BY <1>1 DEF ChainInv, CursorTop, InSinkIndexes
<1>3. CursorTop'
  BY <1>1, <1>2 DEF CursorTop
<1> QED BY <1>1, <1>3, ChainFrame

LEMMA ChainSnapQuiet ==
    ASSUME Alone, IInv, ChainInv,
           \/ StartupFails \/ SnapBegin("run") \/ SnapIndex("run") \/ SnapCopy("run")
           \/ SnapUpload("run") \/ SnapDelSnap("run") \/ SnapOldest("run")
    PROVE  ChainInv'
<1>1. /\ up /\ up' = up /\ st' = st /\ shipped' = shipped /\ segments' = segments /\ manifests' = manifests
      /\ Loop.pc \notin {"cursor", "bump", "load"}
  BY DEF StartupFails, SnapBegin, SnapIndex, SnapCopy, SnapUpload, SnapDelSnap, SnapOldest,
         At, Loop, node, sink
<1>2. IsMax(shipped, InSinkIndexes) /\ InSinkIndexes' = InSinkIndexes
  BY <1>1 DEF ChainInv, CursorTop, InSinkIndexes
<1>3. shipped <= st.index
  BY DEF IInv, Typed
<1>4. \/ Loop'.pc \in {"idle", "index", "delSnap", "delManifest", "pruneSegs"}
      \/ Loop.pc = "index" /\ Loop'.pc = "copy" /\ Loop'.index = st.index
      \/ Loop.pc \in {"copy", "upload"} /\ Loop'.pc \in {"upload", "manifest"} /\ Loop'.index = Loop.index
  <2>1. CASE StartupFails \/ SnapBegin("run")
    <3> DEFINE next == [Idle EXCEPT !.pc = "index", !.id = nextId]
    <3>1. Idle.pc = "idle" /\ next.pc = "index"
      BY DEF Idle
    <3> HIDE DEF next
    <3>2. Loop' = Idle \/ Loop' = next
      BY <2>1 DEF StartupFails, SnapBegin, Return, Loop, next, IInv, JobInv
    <3> QED BY <3>1, <3>2
  <2>2. CASE SnapIndex("run")
    BY <2>2 DEF SnapIndex, At, Loop, IInv, JobInv
  <2>3. CASE SnapCopy("run")
    BY <2>3 DEF SnapCopy, At, Loop, IInv, JobInv
  <2>4. CASE SnapUpload("run")
    BY <2>4 DEF SnapUpload, At, Go, Return, Loop, Idle, IInv, JobInv
  <2>5. CASE SnapDelSnap("run")
    BY <2>5 DEF SnapDelSnap, At, Go, Loop, IInv, JobInv
  <2>6. CASE SnapOldest("run")
    <3>1. CASE Return("run")
      BY <3>1 DEF Return, Loop, Idle, IInv, JobInv
    <3>2. CASE ~Return("run")
      <4>1. PICK i \in {0} \cup {m.index : m \in manifests} :
               job' = [job EXCEPT !["run"] = [job["run"] EXCEPT !.pc = "pruneSegs", !.index = i]]
        BY <2>6, <3>2 DEF SnapOldest
      <4> QED BY <4>1 DEF Loop, IInv, JobInv
    <3> QED BY <3>1, <3>2
  <2> QED BY <2>1, <2>2, <2>3, <2>4, <2>5, <2>6
<1>5. Loop.pc \in {"copy", "upload", "manifest"} => shipped <= Loop.index
  BY <1>1 DEF ChainInv, CursorTop
<1>6. CursorTop'
  BY <1>1, <1>2, <1>3, <1>4, <1>5 DEF CursorTop
<1> QED BY <1>1, <1>6, ChainFrame

LEMMA ChainSnapLoad ==
    ASSUME IInv, ChainInv, SnapLoad("run")
    PROVE  ChainInv'
<1>1. /\ up /\ up' = up /\ st' = st /\ shipped' = shipped /\ segments' = segments /\ manifests' = manifests
      /\ Loop.pc = "load" /\ Loop'.pc = "bump" /\ Loop'.index = MaxOf(shipped, Loop.index)
  BY DEF SnapLoad, At, Loop, node, sink, IInv, JobInv
<1>2. IsMax(MaxOf(shipped, Loop.index), InSinkIndexes) /\ InSinkIndexes' = InSinkIndexes
  BY <1>1 DEF ChainInv, CursorTop, InSinkIndexes
<1>3. CursorTop'
  BY <1>1, <1>2 DEF CursorTop
<1> QED BY <1>1, <1>3, ChainFrame

LEMMA ChainSnapBump ==
    ASSUME IInv, ChainInv, SnapBump("run")
    PROVE  ChainInv'
<1>1. /\ up /\ up' = up /\ st' = st /\ shipped' = Loop.index /\ segments' = segments /\ manifests' = manifests
      /\ Loop.pc = "bump" /\ Loop'.pc = "delSnap"
  BY DEF SnapBump, At, Loop, node, sink, IInv, JobInv
<1>2. IsMax(Loop.index, InSinkIndexes) /\ InSinkIndexes' = InSinkIndexes
  BY <1>1 DEF ChainInv, CursorTop, InSinkIndexes
<1>3. CursorTop'
  BY <1>1, <1>2 DEF CursorTop
<1> QED BY <1>1, <1>3, ChainFrame

LEMMA ChainCrashBoot ==
    ASSUME IInv, ChainInv, Crash \/ (Boot /\ Listed)
    PROVE  ChainInv'
<1>1. st' = st /\ segments' = segments /\ manifests' = manifests
  BY DEF Crash, Boot, node, sink
<1>2. CASE Crash
  BY <1>1, <1>2, ChainFrame DEF Crash, CursorTop
<1>3. CASE Boot /\ Listed
  <2>1. IsMax(shipped', InSinkIndexes) /\ InSinkIndexes' = InSinkIndexes /\ Loop'.pc = "startup"
    BY <1>1, <1>3 DEF Boot, Listed, InSinkIndexes, Loop, IInv, JobInv
  <2>2. CursorTop'
    BY <2>1 DEF CursorTop
  <2> QED BY <1>1, <2>2, ChainFrame
<1> QED BY <1>2, <1>3

\* A batch that changes nothing is not written here, so the log gets the index.
LEMMA ChainWrite ==
    ASSUME Gapless, KeysAssumption, IInv, ChainInv,
           NEW puts \in SUBSET Keys, NEW dels \in SUBSET Keys, Write(puts, dels)
    PROVE  ChainInv'
<1> DEFINE batch == [k \in puts \cup dels |-> IF k \in puts THEN writes + 1 ELSE Absent]
<1>1. /\ st' = Apply(st, batch) /\ segments' = segments /\ manifests' = manifests
      /\ shipped' = shipped /\ job' = job /\ up' = up
      /\ Effective(st, batch) = DOMAIN batch /\ DOMAIN batch = puts \cup dels
  BY DEF Write, sink, Gapless
<1>2. PICK key : key \in puts \cup dels
  <2>1. IsFiniteSet(puts \cup dels)
    BY FS_Subset DEF KeysAssumption
  <2>2. Cardinality(puts \cup dels) = 1
    BY DEF Write, Gapless, Alone
  <2>3. puts \cup dels # {}
    BY <2>2, FS_EmptySet
  <2> QED BY <2>3
<1> HIDE DEF batch
<1>3. /\ st'.index = st.index + 1 /\ st.index \in Nat
      /\ st.log \subseteq st'.log /\ \E c \in st'.log : c.index = st.index + 1
  <2>1. st.index \in Nat
    BY DEF IInv, Typed
  <2>2. /\ st'.index = st.index + 1
        /\ st'.log = st.log \cup {[index |-> st.index + 1, key |-> k, val |-> batch[k]] :
                                      k \in Effective(st, batch)}
    BY <1>1 DEF Apply
  <2>3. key \in Effective(st, batch)
    BY <1>1, <1>2
  <2>4. [index |-> st.index + 1, key |-> key, val |-> batch[key]] \in st'.log
    BY <2>2, <2>3
  <2>5. [index |-> st.index + 1, key |-> key, val |-> batch[key]].index = st.index + 1
    OBVIOUS
  <2> QED BY <2>1, <2>2, <2>4, <2>5
<1>4. InSinkIndexes' = InSinkIndexes /\ \A i : Above(i)' = Above(i)
  BY <1>1 DEF InSinkIndexes, Above
<1>5. LogDense'
  <2>1. \A i \in 1..(st.index + 1) : i \in 1..st.index \/ i = st.index + 1
    BY <1>3
  <2> QED BY <1>3, <1>4, <2>1 DEF ChainInv, LogDense
<1>6. CursorTop'
  BY <1>1, <1>4 DEF ChainInv, CursorTop, Loop
<1>7. \A m \in manifests' : IsNewest(m)' => Chained(m.index)'
  BY <1>1, <1>4 DEF ChainInv, IsNewest, Chained
<1> QED BY <1>1, <1>5, <1>6, <1>7 DEF ChainInv

\* Pruning the log drops only what the sink reaches.
LEMMA ChainShipPrune ==
    ASSUME IInv, ChainInv, ShipPrune
    PROVE  ChainInv'
<1>1. /\ up /\ up' = up /\ segments' = segments /\ manifests' = manifests /\ shipped' = shipped
      /\ Loop.pc = "prune" /\ Loop'.pc \in {"idle", "again"}
      /\ st'.index = st.index
      /\ st'.log = st.log \/ st'.log = Pending(st, Loop.index)
  BY DEF ShipPrune, PruneChanges, At, Go, Return, Loop, Idle, sink, IInv, JobInv, Typed
<1>2. /\ Loop.index <= shipped /\ IsMax(shipped, InSinkIndexes)
      /\ shipped \in Nat /\ Loop.index \in Nat /\ st.index \in Nat
      /\ \A c \in st.log : c.index \in Nat
  BY <1>1 DEF ChainInv, CursorTop, IInv, Typed, JobInv, LogInv
<1>3. InSinkIndexes' = InSinkIndexes /\ \A i : Above(i)' = Above(i)
  BY <1>1 DEF InSinkIndexes, Above
<1>4. LogDense'
  <2> SUFFICES ASSUME NEW i \in 1..st.index
               PROVE  (\E j \in InSinkIndexes : j >= i) \/ \E c \in st'.log : c.index = i
    BY <1>1, <1>3 DEF LogDense
  <2>1. CASE i <= shipped
    BY <1>2, <2>1 DEF IsMax
  <2>2. CASE \E c \in st.log : c.index = i
    <3>1. PICK c \in st.log : c.index = i
      BY <2>2
    <3>2. CASE ~(i <= shipped)
      <4>1. c.index > Loop.index
        BY <1>2, <3>1, <3>2
      <4> QED BY <1>1, <3>1, <4>1 DEF Pending
    <3> QED BY <2>1, <3>2
  <2> QED BY <1>2, <2>2 DEF ChainInv, LogDense
<1>5. CursorTop'
  BY <1>1, <1>2, <1>3 DEF CursorTop
<1>6. \A m \in manifests' : IsNewest(m)' => Chained(m.index)'
  BY <1>1, <1>3 DEF ChainInv, IsNewest, Chained
<1> QED BY <1>1, <1>4, <1>5, <1>6 DEF ChainInv

\* The newest archive is the one of the highest index.
LEMMA NewestHighest ==
    ASSUME IInv, NEW m \in manifests, IsNewest(m)
    PROVE  m.index \in Nat /\ \A n \in manifests : n.index \in Nat /\ n.index <= m.index
<1> SUFFICES ASSUME NEW n \in manifests
             PROVE  m.index \in Nat /\ n.index \in Nat /\ n.index <= m.index
  OBVIOUS
<1>1. m.id \in Nat /\ n.id \in Nat /\ n.id <= m.id /\ m.index \in Nat /\ n.index \in Nat
  BY DEF IInv, ManInv, IsNewest
<1>2. CASE n.id = m.id
  BY <1>1, <1>2 DEF IInv, ManInv
<1>3. CASE n.id < m.id
  BY <1>1, <1>3 DEF IInv, ManInv
<1> QED BY <1>1, <1>2, <1>3

\* A segment put above everything the sink reaches goes on where that ends.
LEMMA ChainGrows ==
    ASSUME IInv, ChainInv, IsMax(shipped, InSinkIndexes), NEW m \in manifests, IsNewest(m),
           NEW new, new.from = shipped + 1, new.to \in Nat, new.from <= new.to,
           new \in segments', segments' \subseteq segments \cup {new},
           \A s \in segments : s \in segments' \/ s.to > shipped
    PROVE  Chained(m.index)'
<1>1. shipped \in Nat /\ m.index \in Nat /\ m.index <= shipped
  BY NewestHighest DEF IsMax, InSinkIndexes, IInv, Typed
<1>2. \A s \in segments : s.from \in Nat /\ s.to \in Nat /\ s.from <= s.to /\ s.to <= shipped
  BY DEF IInv, SegInv, ChainInv, IsMax, InSinkIndexes
<1>3. segments \subseteq segments'
  BY <1>1, <1>2
<1>4. Above(m.index) \subseteq Above(m.index)' /\ Above(m.index)' \subseteq Above(m.index) \cup {new}
  BY <1>3 DEF Above
<1>5. new.from = m.index + 1 \/ \E u \in Above(m.index) : new.from = u.to + 1
  <2>1. CASE \E u \in segments : shipped = u.to /\ u.to > m.index
    BY <2>1 DEF Above
  <2>2. CASE ~ \E u \in segments : shipped = u.to /\ u.to > m.index
    <3>1. shipped = 0 \/ (\E u \in segments : shipped = u.to) \/ \E n \in manifests : shipped = n.index
      BY DEF IsMax, InSinkIndexes
    <3>2. shipped = m.index
      BY <1>1, <1>2, <2>2, <3>1, NewestHighest
    <3> QED BY <3>2
  <2> QED BY <2>1, <2>2
<1>6. Chained(m.index)
  BY DEF ChainInv
<1>7. \A s \in Above(m.index)' : s.from = m.index + 1 \/ \E u \in Above(m.index)' : s.from = u.to + 1
  BY <1>4, <1>5, <1>6 DEF Chained
<1>8. \A s \in Above(m.index) : s \in segments
  BY DEF Above
<1>9. \A s, u \in Above(m.index)' : s = u \/ s.to < u.from \/ u.to < s.from
  BY <1>1, <1>2, <1>4, <1>6, <1>8 DEF Chained
<1> QED BY <1>7, <1>9 DEF Chained, Above

LEMMA ChainShipPut ==
    ASSUME Gapless, IInv, ChainInv, ShipPut
    PROVE  ChainInv'
<1>1. /\ up /\ up' = up /\ st' = st /\ shipped' = shipped /\ manifests' = manifests /\ Loop.pc = "put"
  BY DEF ShipPut, At, Loop, node
<1>2. PICK first, last \in Loop.batch :
         /\ IsFirst(first, Loop.batch) /\ IsLast(last, Loop.batch)
         /\ \/ PutSegment(Loop.batch, first, last)
               /\ job' = [job EXCEPT !["run"] = [job["run"] EXCEPT !.pc = "cursor", !.index = last.index]]
            \/ segments' = segments /\ Return("run")
  BY DEF ShipPut, Loop, Gapless
<1>3. /\ IsMax(shipped, InSinkIndexes) /\ shipped \in Nat /\ st.index \in Nat
      /\ \A c \in Loop.batch : c.index \in Nat /\ c.index > shipped
      /\ \E c \in Loop.batch : c.index = shipped + 1
  BY <1>1 DEF ChainInv, CursorTop, IInv, Typed, JobInv, Change
<1>4. first.index = shipped + 1 /\ last.index \in Nat /\ first.index <= last.index
  <2>1. PICK c \in Loop.batch : c.index = shipped + 1
    BY <1>3
  <2>2. first.index <= c.index /\ first.index <= last.index
    BY <1>2 DEF IsFirst
  <2> QED BY <1>3, <2>1, <2>2
<1>5. CASE segments' = segments /\ Return("run")
  <2>1. Loop'.pc = "idle" /\ InSinkIndexes' = InSinkIndexes
    BY <1>1, <1>5 DEF Return, Loop, Idle, InSinkIndexes, IInv, JobInv
  <2>2. CursorTop'
    BY <1>1, <1>3, <2>1 DEF CursorTop
  <2> QED BY <1>1, <1>5, <2>2, ChainFrame
<1>6. CASE PutSegment(Loop.batch, first, last)
           /\ job' = [job EXCEPT !["run"] = [job["run"] EXCEPT !.pc = "cursor", !.index = last.index]]
  <2> DEFINE new == SegmentOf(Loop.batch, first, last)
  <2>1. new.from = first.index /\ new.to = last.index
    BY DEF SegmentOf
  <2>2. segments' = {s \in segments : s.from # first.index \/ s.to # last.index} \cup {new}
    BY <1>6 DEF PutSegment
  <2> HIDE DEF new
  <2>3. /\ new \in segments' /\ segments' \subseteq segments \cup {new}
        /\ \A s \in segments : s \in segments' \/ s.to = last.index
    BY <2>2
  <2>4. last.index \in InSinkIndexes' /\ \A j \in InSinkIndexes' : j \in InSinkIndexes \/ j = last.index
    BY <1>1, <2>1, <2>3 DEF InSinkIndexes
  <2>5. \A j \in InSinkIndexes : j \in Nat /\ j <= shipped
    BY <1>3 DEF IsMax, InSinkIndexes, IInv, SegInv, ManInv
  <2>6. IsMax(last.index, InSinkIndexes')
    <3>1. \A j \in InSinkIndexes : j <= last.index
      BY <1>3, <1>4, <2>5
    <3> QED BY <1>4, <2>4, <3>1 DEF IsMax
  <2>7. Loop'.pc = "cursor" /\ Loop'.index = last.index
    BY <1>6 DEF Loop, IInv, JobInv
  <2>8. CursorTop'
    BY <2>6, <2>7 DEF CursorTop
  <2>9. LogDense'
    <3> SUFFICES ASSUME NEW i \in 1..st.index
                 PROVE  (\E j \in InSinkIndexes' : j >= i) \/ \E c \in st.log : c.index = i
      BY <1>1 DEF LogDense
    <3>1. (\E j \in InSinkIndexes : j >= i) \/ \E c \in st.log : c.index = i
      BY DEF ChainInv, LogDense
    <3>2. ASSUME NEW j \in InSinkIndexes, j >= i
          PROVE  last.index >= i
      BY <1>3, <1>4, <2>5, <3>2
    <3> QED BY <2>4, <3>1, <3>2
  <2>10. \A s \in segments' : s.from <= s.to
    BY <1>4, <2>1, <2>3 DEF ChainInv
  <2>11. ASSUME NEW m \in manifests', IsNewest(m)'
         PROVE  Chained(m.index)'
    <3>1. m \in manifests /\ IsNewest(m)
      BY <1>1, <2>11 DEF IsNewest
    <3>2. \A s \in segments : s \in segments' \/ s.to > shipped
      BY <1>3, <1>4, <2>3
    <3> QED BY <1>3, <1>4, <2>1, <2>3, <3>1, <3>2, ChainGrows
  <2> QED BY <2>8, <2>9, <2>10, <2>11 DEF ChainInv
<1> QED BY <1>2, <1>5, <1>6

\* The loop's steps leave "up" alone; faults are counted one at a time.
LEMMA FaultStep ==
    ASSUME Alone, IInv, faults \in Nat, [Next]_vars
    PROVE  /\ faults' = faults \/ faults' = faults + 1
           /\ ~up' /\ faults' = 0 =>
                 ~up /\ faults = 0 /\ segments' = segments /\ manifests' = manifests
<1>1. CASE UNCHANGED vars
  BY <1>1 DEF vars
<1>2. CASE \E puts, dels \in SUBSET Keys : Write(puts, dels)
  BY <1>2 DEF Write
<1>3. CASE RunStep
  <2>1. CASE ShipRead \/ ShipCursor \/ ShipPrune \/ StartupFails
    BY <2>1 DEF ShipRead, ShipCursor, ShipPrune, StartupFails, At, Fault
  <2>2. CASE ShipPut
    BY <2>2 DEF ShipPut, At, Fault
  <2> QED BY <1>3, <2>1, <2>2 DEF RunStep
<1>4. CASE \E t \in Threads : SnapBegin(t) \/ SnapStep(t)
  <2>1. SnapBegin("run") \/ SnapStep("run")
    BY <1>4 DEF Alone
  <2>2. CASE SnapBegin("run") \/ SnapIndex("run") \/ SnapCopy("run") \/ SnapUpload("run") \/ SnapManifest("run")
    BY <2>2 DEF SnapBegin, SnapIndex, SnapCopy, SnapUpload, SnapManifest, At, Fault
  <2>3. CASE SnapLoad("run")
    BY <2>3 DEF SnapLoad, At, Fault, node, sink
  <2>4. CASE SnapBump("run")
    BY <2>4 DEF SnapBump, At, Fault, node, sink
  <2>5. CASE SnapOldest("run")
    BY <2>5 DEF SnapOldest, At, Fault, node, sink
  <2>6. CASE SnapDelSnap("run")
    BY <2>6 DEF SnapDelSnap, At, Fault, node, sink
  <2>7. CASE SnapDelManifest("run")
    BY <2>7 DEF SnapDelManifest, At, Fault, node, sink
  <2>8. CASE SnapPruneSegs("run")
    BY <2>8 DEF SnapPruneSegs, At, Fault, node, sink
  <2> QED BY <2>1, <2>2, <2>3, <2>4, <2>5, <2>6, <2>7, <2>8 DEF SnapStep
<1>5. CASE Crash \/ Boot
  BY <1>5 DEF Crash, Boot, Fault
<1>6. CASE \/ \E m \in manifests, skip \in BOOLEAN : Stage(m, skip)
           \/ LoseDisk \/ RestoreDone \/ RestoreFails \/ ReplayFails
  BY <1>6, NoRestore
<1> QED BY <1>1, <1>2, <1>3, <1>4, <1>5, <1>6 DEF Next

LEMMA OnlyBootRises ==
    ASSUME Alone, IInv, [Next]_vars, ~up, up'
    PROVE  \/ IsMax(shipped', InSinkIndexes)
           \/ Fault /\ shipped' = 0
<1>1. CASE UNCHANGED vars
  BY <1>1 DEF vars
<1>2. CASE \E puts, dels \in SUBSET Keys : Write(puts, dels)
  BY <1>2 DEF Write
<1>3. CASE RunStep
  BY <1>3 DEF RunStep, ShipRead, ShipPut, ShipCursor, ShipPrune, StartupFails, At
<1>4. CASE \E t \in Threads : SnapBegin(t) \/ SnapStep(t)
  <2>1. SnapBegin("run") \/ SnapStep("run")
    BY <1>4 DEF Alone
  <2> QED BY <2>1 DEF SnapStep, SnapBegin, SnapIndex, SnapCopy, SnapUpload, SnapManifest, SnapLoad,
                      SnapBump, SnapDelSnap, SnapDelManifest, SnapOldest, SnapPruneSegs, At
<1>5. CASE Crash \/ Boot
  BY <1>5 DEF Crash, Boot
<1>6. CASE \/ \E m \in manifests, skip \in BOOLEAN : Stage(m, skip)
           \/ LoseDisk \/ RestoreDone \/ RestoreFails \/ ReplayFails
  BY <1>6, NoRestore
<1> QED BY <1>1, <1>2, <1>3, <1>4, <1>5, <1>6 DEF Next

\* What goes from the sink is below what stays: the cursor's index is kept.
LEMMA ChainShrinks ==
    ASSUME IInv, ChainInv, IsMax(shipped, InSinkIndexes), st' = st,
           InSinkIndexes' \subseteq InSinkIndexes, shipped \in InSinkIndexes',
           segments' \subseteq segments,
           \A m \in manifests' : IsNewest(m)' => /\ m \in manifests /\ IsNewest(m)
                                                 /\ Above(m.index)' = Above(m.index)
    PROVE  /\ IsMax(shipped, InSinkIndexes') /\ LogDense'
           /\ \A s \in segments' : s.from <= s.to
           /\ \A m \in manifests' : IsNewest(m)' => Chained(m.index)'
<1>1. IsMax(shipped, InSinkIndexes')
  BY DEF IsMax
<1>2. LogDense'
  <2> SUFFICES ASSUME NEW i \in 1..st.index
               PROVE  (\E j \in InSinkIndexes' : j >= i) \/ \E c \in st.log : c.index = i
    BY DEF LogDense
  <2>1. CASE \E c \in st.log : c.index = i
    BY <2>1
  <2>2. ASSUME NEW j \in InSinkIndexes, j >= i
        PROVE  shipped >= i
    <3>1. j \in Nat /\ shipped \in Nat /\ i \in Nat /\ j <= shipped
      BY DEF IsMax, InSinkIndexes, IInv, Typed, SegInv, ManInv
    <3> QED BY <2>2, <3>1
  <2> QED BY <2>1, <2>2 DEF ChainInv, LogDense
<1>3. \A m \in manifests' : IsNewest(m)' => Chained(m.index)'
  BY DEF ChainInv, Chained
<1> QED BY <1>1, <1>2, <1>3 DEF ChainInv

\* A snapshot's manifest is stamped at or above the cursor: nothing lies above it.
LEMMA ChainSnapManifest ==
    ASSUME Gapless, IInv, ChainInv, SnapManifest("run")
    PROVE  ChainInv'
<1>1. /\ up /\ up' = up /\ st' = st /\ shipped' = shipped /\ segments' = segments /\ Loop.pc = "manifest"
  BY DEF SnapManifest, At, Loop, node
<1>2. /\ IsMax(shipped, InSinkIndexes) /\ shipped \in Nat /\ Loop.index \in Nat /\ shipped <= Loop.index
      /\ Loop.id \in Nat /\ \A m \in manifests : m.id \in Nat /\ m.id < Loop.id
  BY <1>1 DEF ChainInv, CursorTop, IInv, Typed, JobInv, ManInv
<1>3. CASE manifests' = manifests /\ Return("run")
  <2>1. Loop'.pc = "idle" /\ InSinkIndexes' = InSinkIndexes
    BY <1>1, <1>3 DEF Return, Loop, Idle, InSinkIndexes, IInv, JobInv
  <2>2. CursorTop'
    BY <1>1, <1>2, <2>1 DEF CursorTop
  <2> QED BY <1>1, <1>3, <2>2, ChainFrame
<1>4. CASE /\ manifests' = manifests \cup {[id |-> Loop.id, index |-> Loop.index]}
           /\ job' = [job EXCEPT !["run"] = [job["run"] EXCEPT !.pc = "load", !.copy = {}]]
  <2>1. PICK new : new = [id |-> Loop.id, index |-> Loop.index]
    OBVIOUS
  <2>2. new.id = Loop.id /\ new.index = Loop.index /\ manifests' = manifests \cup {new}
    BY <1>4, <2>1
  <2>3. InSinkIndexes' = InSinkIndexes \cup {Loop.index}
    BY <1>1, <2>2 DEF InSinkIndexes
  <2>4. \A j \in InSinkIndexes : j \in Nat /\ j <= Loop.index
    <3>1. \A j \in InSinkIndexes : j \in Nat /\ j <= shipped
      BY <1>2 DEF IsMax, InSinkIndexes, IInv, SegInv, ManInv
    <3> QED BY <1>2, <3>1
  <2>5. IsMax(Loop.index, InSinkIndexes')
    BY <1>2, <2>3, <2>4 DEF IsMax
  <2>6. Loop'.pc = "load" /\ Loop'.index = Loop.index /\ MaxOf(shipped, Loop.index) = Loop.index
    BY <1>2, <1>4 DEF Loop, MaxOf, IInv, JobInv
  <2>7. CursorTop'
    BY <1>1, <2>5, <2>6 DEF CursorTop
  <2>8. LogDense'
    BY <1>1, <2>3 DEF ChainInv, LogDense
  <2>9. ASSUME NEW m \in manifests', IsNewest(m)'
        PROVE  Chained(m.index)'
    <3>1. m = new
      <4>1. new \in manifests' /\ new.id <= m.id
        BY <2>2, <2>9 DEF IsNewest
      <4>2. ~(m \in manifests)
        BY <1>2, <2>2, <4>1
      <4> QED BY <2>2, <4>2
    <3>2. \A s \in segments : s.to \in InSinkIndexes
      BY DEF InSinkIndexes
    <3>3. Above(m.index)' = {}
      BY <1>1, <1>2, <2>2, <2>4, <3>1, <3>2 DEF Above
    <3> QED BY <3>3 DEF Chained
  <2> QED BY <1>1, <2>7, <2>8, <2>9 DEF ChainInv
<1> QED BY <1>3, <1>4 DEF SnapManifest, Loop, Gapless

LEMMA ChainSnapDelManifest ==
    ASSUME IInv, ChainInv, SnapDelManifest("run")
    PROVE  ChainInv'
<1>1. /\ up /\ up' = up /\ st' = st /\ shipped' = shipped /\ segments' = segments
      /\ Loop.pc = "delManifest" /\ Loop'.pc = "delSnap"
  BY DEF SnapDelManifest, At, Loop, node, IInv, JobInv
<1>2. PICK v \in Loop.victims : manifests' = {m \in manifests : m.id # v} \/ manifests' = manifests
  BY DEF SnapDelManifest, Loop
<1>3. PICK m \in manifests : /\ IsNewest(m) /\ m.id # v /\ m.index \in Nat
                             /\ \A n \in manifests : n.index \in Nat /\ n.index <= m.index
  BY <1>1, NewestCovers
<1>4. manifests' \subseteq manifests /\ m \in manifests'
  BY <1>2, <1>3
<1>5. IsMax(shipped, InSinkIndexes) /\ shipped \in Nat
  BY <1>1 DEF ChainInv, CursorTop, IInv, Typed
<1>6. InSinkIndexes' \subseteq InSinkIndexes
  BY <1>1, <1>4 DEF InSinkIndexes
<1>7. shipped \in InSinkIndexes'
  <2>1. CASE \E n \in manifests : shipped = n.index
    <3>1. m.index <= shipped
      BY <1>5 DEF IsMax, InSinkIndexes
    <3>2. shipped = m.index
      BY <1>3, <1>5, <2>1, <3>1
    <3> QED BY <1>4, <3>2 DEF InSinkIndexes
  <2> QED BY <1>1, <1>5, <2>1 DEF IsMax, InSinkIndexes
<1>8. \A n \in manifests' : IsNewest(n)' => /\ n \in manifests /\ IsNewest(n)
                                            /\ Above(n.index)' = Above(n.index)
  <2> SUFFICES ASSUME NEW n \in manifests', IsNewest(n)'
               PROVE  n \in manifests /\ IsNewest(n) /\ Above(n.index)' = Above(n.index)
    OBVIOUS
  <2>1. n \in manifests /\ m.id <= n.id /\ n.id <= m.id /\ m.id \in Nat /\ n.id \in Nat
    BY <1>3, <1>4 DEF IsNewest, IInv, ManInv
  <2>2. n.id = m.id
    BY <2>1
  <2> QED BY <1>1, <1>3, <2>1, <2>2 DEF IsNewest, Above
<1>9. CursorTop'
  BY <1>1, <1>4, <1>5, <1>6, <1>7 DEF CursorTop, IsMax
<1> QED BY <1>1, <1>5, <1>6, <1>7, <1>8, <1>9, ChainShrinks DEF ChainInv

LEMMA ChainSnapPruneSegs ==
    ASSUME IInv, ChainInv, SnapPruneSegs("run")
    PROVE  ChainInv'
<1>1. /\ up /\ up' = up /\ st' = st /\ shipped' = shipped /\ manifests' = manifests
      /\ Loop.pc = "pruneSegs" /\ Loop'.pc = "idle" /\ Loop.index \in Nat
      /\ Loop.index = 0 \/ \E m \in manifests : m.index >= Loop.index
  BY DEF SnapPruneSegs, At, Return, Loop, Idle, node, IInv, JobInv
<1>2. segments' \subseteq segments /\ \A s \in segments : s \in segments' \/ s.to <= Loop.index
  BY DEF SnapPruneSegs, Covered, Loop
<1>3. IsMax(shipped, InSinkIndexes) /\ shipped \in Nat
  BY <1>1 DEF ChainInv, CursorTop, IInv, Typed
<1>4. InSinkIndexes' \subseteq InSinkIndexes
  BY <1>1, <1>2 DEF InSinkIndexes
<1>5. \A m \in manifests : m.index \in Nat /\ m.index <= shipped
  BY <1>3 DEF IsMax, InSinkIndexes, IInv, ManInv
<1>6. \A s \in segments : s.to \in Nat
  BY DEF IInv, SegInv
<1>7. shipped \in InSinkIndexes'
  <2>1. ASSUME NEW s \in segments, shipped = s.to, s \notin segments'
        PROVE  shipped = 0 \/ \E m \in manifests : shipped = m.index
    BY <1>1, <1>2, <1>3, <1>5, <1>6, <2>1
  <2> QED BY <1>1, <1>3, <2>1 DEF IsMax, InSinkIndexes
<1>8. \A m \in manifests' : IsNewest(m)' => /\ m \in manifests /\ IsNewest(m)
                                            /\ Above(m.index)' = Above(m.index)
  <2> SUFFICES ASSUME NEW m \in manifests', IsNewest(m)'
               PROVE  m \in manifests /\ IsNewest(m) /\ Above(m.index)' = Above(m.index)
    OBVIOUS
  <2>1. m \in manifests /\ IsNewest(m)
    BY <1>1 DEF IsNewest
  <2>2. m.index \in Nat /\ \A n \in manifests : n.index \in Nat /\ n.index <= m.index
    BY <2>1, NewestHighest
  <2>3. Loop.index <= m.index
    BY <1>1, <2>2
  <2>4. \A s \in segments : s.to > m.index => s \in segments'
    BY <1>1, <1>2, <1>6, <2>2, <2>3
  <2> QED BY <1>2, <2>1, <2>4 DEF Above
<1>9. CursorTop'
  BY <1>1, <1>3, <1>4, <1>7 DEF CursorTop, IsMax
<1> QED BY <1>1, <1>2, <1>3, <1>4, <1>7, <1>8, <1>9, ChainShrinks DEF ChainInv

\* Every step keeps the chain, a boot if it could list the sink.
LEMMA ChainStep ==
    ASSUME Gapless, ReplicationAssumption, KeysAssumption, IInv, ChainInv, [Next]_vars, Listed
    PROVE  ChainInv'
<1>1. CASE UNCHANGED vars
  BY <1>1, ChainFrame DEF vars, ChainInv, CursorTop, Loop, InSinkIndexes
<1>2. CASE \E puts, dels \in SUBSET Keys : Write(puts, dels)
  BY <1>2, ChainWrite
<1>3. CASE RunStep
  BY <1>3, ChainShipRead, ChainShipPut, ChainShipCursor, ChainShipPrune, ChainSnapQuiet
     DEF RunStep, Gapless
<1>4. CASE \E t \in Threads : SnapBegin(t) \/ SnapStep(t)
  <2>1. Alone /\ (SnapBegin("run") \/ SnapStep("run"))
    BY <1>4 DEF Gapless, Alone
  <2> QED BY <2>1, ChainSnapQuiet, ChainSnapManifest, ChainSnapLoad, ChainSnapBump,
             ChainSnapDelManifest, ChainSnapPruneSegs DEF SnapStep
<1>5. CASE Crash \/ Boot
  BY <1>5, ChainCrashBoot
<1>6. CASE \/ \E m \in manifests, skip \in BOOLEAN : Stage(m, skip)
           \/ LoseDisk \/ RestoreDone \/ RestoreFails \/ ReplayFails
  BY <1>6, NoRestore DEF Gapless
<1> QED BY <1>1, <1>2, <1>3, <1>4, <1>5, <1>6 DEF Next

\* replay's check passes on a chain: walked in order, each segment begins where
\* the one before it ends.
LEMMA ChainedIsNotRefused ==
    ASSUME SegInv, \A s \in segments : s.from <= s.to, NEW from \in Nat, Chained(from)
    PROVE  ~Refused(from)
<1>1. \A s \in Above(from) : s.from \in Nat /\ s.to \in Nat /\ s.from <= s.to /\ s.to > from
  BY DEF Above, SegInv
<1>2. ASSUME NEW s \in Above(from), NEW w \in Above(from), SegBefore(w, s)
      PROVE  w.to < s.from
  BY <1>1, <1>2 DEF Chained, SegBefore
<1>3. ASSUME NEW s \in Above(from) PROVE Links(s, from)
  <2> DEFINE earlier == {u \in Above(from) : SegBefore(u, s)}
  <2>1. CASE earlier = {}
    <3>1. ASSUME NEW u \in Above(from), s.from = u.to + 1 PROVE FALSE
      <4>1. SegBefore(u, s)
        BY <1>1, <3>1 DEF SegBefore
      <4> QED BY <2>1, <4>1
    <3>2. s.from = from + 1
      BY <3>1 DEF Chained
    <3>3. s.from <= from + 1
      BY <1>1, <3>2
    <3> QED BY <2>1, <3>3 DEF Links
  <2>2. CASE earlier # {}
    <3>1. PICK w \in Above(from) : SegBefore(w, s)
      BY <2>2
    <3>2. s.from # from + 1
      BY <1>1, <1>2, <3>1
    <3>3. PICK u \in Above(from) : s.from = u.to + 1
      BY <3>2 DEF Chained
    <3>4. u \in earlier
      BY <1>1, <3>3 DEF SegBefore
    <3>5. ASSUME NEW x \in earlier PROVE x = u \/ SegBefore(x, u)
      <4>1. x.to < s.from
        BY <1>2
      <4>2. x = u \/ x.to < u.from \/ u.to < x.from
        BY DEF Chained
      <4> QED BY <1>1, <3>3, <4>1, <4>2 DEF SegBefore
    <3> QED BY <2>2, <3>3, <3>4, <3>5 DEF Links
  <2> QED BY <2>1, <2>2
<1> QED BY <1>3 DEF Refused, Linked

LEMMA ChainRestores ==
    ASSUME IInv, ChainInv
    PROVE  NewestRestores
<1> SUFFICES ASSUME NEW m \in manifests, IsNewest(m)
             PROVE  Intact(m.id) /\ ~Refused(m.index)
  BY DEF NewestRestores
<1>1. PICK n \in manifests : IsNewest(n) /\ Intact(n.id)
  BY DEF IInv, ManInv
<1>2. m.id = n.id
  BY <1>1 DEF IsNewest, IInv, ManInv
<1>3. ~Refused(m.index)
  BY ChainedIsNotRefused DEF IInv, ManInv, ChainInv
<1> QED BY <1>1, <1>2, <1>3

LEMMA ChainInit ==
    ASSUME Init
    PROVE  ChainInv
<1>1. st.index = 0 /\ segments = {} /\ manifests = {} /\ ~up
  BY DEF Init, EmptyStore
<1> QED BY <1>1 DEF ChainInv, LogDense, CursorTop

\* The default `kanea restore` works at every moment: the newest archive can be
\* fetched and nothing is missing from the chain of segments above it, whatever
\* the crashes, the sink's errors, the retention and the read limit, as long as
\* every boot lists the sink (Resume), a batch changes something and a failed Put
\* has not landed.
THEOREM NewestAlwaysRestores ==
    ASSUME Gapless
    PROVE  Spec /\ [][Listed]_vars => []NewestRestores
<1>1. Init => ChainInv
  BY ChainInit
<1>2. IInv /\ ChainInv /\ [Next]_vars /\ [Listed]_vars => ChainInv'
  <2> SUFFICES ASSUME IInv, ChainInv, [Next]_vars, [Listed]_vars
               PROVE  ChainInv'
    OBVIOUS
  <2>1. CASE UNCHANGED vars
    BY <2>1, ChainFrame DEF vars, ChainInv, CursorTop, Loop, InSinkIndexes
  <2> QED BY <2>1, ChainStep, ReplicationAssumption, KeysAssumption
<1>3. IInv /\ ChainInv => NewestRestores
  BY ChainRestores
<1>4. Spec => []IInv
  BY ReplicationInvariant DEF Gapless
<1> QED BY <1>1, <1>2, <1>3, <1>4, PTL DEF Spec

\* A boot that could not list the sink takes a fault, and after no other fault it
\* is the first boot, of an empty sink.
FirstBoot == ~up /\ faults = 0 => segments = {} /\ manifests = {}

\* The same without a condition on the boots: one fault of any kind, at any step,
\* does not keep the newest archive from being restored.
THEOREM OneFaultStillRestores ==
    ASSUME Gapless
    PROVE  Spec => [](faults <= 1 => NewestRestores)
<1> DEFINE Inv == faults \in Nat /\ FirstBoot /\ (faults <= 1 => ChainInv)
<1>1. Init => Inv
  <2>1. Init => faults \in Nat /\ FirstBoot
    BY DEF Init, FirstBoot
  <2> QED BY <2>1, ChainInit
<1>2. IInv /\ Inv /\ [Next]_vars => Inv'
  <2> SUFFICES ASSUME IInv, Inv, [Next]_vars
               PROVE  Inv'
    OBVIOUS
  <2>1. /\ faults' = faults \/ faults' = faults + 1
        /\ ~up' /\ faults' = 0 => ~up /\ faults = 0 /\ segments' = segments /\ manifests' = manifests
    BY FaultStep DEF Gapless
  <2>2. FirstBoot'
    BY <2>1 DEF FirstBoot
  <2>3. ASSUME faults' <= 1 PROVE ChainInv'
    <3>1. faults <= 1
      BY <2>1, <2>3
    <3>2. CASE Listed
      BY <3>1, <3>2, ChainStep, ReplicationAssumption, KeysAssumption
    <3>3. CASE ~Listed
      <4>1. ~up /\ up' /\ ~IsMax(shipped', InSinkIndexes)
        BY <3>3 DEF Listed
      <4>2. faults = 0 /\ shipped' = 0
        BY <2>3, <4>1, OnlyBootRises DEF Gapless, Fault
      <4>3. InSinkIndexes = {0}
        BY <4>1, <4>2 DEF FirstBoot, InSinkIndexes
      <4> QED BY <4>1, <4>2, <4>3 DEF IsMax
    <3> QED BY <3>2, <3>3
  <2> QED BY <2>1, <2>2, <2>3
<1>3. IInv /\ Inv => (faults <= 1 => NewestRestores)
  BY ChainRestores
<1>4. Spec => []IInv
  BY ReplicationInvariant DEF Gapless
<1> QED BY <1>1, <1>2, <1>3, <1>4, PTL DEF Spec

-----------------------------------------------------------------------------
(* RestoreNotStale: what the log, the sink and the threads hold.           *)

\* The setting of RestoreIsNotStale: as in Alone, with any threads.
Forward == MaxBatch = 1 /\ MaxRestores = 0

\* What the log, the segments and the archives say is what happened.
TrueChange(c) == c.index \in 1..st.index /\ c.val = st.past[c.index][c.key]

TrueCopy(x) == x.index \in 0..st.index /\ x.data = st.past[x.index]

\* A segment holds every change made from its first index to its last.
TrueSegment(s) ==
    /\ s.from \in Nat /\ s.to \in Nat /\ s.from <= s.to /\ s.to <= st.index
    /\ \A c \in s.changes : TrueChange(c) /\ c.index <= s.to
    /\ \A i \in 1..st.index, k \in Keys :
          s.from <= i /\ i <= s.to /\ Changed(i, k) => \E c \in s.changes : c.index = i /\ c.key = k

\* A copy is never older than its manifest says: the index is read before it.
TrueArchives ==
    /\ \A m \in manifests : m.id \in Nat /\ m.id < nextId /\ m.index \in Nat /\ m.index <= st.index
    /\ \A s \in snaps :
          /\ s.id \in Nat /\ s.id < nextId
          /\ TrueCopy(s.st)
          /\ \A m \in manifests : m.id = s.id => m.index <= s.st.index

\* A thread that takes a snapshot has an id of its own, with nothing under it in
\* the sink but what it has put there.
Taking(t) == job[t].pc \in {"index", "copy", "upload", "manifest"}

TrueJob(t) ==
    /\ DOMAIN job[t] = {"pc", "batch", "id", "index", "copy", "victims"}
    /\ job[t].id \in Nat /\ job[t].index \in Nat /\ job[t].index <= st.index
    /\ Taking(t) => /\ job[t].id < nextId
                    /\ \A m \in manifests : m.id # job[t].id
                    /\ \A u \in Threads : u # t /\ Taking(u) => job[u].id # job[t].id
    /\ job[t].pc \in {"index", "copy", "upload"} => \A s \in snaps : s.id # job[t].id
    /\ job[t].pc = "upload" => \A x \in job[t].copy : TrueCopy(x) /\ job[t].index <= x.index
    /\ job[t].pc = "manifest" => \A s \in snaps : s.id = job[t].id => job[t].index <= s.st.index

\* A batch that is about to be put is the whole log between its ends.
TrueBatch ==
    Loop.pc = "put" =>
        /\ Loop.batch \subseteq st.log
        /\ \A c, e \in Loop.batch, d \in st.log :
              c.index <= d.index /\ d.index <= e.index => d \in Loop.batch

\* A node that keeps its disk and has no restore staged.
Kept ==
    /\ DOMAIN st = {"index", "data", "log", "past"}
    /\ st.index \in Nat
    /\ st.data \in [Keys -> Nat]
    /\ st.log \subseteq Change /\ IsFiniteSet(st.log)
    /\ st.past \in [0..st.index -> [Keys -> Nat]]
    /\ st.past[st.index] = st.data
    /\ exists = TRUE /\ request = {} /\ restores = 0
    /\ writes \in Nat /\ nextId \in Nat /\ shipped \in Nat /\ shipped <= st.index

HistInv ==
    /\ Kept
    /\ LogInv
    /\ \A c \in st.log : TrueChange(c)
    /\ \A s \in segments : TrueSegment(s)
    /\ TrueArchives
    /\ DOMAIN job = Threads
    /\ \A t \in Threads : TrueJob(t)
    /\ TrueBatch

\* A write adds an index to the history and, if it changed its one record, an
\* entry to the log.
LEMMA WriteLogs ==
    ASSUME MaxBatch = 1, KeysAssumption, Kept, LogInv,
           NEW puts \in SUBSET Keys, NEW dels \in SUBSET Keys, Write(puts, dels)
    PROVE  /\ Kept' /\ LogInv'
           /\ st'.index = st.index + 1 /\ st.log \subseteq st'.log
           /\ \A i \in 0..st.index : st'.past[i] = st.past[i]
           /\ \A c \in st'.log : c \in st.log \/ (c.index = st'.index /\ c.val = st'.past[c.index][c.key])
<1> DEFINE v == writes + 1
           batch == [k \in puts \cup dels |-> IF k \in puts THEN v ELSE Absent]
<1>0. PICK n : n = st.index + 1
  OBVIOUS
<1> DEFINE new == {[index |-> n, key |-> k, val |-> batch[k]] : k \in Effective(st, batch)}
<1>1. PICK key \in Keys : puts \cup dels = {key}
  <2>1. IsFiniteSet(puts \cup dels)
    BY FS_Subset DEF KeysAssumption
  <2>2. Cardinality(puts \cup dels) = 1
    BY DEF Write
  <2> QED BY <2>1, <2>2, FS_Singleton
<1>2. DOMAIN batch = {key} /\ batch[key] \in Nat
  BY <1>1 DEF Kept, Absent
<1>3. /\ st' = Apply(st, batch) /\ exists' = exists /\ request' = request /\ restores' = restores
      /\ writes' = v /\ nextId' = nextId /\ shipped' = shipped
  BY DEF Write
<1>4. st.index \in Nat /\ n \in Nat /\ n = st.index + 1
  BY <1>0 DEF Kept
<1>5. Effective(st, batch) \subseteq {key}
  BY <1>2 DEF Effective
<1> HIDE DEF batch
<1>6. /\ DOMAIN st' = {"index", "data", "log", "past"}
      /\ st'.index = n /\ st'.data = Updated(st, batch) /\ st'.log = st.log \cup new
      /\ st'.past = [i \in 0..n |-> IF i = n THEN Updated(st, batch) ELSE st.past[i]]
  BY <1>0, <1>3 DEF Apply
<1>7. Updated(st, batch) \in [Keys -> Nat]
  BY <1>2 DEF Updated, Kept
<1>8. /\ \A i \in 0..st.index : st'.past[i] = st.past[i]
      /\ st'.past[n] = Updated(st, batch) /\ st'.past[n - 1] = st.data
  BY <1>4, <1>6, <1>7 DEF Kept
<1>9. st'.past \in [0..n -> [Keys -> Nat]]
  BY <1>4, <1>6, <1>7 DEF Kept
<1> HIDE DEF new
<1>10. new = {} \/ new = {[index |-> n, key |-> key, val |-> batch[key]]}
  BY <1>5 DEF new
<1>11. new \subseteq Change /\ IsFiniteSet(new) /\ \A c \in new : c.index = n /\ c.key = key /\ c.val = batch[key]
  <2>1. IsFiniteSet(new)
    BY <1>10, FS_EmptySet, FS_Singleton
  <2> QED BY <1>2, <1>4, <1>10, <2>1 DEF Change
<1>12. Kept'
  <2>1. IsFiniteSet(st.log \cup new)
    BY <1>11, FS_Union DEF Kept
  <2>2. st'.past[st'.index] = st'.data
    BY <1>6, <1>8
  <2>3. shipped' \in Nat /\ writes' \in Nat /\ nextId' \in Nat /\ st'.index \in Nat
    BY <1>3, <1>4, <1>6 DEF Kept
  <2>4. st'.past \in [0..st'.index -> [Keys -> Nat]] /\ st'.data \in [Keys -> Nat]
    BY <1>6, <1>7, <1>9
  <2>5. st'.log \subseteq Change /\ IsFiniteSet(st'.log)
    BY <1>6, <1>11, <2>1 DEF Kept
  <2>6. shipped' <= st'.index
    BY <1>3, <1>4, <1>6 DEF Kept
  <2> QED BY <1>3, <1>6, <2>2, <2>3, <2>4, <2>5, <2>6 DEF Kept
<1>13. \A i \in 1..st.index, k \in Keys : Changed(i, k)' <=> Changed(i, k)
  BY <1>4, <1>8 DEF Changed
<1>14. ASSUME NEW k \in Keys, Changed(n, k)'
       PROVE  k = key /\ st'.past[n][k] = batch[key]
              /\ [index |-> n, key |-> key, val |-> batch[key]] \in new
  <2>1. Updated(st, batch)[k] # st.data[k]
    BY <1>4, <1>8, <1>14 DEF Changed
  <2>2. k = key /\ Updated(st, batch)[k] = batch[key]
    BY <1>2, <2>1 DEF Updated
  <2>3. key \in Effective(st, batch)
    BY <1>2, <2>1, <2>2 DEF Effective, Absent
  <2>4. [index |-> n, key |-> key, val |-> batch[key]] \in new
    BY <2>3 DEF new
  <2> QED BY <1>8, <2>2, <2>4
<1>15. \A i \in 1..st.index, k \in Keys : Holds(st.log, i, k) => Holds(st.log, i, k)'
  BY <1>4, <1>6, <1>8 DEF Holds
<1>16. ASSUME NEW k \in Keys, Changed(n, k)'
       PROVE  Holds(st.log, n, k)'
  <2>1. PICK c \in new : TRUE
    BY <1>14, <1>16
  <2>2. c \in st'.log /\ c.index = n /\ c.key = k /\ c.val = st'.past[n][k]
    BY <1>6, <1>11, <1>14, <1>16
  <2> QED BY <2>2 DEF Holds
<1>17. n = st.index + 1 /\ \A i \in 1..n : i \in 1..st.index \/ i = n
  BY <1>4
<1>18. LogInv'
  <2>1. ASSUME NEW c \in st'.log
        PROVE  /\ c.index \in 1..n
               /\ \A d \in st'.log : c.index = d.index => c = d
    <3>1. \A d \in st.log : d.index \in 1..st.index
      BY DEF LogInv
    <3>2. \A d, e \in new : d = e
      BY <1>10
    <3>3. \A d, e \in st.log : d.index = e.index => d = e
      BY DEF LogInv
    <3> QED BY <1>4, <1>6, <1>11, <3>1, <3>2, <3>3
  <2>2. ASSUME NEW c \in st'.log, NEW i \in 1..n, NEW k \in Keys, Changed(i, k)'
        PROVE  /\ c.index = i => c.key = k /\ c.val = st'.past[i][k]
               /\ c.index < i => Holds(st.log, i, k)'
    <3>1. CASE i \in 1..st.index /\ c \in st.log
      <4>1. Changed(i, k)
        BY <1>13, <2>2, <3>1
      <4>2. c.index = i => c.key = k /\ c.val = st.past[i][k]
        BY <3>1, <4>1 DEF LogInv
      <4>3. c.index < i => Holds(st.log, i, k)
        BY <3>1, <4>1 DEF LogInv
      <4>4. st'.past[i] = st.past[i]
        BY <1>4, <1>8, <3>1
      <4> QED BY <1>15, <3>1, <4>2, <4>3, <4>4
    <3>2. CASE i \in 1..st.index /\ c \in new
      BY <1>4, <1>11, <1>17, <3>2
    <3>3. CASE i = n /\ c \in st.log
      <4>1. c.index \in 1..st.index
        BY <3>3 DEF LogInv
      <4>2. c.index # i
        BY <1>4, <3>3, <4>1
      <4>3. Holds(st.log, n, k)'
        BY <1>16, <2>2, <3>3
      <4> QED BY <3>3, <4>2, <4>3
    <3>4. CASE i = n /\ c \in new
      BY <1>4, <1>11, <1>14, <1>17, <2>2, <3>4
    <3> QED BY <1>6, <1>17, <3>1, <3>2, <3>3, <3>4
  <2> QED BY <1>6, <2>1, <2>2 DEF LogInv
<1>19. Updated(st, batch)[key] = batch[key]
  BY <1>2 DEF Updated
<1>20. \A c \in st'.log : c \in st.log \/ (c.index = st'.index /\ c.val = st'.past[c.index][c.key])
  BY <1>6, <1>8, <1>11, <1>19
<1> QED BY <1>4, <1>6, <1>8, <1>12, <1>18, <1>20

\* Pruning takes a lower part of the log.
LEMMA PruneLogs ==
    ASSUME Kept, LogInv, NEW upto \in Nat, st' = PruneChanges(st, upto)
    PROVE  LogInv'
<1>1. /\ st'.index = st.index /\ st'.past = st.past /\ st'.log = Pending(st, upto)
  BY DEF PruneChanges, Kept
<1>2. /\ st'.log \subseteq st.log
      /\ \A c \in st'.log : c.index > upto
      /\ \A c \in st.log : c.index > upto => c \in st'.log
  BY <1>1 DEF Pending
<1>3. \A i, k : Changed(i, k)' <=> Changed(i, k)
  BY <1>1 DEF Changed
<1>4. ASSUME NEW c \in st'.log, NEW i \in 1..st.index, NEW k \in Keys, Changed(i, k), c.index < i
      PROVE  Holds(st.log, i, k)'
  <2>1. c \in st.log /\ c.index > upto /\ Holds(st.log, i, k)
    BY <1>2, <1>4 DEF LogInv
  <2>2. PICK d \in st.log : d.index = i /\ d.key = k /\ d.val = st.past[i][k]
    BY <2>1 DEF Holds
  <2>3. c.index \in Nat
    BY <2>1 DEF Kept, Change
  <2>4. d \in st'.log
    BY <1>2, <1>4, <2>1, <2>2, <2>3
  <2> QED BY <1>1, <2>2, <2>4 DEF Holds
<1> QED BY <1>1, <1>2, <1>3, <1>4 DEF LogInv

\* The history only grows: what was true of it stays true.
PastKept ==
    /\ st'.index \in Nat /\ st'.index >= st.index
    /\ \A i \in 0..st.index : st'.past[i] = st.past[i]

LEMMA StaysTrue ==
    ASSUME Kept, PastKept
    PROVE  /\ \A c : TrueChange(c) => TrueChange(c)'
           /\ \A x : TrueCopy(x) => TrueCopy(x)'
           /\ \A s : TrueSegment(s) => TrueSegment(s)'
<1>1. st.index \in Nat /\ st'.index \in Nat /\ st'.index >= st.index
  BY DEF Kept, PastKept
<1>2. \A c : TrueChange(c) => TrueChange(c)'
  BY <1>1 DEF TrueChange, PastKept
<1>3. \A x : TrueCopy(x) => TrueCopy(x)'
  BY <1>1 DEF TrueCopy, PastKept
<1>4. ASSUME NEW s, TrueSegment(s) PROVE TrueSegment(s)'
  <2>1. s.from \in Nat /\ s.to \in Nat /\ s.from <= s.to /\ s.to <= st.index /\ s.to <= st'.index
    BY <1>1, <1>4 DEF TrueSegment
  <2>2. \A c \in s.changes : TrueChange(c)' /\ c.index <= s.to
    BY <1>2, <1>4 DEF TrueSegment
  <2>3. ASSUME NEW i \in 1..st'.index, NEW k \in Keys, s.from <= i, i <= s.to, Changed(i, k)'
        PROVE  \E c \in s.changes : c.index = i /\ c.key = k
    <3>1. i \in 1..st.index /\ i \in 0..st.index /\ i - 1 \in 0..st.index
      BY <1>1, <2>1, <2>3
    <3>2. Changed(i, k)
      BY <2>3, <3>1 DEF Changed, PastKept
    <3> QED BY <1>4, <2>3, <3>1, <3>2 DEF TrueSegment
  <2> QED BY <2>1, <2>2, <2>3 DEF TrueSegment
<1> QED BY <1>2, <1>3, <1>4

\* The other threads do not notice a thread that adds nothing under their ids.
LEMMA OthersKept ==
    ASSUME HistInv, PastKept, NEW t \in Threads,
           nextId' \in Nat, nextId' >= nextId,
           \A u \in Threads : u # t => job'[u] = job[u],
           \A m \in manifests' : m \in manifests \/ (Taking(t) /\ m.id = job[t].id),
           \A s \in snaps' : s \in snaps \/ (Taking(t) /\ s.id = job[t].id),
           Taking(t)' => (Taking(t) /\ job'[t].id = job[t].id) \/ job'[t].id = nextId
    PROVE  \A u \in Threads : u # t => TrueJob(u)'
<1> SUFFICES ASSUME NEW u \in Threads, u # t PROVE TrueJob(u)'
  OBVIOUS
<1>1. TrueJob(u) /\ TrueJob(t) /\ job'[u] = job[u] /\ (Taking(u)' <=> Taking(u))
  BY DEF HistInv, Taking
<1>2. st.index \in Nat /\ st'.index \in Nat /\ st'.index >= st.index /\ nextId \in Nat
  BY DEF HistInv, Kept, PastKept
<1>3. DOMAIN job'[u] = {"pc", "batch", "id", "index", "copy", "victims"}
      /\ job'[u].id \in Nat /\ job'[u].index \in Nat /\ job'[u].index <= st'.index
  BY <1>1, <1>2 DEF TrueJob
<1>4. Taking(u) /\ Taking(t) => job[u].id # job[t].id
  BY <1>1 DEF TrueJob
<1>5. ASSUME Taking(u)
      PROVE  /\ job[u].id < nextId' /\ \A m \in manifests' : m.id # job[u].id
             /\ \A w \in Threads : w # u /\ Taking(w)' => job'[w].id # job[u].id
  <2>1. job[u].id \in Nat /\ job[u].id < nextId
    BY <1>1, <1>5 DEF TrueJob
  <2>2. \A m \in manifests' : m.id # job[u].id
    BY <1>1, <1>4, <1>5 DEF TrueJob
  <2>3. ASSUME NEW w \in Threads, w # u, Taking(w)' PROVE job'[w].id # job[u].id
    <3>1. CASE w = t
      BY <1>2, <1>4, <1>5, <2>1, <2>3, <3>1
    <3>2. CASE w # t
      BY <1>1, <1>5, <2>3, <3>2 DEF TrueJob, Taking
    <3> QED BY <3>1, <3>2
  <2> QED BY <1>2, <2>1, <2>2, <2>3
<1>6. job[u].pc \in {"index", "copy", "upload"} => \A s \in snaps' : s.id # job[u].id
  BY <1>1, <1>4 DEF TrueJob, Taking
<1>7. job[u].pc = "upload" => \A x \in job[u].copy : TrueCopy(x)' /\ job[u].index <= x.index
  BY <1>1, StaysTrue DEF TrueJob, HistInv
<1>8. job[u].pc = "manifest" => \A s \in snaps' : s.id = job[u].id => job[u].index <= s.st.index
  BY <1>1, <1>4 DEF TrueJob, Taking
<1> QED BY <1>1, <1>3, <1>5, <1>6, <1>7, <1>8 DEF TrueJob

\* A thread between two rounds, or past its manifest, claims nothing.
LEMMA RestingJob ==
    ASSUME NEW t \in Threads, ~Taking(t)',
           DOMAIN job'[t] = {"pc", "batch", "id", "index", "copy", "victims"},
           job'[t].id \in Nat, job'[t].index \in Nat, job'[t].index <= st'.index
    PROVE  TrueJob(t)'
BY DEF TrueJob, Taking

\* A step of a thread that writes nothing to the file or the log.
LEMMA HistStep ==
    ASSUME HistInv, NEW t \in Threads, st' = st,
           exists' = exists, request' = request, restores' = restores, writes' = writes,
           nextId' \in Nat, nextId' >= nextId, shipped' \in Nat, shipped' <= st.index,
           DOMAIN job' = Threads, \A u \in Threads : u # t => job'[u] = job[u],
           \A s \in segments' : s \in segments \/ TrueSegment(s),
           \A m \in manifests' :
              \/ m \in manifests
              \/ Taking(t) /\ m.id = job[t].id /\ m.index = job[t].index /\ job[t].pc = "manifest",
           \A s \in snaps' :
              s \in snaps \/ (job[t].pc = "upload" /\ s.id = job[t].id /\ s.st \in job[t].copy),
           Taking(t)' => (Taking(t) /\ job'[t].id = job[t].id) \/ job'[t].id = nextId,
           TrueJob(t)', TrueBatch'
    PROVE  HistInv'
<1>1. PastKept
  BY DEF PastKept, HistInv, Kept
<1>2. Kept'
  BY DEF HistInv, Kept
<1>3. LogInv'
  BY DEF HistInv, LogInv, Changed, Holds
<1>4. \A c \in st'.log : TrueChange(c)'
  BY DEF HistInv, TrueChange
<1>5. \A s \in segments' : TrueSegment(s)'
  BY <1>1, StaysTrue DEF HistInv
<1>6. TrueArchives'
  <2>1. TrueJob(t) /\ st.index \in Nat /\ nextId \in Nat /\ TrueArchives
    BY DEF HistInv, Kept
  <2>2. ASSUME NEW m \in manifests'
        PROVE  m.id \in Nat /\ m.id < nextId' /\ m.index \in Nat /\ m.index <= st.index
    BY <2>1 DEF TrueArchives, TrueJob
  <2>3. ASSUME NEW s \in snaps'
        PROVE  s.id \in Nat /\ s.id < nextId' /\ TrueCopy(s.st)
               /\ \A m \in manifests' : m.id = s.id => m.index <= s.st.index
    <3>1. CASE s \in snaps
      <4>1. s.id \in Nat /\ s.id < nextId' /\ TrueCopy(s.st)
        BY <2>1, <3>1 DEF TrueArchives
      <4>2. \A m \in manifests' : m.id = s.id => m.index <= s.st.index
        BY <2>1, <3>1 DEF TrueArchives, TrueJob
      <4> QED BY <4>1, <4>2
    <3>2. CASE job[t].pc = "upload" /\ s.id = job[t].id /\ s.st \in job[t].copy
      <4>1. /\ job[t].id \in Nat /\ job[t].id < nextId /\ TrueCopy(s.st)
            /\ \A m \in manifests : m.id # job[t].id
        BY <2>1, <3>2 DEF TrueJob, Taking
      <4>2. \A m \in manifests' : m \in manifests
        BY <3>2
      <4> QED BY <2>1, <3>2, <4>1, <4>2
    <3> QED BY <3>1, <3>2
  <2>4. \A x : TrueCopy(x) => TrueCopy(x)'
    BY DEF TrueCopy
  <2> QED BY <2>2, <2>3, <2>4 DEF TrueArchives
<1>7. \A u \in Threads : TrueJob(u)'
  <2>1. \A s \in snaps' : s \in snaps \/ (Taking(t) /\ s.id = job[t].id)
    BY DEF Taking
  <2>2. \A u \in Threads : u # t => TrueJob(u)'
    BY <1>1, <2>1, OthersKept
  <2> QED BY <2>2
<1> QED BY <1>2, <1>3, <1>4, <1>5, <1>6, <1>7 DEF HistInv

\* The loop's batch is its own, and the log is as it was.
LEMMA BatchStays ==
    ASSUME HistInv, st' = st, Loop'.pc = "put" => Loop' = Loop
    PROVE  TrueBatch'
BY DEF HistInv, TrueBatch

LEMMA HistShipRead ==
    ASSUME ReplicationAssumption, HistInv, ShipRead
    PROVE  HistInv'
<1> DEFINE batch == Changes(st, shipped, ReadLimit)
           next == [Idle EXCEPT !.pc = "put", !.batch = batch]
<1>1. /\ st' = st /\ segments' = segments /\ snaps' = snaps /\ manifests' = manifests
      /\ exists' = exists /\ request' = request /\ restores' = restores /\ writes' = writes
      /\ nextId' = nextId /\ shipped' = shipped
      /\ nextId \in Nat /\ shipped \in Nat /\ shipped <= st.index /\ st.index \in Nat /\ "run" \in Threads
  BY DEF ShipRead, node, sink, HistInv, Kept, ReplicationAssumption
<1>2. /\ Idle.pc = "idle" /\ Idle.id = 0 /\ Idle.index = 0 /\ next.pc = "put" /\ next.batch = batch
      /\ next.id = 0 /\ next.index = 0
      /\ DOMAIN next = {"pc", "batch", "id", "index", "copy", "victims"}
      /\ DOMAIN Idle = {"pc", "batch", "id", "index", "copy", "victims"}
  BY DEF Idle
<1>3. batch \subseteq st.log /\ \A c \in batch : c.index > shipped
  BY ChangesPending
<1>4. ASSUME NEW c \in batch, NEW e \in batch, NEW d \in st.log, c.index <= d.index, d.index <= e.index
      PROVE  d \in batch
  <2>1. ReadLimit \in Nat
    BY DEF ReadLimit, ReplicationAssumption
  <2>2. /\ c.index \in Nat /\ d.index \in Nat /\ e.index \in Nat /\ e \in st.log /\ shipped < d.index
        /\ IsFiniteSet(st.log) /\ st.log \subseteq Change
    BY <1>1, <1>3, <1>4 DEF HistInv, Kept, Change
  <2>3. CASE d.index < e.index
    BY <1>1, <2>1, <2>2, <2>3, ChangesPrefix
  <2>4. CASE d.index = e.index
    BY <2>2, <2>4 DEF HistInv, LogInv
  <2> QED BY <1>4, <2>2, <2>3, <2>4
<1> HIDE DEF next, batch
<1>5. /\ DOMAIN job' = Threads /\ \A u \in Threads : u # "run" => job'[u] = job[u]
      /\ job'["run"] = Idle \/ job'["run"] = next
  BY <1>1 DEF ShipRead, Return, HistInv, next, batch
<1>6. ~Taking("run")'
  BY <1>2, <1>5 DEF Taking
<1>7. TrueJob("run")'
  BY <1>1, <1>2, <1>5, <1>6, RestingJob
<1>8. TrueBatch'
  BY <1>1, <1>2, <1>3, <1>4, <1>5 DEF TrueBatch, Loop
<1> QED BY <1>1, <1>5, <1>6, <1>7, <1>8, HistStep

LEMMA HistShipPut ==
    ASSUME ReplicationAssumption, HistInv, ShipPut
    PROVE  HistInv'
<1>1. /\ st' = st /\ snaps' = snaps /\ manifests' = manifests
      /\ exists' = exists /\ request' = request /\ restores' = restores /\ writes' = writes
      /\ nextId' = nextId /\ shipped' = shipped /\ Loop.pc = "put"
      /\ nextId \in Nat /\ shipped \in Nat /\ shipped <= st.index /\ st.index \in Nat /\ "run" \in Threads
  BY DEF ShipPut, At, Loop, node, HistInv, Kept, ReplicationAssumption
<1>2. PICK first, last \in Loop.batch :
         /\ IsFirst(first, Loop.batch) /\ IsLast(last, Loop.batch)
         /\ segments' = segments \/ PutSegment(Loop.batch, first, last)
         /\ \/ job' = [job EXCEPT !["run"] = [job["run"] EXCEPT !.pc = "cursor", !.index = last.index]]
            \/ Return("run")
  BY DEF ShipPut, Loop
<1>3. /\ Loop.batch \subseteq st.log
      /\ \A d \in st.log : first.index <= d.index /\ d.index <= last.index => d \in Loop.batch
  BY <1>1 DEF HistInv, TrueBatch
<1>4. /\ first.index \in Nat /\ last.index \in Nat /\ last.index <= st.index /\ first.index <= last.index
      /\ first \in st.log /\ last \in st.log
  BY <1>1, <1>2, <1>3 DEF HistInv, LogInv, IsLast
<1>5. PICK new : new = SegmentOf(Loop.batch, first, last)
  OBVIOUS
<1>6. new.from = first.index /\ new.to = last.index /\ new.changes = Loop.batch
  BY <1>5 DEF SegmentOf
<1>7. TrueSegment(new)
  <2>1. \A c \in Loop.batch : TrueChange(c) /\ c.index <= last.index
    BY <1>2, <1>3 DEF HistInv, IsLast
  <2>2. ASSUME NEW i \in 1..st.index, NEW k \in Keys, first.index <= i, i <= last.index, Changed(i, k)
        PROVE  \E c \in Loop.batch : c.index = i /\ c.key = k
    <3>1. CASE first.index = i
      BY <1>4, <2>2, <3>1 DEF HistInv, LogInv
    <3>2. CASE first.index < i
      <4>1. Holds(st.log, i, k)
        BY <1>4, <2>2, <3>2 DEF HistInv, LogInv
      <4>2. PICK d \in st.log : d.index = i /\ d.key = k
        BY <4>1 DEF Holds
      <4> QED BY <1>3, <2>2, <4>2
    <3> QED BY <1>4, <2>2, <3>1, <3>2
  <2> QED BY <1>4, <1>6, <2>1, <2>2 DEF TrueSegment
<1>8. \A s \in segments' : s \in segments \/ TrueSegment(s)
  BY <1>2, <1>5, <1>7 DEF PutSegment
<1>9. /\ DOMAIN job' = Threads /\ \A u \in Threads : u # "run" => job'[u] = job[u]
      /\ \/ job'["run"] = Idle
         \/ job'["run"] = [Loop EXCEPT !.pc = "cursor", !.index = last.index]
  BY <1>1, <1>2 DEF Return, Loop, HistInv
<1>10. TrueJob("run")
  BY <1>1 DEF HistInv
<1>11. /\ job'["run"].pc \in {"idle", "cursor"}
       /\ DOMAIN job'["run"] = {"pc", "batch", "id", "index", "copy", "victims"}
       /\ job'["run"].id \in Nat /\ job'["run"].index \in Nat /\ job'["run"].index <= st.index
  <2>1. CASE job'["run"] = Idle
    BY <1>1, <2>1 DEF Idle
  <2>2. CASE job'["run"] = [Loop EXCEPT !.pc = "cursor", !.index = last.index]
    BY <1>1, <1>4, <1>10, <2>2 DEF TrueJob, Loop
  <2> QED BY <1>9, <2>1, <2>2
<1>12. ~Taking("run")'
  BY <1>11 DEF Taking
<1>13. TrueJob("run")'
  BY <1>1, <1>11, <1>12, RestingJob
<1>14. TrueBatch'
  BY <1>1, <1>11, BatchStays DEF Loop
<1> QED BY <1>1, <1>8, <1>9, <1>12, <1>13, <1>14, HistStep

\* The steps after which the thread holds nothing that could be wrong.
LEMMA HistQuiet ==
    ASSUME ReplicationAssumption, HistInv, NEW t \in Threads,
           \/ t = "run" /\ (ShipCursor \/ StartupFails)
           \/ SnapLoad(t) \/ SnapBump(t) \/ SnapDelSnap(t) \/ SnapDelManifest(t)
           \/ SnapOldest(t) \/ SnapPruneSegs(t)
    PROVE  HistInv'
<1>1. /\ st' = st /\ exists' = exists /\ request' = request /\ restores' = restores /\ writes' = writes
      /\ nextId' = nextId /\ segments' \subseteq segments /\ snaps' \subseteq snaps
      /\ manifests' \subseteq manifests
  BY DEF ShipCursor, StartupFails, SnapLoad, SnapBump, SnapDelSnap, SnapDelManifest, SnapOldest,
         SnapPruneSegs, node, sink
<1>2. /\ TrueJob(t) /\ nextId \in Nat /\ shipped \in Nat /\ shipped <= st.index /\ st.index \in Nat
      /\ job[t].index \in Nat /\ job[t].index <= st.index /\ job[t].id \in Nat
      /\ DOMAIN job[t] = {"pc", "batch", "id", "index", "copy", "victims"}
      /\ \A m \in manifests : m.index \in Nat /\ m.index <= st.index
  BY DEF HistInv, Kept, TrueArchives, TrueJob
<1>3. shipped' = shipped \/ shipped' = job[t].index
  BY DEF ShipCursor, StartupFails, SnapLoad, SnapBump, SnapDelSnap, SnapDelManifest, SnapOldest,
         SnapPruneSegs
<1>4. DOMAIN job' = Threads /\ \A u \in Threads : u # t => job'[u] = job[u]
  BY DEF ShipCursor, StartupFails, SnapLoad, SnapBump, SnapDelSnap, SnapDelManifest, SnapOldest,
         SnapPruneSegs, Go, Return, HistInv
<1>5. /\ job'[t].pc \in {"idle", "prune", "bump", "delSnap", "delManifest", "pruneSegs"}
      /\ DOMAIN job'[t] = {"pc", "batch", "id", "index", "copy", "victims"}
      /\ job'[t].id \in Nat /\ job'[t].index \in Nat /\ job'[t].index <= st.index
  <2>1. DOMAIN job = Threads
    BY DEF HistInv
  <2>2. CASE job'[t] = Idle
    BY <1>2, <2>2 DEF Idle
  <2>3. CASE t = "run" /\ ShipCursor
    BY <1>2, <2>1, <2>3 DEF ShipCursor, Go
  <2>4. CASE t = "run" /\ StartupFails
    BY <2>1, <2>2, <2>4 DEF StartupFails, Return
  <2>5. CASE SnapLoad(t)
    BY <1>2, <2>1, <2>5 DEF SnapLoad, MaxOf, HistInv, Kept
  <2>6. CASE SnapBump(t)
    BY <1>2, <2>1, <2>6 DEF SnapBump
  <2>7. CASE SnapDelSnap(t)
    BY <1>2, <2>1, <2>7 DEF SnapDelSnap, Go, At
  <2>8. CASE SnapDelManifest(t)
    <3>1. PICK vs : job' = [job EXCEPT ![t] = [job[t] EXCEPT !.pc = "delSnap", !.victims = vs]]
      BY <2>8 DEF SnapDelManifest
    <3> QED BY <1>2, <2>1, <3>1
  <2>9. CASE SnapOldest(t)
    <3>1. CASE Return(t)
      BY <2>1, <2>2, <3>1 DEF Return
    <3>2. CASE ~Return(t)
      <4>1. PICK i \in {0} \cup {m.index : m \in manifests} :
               job' = [job EXCEPT ![t] = [job[t] EXCEPT !.pc = "pruneSegs", !.index = i]]
        BY <2>9, <3>2 DEF SnapOldest
      <4>2. i \in Nat /\ i <= st.index
        BY <1>2
      <4> QED BY <1>2, <2>1, <4>1, <4>2
    <3> QED BY <3>1, <3>2
  <2>10. CASE SnapPruneSegs(t)
    BY <2>1, <2>2, <2>10 DEF SnapPruneSegs, Return
  <2> QED BY <2>3, <2>4, <2>5, <2>6, <2>7, <2>8, <2>9, <2>10
<1>6. ~Taking(t)'
  BY <1>5 DEF Taking
<1>7. TrueJob(t)'
  BY <1>1, <1>5, <1>6, RestingJob
<1>8. Loop'.pc = "put" => Loop' = Loop
  BY <1>4, <1>5 DEF Loop, ReplicationAssumption
<1>9. TrueBatch'
  BY <1>1, <1>8, BatchStays
<1>10. shipped' \in Nat /\ shipped' <= st.index
  BY <1>2, <1>3
<1> QED BY <1>1, <1>2, <1>4, <1>6, <1>7, <1>9, <1>10, HistStep

\* A snapshot's id is new; nothing in the sink has it.
LEMMA HistSnapBegin ==
    ASSUME ReplicationAssumption, HistInv, NEW t \in Threads, SnapBegin(t)
    PROVE  HistInv'
<1> DEFINE next == [Idle EXCEPT !.pc = "index", !.id = nextId]
<1>1. /\ st' = st /\ segments' = segments /\ snaps' = snaps /\ manifests' = manifests
      /\ exists' = exists /\ request' = request /\ restores' = restores /\ writes' = writes
      /\ nextId' = nextId + 1 /\ shipped' = shipped
      /\ nextId \in Nat /\ shipped \in Nat /\ shipped <= st.index /\ st.index \in Nat
  BY DEF SnapBegin, node, sink, HistInv, Kept
<1>2. /\ next.pc = "index" /\ next.id = nextId /\ next.index = 0
      /\ DOMAIN next = {"pc", "batch", "id", "index", "copy", "victims"}
  BY DEF Idle
<1> HIDE DEF next
<1>3. DOMAIN job' = Threads /\ job'[t] = next /\ \A u \in Threads : u # t => job'[u] = job[u]
  BY DEF SnapBegin, HistInv, next
<1>4. /\ \A m \in manifests : m.id < nextId /\ m.id \in Nat
      /\ \A s \in snaps : s.id < nextId /\ s.id \in Nat
  BY DEF HistInv, TrueArchives
<1>5. ASSUME NEW u \in Threads, u # t, Taking(u)'
      PROVE  job'[u].id # nextId
  <2>1. Taking(u) /\ TrueJob(u) /\ job'[u] = job[u]
    BY <1>3, <1>5 DEF Taking, HistInv
  <2> QED BY <1>1, <2>1 DEF TrueJob
<1>6. TrueJob(t)'
  <2>1. /\ DOMAIN job'[t] = {"pc", "batch", "id", "index", "copy", "victims"}
        /\ job'[t].pc = "index" /\ job'[t].id = nextId /\ job'[t].index = 0
    BY <1>2, <1>3
  <2>2. \A m \in manifests : m.id # nextId
    BY <1>1, <1>4
  <2>3. \A s \in snaps : s.id # nextId
    BY <1>1, <1>4
  <2> QED BY <1>1, <1>5, <2>1, <2>2, <2>3 DEF TrueJob
<1>7. Loop'.pc = "put" => Loop' = Loop
  BY <1>2, <1>3 DEF Loop, ReplicationAssumption
<1>8. TrueBatch'
  BY <1>1, <1>7, BatchStays
<1>9. job'[t].id = nextId
  BY <1>2, <1>3
<1> QED BY <1>1, <1>3, <1>6, <1>8, <1>9, HistStep

\* The index is read, then the file copied: what the copy has in addition is no
\* older.
LEMMA HistSnapTaken ==
    ASSUME ReplicationAssumption, HistInv, NEW t \in Threads, SnapIndex(t) \/ SnapCopy(t)
    PROVE  HistInv'
<1>1. /\ st' = st /\ segments' = segments /\ snaps' = snaps /\ manifests' = manifests
      /\ exists' = exists /\ request' = request /\ restores' = restores /\ writes' = writes
      /\ nextId' = nextId /\ shipped' = shipped
      /\ nextId \in Nat /\ shipped \in Nat /\ shipped <= st.index /\ st.index \in Nat
  BY DEF SnapIndex, SnapCopy, node, sink, HistInv, Kept
<1>2. DOMAIN job' = Threads /\ \A u \in Threads : u # t => job'[u] = job[u]
  BY DEF SnapIndex, SnapCopy, HistInv
<1>3. TrueJob(t) /\ DOMAIN job = Threads
  BY DEF HistInv
<1>4. \/ job[t].pc = "index" /\ job'[t] = [job[t] EXCEPT !.pc = "copy", !.index = st.index]
      \/ job[t].pc = "copy" /\ job'[t] = [job[t] EXCEPT !.pc = "upload", !.copy = {st}]
  BY <1>3 DEF SnapIndex, SnapCopy, At
<1>5. /\ DOMAIN job'[t] = {"pc", "batch", "id", "index", "copy", "victims"}
      /\ job'[t].id = job[t].id
      /\ \/ job[t].pc = "index" /\ job'[t].pc = "copy" /\ job'[t].index = st.index
         \/ /\ job[t].pc = "copy" /\ job'[t].pc = "upload" /\ job'[t].index = job[t].index
            /\ job'[t].copy = {st}
  BY <1>3, <1>4 DEF TrueJob
<1>6. Taking(t) /\ TrueCopy(st)
  BY <1>1, <1>5 DEF Taking, TrueCopy, HistInv, Kept
<1>7. TrueJob(t)'
  <2>1. /\ job[t].id \in Nat /\ job[t].index \in Nat /\ job[t].index <= st.index
        /\ job[t].id < nextId /\ \A m \in manifests : m.id # job[t].id
        /\ \A s \in snaps : s.id # job[t].id
    BY <1>3, <1>5, <1>6 DEF TrueJob
  <2>2. ASSUME NEW u \in Threads, u # t, Taking(u)'
        PROVE  job'[u].id # job'[t].id
    BY <1>2, <1>3, <1>5, <1>6, <2>2 DEF TrueJob, Taking
  <2>3. TrueCopy(st)'
    BY <1>1, <1>6 DEF TrueCopy
  <2>4. job'[t].index \in Nat /\ job'[t].index <= st.index
    BY <1>1, <1>5, <2>1
  <2>5. job'[t].pc = "upload" => \A x \in job'[t].copy : TrueCopy(x)' /\ job'[t].index <= x.index
    BY <1>1, <1>5, <2>1, <2>3
  <2>6. job'[t].pc # "manifest"
    BY <1>5
  <2> QED BY <1>1, <1>5, <2>1, <2>2, <2>4, <2>5, <2>6 DEF TrueJob
<1>8. Loop'.pc = "put" => Loop' = Loop
  BY <1>2, <1>5 DEF Loop, ReplicationAssumption
<1>9. TrueBatch'
  BY <1>1, <1>8, BatchStays
<1> QED BY <1>1, <1>2, <1>5, <1>6, <1>7, <1>9, HistStep

LEMMA HistSnapUpload ==
    ASSUME ReplicationAssumption, HistInv, NEW t \in Threads, SnapUpload(t)
    PROVE  HistInv'
<1>1. /\ st' = st /\ segments' = segments /\ manifests' = manifests
      /\ exists' = exists /\ request' = request /\ restores' = restores /\ writes' = writes
      /\ nextId' = nextId /\ shipped' = shipped /\ job[t].pc = "upload"
      /\ nextId \in Nat /\ shipped \in Nat /\ shipped <= st.index /\ st.index \in Nat
  BY DEF SnapUpload, At, node, HistInv, Kept
<1>2. TrueJob(t) /\ DOMAIN job = Threads
  BY DEF HistInv
<1>3. /\ DOMAIN job' = Threads /\ \A u \in Threads : u # t => job'[u] = job[u]
      /\ \/ /\ snaps' = snaps \cup {[id |-> job[t].id, st |-> s] : s \in job[t].copy}
            /\ job'[t] = [job[t] EXCEPT !.pc = "manifest"]
         \/ snaps' = snaps /\ job'[t] = Idle
  BY <1>2 DEF SnapUpload, Go, Return
<1>4. \A s \in snaps' : s \in snaps \/ (s.id = job[t].id /\ s.st \in job[t].copy)
  BY <1>3
<1>5. \/ /\ job'[t].pc = "manifest" /\ job'[t].id = job[t].id /\ job'[t].index = job[t].index
         /\ DOMAIN job'[t] = {"pc", "batch", "id", "index", "copy", "victims"}
      \/ job'[t] = Idle
  BY <1>2, <1>3 DEF TrueJob
<1>6. /\ job[t].id \in Nat /\ job[t].index \in Nat /\ job[t].index <= st.index
      /\ job[t].id < nextId /\ \A m \in manifests : m.id # job[t].id
      /\ \A s \in snaps : s.id # job[t].id
      /\ \A x \in job[t].copy : TrueCopy(x) /\ job[t].index <= x.index
      /\ Taking(t)
  BY <1>1, <1>2 DEF TrueJob, Taking
<1>7. TrueJob(t)'
  <2>1. CASE job'[t] = Idle
    <3>1. /\ DOMAIN Idle = {"pc", "batch", "id", "index", "copy", "victims"}
          /\ Idle.pc = "idle" /\ Idle.id = 0 /\ Idle.index = 0
      BY DEF Idle
    <3> QED BY <1>1, <2>1, <3>1, RestingJob DEF Taking
  <2>2. CASE job'[t] # Idle
    <3>1. ASSUME NEW u \in Threads, u # t, Taking(u)'
          PROVE  job'[u].id # job'[t].id
      BY <1>2, <1>3, <1>5, <1>6, <2>2, <3>1 DEF TrueJob, Taking
    <3>2. \A s \in snaps' : s.id = job[t].id => job[t].index <= s.st.index
      BY <1>4, <1>6
    <3> QED BY <1>1, <1>5, <1>6, <2>2, <3>1, <3>2 DEF TrueJob
  <2> QED BY <2>1, <2>2
<1>8. Loop'.pc = "put" => Loop' = Loop
  BY <1>3, <1>5 DEF Loop, Idle, ReplicationAssumption
<1>9. TrueBatch'
  BY <1>1, <1>8, BatchStays
<1>10. Taking(t)' => Taking(t) /\ job'[t].id = job[t].id
  BY <1>5, <1>6 DEF Taking, Idle
<1> QED BY <1>1, <1>3, <1>4, <1>7, <1>9, <1>10, HistStep

LEMMA HistSnapManifest ==
    ASSUME ReplicationAssumption, HistInv, NEW t \in Threads, SnapManifest(t)
    PROVE  HistInv'
<1>1. /\ st' = st /\ segments' = segments /\ snaps' = snaps
      /\ exists' = exists /\ request' = request /\ restores' = restores /\ writes' = writes
      /\ nextId' = nextId /\ shipped' = shipped /\ job[t].pc = "manifest"
      /\ nextId \in Nat /\ shipped \in Nat /\ shipped <= st.index /\ st.index \in Nat
  BY DEF SnapManifest, At, node, HistInv, Kept
<1>2. TrueJob(t) /\ DOMAIN job = Threads
  BY DEF HistInv
<1>3. /\ \/ manifests' = manifests
         \/ manifests' = manifests \cup {[id |-> job[t].id, index |-> job[t].index]}
      /\ \/ job' = [job EXCEPT ![t] = [job[t] EXCEPT !.pc = "load", !.copy = {}]]
         \/ job' = [job EXCEPT ![t] = Idle]
  BY DEF SnapManifest, Return
<1>4. DOMAIN job' = Threads /\ \A u \in Threads : u # t => job'[u] = job[u]
  BY <1>2, <1>3
<1>5. job'[t] = [job[t] EXCEPT !.pc = "load", !.copy = {}] \/ job'[t] = Idle
  BY <1>2, <1>3
<1>6. /\ job'[t].pc \in {"load", "idle"} /\ job'[t].id \in Nat
      /\ job'[t].index \in Nat /\ job'[t].index <= st.index
      /\ DOMAIN job'[t] = {"pc", "batch", "id", "index", "copy", "victims"}
  <2>1. CASE job'[t] = Idle
    BY <1>1, <2>1 DEF Idle
  <2>2. CASE job'[t] = [job[t] EXCEPT !.pc = "load", !.copy = {}]
    BY <1>2, <2>2 DEF TrueJob
  <2> QED BY <1>5, <2>1, <2>2
<1>7. ~Taking(t)'
  BY <1>6 DEF Taking
<1>8. TrueJob(t)'
  BY <1>1, <1>6, <1>7, RestingJob
<1>9. Loop'.pc = "put" => Loop' = Loop
  BY <1>4, <1>6 DEF Loop, ReplicationAssumption
<1>10. TrueBatch'
  BY <1>1, <1>9, BatchStays
<1>11. \A m \in manifests' :
          \/ m \in manifests
          \/ Taking(t) /\ m.id = job[t].id /\ m.index = job[t].index /\ job[t].pc = "manifest"
  BY <1>1, <1>3 DEF Taking
<1> QED BY <1>1, <1>4, <1>7, <1>8, <1>10, <1>11, HistStep

\* What a step of the store leaves of the rest: the sink and the threads' claims
\* are about a history that only grows.
LEMMA StoreMoves ==
    ASSUME HistInv, PastKept, DOMAIN st' = DOMAIN st,
           segments' = segments, snaps' = snaps, manifests' = manifests, nextId' = nextId,
           DOMAIN job' = Threads,
           \A u \in Threads : job'[u] = job[u] \/ (u = "run" /\ TrueJob(u)' /\ ~Taking(u)')
    PROVE  /\ \A s \in segments' : TrueSegment(s)'
           /\ TrueArchives'
           /\ DOMAIN job' = Threads
           /\ \A t \in Threads : TrueJob(t)'
<1>1. st.index \in Nat /\ st'.index \in Nat /\ st'.index >= st.index
  BY DEF HistInv, Kept, PastKept
<1>2. \A s \in segments' : TrueSegment(s)'
  BY StaysTrue DEF HistInv
<1>3. TrueArchives'
  <2>1. TrueArchives
    BY DEF HistInv
  <2>2. \A m \in manifests' : m.id \in Nat /\ m.id < nextId' /\ m.index \in Nat /\ m.index <= st'.index
    BY <1>1, <2>1 DEF TrueArchives
  <2>3. \A x : TrueCopy(x) => TrueCopy(x)'
    BY StaysTrue DEF HistInv
  <2>4. \A s \in snaps' : /\ s.id \in Nat /\ s.id < nextId' /\ TrueCopy(s.st)'
                          /\ \A m \in manifests' : m.id = s.id => m.index <= s.st.index
    BY <2>1, <2>3 DEF TrueArchives
  <2> QED BY <2>2, <2>4 DEF TrueArchives
<1>4. ASSUME NEW t \in Threads, job'[t] = job[t]
      PROVE  TrueJob(t)'
  <2>1. TrueJob(t) /\ (Taking(t)' <=> Taking(t))
    BY <1>4 DEF HistInv, Taking
  <2>2. /\ DOMAIN job'[t] = {"pc", "batch", "id", "index", "copy", "victims"}
        /\ job'[t].id \in Nat /\ job'[t].index \in Nat /\ job'[t].index <= st'.index
    BY <1>1, <1>4, <2>1 DEF TrueJob
  <2>3. \A x : TrueCopy(x) => TrueCopy(x)'
    BY StaysTrue DEF HistInv
  <2>4. ASSUME Taking(t)', NEW u \in Threads, u # t, Taking(u)'
        PROVE  job'[u].id # job'[t].id
    <3>1. job'[u] = job[u] /\ Taking(u) /\ Taking(t)
      BY <2>1, <2>4 DEF Taking
    <3> QED BY <1>4, <2>1, <2>4, <3>1 DEF TrueJob
  <2>5. Taking(t)' => job'[t].id < nextId' /\ \A m \in manifests' : m.id # job'[t].id
    BY <1>4, <2>1 DEF TrueJob
  <2>6. job'[t].pc \in {"index", "copy", "upload"} => \A s \in snaps' : s.id # job'[t].id
    BY <1>4, <2>1 DEF TrueJob
  <2>7. job'[t].pc = "upload" => \A x \in job'[t].copy : TrueCopy(x)' /\ job'[t].index <= x.index
    BY <1>4, <2>1, <2>3 DEF TrueJob
  <2>8. job'[t].pc = "manifest" => \A s \in snaps' : s.id = job'[t].id => job'[t].index <= s.st.index
    BY <1>4, <2>1 DEF TrueJob
  <2> QED BY <2>2, <2>4, <2>5, <2>6, <2>7, <2>8 DEF TrueJob
<1> QED BY <1>2, <1>3, <1>4

LEMMA HistWrite ==
    ASSUME ReplicationAssumption, KeysAssumption, Forward, HistInv,
           NEW puts \in SUBSET Keys, NEW dels \in SUBSET Keys, Write(puts, dels)
    PROVE  HistInv'
<1>1. /\ segments' = segments /\ snaps' = snaps /\ manifests' = manifests
      /\ nextId' = nextId /\ job' = job /\ DOMAIN job = Threads
  BY DEF Write, sink, HistInv
<1>2. /\ Kept' /\ LogInv'
      /\ st'.index = st.index + 1 /\ st.log \subseteq st'.log
      /\ \A i \in 0..st.index : st'.past[i] = st.past[i]
      /\ \A c \in st'.log : c \in st.log \/ (c.index = st'.index /\ c.val = st'.past[c.index][c.key])
  BY WriteLogs DEF HistInv, Forward
<1>3. st.index \in Nat
  BY DEF HistInv, Kept
<1>4. PastKept
  BY <1>2, <1>3 DEF PastKept
<1>5. \A c \in st'.log : TrueChange(c)'
  <2>1. \A c : TrueChange(c) => TrueChange(c)'
    BY <1>4, StaysTrue DEF HistInv
  <2> QED BY <1>2, <1>3, <2>1 DEF HistInv, TrueChange
<1>6. DOMAIN st' = DOMAIN st
  BY <1>2 DEF HistInv, Kept
<1>7. /\ \A s \in segments' : TrueSegment(s)'
      /\ TrueArchives' /\ DOMAIN job' = Threads /\ \A t \in Threads : TrueJob(t)'
  BY <1>1, <1>4, <1>6, StoreMoves
<1>8. TrueBatch'
  <2> SUFFICES ASSUME Loop.pc = "put"
               PROVE  /\ Loop.batch \subseteq st'.log
                      /\ \A c, e \in Loop.batch, d \in st'.log :
                            c.index <= d.index /\ d.index <= e.index => d \in Loop.batch
    BY <1>1 DEF TrueBatch, Loop
  <2>1. /\ Loop.batch \subseteq st.log
        /\ \A c, e \in Loop.batch, d \in st.log :
              c.index <= d.index /\ d.index <= e.index => d \in Loop.batch
    BY DEF HistInv, TrueBatch
  <2>2. \A e \in Loop.batch : e.index \in Nat /\ e.index < st'.index
    BY <1>2, <1>3, <2>1 DEF HistInv, LogInv
  <2>3. ASSUME NEW c \in Loop.batch, NEW e \in Loop.batch, NEW d \in st'.log,
               c.index <= d.index, d.index <= e.index
        PROVE  d \in Loop.batch
    <3>1. CASE d \in st.log
      BY <2>1, <2>3, <3>1
    <3>2. CASE d.index = st'.index
      BY <1>2, <1>3, <2>2, <2>3, <3>2
    <3> QED BY <1>2, <3>1, <3>2
  <2> QED BY <1>2, <2>1, <2>3
<1> QED BY <1>2, <1>5, <1>7, <1>8 DEF HistInv

LEMMA HistShipPrune ==
    ASSUME ReplicationAssumption, HistInv, ShipPrune
    PROVE  HistInv'
<1>1. /\ segments' = segments /\ snaps' = snaps /\ manifests' = manifests
      /\ nextId' = nextId /\ shipped' = shipped /\ writes' = writes
      /\ exists' = exists /\ request' = request /\ restores' = restores
      /\ "run" \in Threads /\ DOMAIN job = Threads /\ TrueJob("run")
  BY DEF ShipPrune, sink, HistInv, ReplicationAssumption
<1>2. st' = st \/ st' = PruneChanges(st, Loop.index)
  BY DEF ShipPrune, Loop
<1>3. Loop.index \in Nat /\ st.index \in Nat /\ DOMAIN st = {"index", "data", "log", "past"}
  BY <1>1 DEF TrueJob, Loop, HistInv, Kept
<1>4. /\ st'.index = st.index /\ st'.data = st.data /\ st'.past = st.past
      /\ st'.log \subseteq st.log /\ DOMAIN st' = DOMAIN st
  BY <1>2, <1>3 DEF PruneChanges, Pending
<1>5. Kept'
  <2>1. IsFiniteSet(st.log)
    BY DEF HistInv, Kept
  <2>2. IsFiniteSet(st'.log)
    BY <1>4, <2>1, FS_Subset
  <2> QED BY <1>1, <1>4, <2>2 DEF HistInv, Kept
<1>6. LogInv'
  <2>1. CASE st' = st
    BY <2>1 DEF HistInv, LogInv, Changed, Holds
  <2>2. CASE st' = PruneChanges(st, Loop.index)
    BY <1>3, <2>2, PruneLogs DEF HistInv
  <2> QED BY <1>2, <2>1, <2>2
<1>7. \A c \in st'.log : TrueChange(c)'
  BY <1>4 DEF HistInv, TrueChange
<1>8. PastKept
  BY <1>3, <1>4 DEF PastKept
<1>9. job' = [job EXCEPT !["run"] = Idle] \/ job' = [job EXCEPT !["run"].pc = "again"]
  BY DEF ShipPrune, Return, Go
<1>10. /\ DOMAIN job' = Threads /\ \A u \in Threads : u # "run" => job'[u] = job[u]
       /\ job'["run"] = Idle \/ job'["run"] = [Loop EXCEPT !.pc = "again"]
  BY <1>1, <1>9 DEF Loop
<1>11. /\ job'["run"].pc \in {"idle", "again"} /\ job'["run"].id \in Nat
       /\ job'["run"].index \in Nat /\ job'["run"].index <= st.index
       /\ DOMAIN job'["run"] = {"pc", "batch", "id", "index", "copy", "victims"}
  <2>1. CASE job'["run"] = Idle
    BY <1>3, <2>1 DEF Idle
  <2>2. CASE job'["run"] = [Loop EXCEPT !.pc = "again"]
    BY <1>1, <2>2 DEF TrueJob, Loop
  <2> QED BY <1>10, <2>1, <2>2
<1>12. ~Taking("run")' /\ TrueJob("run")'
  BY <1>1, <1>4, <1>11, RestingJob DEF Taking
<1>13. /\ \A s \in segments' : TrueSegment(s)'
       /\ TrueArchives' /\ DOMAIN job' = Threads /\ \A t \in Threads : TrueJob(t)'
  BY <1>1, <1>4, <1>8, <1>10, <1>12, StoreMoves
<1>14. TrueBatch'
  BY <1>11 DEF TrueBatch, Loop
<1> QED BY <1>5, <1>6, <1>7, <1>13, <1>14 DEF HistInv

LEMMA HistCrash ==
    ASSUME HistInv, Crash
    PROVE  HistInv'
<1>1. /\ st' = st /\ segments' = segments /\ snaps' = snaps /\ manifests' = manifests
      /\ exists' = exists /\ request' = request /\ restores' = restores /\ writes' = writes
      /\ nextId' = nextId /\ shipped' = 0 /\ job' = [t \in Threads |-> Idle]
      /\ st.index \in Nat
  BY DEF Crash, node, sink, HistInv, Kept
<1>2. Kept'
  BY <1>1 DEF HistInv, Kept
<1>3. LogInv' /\ \A c \in st'.log : TrueChange(c)'
  BY <1>1 DEF HistInv, LogInv, Changed, Holds, TrueChange
<1>4. (\A s \in segments' : TrueSegment(s)') /\ TrueArchives'
  BY <1>1 DEF HistInv, TrueSegment, TrueChange, Changed, TrueArchives, TrueCopy
<1>5. /\ Idle.pc = "idle" /\ Idle.id = 0 /\ Idle.index = 0
      /\ DOMAIN Idle = {"pc", "batch", "id", "index", "copy", "victims"}
  BY DEF Idle
<1>6. DOMAIN job' = Threads /\ \A t \in Threads : job'[t] = Idle
  BY <1>1
<1>7. ASSUME NEW t \in Threads PROVE TrueJob(t)'
  BY <1>1, <1>5, <1>6, RestingJob DEF Taking
<1>8. TrueBatch'
  BY <1>5, <1>6, ReplicationAssumption DEF TrueBatch, Loop
<1> QED BY <1>2, <1>3, <1>4, <1>6, <1>7, <1>8 DEF HistInv

LEMMA HistBoot ==
    ASSUME ReplicationAssumption, HistInv, Boot
    PROVE  HistInv'
<1>1. /\ st' = st /\ segments' = segments /\ snaps' = snaps /\ manifests' = manifests
      /\ exists' = exists /\ request' = request /\ restores' = restores /\ writes' = writes
      /\ nextId' = nextId /\ st.index \in Nat /\ nextId \in Nat /\ "run" \in Threads
      /\ DOMAIN job = Threads /\ TrueJob("run")
  BY DEF Boot, sink, HistInv, Kept, ReplicationAssumption
<1>2. shipped' \in Nat /\ shipped' <= st.index
  <2>1. \A i \in InSinkIndexes : i \in Nat /\ i <= st.index
    BY <1>1 DEF InSinkIndexes, HistInv, TrueSegment, TrueArchives
  <2>2. shipped' \in InSinkIndexes \/ shipped' = 0
    BY DEF Boot, IsMax
  <2> QED BY <1>1, <2>1, <2>2
<1>3. job' = [job EXCEPT !["run"].pc = "startup"]
  BY DEF Boot
<1>4. /\ DOMAIN job' = Threads /\ \A u \in Threads : u # "run" => job'[u] = job[u]
      /\ job'["run"] = [Loop EXCEPT !.pc = "startup"]
  BY <1>1, <1>3 DEF Loop
<1>5. /\ job'["run"].pc = "startup" /\ job'["run"].id \in Nat
      /\ job'["run"].index \in Nat /\ job'["run"].index <= st.index
      /\ DOMAIN job'["run"] = {"pc", "batch", "id", "index", "copy", "victims"}
  BY <1>1, <1>4 DEF TrueJob, Loop
<1>6. ~Taking("run")' /\ TrueJob("run")'
  BY <1>1, <1>5, RestingJob DEF Taking
<1>7. TrueBatch'
  BY <1>5 DEF TrueBatch, Loop
<1> QED BY <1>1, <1>2, <1>4, <1>6, <1>7, HistStep

LEMMA HistInit == Init => HistInv
<1> SUFFICES ASSUME Init PROVE HistInv
  OBVIOUS
<1>1. /\ st.index = 0 /\ st.log = {} /\ st.data = NoData /\ st.past = [i \in {0} |-> NoData]
      /\ DOMAIN st = {"index", "data", "log", "past"}
      /\ exists = TRUE /\ request = {} /\ restores = 0 /\ writes = 0 /\ nextId = 1 /\ shipped = 0
      /\ segments = {} /\ snaps = {} /\ manifests = {} /\ job = [t \in Threads |-> Idle]
  BY DEF Init, EmptyStore
<1>2. NoData \in [Keys -> Nat]
  BY DEF NoData, Absent
<1>3. 0..0 = {0}
  OBVIOUS
<1>4. Kept
  <2>1. IsFiniteSet(st.log) /\ st.log \subseteq Change
    BY <1>1, FS_EmptySet
  <2>2. st.past \in [0..st.index -> [Keys -> Nat]] /\ st.past[st.index] = st.data
    BY <1>1, <1>2, <1>3
  <2> QED BY <1>1, <1>2, <2>1, <2>2 DEF Kept
<1>5. /\ Idle.pc = "idle" /\ Idle.id = 0 /\ Idle.index = 0
      /\ DOMAIN Idle = {"pc", "batch", "id", "index", "copy", "victims"}
  BY DEF Idle
<1>6. \A t \in Threads : TrueJob(t)
  BY <1>1, <1>5 DEF TrueJob, Taking
<1>7. TrueBatch
  BY <1>1, <1>5, ReplicationAssumption DEF TrueBatch, Loop
<1> QED BY <1>1, <1>4, <1>6, <1>7 DEF HistInv, LogInv, TrueArchives

\* Nothing is restored where no disk is lost and nothing staged.
LEMMA NoRestores ==
    ASSUME Forward, HistInv
    PROVE  /\ \A m \in manifests, skip \in BOOLEAN : ~Stage(m, skip)
           /\ ~LoseDisk /\ ~RestoreDone /\ ~RestoreFails /\ ~ReplayFails
<1>1. ~(restores < MaxRestores)
  BY DEF Forward, HistInv, Kept
<1>2. \A r : ~Wanted(r)
  BY DEF Wanted, HistInv, Kept
<1> QED BY <1>1, <1>2 DEF Stage, LoseDisk, RestoreDone, RestoreFails, ReplayFails, Restores

LEMMA HistNext ==
    ASSUME ReplicationAssumption, KeysAssumption, Forward, HistInv, [Next]_vars
    PROVE  HistInv'
<1>1. CASE UNCHANGED vars
  <2>1. /\ st' = st /\ segments' = segments /\ snaps' = snaps /\ manifests' = manifests
        /\ exists' = exists /\ request' = request /\ restores' = restores /\ writes' = writes
        /\ nextId' = nextId /\ shipped' = shipped /\ job' = job
    BY <1>1 DEF vars
  <2>2. Kept' /\ LogInv' /\ (\A c \in st'.log : TrueChange(c)') /\ (\A s \in segments' : TrueSegment(s)')
    BY <2>1 DEF HistInv, Kept, LogInv, Changed, Holds, TrueChange, TrueSegment
  <2>3. TrueArchives' /\ TrueBatch'
    BY <2>1 DEF HistInv, TrueArchives, TrueCopy, TrueBatch, Loop
  <2>4. DOMAIN job' = Threads /\ \A t \in Threads : TrueJob(t)'
    BY <2>1 DEF HistInv, TrueJob, Taking, TrueCopy
  <2> QED BY <2>2, <2>3, <2>4 DEF HistInv
<1>2. CASE \E puts, dels \in SUBSET Keys : Write(puts, dels)
  BY <1>2, HistWrite
<1>3. CASE RunStep
  <2>1. "run" \in Threads
    BY DEF ReplicationAssumption
  <2> QED BY <1>3, <2>1, HistShipRead, HistShipPut, HistShipPrune, HistQuiet DEF RunStep
<1>4. CASE \E t \in Threads : SnapBegin(t) \/ SnapStep(t)
  <2>1. PICK t \in Threads : SnapBegin(t) \/ SnapStep(t)
    BY <1>4
  <2> QED BY <2>1, HistSnapBegin, HistSnapTaken, HistSnapUpload, HistSnapManifest, HistQuiet DEF SnapStep
<1>5. CASE Crash
  BY <1>5, HistCrash
<1>6. CASE Boot
  BY <1>6, HistBoot
<1> QED BY <1>1, <1>2, <1>3, <1>4, <1>5, <1>6, NoRestores DEF Next

-----------------------------------------------------------------------------
(* RestoreNotStale: what the replay computes.                              *)

\* A set of naturals that is not empty has a least member.
LEMMA Least ==
    ASSUME NEW S, S \subseteq Nat, S # {}
    PROVE  \E x \in S : \A y \in S : x <= y
<1>1. PICK x \in S : \A y \in S : ~ (<<y, x>> \in OpToRel(<, Nat))
  BY NatLessThanWellFounded, WFMin, Zenon
<1>2. \A y \in S : ~ (y < x)
  BY <1>1 DEF OpToRel
<1> QED BY <1>2

\* Induction over Nat, of a set of numbers.
LEMMA AllNat ==
    ASSUME NEW S, 0 \in S, \A n \in Nat : n \in S => n + 1 \in S
    PROVE  Nat \subseteq S
<1> SUFFICES ASSUME Nat \ S # {} PROVE FALSE
  OBVIOUS
<1>1. PICK x \in Nat \ S : \A y \in Nat \ S : x <= y
  BY Least
<1>2. x - 1 \in Nat /\ x - 1 \notin Nat \ S
  BY <1>1
<1>3. (x - 1) + 1 \in S
  BY <1>2
<1> QED BY <1>1, <1>3

\* One step of a replay, on what the steps before it left.
Grown(f, base, cs, i) ==
    IF i = 0 THEN base
    ELSE IF \E c \in cs : c.index = i THEN Apply(f[i - 1], Group(cs, i))
    ELSE f[i - 1]

\* The replay up to a number.
IsPart(f, n, base, cs) == f = [i \in 0..n |-> Grown(f, base, cs, i)]

Part(n, base, cs) == CHOOSE f : IsPart(f, n, base, cs)

LEMMA GrownSame ==
    ASSUME NEW f, NEW g, NEW base, NEW cs, NEW i \in Nat, i # 0 => f[i - 1] = g[i - 1]
    PROVE  Grown(f, base, cs, i) = Grown(g, base, cs, i)
BY DEF Grown

LEMMA PartIs ==
    ASSUME NEW base, NEW cs
    PROVE  \A n \in Nat : IsPart(Part(n, base, cs), n, base, cs)
<1> DEFINE S == {n \in Nat : \E f : IsPart(f, n, base, cs)}
<1>1. 0 \in S
  <2> DEFINE f == [i \in 0..0 |-> base]
  <2>1. \A i \in 0..0 : Grown(f, base, cs, i) = base
    BY DEF Grown
  <2>2. [i \in 0..0 |-> Grown(f, base, cs, i)] = f
    BY <2>1
  <2>3. IsPart(f, 0, base, cs)
    BY <2>2 DEF IsPart
  <2> QED BY <2>3
<1>2. ASSUME NEW n \in Nat, n \in S
      PROVE  n + 1 \in S
  <2>1. PICK f : IsPart(f, n, base, cs)
    BY <1>2
  <2> DEFINE g == [i \in 0..(n + 1) |-> IF i = n + 1 THEN Grown(f, base, cs, n + 1) ELSE f[i]]
  <2>2. /\ \A i \in 0..n : g[i] = f[i]
        /\ g[n + 1] = Grown(f, base, cs, n + 1)
        /\ g = [i \in 0..(n + 1) |-> g[i]]
    OBVIOUS
  <2> HIDE DEF g
  <2>3. \A i \in 0..n : f[i] = Grown(f, base, cs, i)
    BY <2>1 DEF IsPart
  <2>4. ASSUME NEW i \in 0..(n + 1) PROVE g[i] = Grown(g, base, cs, i)
    <3>1. i \in Nat /\ (i # 0 => i - 1 \in 0..n) /\ (i \in 0..n \/ i = n + 1)
      OBVIOUS
    <3>2. i # 0 => f[i - 1] = g[i - 1]
      BY <2>2, <3>1
    <3>3. Grown(f, base, cs, i) = Grown(g, base, cs, i)
      BY <3>1, <3>2, GrownSame
    <3>4. CASE i = n + 1
      <4>1. Grown(f, base, cs, n + 1) = Grown(g, base, cs, n + 1)
        BY <3>3, <3>4
      <4> QED BY <2>2, <3>4, <4>1
    <3>5. CASE i \in 0..n
      BY <2>2, <2>3, <3>3, <3>5
    <3> QED BY <3>1, <3>4, <3>5
  <2>5. [i \in 0..(n + 1) |-> g[i]] = [i \in 0..(n + 1) |-> Grown(g, base, cs, i)]
    BY <2>4
  <2>6. IsPart(g, n + 1, base, cs)
    BY <2>2, <2>5 DEF IsPart
  <2> QED BY <2>6
<1> HIDE DEF S
<1>3. Nat \subseteq S
  BY <1>1, <1>2, AllNat
<1>4. ASSUME NEW n \in Nat PROVE IsPart(Part(n, base, cs), n, base, cs)
  <2>1. \E f : IsPart(f, n, base, cs)
    BY <1>3 DEF S
  <2> QED BY <2>1, Zenon DEF Part
<1> QED BY <1>4

LEMMA PartsAgree ==
    ASSUME NEW base, NEW cs
    PROVE  \A i, m, n \in Nat : i <= m /\ i <= n => Part(m, base, cs)[i] = Part(n, base, cs)[i]
<1> DEFINE S == {i \in Nat : \A m, n \in Nat :
                     i <= m /\ i <= n => Part(m, base, cs)[i] = Part(n, base, cs)[i]}
<1>1. \A n \in Nat, i \in Nat : i <= n =>
          Part(n, base, cs)[i] = Grown(Part(n, base, cs), base, cs, i)
  BY PartIs DEF IsPart
<1>2. 0 \in S
  BY <1>1 DEF Grown
<1>3. ASSUME NEW i \in Nat, i \in S
      PROVE  i + 1 \in S
  <2>1. ASSUME NEW m \in Nat, NEW n \in Nat, i + 1 <= m, i + 1 <= n
        PROVE  Part(m, base, cs)[i + 1] = Part(n, base, cs)[i + 1]
    <3>1. Part(m, base, cs)[(i + 1) - 1] = Part(n, base, cs)[(i + 1) - 1]
      BY <1>3, <2>1
    <3>2. Grown(Part(m, base, cs), base, cs, i + 1) = Grown(Part(n, base, cs), base, cs, i + 1)
      BY <3>1, GrownSame
    <3> QED BY <1>1, <2>1, <3>2
  <2> QED BY <2>1
<1> HIDE DEF S
<1>4. Nat \subseteq S
  BY <1>2, <1>3, AllNat
<1> QED BY <1>4 DEF S

\* The replay is what its recursive definition says.
LEMMA ReplayIs ==
    ASSUME NEW base, NEW cs, NEW i \in Nat
    PROVE  Replay(base, cs)[i] = Grown(Replay(base, cs), base, cs, i)
<1> DEFINE h == [n \in Nat |-> Part(n, base, cs)[n]]
<1>1. ASSUME NEW n \in Nat PROVE h[n] = Grown(h, base, cs, n)
  <2>1. Part(n, base, cs)[n] = Grown(Part(n, base, cs), base, cs, n)
    BY PartIs DEF IsPart
  <2>2. n # 0 => Part(n, base, cs)[n - 1] = Part(n - 1, base, cs)[n - 1]
    BY PartsAgree
  <2>3. n # 0 => Part(n, base, cs)[n - 1] = h[n - 1]
    BY <2>2
  <2>4. Grown(Part(n, base, cs), base, cs, n) = Grown(h, base, cs, n)
    BY <2>3, GrownSame
  <2> QED BY <2>1, <2>4
<1>2. h = [n \in Nat |-> h[n]]
  OBVIOUS
<1> HIDE DEF h
<1>3. h = [n \in Nat |-> Grown(h, base, cs, n)]
  <2>1. [n \in Nat |-> h[n]] = [n \in Nat |-> Grown(h, base, cs, n)]
    BY <1>1
  <2> QED BY <1>2, <2>1
<1>4. Replay(base, cs) = CHOOSE f : f = [n \in Nat |->
            IF n = 0 THEN base
            ELSE IF \E c \in cs : c.index = n THEN Apply(f[n - 1], Group(cs, n))
            ELSE f[n - 1]]
  BY DEF Replay
<1>5. Replay(base, cs) = CHOOSE f : f = [n \in Nat |-> Grown(f, base, cs, n)]
  BY <1>4, Zenon DEF Grown
<1>6. Replay(base, cs) = [n \in Nat |-> Grown(Replay(base, cs), base, cs, n)]
  BY <1>3, <1>5, Zenon
<1> QED BY <1>6

LEMMA Greatest ==
    ASSUME NEW S, S \subseteq Nat, S # {}, NEW b \in Nat, \A x \in S : x <= b
    PROVE  \E x \in S : \A y \in S : y <= x
<1> DEFINE T == {b - x : x \in S}
<1>1. T \subseteq Nat /\ T # {}
  <2>1. \A x \in S : b - x \in Nat
    OBVIOUS
  <2> QED BY <2>1
<1>2. PICK t \in T : \A u \in T : t <= u
  BY <1>1, Least
<1>3. PICK x \in S : t = b - x
  OBVIOUS
<1>4. ASSUME NEW y \in S PROVE y <= x
  <2>1. b - x <= b - y
    BY <1>2, <1>3
  <2> QED BY <2>1
<1> QED BY <1>4

\* A group writes to a key what its change says, and to no other key.
LEMMA GroupWrites ==
    ASSUME NEW s, NEW cs, NEW i, NEW k \in Keys,
           \A c \in cs : TrueChange(c)
    PROVE  Apply(s, Group(cs, i)).data[k] =
               IF \E c \in cs : c.index = i /\ c.key = k THEN st.past[i][k] ELSE s.data[k]
<1>1. Apply(s, Group(cs, i)).data = Updated(s, Group(cs, i))
  BY DEF Apply
<1>2. k \in DOMAIN Group(cs, i) <=> \E c \in cs : c.index = i /\ c.key = k
  BY DEF Group
<1>3. ASSUME \E c \in cs : c.index = i /\ c.key = k
      PROVE  Group(cs, i)[k] = st.past[i][k]
  <2>1. PICK d : d = CHOOSE c \in cs : c.index = i /\ c.key = k
    OBVIOUS
  <2>2. d \in cs /\ d.index = i /\ d.key = k
    BY <1>3, <2>1
  <2>3. Group(cs, i)[k] = d.val
    BY <1>2, <1>3, <2>1 DEF Group
  <2> QED BY <2>2, <2>3 DEF TrueChange
<1> QED BY <1>1, <1>2, <1>3 DEF Updated

\* The changes of a copy's future, from an index not after it up to another one.
Replayable(base, cs, from, last) ==
    /\ from \in Nat /\ last \in Nat /\ from <= last /\ last <= st.index
    /\ TrueCopy(base) /\ from <= base.index
    /\ \A c \in cs : TrueChange(c) /\ c.index > from
    /\ \A i \in 1..st.index, k \in Keys :
           from < i /\ i <= last /\ Changed(i, k) => \E c \in cs : c.index = i /\ c.key = k

\* A replay of all the changes between an archive's index and another one, on a
\* copy taken at the archive's index or later, is as recent as the other index.
LEMMA ReplayReaches ==
    ASSUME HistInv, NEW base, NEW cs, NEW from, NEW last, Replayable(base, cs, from, last),
           NEW k \in Keys
    PROVE  \E i \in 0..st.index : i >= last /\ st.past[i][k] = Replay(base, cs)[last].data[k]
<1> DEFINE after(n) == Replay(base, cs)[n].data[k]
           copied == base.index
           S == {n \in Nat :
                    /\ n <= from => after(n) = st.past[copied][k]
                    /\ from <= n /\ n <= last =>
                          after(n) = st.past[n][k] \/ after(n) = st.past[MaxOf(copied, n)][k]}
<1>0. /\ from \in Nat /\ last \in Nat /\ from <= last /\ last <= st.index /\ from <= base.index
      /\ \A c \in cs : TrueChange(c) /\ c.index > from
      /\ \A i \in 1..st.index : from < i /\ i <= last /\ Changed(i, k) => \E c \in cs : c.index = i /\ c.key = k
  BY DEF Replayable
<1>1. st.index \in Nat /\ copied \in 0..st.index /\ base.data = st.past[copied]
  BY DEF Replayable, HistInv, Kept, TrueCopy
<1>2. 0 \in S
  <2>1. after(0) = st.past[copied][k]
    BY <1>1, ReplayIs DEF Grown
  <2>2. MaxOf(copied, 0) = copied
    BY <1>1 DEF MaxOf
  <2> QED BY <1>0, <2>1, <2>2
<1>3. ASSUME NEW n \in Nat
      PROVE  after(n + 1) = IF \E c \in cs : c.index = n + 1 /\ c.key = k
                            THEN st.past[n + 1][k] ELSE after(n)
  <2>1. Replay(base, cs)[n + 1] =
            IF \E c \in cs : c.index = n + 1 THEN Apply(Replay(base, cs)[n], Group(cs, n + 1))
            ELSE Replay(base, cs)[n]
    BY ReplayIs DEF Grown
  <2>2. Apply(Replay(base, cs)[n], Group(cs, n + 1)).data[k] =
            IF \E c \in cs : c.index = n + 1 /\ c.key = k THEN st.past[n + 1][k] ELSE after(n)
    BY <1>0, GroupWrites
  <2> QED BY <2>1, <2>2
<1> HIDE DEF after
<1>4. ASSUME NEW n \in Nat, n \in S
      PROVE  n + 1 \in S
  <2>1. CASE n + 1 <= from
    <3>1. ~ \E c \in cs : c.index = n + 1 /\ c.key = k
      <4> SUFFICES ASSUME NEW c \in cs, c.index = n + 1 PROVE FALSE
        OBVIOUS
      <4>1. c.index > from
        BY <1>0
      <4> QED BY <1>0, <2>1, <4>1
    <3>2. after(n + 1) = st.past[copied][k]
      BY <1>0, <1>3, <1>4, <2>1, <3>1
    <3>3. n + 1 = from => MaxOf(copied, n + 1) = copied
      BY <1>0, <1>1 DEF MaxOf
    <3> QED BY <1>0, <2>1, <3>2, <3>3
  <2>2. CASE from <= n /\ n + 1 <= last
    <3>1. after(n) = st.past[n][k] \/ after(n) = st.past[MaxOf(copied, n)][k]
      BY <1>0, <1>4, <2>2
    <3>2. CASE \E c \in cs : c.index = n + 1 /\ c.key = k
      <4>1. after(n + 1) = st.past[n + 1][k]
        BY <1>3, <3>2
      <4>2. ~(n + 1 <= from)
        BY <1>0, <2>2
      <4> QED BY <1>0, <4>1, <4>2
    <3>3. CASE ~ \E c \in cs : c.index = n + 1 /\ c.key = k
      <4>1. st.past[n + 1][k] = st.past[n][k]
        <5>1. n + 1 \in 1..st.index /\ from < n + 1 /\ (n + 1) - 1 = n
          BY <1>0, <1>1, <2>2
        <5>2. ~Changed(n + 1, k)
          BY <1>0, <2>2, <3>3, <5>1
        <5> QED BY <5>1, <5>2 DEF Changed
      <4>2. MaxOf(copied, n) = n \/ MaxOf(copied, n) = MaxOf(copied, n + 1)
        BY <1>1 DEF MaxOf
      <4>3. after(n + 1) = st.past[n + 1][k] \/ after(n + 1) = st.past[MaxOf(copied, n + 1)][k]
        BY <1>3, <3>1, <3>3, <4>1, <4>2
      <4> QED BY <1>0, <2>2, <4>3
    <3> QED BY <3>2, <3>3
  <2>3. CASE ~(n + 1 <= from) /\ ~(from <= n /\ n + 1 <= last)
    BY <1>0, <2>3
  <2> QED BY <2>1, <2>2, <2>3
<1> HIDE DEF S
<1>5. last \in S
  BY <1>0, <1>2, <1>4, AllNat
<1>6. after(last) = st.past[last][k] \/ after(last) = st.past[MaxOf(copied, last)][k]
  BY <1>0, <1>5 DEF S
<1>7. last \in 0..st.index /\ MaxOf(copied, last) \in 0..st.index /\ MaxOf(copied, last) >= last
  BY <1>0, <1>1 DEF MaxOf
<1>8. \E i \in 0..st.index : i >= last /\ st.past[i][k] = after(last)
  BY <1>6, <1>7
<1> QED BY <1>8 DEF after

\* A chain that is not refused covers every index up to the end of its last segment.
LEMMA ChainCovers ==
    ASSUME HistInv, NEW from \in Nat, ~Refused(from), NEW i \in Nat, i > from,
           \E s \in Above(from) : s.to >= i
    PROVE  \E s \in Above(from) : s.from <= i /\ i <= s.to
<1>1. \A s \in Above(from) : s.from \in Nat /\ s.to \in Nat /\ s.from <= s.to
  BY DEF Above, HistInv, TrueSegment
<1> DEFINE T == {s.from : s \in {u \in Above(from) : u.to >= i}}
<1>2. PICK x \in T : \A y \in T : x <= y
  <2>1. T \subseteq Nat /\ T # {}
    BY <1>1
  <2> QED BY <2>1, Least
<1>3. PICK s \in Above(from) : s.to >= i /\ s.from = x
  BY <1>2
<1>4. \A u \in Above(from) : u.to >= i => s.from <= u.from
  BY <1>2, <1>3
<1>5. Links(s, from)
  BY <1>3 DEF Refused, Linked
<1>6. s.from <= i
  <2>1. CASE s.from <= from + 1
    BY <1>1, <1>3, <2>1
  <2>2. ASSUME NEW u \in Above(from), SegBefore(u, s), s.from = u.to + 1
        PROVE  s.from <= i
    <3>1. CASE u.to >= i
      BY <1>1, <1>3, <1>4, <2>2, <3>1
    <3>2. CASE ~(u.to >= i)
      BY <1>1, <2>2, <3>2
    <3> QED BY <3>1, <3>2
  <2> QED BY <1>5, <2>1, <2>2 DEF Links
<1> QED BY <1>3, <1>6

\* What Restore reports is the archive's index or that of the last change it replays.
LEMMA RestoredIndexIs ==
    ASSUME NEW m, NEW segs, NEW b \in Nat, m.index \in Nat, m.index <= b,
           \A c \in Replayed(segs, m.index) : c.index \in Nat /\ c.index <= b
    PROVE  /\ RestoredIndex(m, segs) \in Nat /\ RestoredIndex(m, segs) <= b
           /\ m.index <= RestoredIndex(m, segs)
           /\ \/ RestoredIndex(m, segs) = m.index
              \/ \E c \in Replayed(segs, m.index) : RestoredIndex(m, segs) = c.index
<1> DEFINE X == {m.index} \cup {c.index : c \in Replayed(segs, m.index)}
<1>1. PICK g \in X : \A y \in X : y <= g
  <2>1. X \subseteq Nat /\ X # {} /\ \A x \in X : x <= b
    OBVIOUS
  <2> HIDE DEF X
  <2> QED BY <2>1, Greatest
<1>2. g \in X /\ \A c \in Replayed(segs, m.index) : c.index <= g
  BY <1>1
<1>3. PICK r : r = RestoredIndex(m, segs)
  OBVIOUS
<1>4. r \in X /\ \A c \in Replayed(segs, m.index) : c.index <= r
  BY <1>2, <1>3 DEF RestoredIndex
<1>5. \A c \in Replayed(segs, m.index) : c.index > m.index
  BY DEF Replayed
<1>6. r \in Nat /\ r <= b /\ m.index <= r
  BY <1>4, <1>5
<1> QED BY <1>3, <1>4, <1>6

LEMMA TrueRestores ==
    ASSUME HistInv
    PROVE  RestoreNotStale
<1> SUFFICES ASSUME NEW m \in manifests, Intact(m.id), ~Refused(m.index),
                    NEW segs \in {{}, Above(m.index)}, NEW k \in Keys
             PROVE  \E i \in 0..st.index :
                        /\ i >= RestoredIndex(m, segs)
                        /\ st.past[i][k] = RestoredStore(m, segs).data[k]
  BY DEF RestoreNotStale
<1> DEFINE cs == Replayed(segs, m.index)
<1>1. PICK base, last : base = Snapshot(m.id).st /\ last = RestoredIndex(m, segs)
  OBVIOUS
<1>2. m.index \in Nat /\ m.index <= st.index /\ st.index \in Nat
  BY DEF HistInv, Kept, TrueArchives
<1>3. TrueCopy(base) /\ m.index <= base.index
  <2>1. PICK s : s = Snapshot(m.id)
    OBVIOUS
  <2>2. s \in snaps /\ s.id = m.id
    BY <2>1 DEF Snapshot, Intact
  <2> QED BY <1>1, <2>1, <2>2 DEF HistInv, TrueArchives
<1>4. segs \subseteq segments
  BY DEF Above
<1>5. ASSUME NEW c \in cs
      PROVE  /\ c.index > m.index /\ c.index \in Nat /\ c.index <= st.index /\ TrueChange(c)
             /\ \E s \in segs : c \in s.changes
  <2>1. c.index > m.index /\ \E s \in segs : c \in s.changes
    BY DEF Replayed
  <2>2. TrueChange(c)
    BY <1>4, <2>1 DEF HistInv, TrueSegment
  <2> QED BY <1>2, <2>1, <2>2 DEF TrueChange
<1>6. /\ last \in Nat /\ last <= st.index /\ m.index <= last
      /\ last = m.index \/ \E c \in cs : last = c.index
  <2>1. \A c \in cs : c.index \in Nat /\ c.index <= st.index
    BY <1>5
  <2> QED BY <1>1, <1>2, <2>1, RestoredIndexIs
<1>7. ASSUME NEW i \in 1..st.index, NEW j \in Keys, m.index < i, i <= last, Changed(i, j)
      PROVE  \E c \in cs : c.index = i /\ c.key = j
  <2>1. PICK c \in cs : last = c.index
    BY <1>2, <1>6, <1>7
  <2>2. PICK s \in segs : c \in s.changes
    BY <1>5
  <2>3. segs = Above(m.index)
    BY <2>2
  <2>4. s.to >= i
    <3>1. c.index <= s.to /\ s.to \in Nat /\ c.index \in Nat
      BY <1>4, <1>5, <2>2 DEF HistInv, TrueSegment
    <3> QED BY <1>7, <2>1, <3>1
  <2>5. i \in Nat /\ i > m.index
    BY <1>2, <1>7
  <2>6. PICK u \in Above(m.index) : u.from <= i /\ i <= u.to
    BY <1>2, <2>2, <2>3, <2>4, <2>5, ChainCovers
  <2>7. PICK d \in u.changes : d.index = i /\ d.key = j
    BY <1>4, <1>7, <2>3, <2>6 DEF HistInv, TrueSegment
  <2>8. d \in cs
    BY <2>3, <2>5, <2>6, <2>7 DEF Replayed
  <2> QED BY <2>7, <2>8
<1>8. \A c \in cs : TrueChange(c) /\ c.index > m.index
  BY <1>5
<1>9. RestoredStore(m, segs) = Replay(base, cs)[last]
  BY <1>1 DEF RestoredStore
<1> HIDE DEF cs
<1>10. \A i \in 1..st.index, j \in Keys :
           m.index < i /\ i <= last /\ Changed(i, j) => \E c \in cs : c.index = i /\ c.key = j
  BY <1>7
<1>11. m.index \in Nat /\ last \in Nat /\ m.index <= last /\ last <= st.index
  BY <1>2, <1>6
<1>12. \E i \in 0..st.index : i >= last /\ st.past[i][k] = Replay(base, cs)[last].data[k]
  <2>1. Replayable(base, cs, m.index, last)
    BY <1>3, <1>8, <1>10, <1>11 DEF Replayable
  <2> QED BY <2>1, ReplayReaches
<1> QED BY <1>1, <1>9, <1>12

\* No restore is older than the index it reports: with the replay or without it,
\* from any archive that can be fetched and is not refused, each key has the
\* value it had at that index or later.  It rests on the order of Create (the
\* index is read before the file is copied), on ids that are taken once, on
\* batches that are whole between their ends, and on replay's chain check.  Any
\* number of goroutines may snapshot and prune beside the loop; crashes, sink
\* errors, puts that landed although they failed, empty batches, and any
\* retention or read limit are allowed.
THEOREM RestoreIsNotStale ==
    ASSUME Forward
    PROVE  Spec => []RestoreNotStale
<1>1. Init => HistInv
  BY HistInit
<1>2. HistInv /\ [Next]_vars => HistInv'
  BY HistNext, ReplicationAssumption, KeysAssumption
<1>3. HistInv => RestoreNotStale
  BY TrueRestores
<1> QED BY <1>1, <1>2, <1>3, PTL DEF Spec

-----------------------------------------------------------------------------
\* What a failed replay left lies there only while the daemon is down, and the
\* marker that asks for the restore lies beside it.
MarkerInv == partial => ~up /\ request # {}

\* Shipping, snapshots and writes leave the marker, the file's origin and the
\* daemon as they are.
LEMMA DaemonKeepsMarker ==
    ASSUME MarkerInv,
           \/ \E puts, dels \in SUBSET Keys : Write(puts, dels)
           \/ RunStep
           \/ \E t \in Threads : SnapBegin(t) \/ SnapStep(t)
    PROVE  MarkerInv'
<1>1. CASE \E puts, dels \in SUBSET Keys : Write(puts, dels)
  BY <1>1 DEF Write, MarkerInv
<1>2. CASE RunStep
  BY <1>2 DEF RunStep, ShipRead, ShipPut, ShipCursor, ShipPrune, StartupFails, node, MarkerInv
<1>3. ASSUME NEW t \in Threads, SnapBegin(t) \/ SnapStep(t)
      PROVE  UNCHANGED <<partial, up, request>>
  <2>1. CASE SnapBegin(t)
    BY <2>1 DEF SnapBegin, node
  <2>2. CASE SnapIndex(t) \/ SnapCopy(t) \/ SnapUpload(t) \/ SnapManifest(t) \/ SnapLoad(t)
    BY <2>2 DEF SnapIndex, SnapCopy, SnapUpload, SnapManifest, SnapLoad, node
  <2>3. CASE \/ SnapBump(t) \/ SnapDelSnap(t) \/ SnapDelManifest(t)
             \/ SnapOldest(t) \/ SnapPruneSegs(t)
    BY <2>3 DEF SnapBump, SnapDelSnap, SnapDelManifest, SnapOldest, SnapPruneSegs, node
  <2> QED BY <1>3, <2>1, <2>2, <2>3 DEF SnapStep
<1> QED BY <1>1, <1>2, <1>3 DEF MarkerInv

\* A restore on request asks for what the marker names, so a replay that fails
\* finds the marker there; it goes only with the state it belongs to.
LEMMA RestoreKeepsMarker ==
    ASSUME ~AutoRestore, MarkerInv,
           LoseDisk \/ RestoreDone \/ RestoreFails \/ ReplayFails
    PROVE  MarkerInv'
<1>1. CASE LoseDisk \/ RestoreDone \/ RestoreFails
  BY <1>1 DEF LoseDisk, RestoreDone, RestoreFails, MarkerInv
<1>2. CASE ReplayFails
  <2>1. ~up' /\ request' = request
    BY <1>2 DEF ReplayFails
  <2>2. \E r \in Requests, m \in manifests : Restores(r, m)
    BY <1>2 DEF ReplayFails
  <2>3. \E r : r \in request
    BY <2>2 DEF Restores, Wanted
  <2> QED BY <2>1, <2>3 DEF MarkerInv
<1> QED BY <1>1, <1>2

\* restoreAtStart clears the marker of a staged restore only once the restore is
\* done, so no daemon comes up on what a failed one left: whatever fails, however
\* often the daemon dies, with any sink and any number of threads.  It is so
\* without auto-restore; a first boot's own restore leaves no marker.
THEOREM PartialIsNotBooted ==
    ASSUME ~AutoRestore
    PROVE  Spec => []NoBootOnPartial
<1>1. Init => MarkerInv
  BY DEF Init, MarkerInv
<1>2. MarkerInv /\ [Next]_vars => MarkerInv'
  <2> SUFFICES ASSUME MarkerInv, [Next]_vars PROVE MarkerInv'
    OBVIOUS
  <2>1. CASE UNCHANGED vars
    BY <2>1 DEF vars, MarkerInv
  <2>2. CASE \E m \in manifests, skip \in BOOLEAN : Stage(m, skip)
    BY <2>2 DEF Stage, node, MarkerInv
  <2>3. CASE Crash \/ Boot
    BY <2>3 DEF Crash, Boot, node, MarkerInv
  <2>4. CASE LoseDisk \/ RestoreDone \/ RestoreFails \/ ReplayFails
    BY <2>4, RestoreKeepsMarker
  <2> QED BY <2>1, <2>2, <2>3, <2>4, DaemonKeepsMarker DEF Next
<1>3. MarkerInv => NoBootOnPartial
  BY DEF MarkerInv, NoBootOnPartial
<1> QED BY <1>1, <1>2, <1>3, PTL DEF Spec
=============================================================================
