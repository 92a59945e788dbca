---------------------------- MODULE ServiceProofs ----------------------------
(***************************************************************************)
(* Proofs about the service record under all its writers at once, for      *)
(* every set of tags, digests and counts, every policy of the autoscaler   *)
(* and of the watcher, and any number of edits, pushes and restarts.       *)
(***************************************************************************)
EXTENDS ServiceWriters, WellFoundedInduction, TLAPS

-----------------------------------------------------------------------------
Fields == {"on", "auto", "image", "pin", "roll", "upd", "chk", "count", "gen"}

\* A version of the record, and what its numbers and its images are.
Version(d) ==
    /\ DOMAIN d = Fields
    /\ d.upd \in Nat /\ d.chk \in Nat /\ d.count \in Nat
    /\ d.image \in Tags \cup {NoImage} /\ (d.on => d.image \in Tags)
    /\ d.pin \in Digests \cup {NoImage} /\ d.roll \in Digests \cup {NoImage}

\* Every request holds a version.
RequestInv ==
    /\ DOMAIN request = Writers
    /\ \A w \in Writers : /\ DOMAIN request[w] = {"busy", "fresh", "val"}
                          /\ Version(request[w].val)

StateInv ==
    /\ clock \in Nat \ {0}
    /\ remote \in [Tags -> Digests]
    /\ Version(svc)
    /\ RequestInv

\* A compare-and-set write that would land differs from the record in the
\* writer's own fields only, and both are of a service that exists.
ReadInv ==
    \A w \in CasWriters : request[w].busy /\ request[w].fresh =>
        /\ svc.on /\ request[w].val.on
        /\ \A f \in Fields \ Owned(w) : request[w].val[f] = svc[f]

\* What the watcher may be about to write over the record: a check, a new pin,
\* or the end of an update, converged or reverted.
Checks(v) ==
    /\ svc.upd = 0 /\ v.upd = 0
    /\ v.pin = svc.pin /\ v.roll = svc.roll /\ v.chk >= svc.chk

Pins(v) ==
    /\ svc.upd = 0 /\ v.upd # 0 /\ v.pin # svc.pin /\ v.roll = svc.pin
    /\ svc.chk = 0 \/ v.chk - svc.chk >= Interval

Settles(v) ==
    /\ svc.upd # 0 /\ v.upd = 0 /\ v.roll = NoImage /\ v.chk = svc.chk
    /\ \/ v.pin = svc.pin /\ svc.pin \notin doubt
       \/ v.pin = svc.roll

SweepInv ==
    LET v == request["watcher"].val
    IN  request["watcher"].busy /\ request["watcher"].fresh => Checks(v) \/ Pins(v) \/ Settles(v)

\* What is pinned and not in flight, what is a rollback target, and what the
\* allocs are healthy on, is not in doubt.
DoubtInv ==
    /\ svc.upd = 0 /\ svc.pin # NoImage => svc.pin \notin doubt
    /\ NoBadRollback
    /\ live.ok => live.spec.pin \notin doubt

\* The check clock never runs behind the poll of the digest that is parked.
ParkInv ==
    /\ parked.polled \in Nat
    /\ parked.polled # 0 => parked.polled <= svc.chk
    /\ RevertParks

PassInv == DOMAIN pass = {"pc", "want", "from", "fresh"} /\ pass.want \in Nat

\* The last change of a service that exists is in memory and in the Store, and
\* a pass that has decided found it a cooldown away.
CoolInv ==
    /\ scaledAt \in Nat
    /\ scaledAt # 0 => svc.on /\ mem.tracked /\ mem.last = scaledAt /\ cool = scaledAt
    /\ pass.pc # "idle" => scaledAt = 0 \/ clock - scaledAt >= ScaleCooldown

\* A memory whose history is bounded: it has a largest count.
Remembers(m) ==
    /\ DOMAIN m = {"tracked", "since", "last", "hist"}
    /\ m.since \in Nat
    /\ \A h \in m.hist : h.at \in Nat /\ h.count \in Nat
    /\ \E bound \in Nat : \A h \in m.hist : h.count <= bound

MemInv == Remembers(mem)

\* Every evaluation with data since the service is tracked is remembered.
WindowInv ==
    \A o \in seen :
        /\ o.at \in Nat /\ o.at <= clock /\ o.raw \in Nat \cup {NoData}
        /\ (mem.tracked /\ o.raw # NoData /\ o.at > mem.since)
               => [at |-> o.at, count |-> o.raw] \in mem.hist

LiveInv ==
    live # NoAllocs => live.spec.image \in Tags /\ live.spec.pin \in Digests \cup {NoImage}

\* What was named since the sweep began is among what the sweep has read, and
\* what ran since is, once it has read the allocs.
GcInv ==
    /\ DOMAIN disk = Refs
    /\ held.service \cup held.allocs \subseteq Refs
    /\ gc.pc = "services" => held.service \subseteq gc.refs /\ held.allocs \subseteq AllocRefs
    /\ gc.pc = "marked" => held.service \cup held.allocs \subseteq gc.refs

\* The inductive invariant.
ServiceInv ==
    /\ StateInv /\ ReadInv
    /\ PassInv /\ CoolInv /\ MemInv /\ WindowInv
    /\ SweepInv /\ DoubtInv /\ ParkInv
    /\ LiveInv /\ GcInv

-----------------------------------------------------------------------------
\* Numbers that are bounded have a largest.
LEMMA LargestExists ==
    ASSUME NEW C, C \subseteq Nat, NEW B \in Nat, \A c \in C : c <= B
    PROVE  \E n \in C \cup {0} : \A c \in C : c <= n
<1> DEFINE T == {b \in Nat : \A c \in C : c <= b}
<1>1. T \subseteq Nat /\ T # {}
  OBVIOUS
<1>2. PICK b \in T : \A y \in T : ~ (<<y, b>> \in OpToRel(<, Nat))
  BY <1>1, NatLessThanWellFounded, WFMin, Zenon
<1>3. \A y \in T : ~ (y < b)
  BY <1>1, <1>2 DEF OpToRel
<1>4. CASE b = 0
  BY <1>4
<1>5. CASE b # 0
  <2>1. b - 1 \in Nat /\ b - 1 \notin T
    BY <1>5, <1>3
  <2>2. PICK c \in C : c > b - 1
    BY <2>1
  <2> QED
    BY <2>2
<1> QED
  BY <1>4, <1>5

-----------------------------------------------------------------------------
\* The versions a handler makes of what it reads are versions.
LEMMA NewVersions ==
    ASSUME NEW d, Version(d)
    PROVE  /\ \A n : Version([d EXCEPT !.gen = n])
           /\ \A n \in Nat : Version([d EXCEPT !.count = n])
           /\ \A t \in Tags : Version([d EXCEPT !.image = t])
           /\ \A n \in Nat : Version([d EXCEPT !.chk = n])
           /\ Version([d EXCEPT !.roll = NoImage, !.upd = 0])
           /\ Version([d EXCEPT !.pin = d.roll, !.roll = NoImage, !.upd = 0])
           /\ \A n \in Nat, x \in Digests :
                  /\ Version([d EXCEPT !.pin = x, !.chk = n])
                  /\ Version([[d EXCEPT !.chk = n] EXCEPT !.roll = d.pin, !.pin = x, !.upd = n])
  BY DEF Version, Fields, NoImage

LEMMA GoneVersion == Version(Gone)
  BY DEF Version, Gone, Fields, NoImage

LEMMA DeclaredVersion ==
    ASSUME NEW tag \in Tags, NEW auto \in BOOLEAN, NEW n \in Nat
    PROVE  /\ Version(Declared(tag, auto, n))
           /\ Declared(tag, auto, n).image = tag
  BY DEF Version, Declared, Gone, Fields, NoImage

\* A request sent by a writer whose copy is right.
LEMMA SendKeeps ==
    ASSUME StateInv, ReadInv, SweepInv,
           NEW w \in Writers, NEW v, Version(v), Sends(w, v),
           svc' = svc, doubt' \subseteq doubt, clock' \in Nat \ {0}, remote' = remote,
           w \in CasWriters => /\ svc.on /\ v.on
                               /\ \A f \in Fields \ Owned(w) : v[f] = svc[f],
           w = "watcher" => Checks(v) \/ Pins(v) \/ (Settles(v))'
    PROVE  StateInv' /\ ReadInv' /\ SweepInv'
<1> DEFINE r == [busy |-> TRUE, fresh |-> TRUE, val |-> v]
<1>1. /\ DOMAIN request' = Writers
      /\ request'[w] = r
      /\ \A x \in Writers : x # w => request'[x] = request[x]
  BY DEF Sends, StateInv, RequestInv
<1>2. StateInv'
  BY <1>1 DEF StateInv, RequestInv
<1>3. ReadInv'
  BY <1>1 DEF ReadInv, CasWriters, Writers
<1>4. SweepInv'
  <2>1. CASE w = "watcher"
    BY <1>1, <2>1 DEF SweepInv, Checks, Pins
  <2>2. CASE w # "watcher"
    BY <1>1, <2>2 DEF SweepInv, Checks, Pins, Settles, Writers, CasWriters
  <2> QED
    BY <2>1, <2>2
<1> QED
  BY <1>2, <1>3, <1>4

\* A write that lands: nobody else's copy is fresh.
LEMMA CommitKeeps ==
    ASSUME StateInv, NEW w, NEW v, Version(v), Commits(w, v),
           clock' = clock, remote' = remote
    PROVE  StateInv' /\ ReadInv' /\ SweepInv'
<1>1. /\ DOMAIN request' = Writers
      /\ \A x \in Writers : request'[x] = IF x = w THEN Idle ELSE [request[x] EXCEPT !.fresh = FALSE]
  BY DEF Commits
<1>2. \A x \in Writers : /\ DOMAIN request'[x] = {"busy", "fresh", "val"}
                         /\ ~ (request'[x].busy /\ request'[x].fresh)
                         /\ Version(request'[x].val)
  <2> SUFFICES ASSUME NEW x \in Writers
               PROVE  /\ DOMAIN request'[x] = {"busy", "fresh", "val"}
                      /\ ~ (request'[x].busy /\ request'[x].fresh)
                      /\ Version(request'[x].val)
    OBVIOUS
  <2>1. CASE x = w
    BY <1>1, <2>1, GoneVersion DEF Idle
  <2>2. CASE x # w
    <3>1. DOMAIN request[x] = {"busy", "fresh", "val"} /\ Version(request[x].val)
      BY DEF StateInv, RequestInv
    <3>2. request'[x] = [request[x] EXCEPT !.fresh = FALSE]
      BY <1>1, <2>2
    <3>3. request'[x].val = request[x].val /\ ~request'[x].fresh
          /\ DOMAIN request'[x] = {"busy", "fresh", "val"}
      BY <3>1, <3>2
    <3> QED
      BY <3>1, <3>3
  <2> QED
    BY <2>1, <2>2
<1>3. StateInv'
  BY <1>1, <1>2 DEF StateInv, RequestInv, Commits
<1>4. ReadInv' /\ SweepInv'
  BY <1>2 DEF ReadInv, SweepInv, Writers, CasWriters
<1> QED
  BY <1>3, <1>4

\* A write that is refused, and requests that are lost.
LEMMA RefuseKeeps ==
    ASSUME StateInv, ReadInv, SweepInv, NEW w \in Writers, Refused(w),
           clock' = clock, remote' = remote, doubt' \subseteq doubt
    PROVE  StateInv' /\ ReadInv' /\ SweepInv'
<1>1. /\ DOMAIN request' = Writers /\ svc' = svc
      /\ request'[w] = Idle
      /\ \A x \in Writers : x # w => request'[x] = request[x]
  BY DEF Refused, StateInv, RequestInv
<1>2. StateInv'
  BY <1>1, GoneVersion DEF StateInv, RequestInv, Idle
<1>3. ReadInv'
  BY <1>1 DEF ReadInv, CasWriters, Writers, Idle
<1>4. SweepInv'
  <2>1. CASE w = "watcher"
    BY <1>1, <2>1 DEF SweepInv, Idle
  <2>2. CASE w # "watcher"
    BY <1>1, <2>2 DEF SweepInv, Checks, Pins, Settles, Writers, CasWriters
  <2> QED
    BY <2>1, <2>2
<1> QED
  BY <1>2, <1>3, <1>4

LEMMA DiesKeeps ==
    ASSUME StateInv, Dies
    PROVE  StateInv' /\ ReadInv' /\ SweepInv'
<1>1. \A x \in Writers : request'[x] = Idle
  BY DEF Dies
<1>2. StateInv'
  BY <1>1, GoneVersion DEF StateInv, RequestInv, Dies, Idle
<1>3. ReadInv' /\ SweepInv'
  BY <1>1 DEF ReadInv, SweepInv, Writers, CasWriters, Idle
<1> QED
  BY <1>2, <1>3

\* Steps that leave the record and the requests alone.
LEMMA StandKeeps ==
    ASSUME StateInv, ReadInv, SweepInv, svc' = svc, request' = request,
           clock' \in Nat \ {0}, remote' \in [Tags -> Digests], doubt' \subseteq doubt
    PROVE  StateInv' /\ ReadInv' /\ SweepInv'
<1>1. StateInv'
  BY DEF StateInv, RequestInv
<1>2. ReadInv'
  BY DEF ReadInv
<1>3. SweepInv'
  BY DEF SweepInv, Checks, Pins, Settles
<1> QED
  BY <1>1, <1>2, <1>3

-----------------------------------------------------------------------------
\* What apply writes is a version.
LEMMA AppliedVersion ==
    ASSUME StateInv, NEW tag \in Tags, NEW auto \in BOOLEAN, NEW n \in Nat,
           NEW d \in Pinned(CarriedOver(Declared(tag, auto, n)))
    PROVE  Version(d)
<1> DEFINE e == Declared(tag, auto, n)
           c == CarriedOver(e)
<1>1. Version(e) /\ e.image = tag
  BY DeclaredVersion
<1>2. Version(svc)
  BY DEF StateInv
<1>3. Version(c) /\ c.image = tag
  <2> HIDE DEF e
  <2>1. /\ Version([e EXCEPT !.gen = svc.gen, !.pin = svc.pin, !.roll = svc.roll, !.upd = svc.upd])
        /\ [e EXCEPT !.gen = svc.gen, !.pin = svc.pin, !.roll = svc.roll, !.upd = svc.upd].image = tag
    BY <1>1, <1>2 DEF Version, Fields
  <2>2. Version([e EXCEPT !.gen = svc.gen]) /\ [e EXCEPT !.gen = svc.gen].image = tag
    BY <1>1 DEF Version, Fields
  <2> QED
    BY <1>1, <2>1, <2>2 DEF CarriedOver
<1>4. d = c \/ d = [c EXCEPT !.pin = remote[c.image], !.chk = clock]
  BY DEF Pinned
<1>5. remote[c.image] \in Digests /\ clock \in Nat
  BY <1>3 DEF StateInv
<1> HIDE DEF c
<1>6. Version([c EXCEPT !.pin = remote[c.image], !.chk = clock])
  BY <1>3, <1>5 DEF Version, Fields
<1> QED
  BY <1>3, <1>4, <1>6

\* A step of an operator or a pipeline.
LEMMA ApiKeepsRecord ==
    ASSUME StateInv, ReadInv, SweepInv, ApiNext(Tags, BOOLEAN, Counts), doubt' \subseteq doubt
    PROVE  StateInv' /\ ReadInv' /\ SweepInv'
<1> USE ServiceAssumption
<1>0. Version(svc) /\ clock \in Nat \ {0} /\ remote \in [Tags -> Digests] /\ Counts \subseteq Nat
  BY DEF StateInv, ServiceAssumption
<1>1. ASSUME NEW w \in Writers, NEW v, Version(v), Starts(w, v),
             w # "watcher",
             w \in CasWriters => /\ svc.on /\ v.on
                                 /\ \A f \in Fields \ Owned(w) : v[f] = svc[f]
      PROVE  StateInv' /\ ReadInv' /\ SweepInv'
  BY <1>1, <1>0, SendKeeps DEF Starts
<1>2. CASE ApplyServices(Tags, BOOLEAN, Counts)
  <2>1. PICK tag \in Tags, auto \in BOOLEAN, n \in Counts :
          \E d \in Pinned(CarriedOver(Declared(tag, auto, n))) : Starts("apply", d)
    BY <1>2 DEF ApplyServices
  <2>2. PICK d \in Pinned(CarriedOver(Declared(tag, auto, n))) : Starts("apply", d)
    BY <2>1
  <2>3. Version(d)
    BY <1>0, AppliedVersion
  <2> QED
    BY <1>1, <2>2, <2>3 DEF Writers, CasWriters
<1>3. CASE HandleRestart
  BY <1>0, <1>1, <1>3, NewVersions DEF HandleRestart, Writers, CasWriters
<1>4. CASE HandleScale(Counts)
  <2>1. PICK n \in Counts : svc.on /\ Starts("scale", [svc EXCEPT !.count = n])
    BY <1>4 DEF HandleScale
  <2>2. Version([svc EXCEPT !.count = n])
    BY <1>0, NewVersions
  <2>3. /\ [svc EXCEPT !.count = n].on = svc.on
        /\ \A f \in Fields \ Owned("scale") : [svc EXCEPT !.count = n][f] = svc[f]
    BY <1>0 DEF Version, Fields, Owned
  <2> HIDE DEF Version
  <2> QED
    BY <1>1, <2>1, <2>2, <2>3 DEF Writers, CasWriters
<1>5. CASE HandleDeleteService
  BY <1>1, <1>5, GoneVersion DEF HandleDeleteService, Writers, CasWriters
<1>6. CASE Deploy(Tags)
  <2>1. PICK t \in Tags : svc.on /\ Starts("deploy", [svc EXCEPT !.image = t])
    BY <1>6 DEF Deploy
  <2>2. Version([svc EXCEPT !.image = t])
    BY <1>0, NewVersions
  <2>3. /\ [svc EXCEPT !.image = t].on = svc.on
        /\ \A f \in Fields \ Owned("deploy") : [svc EXCEPT !.image = t][f] = svc[f]
    BY <1>0 DEF Version, Fields, Owned
  <2> QED
    BY <1>1, <2>1, <2>2, <2>3 DEF Writers, CasWriters
<1>7. CASE SyncApply(Tags, BOOLEAN, Counts)
  <2>1. PICK tag \in Tags, auto \in BOOLEAN, n \in Counts : Commits("sync", Declared(tag, auto, n))
    BY <1>7 DEF SyncApply
  <2>2. Version(Declared(tag, auto, n))
    BY <1>0, DeclaredVersion
  <2> QED
    BY <1>7, <2>1, <2>2, CommitKeeps DEF SyncApply
<1>8. ASSUME NEW w \in Writers, Answered(w)
      PROVE  StateInv' /\ ReadInv' /\ SweepInv'
  <2>1. CASE Landed(w)
    BY <1>8, <2>1, CommitKeeps DEF Answered, Landed, StateInv, RequestInv
  <2>2. CASE Refused(w)
    BY <1>8, <2>2, RefuseKeeps DEF Answered
  <2> QED
    BY <1>8, <2>1, <2>2 DEF Answered
<1>9. CASE ClockTicks
  BY <1>0, <1>9, StandKeeps DEF ClockTicks
<1> QED
  BY <1>2, <1>3, <1>4, <1>5, <1>6, <1>7, <1>8, <1>9 DEF ApiNext

\* A step of the autoscaler.
LEMMA ScalerKeepsRecord ==
    ASSUME StateInv, ReadInv, SweepInv, PassInv, ScalerNext, doubt' \subseteq doubt
    PROVE  StateInv' /\ ReadInv' /\ SweepInv'
<1>0. Version(svc) /\ clock \in Nat \ {0} /\ remote \in [Tags -> Digests] /\ pass.want \in Nat
  BY DEF StateInv, PassInv
<1>1. CASE Evaluate \/ Forget
  BY <1>0, <1>1, StandKeeps DEF Evaluate, Forget, svcVars
<1>2. CASE SetCountRead
  <2> DEFINE v == [svc EXCEPT !.count = pass.want]
  <2>1. CASE svc.on /\ Sends("scaler", v)
    <3>1. /\ Version(v) /\ v.on = svc.on
          /\ \A f \in Fields \ Owned("scaler") : v[f] = svc[f]
      <4>1. Version(v)
        BY <1>0, NewVersions
      <4> QED
        BY <1>0, <4>1 DEF Version, Fields, Owned
    <3> HIDE DEF v
    <3> QED
      BY <1>0, <1>2, <2>1, <3>1, SendKeeps DEF SetCountRead, Writers, CasWriters
  <2>2. CASE UNCHANGED request
    BY <1>0, <1>2, <2>2, StandKeeps DEF SetCountRead
  <2> QED
    BY <1>2, <2>1, <2>2 DEF SetCountRead
<1>3. CASE SetCountWrite
  <2>1. CASE Landed("scaler")
    BY <1>3, <2>1, CommitKeeps DEF SetCountWrite, Landed, StateInv, RequestInv, Writers, CasWriters
  <2>2. CASE Refused("scaler")
    BY <1>3, <2>2, RefuseKeeps DEF SetCountWrite, Writers, CasWriters
  <2> QED
    BY <1>3, <2>1, <2>2 DEF SetCountWrite
<1> QED
  BY <1>1, <1>2, <1>3 DEF ScalerNext

\* What a sweep decides to write, as the record and the doubts are then.
LEMMA SweptShape ==
    ASSUME StateInv, DoubtInv, svc.on, NEW d \in Swept(svc)
    PROVE  /\ Version(d)
           /\ d.on
           /\ \A f \in Fields \ Owned("watcher") : d[f] = svc[f]
           /\ Checks(d) \/ Pins(d) \/ Settles(d)
<1> USE WatcherAssumption DEF WatcherAssumption
<1>0. /\ Version(svc) /\ clock \in Nat \ {0} /\ remote[svc.image] \in Digests
      /\ Interval \in Nat
  BY DEF StateInv, Version
<1>1. DOMAIN svc = Fields /\ svc.chk \in Nat
  BY <1>0 DEF Version
<1>2. Owned("watcher") = {"pin", "roll", "upd", "chk"}
  BY DEF Owned
<1>3. CASE svc.upd = 0
  <2> DEFINE checked == [svc EXCEPT !.chk = clock]
             digest == remote[svc.image]
             pinned == [checked EXCEPT !.roll = svc.pin, !.pin = digest, !.upd = clock]
  <2>1. svc.chk = 0 \/ ~ (clock - svc.chk < Interval)
    BY <1>3 DEF Swept, Polled
  <2>2. clock >= svc.chk /\ (svc.chk = 0 \/ clock - svc.chk >= Interval)
    BY <1>0, <1>1, <2>1
  <2>3. CASE d = checked
    <3>1. Version(d)
      BY <1>0, <2>3, NewVersions
    <3>2. /\ d.on = svc.on /\ d.upd = svc.upd /\ d.pin = svc.pin /\ d.roll = svc.roll
          /\ d.chk = clock
          /\ \A f \in Fields \ Owned("watcher") : d[f] = svc[f]
      BY <1>1, <1>2, <2>3 DEF Fields
    <3> QED
      BY <1>3, <2>2, <3>1, <3>2 DEF Checks
  <2>4. CASE d = pinned /\ digest # svc.pin
    <3>1. Version(d)
      BY <1>0, <2>4, NewVersions
    <3>2. /\ d.on = svc.on /\ d.upd = clock /\ d.pin = digest /\ d.roll = svc.pin
          /\ d.chk = clock
          /\ \A f \in Fields \ Owned("watcher") : d[f] = svc[f]
      BY <1>1, <1>2, <2>4 DEF Fields
    <3> QED
      BY <1>0, <1>3, <2>2, <2>4, <3>1, <3>2 DEF Pins
  <2>5. d = checked \/ (d = pinned /\ digest # svc.pin)
    BY <1>3 DEF Swept, Polled
  <2> QED
    BY <2>3, <2>4, <2>5
<1>4. CASE svc.upd # 0
  <2> DEFINE done == [svc EXCEPT !.roll = NoImage, !.upd = 0]
             back == Reverted(svc)
  <2>1. CASE d = done /\ Converged(svc)
    <3>1. Version(d)
      BY <1>0, <2>1, NewVersions
    <3>2. /\ d.on = svc.on /\ d.upd = 0 /\ d.pin = svc.pin /\ d.roll = NoImage
          /\ d.chk = svc.chk
          /\ \A f \in Fields \ Owned("watcher") : d[f] = svc[f]
      BY <1>1, <1>2, <2>1 DEF Fields
    <3>3. live.ok /\ live.spec.pin = svc.pin
      BY <2>1 DEF Converged, SpecOf
    <3>4. svc.pin \notin doubt
      BY <3>3 DEF DoubtInv
    <3> QED
      BY <1>4, <3>1, <3>2, <3>4 DEF Settles
  <2>2. CASE d = back
    <3>1. Version(d)
      BY <1>0, <2>2, NewVersions DEF Reverted
    <3>2. /\ d.on = svc.on /\ d.upd = 0 /\ d.pin = svc.roll /\ d.roll = NoImage
          /\ d.chk = svc.chk
          /\ \A f \in Fields \ Owned("watcher") : d[f] = svc[f]
      BY <1>1, <1>2, <2>2 DEF Fields, Reverted
    <3> QED
      BY <1>4, <3>1, <3>2 DEF Settles
  <2>3. d = back \/ (d = done /\ Converged(svc))
    BY <1>4 DEF Swept, Settled
  <2> QED
    BY <2>1, <2>2, <2>3
<1> QED
  BY <1>3, <1>4

\* A step of the watcher or of the reconciler.
LEMMA WatcherKeepsRecord ==
    ASSUME StateInv, ReadInv, SweepInv, DoubtInv, WatcherNext
    PROVE  StateInv' /\ ReadInv' /\ SweepInv'
<1>0. clock \in Nat \ {0} /\ remote \in [Tags -> Digests]
  BY DEF StateInv
<1>1. CASE Rolls
  <2>1. doubt' \subseteq doubt
    BY <1>1 DEF Rolls
  <2> QED
    BY <1>0, <1>1, <2>1, StandKeeps DEF Rolls, svcVars
<1>2. CASE Sweep
  <2>1. PICK d \in Swept(svc) : Sends("watcher", d)
    BY <1>2 DEF Sweep
  <2>2. svc.on /\ UNCHANGED <<svc, remote, clock, doubt>>
    BY <1>2 DEF Sweep, watcherVars
  <2>3. /\ Version(d) /\ d.on
        /\ \A f \in Fields \ Owned("watcher") : d[f] = svc[f]
        /\ Checks(d) \/ Pins(d) \/ Settles(d)
    BY <2>2, SweptShape
  <2>4. Checks(d) \/ Pins(d) \/ (Settles(d))'
    BY <2>2, <2>3 DEF Settles
  <2> QED
    BY <1>0, <2>1, <2>2, <2>3, <2>4, SendKeeps DEF Writers, CasWriters
<1>3. CASE SweepWrite
  <2>0. "watcher" \in Writers /\ UNCHANGED <<remote, clock>>
    BY <1>3 DEF SweepWrite, Writers, CasWriters
  <2>1. CASE Landed("watcher")
    BY <2>0, <2>1, CommitKeeps DEF Landed, StateInv, RequestInv
  <2>2. CASE Refused("watcher") /\ UNCHANGED doubt
    BY <2>0, <2>2, RefuseKeeps
  <2> QED
    BY <1>3, <2>1, <2>2 DEF SweepWrite
<1> QED
  BY <1>1, <1>2, <1>3 DEF WatcherNext

\* What somebody else writes leaves no new doubt.
LEMMA WatchedDoubt == WatcherWatches => doubt' \subseteq doubt
  BY DEF WatcherWatches

\* The record, the requests and the copies they hold.
LEMMA RecordStep ==
    ASSUME StateInv, ReadInv, SweepInv, PassInv, DoubtInv, ServiceNext
    PROVE  StateInv' /\ ReadInv' /\ SweepInv'
<1>0. clock \in Nat \ {0} /\ remote \in [Tags -> Digests]
  BY DEF StateInv
<1>1. CASE ApiNext(Tags, BOOLEAN, Counts) /\ WatcherWatches
  BY <1>1, ApiKeepsRecord, WatchedDoubt
<1>2. CASE TagMoves /\ UNCHANGED watcherVars
  <2>1. remote' \in [Tags -> Digests]
    BY <1>0, <1>2 DEF TagMoves
  <2> QED
    BY <1>0, <1>2, <2>1, StandKeeps DEF TagMoves, watcherVars
<1>3. CASE ScalerNext /\ WatcherWatches
  BY <1>3, ScalerKeepsRecord, WatchedDoubt
<1>4. CASE WatcherNext
  BY <1>4, WatcherKeepsRecord
<1>5. CASE GcNext
  <2>1. UNCHANGED <<svcVars, doubt>>
    BY <1>5 DEF GcNext, GcServices, GcAllocs, GcSweep
  <2> QED
    BY <1>0, <2>1, StandKeeps DEF svcVars
<1>6. CASE ScalerRestarts
  BY <1>6, DiesKeeps DEF ScalerRestarts
<1> QED
  BY <1>1, <1>2, <1>3, <1>4, <1>5, <1>6 DEF ServiceNext

-----------------------------------------------------------------------------
\* Operators and pipelines write in their own names, and only by a write that
\* lands, or a sync.
LEMMA ApiLands ==
    ASSUME ApiNext(Tags, BOOLEAN, Counts)
    PROVE  \/ svc' = svc
           \/ writer' = "sync"
           \/ writer' \notin {"scaler", "watcher"} /\ Landed(writer')
<1>1. ASSUME NEW w, NEW v, Starts(w, v) PROVE svc' = svc
  BY <1>1 DEF Starts
<1>2. CASE ApplyServices(Tags, BOOLEAN, Counts) \/ HandleRestart \/ HandleScale(Counts)
           \/ HandleDeleteService \/ Deploy(Tags)
  BY <1>1, <1>2 DEF ApplyServices, HandleRestart, HandleScale, HandleDeleteService, Deploy
<1>3. CASE SyncApply(Tags, BOOLEAN, Counts)
  BY <1>3 DEF SyncApply, Commits
<1>4. ASSUME NEW w \in Writers, Answered(w)
      PROVE  svc' = svc \/ (writer' \notin {"scaler", "watcher"} /\ Landed(writer'))
  <2>1. CASE Landed(w)
    <3>1. writer' = w
      BY <2>1 DEF Landed, Commits
    <3> QED
      BY <1>4, <2>1, <3>1 DEF Answered
  <2>2. CASE Refused(w)
    BY <2>2 DEF Refused
  <2> QED
    BY <1>4, <2>1, <2>2 DEF Answered
<1>5. CASE ClockTicks
  BY <1>5 DEF ClockTicks
<1> QED
  BY <1>2, <1>3, <1>4, <1>5 DEF ApiNext

\* The autoscaler moves the count and nothing else.
LEMMA ScalerWrite ==
    ASSUME StateInv, ReadInv, ScalerNext
    PROVE  \/ svc' = svc
           \/ /\ svc.on /\ svc'.on
              /\ svc'.pin = svc.pin /\ svc'.roll = svc.roll
              /\ svc'.upd = svc.upd /\ svc'.chk = svc.chk
<1>1. CASE Evaluate \/ Forget \/ SetCountRead
  BY <1>1 DEF Evaluate, Forget, SetCountRead, svcVars
<1>2. CASE SetCountWrite /\ Landed("scaler")
  <2>1. /\ request["scaler"].busy /\ request["scaler"].fresh
        /\ svc' = request["scaler"].val
    BY <1>2 DEF Landed, Conflicts, Commits, CasWriters
  <2>2. \A f \in Fields \ {"count"} : svc'[f] = svc[f]
    BY <2>1 DEF ReadInv, CasWriters, Owned
  <2>3. svc.on /\ svc'.on
    BY <2>1 DEF ReadInv, CasWriters
  <2> QED
    BY <2>2, <2>3 DEF Fields
<1>3. CASE SetCountWrite /\ Refused("scaler")
  BY <1>3 DEF Refused
<1> QED
  BY <1>1, <1>2, <1>3 DEF ScalerNext, SetCountWrite

\* What the watcher remembers of its pins, when somebody else writes.
LEMMA WatchesKeep ==
    ASSUME DoubtInv, ParkInv, WatcherWatches,
           \/ svc' = svc \/ writer' # "scaler"
           \/ /\ svc'.pin = svc.pin /\ svc'.roll = svc.roll
              /\ svc'.upd = svc.upd /\ svc'.chk = svc.chk
    PROVE  DoubtInv' /\ ParkInv'
<1>1. CASE svc' # svc /\ writer' # "scaler"
  <2>1. doubt' = doubt \ Theirs(svc') /\ parked' = Nothing /\ live' = live
    BY <1>1 DEF WatcherWatches
  <2>2. DoubtInv'
    BY <2>1 DEF DoubtInv, NoBadRollback, Theirs
  <2>3. ParkInv'
    BY <2>1 DEF ParkInv, RevertParks, Nothing
  <2> QED
    BY <2>2, <2>3
<1>2. CASE ~ (svc' # svc /\ writer' # "scaler")
  <2>1. doubt' = doubt /\ parked' = parked /\ live' = live
    BY <1>2 DEF WatcherWatches
  <2>2. /\ svc'.pin = svc.pin /\ svc'.roll = svc.roll
        /\ svc'.upd = svc.upd /\ svc'.chk = svc.chk
    BY <1>2
  <2>3. DoubtInv'
    BY <2>1, <2>2 DEF DoubtInv, NoBadRollback
  <2>4. ParkInv'
    BY <2>1, <2>2 DEF ParkInv, RevertParks
  <2> QED
    BY <2>3, <2>4
<1> QED
  BY <1>1, <1>2

\* The watcher's own write.
LEMMA SweepWriteKeeps ==
    ASSUME StateInv, SweepInv, DoubtInv, ParkInv, SweepWrite
    PROVE  DoubtInv' /\ ParkInv'
<1> DEFINE v == request["watcher"].val
<1>0. live' = live
  BY DEF SweepWrite
<1>1. CASE Refused("watcher") /\ UNCHANGED <<doubt, parked>>
  BY <1>0, <1>1 DEF Refused, DoubtInv, ParkInv, NoBadRollback, RevertParks
<1>2. CASE /\ Landed("watcher")
           /\ doubt' = IF svc'.upd # 0 /\ svc.upd = 0 /\ ~HealthyOn(svc'.pin)
                       THEN doubt \cup {svc'.pin} ELSE doubt
           /\ parked' = IF svc.upd # 0 /\ svc'.upd = 0 /\ svc'.pin # svc.pin
                        THEN [digest |-> svc.pin, polled |-> svc.chk] ELSE parked
  <2>1. svc' = v /\ (Checks(v) \/ Pins(v) \/ Settles(v))
    BY <1>2 DEF Landed, Conflicts, Commits, CasWriters, SweepInv
  <2>2. v.chk \in Nat /\ svc.chk \in Nat /\ Interval \in Nat
    BY WatcherAssumption DEF StateInv, RequestInv, Version, Writers, CasWriters, WatcherAssumption
  <2>3. CASE Checks(v)
    <3>1. doubt' = doubt /\ parked' = parked
      BY <1>2, <2>1, <2>3 DEF Checks
    <3> QED
      BY <1>0, <2>1, <2>2, <2>3, <3>1 DEF Checks, DoubtInv, ParkInv, NoBadRollback, RevertParks
  <2>4. CASE Pins(v)
    <3>1. parked' = parked /\ doubt' \subseteq doubt \cup {v.pin}
      BY <1>2, <2>1, <2>4 DEF Pins
    <3>2. live.ok => live.spec.pin \notin doubt'
      BY <1>2, <2>1, <2>4 DEF Pins, DoubtInv, HealthyOn
    <3>3. DoubtInv'
      BY <1>0, <2>1, <2>4, <3>1, <3>2 DEF Pins, DoubtInv, NoBadRollback
    <3>4. ParkInv'
      BY <2>1, <2>2, <2>4, <3>1 DEF Pins, ParkInv, RevertParks
    <3> QED
      BY <3>3, <3>4
  <2>5. CASE Settles(v)
    <3>1. doubt' = doubt
      BY <1>2, <2>1, <2>5 DEF Settles
    <3>2. parked' = parked \/ parked' = [digest |-> svc.pin, polled |-> svc.chk]
      BY <1>2
    <3>3. DoubtInv'
      BY <1>0, <2>1, <2>5, <3>1 DEF Settles, DoubtInv, NoBadRollback
    <3>4. ParkInv'
      BY <2>1, <2>2, <2>5, <3>2 DEF Settles, ParkInv, RevertParks
    <3> QED
      BY <3>3, <3>4
  <2> QED
    BY <2>1, <2>3, <2>4, <2>5
<1> QED
  BY <1>1, <1>2 DEF SweepWrite

\* What is in doubt, and what is parked.
LEMMA PinStep ==
    ASSUME StateInv, ReadInv, SweepInv, DoubtInv, ParkInv, ServiceNext
    PROVE  DoubtInv' /\ ParkInv'
<1>1. CASE ApiNext(Tags, BOOLEAN, Counts) /\ WatcherWatches
  BY <1>1, ApiLands, WatchesKeep
<1>2. CASE ScalerNext /\ WatcherWatches
  BY <1>2, ScalerWrite, WatchesKeep
<1>3. CASE Rolls
  <2>1. /\ svc' = svc /\ parked' = parked /\ doubt' \subseteq doubt
        /\ live'.ok => live'.spec.pin \notin doubt'
    BY <1>3 DEF Rolls, svcVars, SpecOf
  <2> QED
    BY <2>1 DEF DoubtInv, ParkInv, NoBadRollback, RevertParks
<1>4. CASE SweepWrite
  BY <1>4, SweepWriteKeeps
<1>5. CASE UNCHANGED <<svc, doubt, parked, live>>
  BY <1>5 DEF DoubtInv, ParkInv, NoBadRollback, RevertParks
<1>6. CASE TagMoves /\ UNCHANGED watcherVars
  BY <1>5, <1>6 DEF TagMoves, watcherVars
<1>7. CASE Sweep
  BY <1>5, <1>7 DEF Sweep, watcherVars
<1>8. CASE GcNext
  BY <1>5, <1>8 DEF GcNext, GcServices, GcAllocs, GcSweep, svcVars
<1>9. CASE WatcherRestarts
  BY <1>5, <1>9 DEF WatcherRestarts, Dies
<1> QED
  BY <1>1, <1>2, <1>3, <1>4, <1>6, <1>7, <1>8, <1>9 DEF ServiceNext, WatcherNext

\* maxDesired returns a count no smaller than any in the window.
LEMMA MaxDesiredIsMax ==
    ASSUME NEW m, Remembers(m)
    PROVE  /\ MaxDesired(m) \in Nat
           /\ \A h \in m.hist : h.at >= clock - Stabilize => h.count <= MaxDesired(m)
<1> DEFINE counts == {h.count : h \in {x \in m.hist : x.at >= clock - Stabilize}}
<1>1. counts \subseteq Nat
  BY DEF Remembers
<1>2. PICK bound \in Nat : \A h \in m.hist : h.count <= bound
  BY DEF Remembers
<1>3. \A c \in counts : c <= bound
  BY <1>2
<1>4. \A h \in m.hist : h.at >= clock - Stabilize => h.count \in counts
  OBVIOUS
<1>5. MaxDesired(m) = CHOOSE n \in counts \cup {0} : \A c \in counts : c <= n
  BY DEF MaxDesired
<1> HIDE DEF counts
<1>6. \E n \in counts \cup {0} : \A c \in counts : c <= n
  BY <1>1, <1>3, LargestExists
<1>7. MaxDesired(m) \in counts \cup {0} /\ \A c \in counts : c <= MaxDesired(m)
  BY <1>5, <1>6
<1>8. MaxDesired(m) \in Nat
  <2>1. 0 \in Nat
    OBVIOUS
  <2> QED
    BY <1>1, <1>7, <2>1, Zenon
<1> QED
  BY <1>4, <1>7, <1>8, Zenon

\* What the rules ask for is a count.
LEMMA RawIsCount ==
    ASSUME NEW current \in Nat, NEW ratio \in Nat
    PROVE  RawDesired(current, ratio) \in Nat
<1> DEFINE r == IF ratio >= 100 - Tolerance /\ ratio <= 100 + Tolerance THEN 100 ELSE ratio
<1>1. r \in Nat
  OBVIOUS
<1> HIDE DEF r
<1>2. current * r \in Nat
  BY <1>1
<1>3. \A n \in Nat : CeilDiv(n, 100) \in Nat
  BY DEF CeilDiv
<1>4. CeilDiv(current * r, 100) \in Nat
  BY <1>2, <1>3
<1>5. RawDesired(current, ratio) = IF current = 0 THEN (IF r > 100 THEN 1 ELSE 0)
                                   ELSE CeilDiv(current * r, 100)
  BY DEF RawDesired, r
<1> QED
  BY <1>4, <1>5

\* Evaluate wants a count, and fewer than there are only when a whole window
\* was watched and everything in it wanted fewer.
LEMMA DesiredShrinks ==
    ASSUME NEW m, Remembers(m), NEW current \in Nat, NEW raw \in Nat, clock \in Nat
    PROVE  /\ Desired(m, current, raw) \in Nat
           /\ Desired(m, current, raw) < current =>
                /\ clock - m.since >= Stabilize
                /\ MinCount < current
                /\ \A h \in m.hist : h.at >= clock - Stabilize
                       => Clamp(h.count, MinCount, MaxCount) < current
<1> DEFINE n == Clamp(raw, MinCount, MaxCount)
           highest == Clamp(MaxDesired(m), MinCount, MaxCount)
           d == Desired(m, current, raw)
<1> USE ServiceAssumption, ScalerAssumption DEF ServiceAssumption, ScalerAssumption
<1>0. m.since \in Nat /\ Stabilize \in Nat /\ current \div 2 \in Nat
  BY DEF Remembers
<1>1. n \in Nat /\ highest \in Nat /\ MinCount <= highest
  BY MaxDesiredIsMax DEF Clamp, Larger, Smaller
<1>2. \A h \in m.hist : h.at >= clock - Stabilize => Clamp(h.count, MinCount, MaxCount) <= highest
  BY MaxDesiredIsMax DEF Clamp, Larger, Smaller, Remembers
<1>3. d = IF n > current THEN CapStepUp(current, n)
          ELSE IF n < current
               THEN IF clock - m.since < Stabilize \/ highest >= current THEN current
                    ELSE CapStepDown(current, Larger(n, highest))
               ELSE current
  BY DEF Desired, Windowed
<1>4. n > current => CapStepUp(current, n) \in Nat /\ CapStepUp(current, n) >= current
  BY <1>1 DEF CapStepUp, Smaller
<1>5. CapStepDown(current, Larger(n, highest)) \in Nat
  BY <1>0, <1>1 DEF CapStepDown, Larger
<1>6. \A h \in m.hist : h.at >= clock - Stabilize => Clamp(h.count, MinCount, MaxCount) \in Nat
  BY DEF Clamp, Larger, Smaller, Remembers
<1> HIDE DEF n, highest, d
<1>7. d \in Nat
  BY <1>3, <1>4, <1>5
<1>8. d < current => clock - m.since >= Stabilize /\ highest < current
  BY <1>0, <1>1, <1>3, <1>4
<1>9. highest < current => MinCount < current
  BY <1>1
<1>10. ASSUME highest < current, NEW h \in m.hist, h.at >= clock - Stabilize
       PROVE  Clamp(h.count, MinCount, MaxCount) < current
  BY <1>1, <1>2, <1>6, <1>10
<1> QED
  BY <1>7, <1>8, <1>9, <1>10 DEF d

\* Remembering an evaluation.
LEMMA RecordRemembers ==
    ASSUME NEW m, Remembers(m), NEW raw \in Nat, clock \in Nat
    PROVE  LET r == Record(m, raw)
           IN  /\ Remembers(r)
               /\ r.tracked = m.tracked /\ r.since = m.since /\ r.last = m.last
               /\ r.hist = {h \in m.hist : h.at >= clock - Stabilize} \cup {[at |-> clock, count |-> raw]}
<1> DEFINE r == Record(m, raw)
           new == [at |-> clock, count |-> raw]
           hist == {h \in m.hist : h.at >= clock - Stabilize} \cup {new}
<1>1. r = [m EXCEPT !.hist = hist]
  BY DEF Record
<1>2. /\ DOMAIN r = {"tracked", "since", "last", "hist"}
      /\ r.tracked = m.tracked /\ r.since = m.since /\ r.last = m.last /\ r.hist = hist
  BY <1>1 DEF Remembers
<1>3. PICK bound \in Nat : \A h \in m.hist : h.count <= bound
  BY DEF Remembers
<1>4. \A h \in hist : h \in m.hist \/ h = new
  OBVIOUS
<1>5. \A h \in m.hist : h.at \in Nat /\ h.count \in Nat
  BY DEF Remembers
<1>6. new.at \in Nat /\ new.count \in Nat /\ new.count = raw
  OBVIOUS
<1> HIDE DEF hist, new
<1>7. \A h \in hist : h.at \in Nat /\ h.count \in Nat
  BY <1>4, <1>5, <1>6
<1>8. bound + raw \in Nat /\ \A h \in hist : h.count <= bound + raw
  BY <1>3, <1>4, <1>5, <1>6
<1> HIDE DEF r
<1>9. Remembers(r)
  <2>1. \E b \in Nat : \A h \in r.hist : h.count <= b
    BY <1>2, <1>8
  <2> QED
    BY <1>2, <1>7, <2>1 DEF Remembers
<1> QED
  BY <1>2, <1>9 DEF r, hist, new

\* A service that is tracked from now on has an empty memory.
LEMMA StateForRemembers ==
    ASSUME Remembers(mem), clock \in Nat
    PROVE  LET s == StateFor(mem)
           IN  /\ Remembers(s) /\ s.tracked
               /\ mem.tracked => s = mem
               /\ ~mem.tracked => s.since = clock /\ s.last = 0 /\ s.hist = {}
<1>1. CASE mem.tracked
  BY <1>1 DEF StateFor
<1>2. CASE ~mem.tracked
  <2>1. StateFor(mem) = [tracked |-> TRUE, since |-> clock, last |-> 0, hist |-> {}]
    BY <1>2 DEF StateFor, Untracked
  <2> QED
    BY <1>2, <2>1 DEF Remembers
<1> QED
  BY <1>1, <1>2

\* Starting a cooldown, with what was remembered before it.
LEMMA CooldownRemembers ==
    ASSUME NEW s, Remembers(s), NEW t
    PROVE  LET c == [s EXCEPT !.last = t]
           IN  /\ Remembers(c) /\ c.last = t
               /\ c.tracked = s.tracked /\ c.since = s.since /\ c.hist = s.hist
<1> DEFINE c == [s EXCEPT !.last = t]
<1>1. /\ DOMAIN c = {"tracked", "since", "last", "hist"} /\ c.last = t
      /\ c.tracked = s.tracked /\ c.since = s.since /\ c.hist = s.hist
  BY DEF Remembers
<1> HIDE DEF c
<1>2. Remembers(c)
  BY <1>1 DEF Remembers
<1> QED
  BY <1>1, <1>2 DEF c

LEMMA UntrackedRemembers == Remembers(Untracked) /\ ~Untracked.tracked
  BY DEF Remembers, Untracked

-----------------------------------------------------------------------------
\* The parts of the invariant that are about the autoscaler.
ScalerInv == PassInv /\ CoolInv /\ MemInv /\ WindowInv

\* One pass: what it remembers, and what it may decide.
LEMMA EvaluateKeeps ==
    ASSUME StateInv, ScalerInv, Evaluate
    PROVE  ScalerInv'
<1> USE ScalerAssumption DEF ScalerAssumption
<1>0. /\ clock \in Nat \ {0} /\ svc.count \in Nat /\ clock' = clock /\ svc' = svc
      /\ cool' = cool /\ scaledAt' = scaledAt
      /\ Remembers(mem) /\ Stabilize \in Nat /\ ScaleCooldown \in Nat
  BY DEF StateInv, Version, Evaluate, svcVars, ScalerInv, MemInv
<1>1. Recent \subseteq seen
  BY DEF Recent
<1>2. CASE seen' = Recent \cup {[at |-> clock, raw |-> NoData]} /\ UNCHANGED <<mem, pass>>
  <2>1. PassInv' /\ CoolInv' /\ MemInv'
    BY <1>0, <1>2 DEF ScalerInv, PassInv, CoolInv, MemInv
  <2>2. WindowInv'
    <3> SUFFICES ASSUME NEW o \in seen'
                 PROVE  /\ o.at \in Nat /\ o.at <= clock /\ o.raw \in Nat \cup {NoData}
                        /\ (mem.tracked /\ o.raw # NoData /\ o.at > mem.since)
                              => [at |-> o.at, count |-> o.raw] \in mem.hist
      BY <1>0, <1>2 DEF WindowInv
    <3>1. CASE o = [at |-> clock, raw |-> NoData]
      BY <1>0, <3>1
    <3>2. CASE o \in seen
      BY <3>2 DEF ScalerInv, WindowInv
    <3> QED
      BY <1>1, <1>2, <3>1, <3>2
  <2> QED
    BY <2>1, <2>2 DEF ScalerInv
<1>3. ASSUME NEW ratio \in Ratios,
             LET raw == RawDesired(svc.count, ratio)
                 m   == Record(StateFor(mem), raw)
                 n   == Desired(m, svc.count, raw)
             IN  /\ mem' = m
                 /\ seen' = Recent \cup {[at |-> clock, raw |-> raw]}
                 /\ \/ UNCHANGED pass
                    \/ /\ n # svc.count /\ ~Cooling(m)
                       /\ pass' = [pc |-> "decided", want |-> n, from |-> svc.count, fresh |-> TRUE]
      PROVE  ScalerInv'
  <2> DEFINE raw == RawDesired(svc.count, ratio)
             s   == StateFor(mem)
             m   == Record(s, raw)
             n   == Desired(m, svc.count, raw)
  <2>1. raw \in Nat
    BY <1>0, RawIsCount
  <2>2. /\ Remembers(s) /\ s.tracked /\ (mem.tracked => s = mem)
        /\ ~mem.tracked => s.since = clock /\ s.last = 0 /\ s.hist = {}
    BY <1>0, StateForRemembers
  <2> HIDE DEF raw, s
  <2>3. /\ Remembers(m) /\ m.tracked = s.tracked /\ m.since = s.since /\ m.last = s.last
        /\ m.hist = {h \in s.hist : h.at >= clock - Stabilize} \cup {[at |-> clock, count |-> raw]}
    BY <1>0, <2>1, <2>2, RecordRemembers
  <2> HIDE DEF m
  <2>4. n \in Nat
    BY <1>0, <2>1, <2>3, DesiredShrinks
  <2> HIDE DEF n
  <2>5. /\ mem' = m
        /\ seen' = Recent \cup {[at |-> clock, raw |-> raw]}
        /\ \/ UNCHANGED pass
           \/ /\ n # svc.count /\ ~Cooling(m)
              /\ pass' = [pc |-> "decided", want |-> n, from |-> svc.count, fresh |-> TRUE]
    BY <1>3 DEF n, m, s, raw
  <2>6. PassInv'
    BY <2>4, <2>5 DEF ScalerInv, PassInv
  <2>7. CoolInv'
    <3>1. scaledAt # 0 => m.tracked /\ m.last = scaledAt
      BY <2>2, <2>3 DEF ScalerInv, CoolInv
    <3>2. ~Cooling(m) /\ scaledAt # 0 => clock - scaledAt >= ScaleCooldown
      BY <1>0, <3>1 DEF Cooling, ScalerInv, CoolInv
    <3> QED
      BY <1>0, <2>5, <3>1, <3>2 DEF ScalerInv, CoolInv
  <2>8. MemInv'
    BY <2>3, <2>5 DEF MemInv
  <2>9. WindowInv'
    <3> SUFFICES ASSUME NEW o \in seen'
                 PROVE  /\ o.at \in Nat /\ o.at <= clock /\ o.raw \in Nat \cup {NoData}
                        /\ (m.tracked /\ o.raw # NoData /\ o.at > m.since)
                              => [at |-> o.at, count |-> o.raw] \in m.hist
      BY <1>0, <2>5 DEF WindowInv
    <3>1. CASE o = [at |-> clock, raw |-> raw]
      BY <1>0, <2>1, <2>3, <3>1
    <3>2. CASE o \in Recent
      <4>1. o \in seen /\ o.at > clock - Stabilize
        BY <3>2 DEF Recent
      <4>2. o.at \in Nat /\ o.at <= clock /\ o.raw \in Nat \cup {NoData}
        BY <4>1 DEF ScalerInv, WindowInv
      <4>3. ASSUME o.raw # NoData, o.at > m.since
            PROVE  [at |-> o.at, count |-> o.raw] \in m.hist
        <5>1. mem.tracked
          BY <1>0, <2>2, <2>3, <4>2, <4>3
        <5>2. [at |-> o.at, count |-> o.raw] \in mem.hist
          BY <2>2, <2>3, <4>1, <4>3, <5>1 DEF ScalerInv, WindowInv
        <5> QED
          BY <1>0, <2>2, <2>3, <4>1, <4>2, <5>1, <5>2
      <4> QED
        BY <4>2, <4>3
    <3> QED
      BY <2>5, <3>1, <3>2
  <2> QED
    BY <2>6, <2>7, <2>8, <2>9 DEF ScalerInv
<1> QED
  BY <1>2, <1>3 DEF Evaluate

\* The loop's other steps.
LEMMA ForgetKeeps ==
    ASSUME StateInv, ScalerInv, Forget
    PROVE  ScalerInv'
<1>1. /\ mem' = Untracked /\ ~svc.on
      /\ UNCHANGED <<svc, clock, pass, cool, seen, scaledAt>>
  BY DEF Forget, svcVars
<1>2. PassInv' /\ CoolInv'
  BY <1>1 DEF ScalerInv, PassInv, CoolInv
<1>3. MemInv' /\ WindowInv'
  BY <1>1, UntrackedRemembers DEF ScalerInv, MemInv, WindowInv
<1> QED
  BY <1>2, <1>3 DEF ScalerInv

LEMMA SetCountReadKeeps ==
    ASSUME StateInv, ScalerInv, SetCountRead
    PROVE  ScalerInv'
<1>1. UNCHANGED <<svc, clock, mem, cool, seen, scaledAt>> /\ pass.pc = "decided"
  BY DEF SetCountRead
<1>2. pass' = NoPass \/ pass' = [pass EXCEPT !.pc = "writing"]
  BY DEF SetCountRead
<1>3. PassInv'
  BY <1>2 DEF ScalerInv, PassInv, NoPass
<1>4. CoolInv' /\ MemInv' /\ WindowInv'
  BY <1>1 DEF ScalerInv, CoolInv, MemInv, WindowInv
<1> QED
  BY <1>3, <1>4 DEF ScalerInv

\* What is tracked from now on has everything seen behind it.
LEMMA TrackedKeepsWindow ==
    ASSUME ScalerInv, clock \in Nat, seen' = seen, clock' = clock,
           mem'.since = StateFor(mem).since, mem'.hist = StateFor(mem).hist
    PROVE  WindowInv'
<1>1. Remembers(mem)
  BY DEF ScalerInv, MemInv
<1>2. CASE mem.tracked
  <2>1. mem'.since = mem.since /\ mem'.hist = mem.hist
    BY <1>2 DEF StateFor
  <2> QED
    BY <1>2, <2>1 DEF ScalerInv, WindowInv
<1>3. CASE ~mem.tracked
  <2>1. mem'.since = clock
    BY <1>1, <1>3, StateForRemembers
  <2>2. \A o \in seen : o.at \in Nat /\ o.at <= clock
    BY DEF ScalerInv, WindowInv
  <2>3. \A o \in seen : ~ (o.at > mem'.since)
    BY <2>1, <2>2
  <2> QED
    BY <2>3 DEF ScalerInv, WindowInv
<1> QED
  BY <1>2, <1>3

LEMMA SetCountWriteKeeps ==
    ASSUME StateInv, ReadInv, ScalerInv, SetCountWrite
    PROVE  ScalerInv'
<1>0. /\ clock \in Nat \ {0} /\ Remembers(mem)
      /\ pass' = NoPass /\ UNCHANGED <<clock, seen>>
  BY DEF StateInv, ScalerInv, MemInv, SetCountWrite
<1>1. PassInv'
  BY <1>0 DEF PassInv, NoPass
<1>2. CASE Refused("scaler") /\ UNCHANGED <<mem, cool, scaledAt>>
  <2>1. svc' = svc
    BY <1>2 DEF Refused
  <2>2. CoolInv' /\ MemInv' /\ WindowInv'
    BY <1>0, <1>2, <2>1 DEF ScalerInv, CoolInv, MemInv, WindowInv, NoPass
  <2> QED
    BY <1>1, <2>2 DEF ScalerInv
<1>3. CASE /\ Landed("scaler")
           /\ cool' = clock /\ scaledAt' = clock
           /\ mem' = [StateFor(mem) EXCEPT !.last = clock]
  <2>1. Remembers(StateFor(mem)) /\ StateFor(mem).tracked
    BY <1>0, StateForRemembers
  <2>2. /\ Remembers(mem') /\ mem'.last = clock /\ mem'.tracked
        /\ mem'.since = StateFor(mem).since /\ mem'.hist = StateFor(mem).hist
    BY <1>3, <2>1, CooldownRemembers
  <2>3. svc'.on
    BY <1>3 DEF Landed, Conflicts, Commits, CasWriters, ReadInv
  <2>4. CoolInv'
    BY <1>0, <1>3, <2>2, <2>3 DEF CoolInv, NoPass
  <2>5. MemInv'
    BY <2>2 DEF MemInv
  <2>6. WindowInv'
    BY <1>0, <2>2, TrackedKeepsWindow
  <2> QED
    BY <1>1, <2>4, <2>5, <2>6 DEF ScalerInv
<1> QED
  BY <1>2, <1>3 DEF SetCountWrite

LEMMA ScalerRestartsKeeps ==
    ASSUME StateInv, ScalerInv, ScalerRestarts
    PROVE  ScalerInv'
<1>0. /\ clock \in Nat \ {0} /\ pass' = NoPass
      /\ UNCHANGED <<svc, clock, seen, scaledAt>>
      /\ cool' = IF svc.on THEN cool ELSE 0
  BY DEF StateInv, ScalerRestarts, Dies
<1>1. PassInv'
  BY <1>0 DEF PassInv, NoPass
<1>2. CASE svc.on /\ cool # 0
  <2> DEFINE s == [tracked |-> TRUE, since |-> clock, last |-> 0, hist |-> {}]
  <2>0. StateFor(Untracked) = s
    BY DEF StateFor, Untracked
  <2>1. mem' = [s EXCEPT !.last = cool]
    BY <1>2, <2>0 DEF ScalerRestarts
  <2>2. Remembers(s) /\ s.tracked /\ s.since = clock
    BY <1>0 DEF Remembers
  <2> HIDE DEF s
  <2>3. Remembers(mem') /\ mem'.last = cool /\ mem'.tracked /\ mem'.since = clock
    BY <2>1, <2>2, CooldownRemembers
  <2>4. CoolInv'
    BY <1>0, <1>2, <2>3 DEF ScalerInv, CoolInv, NoPass
  <2>5. MemInv'
    BY <2>3 DEF MemInv
  <2>6. WindowInv'
    <3>1. \A o \in seen : o.at \in Nat /\ o.at <= clock
      BY DEF ScalerInv, WindowInv
    <3>2. \A o \in seen : ~ (o.at > mem'.since)
      BY <1>0, <2>3, <3>1
    <3> QED
      BY <1>0, <3>2 DEF ScalerInv, WindowInv
  <2> QED
    BY <1>1, <2>4, <2>5, <2>6 DEF ScalerInv
<1>3. CASE ~ (svc.on /\ cool # 0)
  <2>1. mem' = Untracked
    BY <1>3 DEF ScalerRestarts
  <2>2. scaledAt = 0
    BY <1>3 DEF ScalerInv, CoolInv
  <2>3. CoolInv' /\ MemInv' /\ WindowInv'
    BY <1>0, <2>1, <2>2, UntrackedRemembers DEF ScalerInv, CoolInv, MemInv, WindowInv, NoPass
  <2> QED
    BY <1>1, <2>3 DEF ScalerInv
<1> QED
  BY <1>2, <1>3

\* A step of somebody else: time passes, and the record may go.
LEMMA ScalerWatchesKeeps ==
    ASSUME StateInv, ScalerInv, ScalerWatches, clock' = clock \/ clock' = clock + 1
    PROVE  ScalerInv'
<1>0. /\ clock \in Nat /\ ScaleCooldown \in Nat /\ UNCHANGED <<mem, cool, seen>>
      /\ scaledAt' = IF svc'.on THEN scaledAt ELSE 0
      /\ pass' = [pass EXCEPT !.fresh = @ /\ svc' = svc]
  BY ScalerAssumption DEF StateInv, ScalerWatches, ScalerAssumption
<1>1. PassInv' /\ pass'.pc = pass.pc
  BY <1>0 DEF ScalerInv, PassInv
<1>2. CoolInv'
  BY <1>0, <1>1 DEF ScalerInv, CoolInv
<1>3. MemInv' /\ WindowInv'
  BY <1>0 DEF ScalerInv, MemInv, WindowInv
<1> QED
  BY <1>1, <1>2, <1>3 DEF ScalerInv

LEMMA ApiClock ==
    ApiNext(Tags, BOOLEAN, Counts) => clock' = clock \/ clock' = clock + 1
<1> SUFFICES ASSUME ApiNext(Tags, BOOLEAN, Counts) PROVE clock' = clock \/ clock' = clock + 1
  OBVIOUS
<1>1. ASSUME NEW w, NEW v, Starts(w, v) PROVE clock' = clock
  BY <1>1 DEF Starts
<1>2. CASE ApplyServices(Tags, BOOLEAN, Counts) \/ HandleRestart \/ HandleScale(Counts)
           \/ HandleDeleteService \/ Deploy(Tags)
  BY <1>1, <1>2 DEF ApplyServices, HandleRestart, HandleScale, HandleDeleteService, Deploy
<1>3. CASE SyncApply(Tags, BOOLEAN, Counts) \/ (\E w \in Writers : Answered(w)) \/ ClockTicks
  BY <1>3 DEF SyncApply, Answered, ClockTicks
<1> QED
  BY <1>2, <1>3 DEF ApiNext

LEMMA ScalerStep ==
    ASSUME StateInv, ReadInv, ScalerInv, ServiceNext
    PROVE  ScalerInv'
<1>1. CASE ApiNext(Tags, BOOLEAN, Counts) /\ ScalerWatches
  BY <1>1, ApiClock, ScalerWatchesKeeps
<1>2. CASE ScalerNext
  BY <1>2, EvaluateKeeps, ForgetKeeps, SetCountReadKeeps, SetCountWriteKeeps DEF ScalerNext
<1>3. CASE WatcherNext /\ ScalerWatches
  <2>1. clock' = clock
    BY <1>3 DEF WatcherNext, Rolls, Sweep, SweepWrite, svcVars
  <2> QED
    BY <1>3, <2>1, ScalerWatchesKeeps
<1>4. CASE ScalerRestarts
  BY <1>4, ScalerRestartsKeeps
<1>5. CASE (TagMoves \/ GcNext) /\ UNCHANGED scalerVars
  <2>1. UNCHANGED <<svc, clock>>
    BY <1>5 DEF TagMoves, GcNext, GcServices, GcAllocs, GcSweep, svcVars
  <2> QED
    BY <1>5, <2>1 DEF ScalerInv, PassInv, CoolInv, MemInv, WindowInv, scalerVars
<1> QED
  BY <1>1, <1>2, <1>3, <1>4, <1>5 DEF ServiceNext

-----------------------------------------------------------------------------
\* The parts of the invariant that are about images on the node.
ImagesInv == LiveInv /\ GcInv

LEMMA NamedAreRefs ==
    ASSUME StateInv, LiveInv
    PROVE  ServiceNames \subseteq Refs /\ AllocRefs \subseteq Refs
  BY DEF StateInv, Version, LiveInv, ServiceNames, AllocRefs, RunImage, Refs, NoImage

\* A step that holds what was held all the while.
LEMMA HoldsKeeps ==
    ASSUME GcInv, Holds, gc' = gc, DOMAIN disk' = Refs
    PROVE  GcInv'
<1>1. /\ held'.service = held.service \cap ServiceNames'
      /\ held'.allocs = held.allocs \cap AllocRefs'
  BY DEF Holds
<1>2. /\ held'.service \subseteq held.service /\ held'.allocs \subseteq held.allocs
      /\ held'.allocs \subseteq AllocRefs'
  BY <1>1
<1> QED
  BY <1>2 DEF GcInv

LEMMA RollsKeeps ==
    ASSUME StateInv, ImagesInv, Rolls
    PROVE  ImagesInv'
<1>1. svc.on /\ Version(svc) /\ gc' = gc /\ Holds /\ live'.spec = SpecOf(svc)
  BY DEF StateInv, Rolls
<1>2. LiveInv'
  BY <1>1 DEF LiveInv, SpecOf, Version
<1>3. DOMAIN disk' = Refs
  BY DEF Rolls, ImagesInv, GcInv
<1> QED
  BY <1>1, <1>2, <1>3, HoldsKeeps DEF ImagesInv

LEMMA WatchesKeepsImages ==
    ASSUME ImagesInv, Holds, UNCHANGED <<live, disk, gc>>
    PROVE  ImagesInv'
<1>1. DOMAIN disk' = Refs
  BY DEF ImagesInv, GcInv
<1>2. GcInv'
  BY <1>1, HoldsKeeps DEF ImagesInv
<1>3. LiveInv'
  BY DEF ImagesInv, LiveInv
<1> QED
  BY <1>2, <1>3 DEF ImagesInv

LEMMA CollectorKeeps ==
    ASSUME StateInv, ImagesInv, GcNext
    PROVE  ImagesInv'
<1>0. ServiceNames \subseteq Refs /\ AllocRefs \subseteq Refs
  BY NamedAreRefs DEF ImagesInv
<1>1. live' = live /\ LiveInv' /\ AllocRefs' = AllocRefs
  BY DEF GcNext, GcServices, GcAllocs, GcSweep, ImagesInv, LiveInv, AllocRefs
<1>2. CASE GcServices
  <2>1. /\ gc' = [pc |-> "services", refs |-> ServiceRefs]
        /\ held' = [service |-> ServiceNames, allocs |-> AllocRefs]
        /\ disk' = disk
    BY <1>2 DEF GcServices
  <2>2. ServiceNames = ServiceRefs
    BY DEF ServiceNames, ServiceRefs
  <2> QED
    BY <1>0, <1>1, <2>1, <2>2 DEF ImagesInv, GcInv
<1>3. CASE GcAllocs
  <2>1. /\ gc.pc = "services" /\ gc' = [pc |-> "marked", refs |-> gc.refs \cup AllocRefs]
        /\ held' = held /\ disk' = disk
    BY <1>3 DEF GcAllocs
  <2> QED
    BY <1>1, <2>1 DEF ImagesInv, GcInv
<1>4. CASE GcSweep
  <2>1. gc' = NoSweep /\ held' = held /\ DOMAIN disk' = Refs
    BY <1>4 DEF GcSweep
  <2> QED
    BY <1>1, <2>1 DEF ImagesInv, GcInv, NoSweep
<1> QED
  BY <1>2, <1>3, <1>4 DEF GcNext

LEMMA ImagesStep ==
    ASSUME StateInv, ImagesInv, ServiceNext
    PROVE  ImagesInv'
<1>1. CASE WatcherWatches
  BY <1>1, WatchesKeepsImages DEF WatcherWatches
<1>2. CASE Rolls
  BY <1>2, RollsKeeps
<1>3. CASE SweepWrite
  BY <1>3, WatchesKeepsImages DEF SweepWrite
<1>4. CASE GcNext
  BY <1>4, CollectorKeeps
<1>5. CASE UNCHANGED <<live, disk, gc, held>>
  BY <1>5 DEF ImagesInv, LiveInv, GcInv, AllocRefs
<1>6. CASE (TagMoves /\ UNCHANGED watcherVars) \/ Sweep
  BY <1>5, <1>6 DEF Sweep, watcherVars
<1>7. CASE WatcherRestarts
  <2>1. UNCHANGED <<live, disk, held>> /\ gc' = NoSweep
    BY <1>7 DEF WatcherRestarts
  <2> QED
    BY <2>1 DEF ImagesInv, LiveInv, GcInv, NoSweep
<1> QED
  BY <1>1, <1>2, <1>3, <1>4, <1>6, <1>7 DEF ServiceNext, WatcherNext

-----------------------------------------------------------------------------
LEMMA InitServiceInv == ServiceInit => ServiceInv
<1> SUFFICES ASSUME ServiceInit PROVE ServiceInv
  OBVIOUS
<1> USE ServiceAssumption DEF ServiceAssumption
<1>1. StateInv
  <2>1. Version(svc)
    <3>1. (CHOOSE t \in Tags : TRUE) \in Tags /\ MinCount \in Nat
      OBVIOUS
    <3> QED
      BY <3>1, DeclaredVersion DEF ServiceInit, SvcInit
  <2>2. RequestInv
    BY GoneVersion DEF ServiceInit, SvcInit, RequestInv, Idle
  <2>3. (CHOOSE d \in Digests : TRUE) \in Digests
    OBVIOUS
  <2>4. clock \in Nat \ {0} /\ remote \in [Tags -> Digests]
    BY <2>3 DEF ServiceInit, SvcInit
  <2> QED
    BY <2>1, <2>2, <2>4 DEF StateInv
<1>2. ReadInv /\ SweepInv
  BY DEF ServiceInit, SvcInit, ReadInv, SweepInv, Idle, Writers, CasWriters
<1>3. PassInv /\ CoolInv /\ MemInv /\ WindowInv
  BY UntrackedRemembers
     DEF ServiceInit, ScalerInit, PassInv, CoolInv, MemInv, WindowInv, NoPass
<1>4. DoubtInv /\ ParkInv
  BY DEF ServiceInit, WatcherInit, DoubtInv, ParkInv, NoBadRollback, RevertParks, Nothing
<1>5. LiveInv /\ GcInv
  BY DEF ServiceInit, WatcherInit, LiveInv, GcInv, NoSweep
<1> QED
  BY <1>1, <1>2, <1>3, <1>4, <1>5 DEF ServiceInv

LEMMA ServiceStep ==
    ServiceInv /\ [ServiceNext]_serviceVars => ServiceInv'
<1> SUFFICES ASSUME ServiceInv, [ServiceNext]_serviceVars PROVE ServiceInv'
  OBVIOUS
<1>1. CASE ServiceNext
  <2>1. StateInv' /\ ReadInv' /\ SweepInv'
    BY <1>1, RecordStep DEF ServiceInv
  <2>2. DoubtInv' /\ ParkInv'
    BY <1>1, PinStep DEF ServiceInv
  <2>3. ScalerInv'
    BY <1>1, ScalerStep DEF ServiceInv, ScalerInv
  <2>4. ImagesInv'
    BY <1>1, ImagesStep DEF ServiceInv, ImagesInv
  <2> QED
    BY <2>1, <2>2, <2>3, <2>4 DEF ServiceInv, ScalerInv, ImagesInv
<1>2. CASE UNCHANGED serviceVars
  <2>1. /\ UNCHANGED <<svc, request, remote, clock, mem, pass, cool, seen, scaledAt>>
        /\ UNCHANGED <<live, disk, gc, held, doubt, parked>>
    BY <1>2 DEF serviceVars, svcVars, scalerVars, watcherVars
  <2>2. StateInv' /\ ReadInv'
    BY <2>1 DEF ServiceInv, StateInv, RequestInv, ReadInv
  <2>3. PassInv' /\ CoolInv' /\ MemInv' /\ WindowInv'
    BY <2>1 DEF ServiceInv, PassInv, CoolInv, MemInv, WindowInv
  <2>4. SweepInv' /\ DoubtInv' /\ ParkInv'
    BY <2>1 DEF ServiceInv, SweepInv, Checks, Pins, Settles, DoubtInv, ParkInv,
                NoBadRollback, RevertParks
  <2>5. LiveInv' /\ GcInv'
    BY <2>1 DEF ServiceInv, LiveInv, GcInv, AllocRefs
  <2> QED
    BY <2>2, <2>3, <2>4, <2>5 DEF ServiceInv
<1> QED
  BY <1>1, <1>2

LEMMA ServiceInvariant == ServiceSpec => []ServiceInv
<1> QED
  BY InitServiceInv, ServiceStep, PTL DEF ServiceSpec

-----------------------------------------------------------------------------
\* The watcher never has a rollback target it pinned itself and never saw
\* converge, whatever operators, pipelines and restarts do in between.
THEOREM RollbackTargetsWorked == ServiceSpec => []NoBadRollback
<1>1. ServiceInv => NoBadRollback
  BY DEF ServiceInv, DoubtInv
<1> QED
  BY <1>1, ServiceInvariant, PTL

\* A reverted digest stays away for a poll interval.
THEOREM RevertsStayParked == ServiceSpec => []RevertParks
<1>1. ServiceInv => RevertParks
  BY DEF ServiceInv, ParkInv
<1> QED
  BY <1>1, ServiceInvariant, PTL

\* A partial update changes its own fields of the record it lands on.
THEOREM PartialUpdatesKeepTheRest == ServiceSpec => OnlyOwnFields
<1> DEFINE A == \A w \in CasWriters :
                  (request[w].busy /\ ~request'[w].busy /\ svc' # svc /\ writer' = w)
                      => /\ svc.on /\ svc'.on
                         /\ \A f \in DOMAIN svc \ Owned(w) : svc'[f] = svc[f]
<1>1. ASSUME ServiceInv, [ServiceNext]_serviceVars PROVE [A]_svcVars
  <2> SUFFICES ASSUME NEW w \in CasWriters, svc' # svc, writer' = w
               PROVE  /\ svc.on /\ svc'.on
                      /\ \A f \in DOMAIN svc \ Owned(w) : svc'[f] = svc[f]
    OBVIOUS
  <2>0. DOMAIN svc = Fields /\ StateInv /\ ReadInv
    BY <1>1 DEF ServiceInv, StateInv, Version
  <2>1. ServiceNext
    BY <1>1 DEF serviceVars, svcVars
  <2>2. Landed(w)
    <3>1. CASE ApiNext(Tags, BOOLEAN, Counts)
      BY <3>1, ApiLands DEF CasWriters
    <3>2. CASE ScalerNext
      BY <3>2 DEF ScalerNext, Evaluate, Forget, SetCountRead, SetCountWrite, Landed, Refused, Commits, svcVars
    <3>3. CASE WatcherNext
      BY <3>3 DEF WatcherNext, Rolls, Sweep, SweepWrite, Landed, Refused, Commits, svcVars
    <3>4. CASE TagMoves \/ GcNext \/ ScalerRestarts
      BY <3>4 DEF TagMoves, GcNext, GcServices, GcAllocs, GcSweep, ScalerRestarts, Dies, svcVars
    <3> QED
      BY <2>1, <3>1, <3>2, <3>3, <3>4 DEF ServiceNext
  <2>3. request[w].busy /\ request[w].fresh /\ svc' = request[w].val
    BY <2>2 DEF Landed, Conflicts, Commits
  <2> QED
    BY <2>0, <2>3 DEF ReadInv
<1>2. ServiceSpec => [][A]_svcVars
  BY <1>1, ServiceInvariant, PTL DEF ServiceSpec
<1> QED
  BY <1>2 DEF OnlyOwnFields

\* Two changes by the autoscaler are a cooldown apart, across restarts of the
\* daemon and edits of everybody else.
THEOREM ChangesAreApart == ServiceSpec => CooldownHolds
<1> DEFINE A == (pass.pc = "writing" /\ svc' # svc /\ writer' = "scaler" /\ scaledAt # 0)
                    => clock - scaledAt >= ScaleCooldown
<1>1. ASSUME ServiceInv PROVE [A]_<<svcVars, scalerVars>>
  BY <1>1 DEF ServiceInv, CoolInv
<1>2. ServiceSpec => [][A]_<<svcVars, scalerVars>>
  BY <1>1, ServiceInvariant, PTL
<1> QED
  BY <1>2 DEF CooldownHolds

\* No shrink is decided while an evaluation of the last window wanted at least
\* the current count, of this daemon or of the one before it.
THEOREM ShrinksAreWatched == ServiceSpec => ShrinkWatched
<1> DEFINE A == (pass.pc = "idle" /\ pass'.pc = "decided" /\ pass'.want < pass'.from)
                    => \A o \in seen : o.at > clock - Stabilize
                                           => Clamp(o.raw, MinCount, MaxCount) < pass'.from
<1>1. ASSUME ServiceInv, [ServiceNext]_serviceVars PROVE [A]_<<svcVars, scalerVars>>
  <2> USE ServiceAssumption, ScalerAssumption DEF ServiceAssumption, ScalerAssumption
  <2> SUFFICES ASSUME pass.pc = "idle", pass'.pc = "decided", pass'.want < pass'.from,
                      NEW o \in seen, o.at > clock - Stabilize
               PROVE  Clamp(o.raw, MinCount, MaxCount) < pass'.from
    OBVIOUS
  <2>0. /\ clock \in Nat /\ svc.count \in Nat /\ Remembers(mem)
        /\ Stabilize \in Nat /\ MinCount \in Nat /\ MaxCount \in Nat
        /\ o.at \in Nat /\ o.at <= clock /\ o.raw \in Nat \cup {NoData}
    BY <1>1 DEF ServiceInv, StateInv, Version, MemInv, WindowInv
  <2>1. Evaluate
    <3>1. ASSUME pass' = [pass EXCEPT !.fresh = @ /\ svc' = svc] PROVE FALSE
      BY <1>1, <3>1 DEF ServiceInv, PassInv
    <3>2. CASE ScalerWatches
      BY <3>1, <3>2 DEF ScalerWatches
    <3>3. CASE UNCHANGED pass
      BY <3>3
    <3>4. CASE ScalerNext
      BY <3>3, <3>4 DEF ScalerNext, Forget, SetCountRead, SetCountWrite, NoPass
    <3>5. CASE ScalerRestarts
      BY <3>5 DEF ScalerRestarts, NoPass
    <3> QED
      BY <1>1, <3>2, <3>3, <3>4, <3>5 DEF ServiceNext, serviceVars, scalerVars
  <2>2. PICK ratio \in Ratios :
             LET raw == RawDesired(svc.count, ratio)
                 m   == Record(StateFor(mem), raw)
                 n   == Desired(m, svc.count, raw)
             IN  pass' = [pc |-> "decided", want |-> n, from |-> svc.count, fresh |-> TRUE]
    BY <2>1 DEF Evaluate
  <2> DEFINE raw == RawDesired(svc.count, ratio)
             s   == StateFor(mem)
             m   == Record(s, raw)
             n   == Desired(m, svc.count, raw)
  <2>3. raw \in Nat
    BY <2>0, RawIsCount
  <2>4. /\ Remembers(s) /\ (mem.tracked => s = mem)
        /\ ~mem.tracked => s.since = clock
    BY <2>0, StateForRemembers
  <2>5. pass'.want = n /\ pass'.from = svc.count
    BY <2>2
  <2> HIDE DEF raw, s
  <2>6. /\ Remembers(m) /\ m.since = s.since
        /\ m.hist = {h \in s.hist : h.at >= clock - Stabilize} \cup {[at |-> clock, count |-> raw]}
    BY <2>0, <2>3, <2>4, RecordRemembers
  <2> HIDE DEF m
  <2>7. /\ clock - m.since >= Stabilize /\ MinCount < svc.count
        /\ \A h \in m.hist : h.at >= clock - Stabilize
               => Clamp(h.count, MinCount, MaxCount) < svc.count
    <3>1. Desired(m, svc.count, raw) < svc.count
      BY <2>5
    <3> HIDE DEF n
    <3> QED
      BY <2>0, <2>3, <2>6, <3>1, DesiredShrinks, Zenon
  <2>8. mem.tracked /\ s = mem /\ o.at > mem.since
    <3>1. m.since \in Nat
      BY <2>6 DEF Remembers
    <3> QED
      BY <2>0, <2>4, <2>6, <2>7, <3>1
  <2>9. CASE o.raw = NoData
    BY <2>0, <2>5, <2>7, <2>9 DEF NoData, Clamp, Larger, Smaller
  <2>10. CASE o.raw # NoData
    <3> DEFINE h == [at |-> o.at, count |-> o.raw]
    <3>1. h \in mem.hist
      BY <1>1, <2>8, <2>10 DEF ServiceInv, WindowInv
    <3>2. h.at = o.at /\ h.count = o.raw
      OBVIOUS
    <3> HIDE DEF h
    <3>3. h \in m.hist /\ h.at >= clock - Stabilize
      BY <2>0, <2>6, <2>8, <3>1, <3>2
    <3> QED
      BY <2>5, <2>7, <3>2, <3>3
  <2> QED
    BY <2>9, <2>10
<1>2. ServiceSpec => [][A]_<<svcVars, scalerVars>>
  BY <1>1, ServiceInvariant, PTL DEF ServiceSpec
<1> QED
  BY <1>2 DEF ShrinkWatched

\* A sweep of the collector deletes nothing that was in use all the while.
THEOREM UsedImagesSurvive == ServiceSpec => UsedSurvives
<1> DEFINE A == gc.pc = "marked" => \A r \in held.service \cup held.allocs :
                                        disk[r] # 0 => disk'[r] # 0
<1>1. ASSUME ServiceInv, [ServiceNext]_serviceVars PROVE A
  <2> SUFFICES ASSUME gc.pc = "marked", NEW r \in held.service \cup held.allocs, disk[r] # 0
               PROVE  disk'[r] # 0
    OBVIOUS
  <2>1. r \in gc.refs /\ r \in Refs /\ DOMAIN disk = Refs /\ clock # 0
    BY <1>1 DEF ServiceInv, GcInv, StateInv
  <2>2. CASE UNCHANGED disk
    BY <2>2
  <2>3. CASE Rolls
    BY <2>1, <2>3 DEF Rolls
  <2>4. CASE GcSweep
    <3>1. PICK kept \in SUBSET OnDisk :
            \E gone \in SUBSET {x \in OnDisk \ (gc.refs \cup kept) : clock - disk[x] >= MinAge} :
                disk' = [x \in Refs |-> IF x \in gone THEN 0 ELSE disk[x]]
      BY <2>4 DEF GcSweep
    <3>2. PICK gone \in SUBSET {x \in OnDisk \ (gc.refs \cup kept) : clock - disk[x] >= MinAge} :
                disk' = [x \in Refs |-> IF x \in gone THEN 0 ELSE disk[x]]
      BY <3>1
    <3>3. r \notin gone
      BY <2>1, <3>2
    <3> QED
      BY <2>1, <3>2, <3>3
  <2> QED
    BY <1>1, <2>2, <2>3, <2>4
       DEF ServiceNext, WatcherNext, GcNext, GcServices, GcAllocs, Sweep, SweepWrite,
           WatcherWatches, WatcherRestarts, serviceVars, watcherVars
<1>2. ServiceSpec => [][A]_<<svcVars, watcherVars>>
  BY <1>1, ServiceInvariant, PTL DEF ServiceSpec
<1> QED
  BY <1>2 DEF UsedSurvives
=============================================================================
