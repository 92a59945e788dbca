---------------------------- MODULE NodeProofs ----------------------------
(***************************************************************************)
(* The parts of a node that keep their own state: the audit trail          *)
(* verifies, what a tag names stays pullable, two allocs never have one    *)
(* address, no subject is admitted past its limit, and the frontends'      *)
(* backend sets are whole and those a pass was asked for; each for every   *)
(* value of its constants.                                                 *)
(***************************************************************************)
EXTENDS AuditLog, Registry, Attach, RateLimiter, LoadBalancer,
        FiniteSetTheorems, SequenceTheorems, WellFoundedInduction, TLAPS

-----------------------------------------------------------------------------
(* The audit trail, for every clock, random suffix and size of a batch.    *)

Stamps == Nat \X Nat

\* The keys of a trail that come before k.
Older(T, k) == {l \in DOMAIN T : Before(l, k)}

IsNewest(K, p) == p \in K /\ \A l \in K : Upto2(l, p)

\* Every entry but the oldest names the hash of the entry just before it.
Linked(T) ==
  \A k \in DOMAIN T :
    Older(T, k) # {} =>
      \E p \in Older(T, k) : IsNewest(Older(T, k), p) /\ T[k].prev = T[p].hash

\* The newest entry is the one in memory, unless all were pruned: a prune takes
\* from the old end.  Without this an append after a prune could not be linked.
AuditInv ==
  /\ last \in Stamps
  /\ DOMAIN trail \subseteq Stamps \ {NoKey}
  /\ IsFiniteSet(DOMAIN trail)
  /\ DOMAIN trail # {} => IsNewest(DOMAIN trail, last) /\ trail[last].hash = head
  /\ Linked(trail)

-----------------------------------------------------------------------------
\* Keys are totally ordered (Upto2 is the comparison of the bucket's keys).
LEMMA KeyOrder ==
  ASSUME NEW k \in Stamps, NEW l \in Stamps, NEW m \in Stamps
  PROVE  /\ Upto2(k, l) \/ Upto2(l, k)
         /\ Upto2(k, l) /\ Upto2(l, k) => k = l
         /\ Upto2(k, l) /\ Upto2(l, m) => Upto2(k, m)
<1>1. PICK a, b \in Nat : k = <<a, b>>
  BY DEF Stamps
<1>2. PICK c, d \in Nat : l = <<c, d>>
  BY DEF Stamps
<1>3. PICK e, f \in Nat : m = <<e, f>>
  BY DEF Stamps
<1> QED
  BY <1>1, <1>2, <1>3 DEF Upto2

\* There is one newest key (what Open and Verify find with a reverse cursor).
LEMMA NewestIs ==
  ASSUME NEW K \in SUBSET Stamps, NEW p, IsNewest(K, p)
  PROVE  Newest(K) = p
<1>1. \A q \in K : (\A l \in K : Upto2(l, q)) => q = p
  BY KeyOrder DEF IsNewest
<1>2. \E q \in K : \A l \in K : Upto2(l, q)
  BY DEF IsNewest
<1>3. Newest(K) \in K /\ \A l \in K : Upto2(l, Newest(K))
  BY <1>2 DEF Newest
<1> QED
  BY <1>1, <1>3

\* A trail whose entries are linked is one that Verify accepts.
LEMMA LinkedVerifies == AuditInv => ChainUnbroken
<1> SUFFICES ASSUME AuditInv, NEW k \in DOMAIN trail, Older(trail, k) # {}
             PROVE  trail[k].prev = trail[Newest(Older(trail, k))].hash
  BY DEF ChainUnbroken, Older
<1>1. PICK p \in Older(trail, k) :
        IsNewest(Older(trail, k), p) /\ trail[k].prev = trail[p].hash
  BY DEF AuditInv, Linked
<1>2. Older(trail, k) \in SUBSET Stamps
  BY DEF AuditInv, Older
<1> QED
  BY <1>1, <1>2, NewestIs

-----------------------------------------------------------------------------
LEMMA AuditInitInv == AuditInit => AuditInv
<1> SUFFICES ASSUME AuditInit PROVE AuditInv
  OBVIOUS
<1>1. DOMAIN trail = {}
  BY DEF AuditInit
<1> QED
  BY <1>1, FS_EmptySet DEF AuditInit, AuditInv, Stamps, NoKey, Linked

\* An entry goes to a key past all others, wherever the clock stands (nextID).
LEMMA NextIDPast ==
  ASSUME AuditInv, NEW t \in 1..MaxTime, NEW s \in RandomParts
  PROVE  /\ NextID(t, s) \in Stamps \ {NoKey}
         /\ \A l \in DOMAIN trail : Before(l, NextID(t, s))
<1> DEFINE k == NextID(t, s)
<1>0. t \in Nat /\ t > 0 /\ s \in Nat /\ last \in Stamps
  BY AuditAssumption DEF AuditInv
<1>1. PICK a, b \in Nat : last = <<a, b>>
  BY <1>0 DEF Stamps
<1>2. k \in Stamps /\ k # NoKey
  BY <1>0, <1>1 DEF NextID, NoKey, Stamps
<1>3. last # NoKey => Before(last, k)
  BY <1>0, <1>1 DEF NextID, NoKey, Upto2, Before
<1>4. ASSUME NEW l \in DOMAIN trail PROVE Before(l, k)
  <2>1. l \in Stamps /\ Upto2(l, last) /\ last \in DOMAIN trail
    BY <1>4 DEF AuditInv, IsNewest
  <2>2. Before(last, k)
    BY <2>1, <1>3 DEF AuditInv
  <2> QED
    BY <2>1, <2>2, <1>2, KeyOrder DEF Before, AuditInv
<1> QED
  BY <1>2, <1>4

LEMMA RecordInv ==
  ASSUME AuditInv, NEW t \in 1..MaxTime, NEW s \in RandomParts, AuditRecord(t, s)
  PROVE  AuditInv'
<1> DEFINE k == NextID(t, s)
<1> HIDE DEF k
<1>1. k \in Stamps /\ k # NoKey /\ \A l \in DOMAIN trail : Before(l, k)
  BY NextIDPast DEF k
<1>2. /\ DOMAIN trail' = DOMAIN trail \cup {k} /\ last' = k
      /\ trail'[k] = [prev |-> head, hash |-> recorded + 1]
      /\ head' = recorded + 1
      /\ \A x \in DOMAIN trail \ {k} : trail'[x] = trail[x]
  BY DEF AuditRecord, k
<1>3. k \notin DOMAIN trail
  BY <1>1 DEF Before
<1>4. IsFiniteSet(DOMAIN trail')
  BY <1>2, FS_AddElement DEF AuditInv
<1>5. IsNewest(DOMAIN trail', k)
  BY <1>1, <1>2, KeyOrder DEF IsNewest, Before
<1>6. Older(trail', k) = DOMAIN trail
  BY <1>1, <1>2 DEF Older, Before
<1>7. \A x \in DOMAIN trail : Older(trail', x) = Older(trail, x)
  <2> SUFFICES ASSUME NEW x \in DOMAIN trail PROVE ~ Before(k, x)
    BY <1>2 DEF Older
  <2> QED
    BY <1>1, KeyOrder DEF Before, AuditInv
<1>8. Linked(trail')
  <2> SUFFICES ASSUME NEW x \in DOMAIN trail', Older(trail', x) # {}
               PROVE  \E p \in Older(trail', x) :
                        /\ IsNewest(Older(trail', x), p)
                        /\ trail'[x].prev = trail'[p].hash
    BY DEF Linked
  <2>1. CASE x = k
    <3>1. IsNewest(DOMAIN trail, last) /\ trail[last].hash = head
      BY <2>1, <1>6 DEF AuditInv
    <3>2. last \in DOMAIN trail /\ trail'[last] = trail[last]
      BY <3>1, <1>2, <1>3 DEF IsNewest
    <3> QED
      BY <2>1, <3>1, <3>2, <1>2, <1>6
  <2>2. CASE x \in DOMAIN trail
    <3>1. PICK p \in Older(trail, x) :
            IsNewest(Older(trail, x), p) /\ trail[x].prev = trail[p].hash
      BY <2>2, <1>7 DEF AuditInv, Linked
    <3>2. p \in DOMAIN trail /\ trail'[p] = trail[p] /\ trail'[x] = trail[x]
      BY <2>2, <1>2, <1>3 DEF Older
    <3> QED
      BY <2>2, <3>1, <3>2, <1>7
  <2> QED
    BY <2>1, <2>2, <1>2
<1> QED
  BY <1>1, <1>2, <1>4, <1>5, <1>8 DEF AuditInv

\* Whatever a batch leaves, it took a prefix: an entry older than one it took
\* is gone as well.
LEMMA PrunePrefix ==
  ASSUME AuditInv, NEW t \in 1..MaxTime, PruneOnce(t),
         NEW k \in DOMAIN trail \ DOMAIN trail', NEW l \in DOMAIN trail,
         Before(l, k)
  PROVE  l \notin DOMAIN trail'
<1> DEFINE old == {x \in DOMAIN trail : x[1] < t}
           Earlier(x) == {y \in old : Before(y, x)}
<1>0. k \in Stamps /\ l \in Stamps /\ t \in Nat /\ DOMAIN trail \subseteq Stamps
  BY DEF AuditInv
<1>1. k \in old /\ Cardinality(Earlier(k)) < PruneBatch
  BY DEF PruneOnce
<1>2. l \in old
  BY <1>0, <1>1 DEF Before, Upto2, Stamps
<1>3. Earlier(l) \subseteq Earlier(k)
  BY <1>0, KeyOrder DEF Before
<1>4. IsFiniteSet(Earlier(k))
  <2>1. Earlier(k) \subseteq DOMAIN trail
    OBVIOUS
  <2> QED
    BY <2>1, FS_Subset DEF AuditInv
<1>5. /\ Cardinality(Earlier(l)) <= Cardinality(Earlier(k))
      /\ Cardinality(Earlier(l)) \in Nat /\ Cardinality(Earlier(k)) \in Nat
  BY <1>3, <1>4, FS_Subset, FS_CardinalityType
<1>6. Cardinality(Earlier(l)) < PruneBatch
  BY <1>1, <1>5, AuditAssumption
<1> QED
  BY <1>2, <1>6 DEF PruneOnce

LEMMA PruneInv ==
  ASSUME AuditInv, NEW t \in 1..MaxTime, PruneOnce(t)
  PROVE  AuditInv'
<1>1. /\ DOMAIN trail' \subseteq DOMAIN trail
      /\ \A x \in DOMAIN trail' : trail'[x] = trail[x]
      /\ UNCHANGED <<head, last>>
  BY DEF PruneOnce
<1>2. IsFiniteSet(DOMAIN trail')
  BY <1>1, FS_Subset DEF AuditInv
<1>3. ASSUME DOMAIN trail' # {}
      PROVE  IsNewest(DOMAIN trail', last) /\ trail'[last].hash = head
  <2>1. IsNewest(DOMAIN trail, last) /\ trail[last].hash = head
    BY <1>1, <1>3 DEF AuditInv
  <2>2. last \in DOMAIN trail'
    <3>1. PICK x : x \in DOMAIN trail'
      BY <1>3
    <3>2. x = last \/ Before(x, last)
      BY <2>1, <3>1, <1>1 DEF IsNewest, Before
    <3> QED
      BY <3>1, <3>2, <2>1, <1>1, PrunePrefix DEF IsNewest
  <2> QED
    BY <2>1, <2>2, <1>1 DEF IsNewest
<1>4. Linked(trail')
  <2> SUFFICES ASSUME NEW x \in DOMAIN trail', NEW y \in Older(trail', x)
               PROVE  \E p \in Older(trail', x) :
                        /\ IsNewest(Older(trail', x), p)
                        /\ trail'[x].prev = trail'[p].hash
    BY DEF Linked
  <2>1. x \in DOMAIN trail /\ y \in Older(trail, x) /\ y \in DOMAIN trail'
    BY <1>1 DEF Older
  <2>2. PICK p \in Older(trail, x) :
          IsNewest(Older(trail, x), p) /\ trail[x].prev = trail[p].hash
    BY <2>1 DEF AuditInv, Linked
  <2>3. y = p \/ Before(y, p)
    BY <2>1, <2>2 DEF IsNewest, Before
  <2>4. p \in Older(trail', x)
    BY <2>1, <2>2, <2>3, PrunePrefix DEF Older
  <2>5. Older(trail', x) \subseteq Older(trail, x)
    BY <1>1 DEF Older
  <2>6. trail'[x] = trail[x] /\ trail'[p] = trail[p]
    BY <1>1, <2>4 DEF Older
  <2> QED
    BY <2>2, <2>4, <2>5, <2>6 DEF IsNewest
<1> QED
  BY <1>1, <1>2, <1>3, <1>4 DEF AuditInv

LEMMA ReopenInv ==
  ASSUME AuditInv, Reopen
  PROVE  AuditInv'
<1>1. CASE DOMAIN trail = {}
  BY <1>1 DEF Reopen, Opened, AuditInv, Linked, Stamps, NoKey
<1>2. CASE DOMAIN trail # {}
  <2>1. Newest(DOMAIN trail) = last
    BY <1>2, NewestIs DEF AuditInv
  <2>2. UNCHANGED <<trail, head, last>>
    BY <1>2, <2>1 DEF Reopen, Opened, AuditInv
  <2> QED
    BY <2>2 DEF AuditInv, Linked, Older, IsNewest
<1> QED
  BY <1>1, <1>2

\* A trail nobody touched verifies: appends under a clock that steps back,
\* prunes that stop after any batch and restarts keep every entry linked to the
\* one before it (audit.go Record, Prune, Open, Verify).
THEOREM TrailVerifies == AuditSpec => []ChainUnbroken
<1>1. AuditInit => AuditInv
  BY AuditInitInv
<1>2. AuditInv /\ [AuditNext]_auditVars => AuditInv'
  <2> SUFFICES ASSUME AuditInv, [AuditNext]_auditVars PROVE AuditInv'
    OBVIOUS
  <2>1. CASE \E t \in 1..MaxTime, s \in RandomParts : AuditRecord(t, s)
    BY <2>1, RecordInv
  <2>2. CASE \E t \in 1..MaxTime : PruneOnce(t)
    BY <2>2, PruneInv
  <2>3. CASE Reopen
    BY <2>3, ReopenInv
  <2>4. CASE UNCHANGED auditVars
    BY <2>4 DEF auditVars, AuditInv, Linked, Older, IsNewest
  <2> QED
    BY <2>1, <2>2, <2>3, <2>4 DEF AuditNext
<1>3. AuditInv => ChainUnbroken
  BY LinkedVerifies
<1> QED
  BY <1>1, <1>2, <1>3, PTL DEF AuditSpec

-----------------------------------------------------------------------------
(* The registry, through any number of pushes, crashes and sweeps.         *)

Recorded == {"marker", "tag", "retire"}

\* Manifest m and what it references are in the store.
Whole(m) == {m} \cup Children[m] \subseteq DOMAIN blobs

RegTypes ==
  /\ DOMAIN markers = Repos /\ \A r \in Repos : markers[r] \in Seq(Manifests)
  /\ DOMAIN tags = Repos
  /\ {"pc", "repo", "man", "tag", "need", "open"} \subseteq DOMAIN push
  /\ push.pc # "idle" => push.repo \in Repos /\ push.man \in Manifests

\* Every manifest that is recorded is whole: the retention keeps some of them,
\* and the sweep may take nothing that one of those references.
MarkersWhole == \A r \in Repos : \A m \in Range(markers[r]) : Whole(m)

\* A tag names a recorded manifest; the sweep takes the tags of those it retires.
TagsMarked == \A r \in Repos : \A t \in DOMAIN tags[r] : tags[r][t] \in Range(markers[r])

\* Between its steps nothing is swept under a push: a crash ends it.
PushInv ==
  /\ push.pc \in Recorded => Whole(push.man)
  /\ push.pc = "tag" => push.man \in Range(markers[push.repo])

RegInv == RegTypes /\ MarkersWhole /\ TagsMarked /\ PushInv

-----------------------------------------------------------------------------
(* The list of a repository's manifests.                                   *)

LEMMA RangeIs ==
  ASSUME NEW s \in Seq(Manifests)
  PROVE  /\ Len(s) \in Nat /\ DOMAIN s = 1..Len(s)
         /\ \A x : x \in Range(s) <=> \E i \in 1..Len(s) : s[i] = x
         /\ Range(s) \subseteq Manifests
<1>1. Len(s) \in Nat /\ DOMAIN s = 1..Len(s) /\ \A i \in 1..Len(s) : s[i] \in Manifests
  BY LenProperties, ElementOfSeq
<1> QED
  BY <1>1 DEF Range

LEMMA RemoveAtRange ==
  ASSUME NEW s \in Seq(Manifests), NEW k \in 1..Len(s)
  PROVE  /\ RemoveAt(s, k) \in Seq(Manifests)
         /\ Range(RemoveAt(s, k)) \subseteq Range(s)
         /\ \A x \in Range(s) : x = s[k] \/ x \in Range(RemoveAt(s, k))
<1> DEFINE a == SubSeq(s, 1, k - 1)
           b == SubSeq(s, k + 1, Len(s))
<1>1. Len(s) \in Nat /\ \A i \in 1..Len(s) : s[i] \in Manifests
  BY RangeIs, ElementOfSeq
<1>2. /\ a \in Seq(Manifests) /\ Len(a) = k - 1
      /\ \A i \in 1..(k - 1) : a[i] = s[i]
  <2>1. k - 1 \in Int /\ 1 \in Int /\ \A i \in 1..(k - 1) : s[i] \in Manifests
    BY <1>1
  <2>2. /\ a \in Seq(Manifests) /\ Len(a) = IF 1 <= k - 1 THEN (k - 1) - 1 + 1 ELSE 0
        /\ \A i \in 1..((k - 1) - 1 + 1) : a[i] = s[1 + i - 1]
    BY <2>1, SubSeqProperties
  <2> QED
    BY <1>1, <2>2
<1>3. /\ b \in Seq(Manifests) /\ Len(b) = Len(s) - k
      /\ \A i \in 1..(Len(s) - k) : b[i] = s[k + i]
  <2>1. k + 1 \in Int /\ Len(s) \in Int /\ \A i \in (k + 1)..Len(s) : s[i] \in Manifests
    BY <1>1
  <2>2. /\ b \in Seq(Manifests)
        /\ Len(b) = IF k + 1 <= Len(s) THEN Len(s) - (k + 1) + 1 ELSE 0
        /\ \A i \in 1..(Len(s) - (k + 1) + 1) : b[i] = s[(k + 1) + i - 1]
    BY <2>1, SubSeqProperties
  <2> QED
    BY <1>1, <2>2
<1> HIDE DEF a, b
<1>4. /\ a \o b \in Seq(Manifests) /\ Len(a \o b) = Len(s) - 1
      /\ \A i \in 1..(Len(s) - 1) : (a \o b)[i] = IF i <= k - 1 THEN s[i] ELSE s[i + 1]
  <2>1. /\ a \o b \in Seq(Manifests) /\ Len(a \o b) = Len(a) + Len(b)
        /\ \A i \in 1..(Len(a) + Len(b)) :
             (a \o b)[i] = IF i <= Len(a) THEN a[i] ELSE b[i - Len(a)]
    BY <1>2, <1>3, ConcatProperties
  <2> QED
    BY <1>1, <1>2, <1>3, <2>1
<1>5. RemoveAt(s, k) = a \o b
  BY DEF RemoveAt, a, b
<1>6. ASSUME NEW x \in Range(s), x # s[k]
      PROVE  x \in Range(a \o b)
  <2>1. PICK i \in 1..Len(s) : s[i] = x
    BY RangeIs
  <2>2. CASE i < k
    <3>1. i \in 1..(Len(s) - 1) /\ (a \o b)[i] = x
      BY <1>1, <1>4, <2>1, <2>2
    <3> QED
      BY <3>1, <1>4, RangeIs
  <2>3. CASE i > k
    <3>1. i - 1 \in 1..(Len(s) - 1) /\ ~(i - 1 <= k - 1) /\ (i - 1) + 1 = i
      BY <1>1, <2>3
    <3>2. (a \o b)[i - 1] = x
      BY <1>4, <2>1, <3>1
    <3> QED
      BY <3>1, <3>2, <1>4, RangeIs
  <2> QED
    BY <1>1, <1>6, <2>1, <2>2, <2>3
<1>7. Range(a \o b) \subseteq Range(s)
  <2> SUFFICES ASSUME NEW x \in Range(a \o b) PROVE x \in Range(s)
    OBVIOUS
  <2>1. PICK i \in 1..(Len(s) - 1) : (a \o b)[i] = x
    BY <1>4, RangeIs
  <2>2. x = s[i] \/ x = s[i + 1]
    BY <1>4, <2>1
  <2>3. i \in 1..Len(s) /\ i + 1 \in 1..Len(s)
    BY <1>1
  <2> QED
    BY <2>2, <2>3, RangeIs
<1> QED
  BY <1>4, <1>5, <1>6, <1>7

LEMMA MarkedRange ==
  ASSUME NEW ms \in Seq(Manifests), NEW m \in Manifests
  PROVE  /\ Marked(ms, m) \in Seq(Manifests)
         /\ Range(Marked(ms, m)) = {m} \cup Range(ms)
<1> DEFINE rest == IF m \in Range(ms)
                     THEN RemoveAt(ms, CHOOSE i \in DOMAIN ms : ms[i] = m) ELSE ms
<1>1. /\ rest \in Seq(Manifests) /\ Range(rest) \subseteq Range(ms)
      /\ Range(ms) \subseteq {m} \cup Range(rest)
  <2>1. CASE m \in Range(ms)
    <3> DEFINE k == CHOOSE i \in DOMAIN ms : ms[i] = m
    <3>1. k \in 1..Len(ms) /\ ms[k] = m
      BY <2>1, RangeIs
    <3>2. rest = RemoveAt(ms, k)
      BY <2>1
    <3> QED
      BY <3>1, <3>2, RemoveAtRange
  <2>2. CASE m \notin Range(ms)
    BY <2>2
  <2> QED
    BY <2>1, <2>2
<1>2. Marked(ms, m) = <<m>> \o rest
  BY DEF Marked
<1> HIDE DEF rest
<1>3. <<m>> \in Seq(Manifests) /\ Len(<<m>>) = 1 /\ <<m>>[1] = m
  OBVIOUS
<1>4. /\ <<m>> \o rest \in Seq(Manifests) /\ Len(<<m>> \o rest) = Len(rest) + 1
      /\ (<<m>> \o rest)[1] = m
      /\ \A i \in 1..Len(rest) : (<<m>> \o rest)[i + 1] = rest[i]
  <2>1. /\ <<m>> \o rest \in Seq(Manifests)
        /\ Len(<<m>> \o rest) = Len(<<m>>) + Len(rest)
        /\ \A i \in 1..(Len(<<m>>) + Len(rest)) :
             (<<m>> \o rest)[i] = IF i <= Len(<<m>>) THEN <<m>>[i] ELSE rest[i - Len(<<m>>)]
    BY <1>1, <1>3, ConcatProperties
  <2>2. Len(rest) \in Nat
    BY <1>1, RangeIs
  <2> QED
    BY <1>3, <2>1, <2>2
<1>5. Range(<<m>> \o rest) = {m} \cup Range(rest)
  <2>1. Len(rest) \in Nat
    BY <1>1, RangeIs
  <2>2. ASSUME NEW x \in Range(<<m>> \o rest) PROVE x \in {m} \cup Range(rest)
    <3>1. PICK i \in 1..Len(<<m>> \o rest) : (<<m>> \o rest)[i] = x
      BY <1>4, RangeIs
    <3>2. CASE i = 1
      BY <1>4, <3>1, <3>2
    <3>3. CASE i # 1
      <4>1. i - 1 \in 1..Len(rest) /\ x = rest[i - 1]
        BY <1>4, <2>1, <3>1, <3>3
      <4> QED
        BY <4>1, <1>1, RangeIs
    <3> QED
      BY <3>2, <3>3
  <2>3. m \in Range(<<m>> \o rest)
    <3>1. 1 \in 1..Len(<<m>> \o rest)
      BY <1>4, <2>1
    <3> QED
      BY <1>4, <3>1, RangeIs
  <2>4. ASSUME NEW x \in Range(rest) PROVE x \in Range(<<m>> \o rest)
    <3>1. PICK i \in 1..Len(rest) : rest[i] = x
      BY <1>1, RangeIs
    <3>2. i + 1 \in 1..Len(<<m>> \o rest) /\ (<<m>> \o rest)[i + 1] = x
      BY <1>4, <2>1, <3>1
    <3> QED
      BY <1>4, <3>2, RangeIs
  <2> QED
    BY <2>2, <2>3, <2>4
<1> QED
  BY <1>1, <1>2, <1>4, <1>5

LEMMA KeptRange ==
  ASSUME NEW ms \in Seq(Manifests)
  PROVE  Kept(ms) \in Seq(Manifests) /\ Range(Kept(ms)) \subseteq Range(ms)
<1> DEFINE n == IF Len(ms) < KeepManifests THEN Len(ms) ELSE KeepManifests
<1>1. n \in Nat /\ n <= Len(ms)
  BY RangeIs, RegistryAssumption
<1>2. Len(ms) \in Nat /\ \A i \in 1..Len(ms) : ms[i] \in Manifests
  BY RangeIs, ElementOfSeq
<1>3. Kept(ms) = SubSeq(ms, 1, n)
  BY DEF Kept
<1> HIDE DEF n
<1>4. /\ SubSeq(ms, 1, n) \in Seq(Manifests)
      /\ Len(SubSeq(ms, 1, n)) = n
      /\ \A i \in 1..n : SubSeq(ms, 1, n)[i] = ms[i]
  <2>1. 1 \in Int /\ n \in Int /\ \A i \in 1..n : ms[i] \in Manifests
    BY <1>1, <1>2
  <2>2. /\ SubSeq(ms, 1, n) \in Seq(Manifests)
        /\ Len(SubSeq(ms, 1, n)) = IF 1 <= n THEN n - 1 + 1 ELSE 0
        /\ \A i \in 1..(n - 1 + 1) : SubSeq(ms, 1, n)[i] = ms[1 + i - 1]
    BY <2>1, SubSeqProperties
  <2> QED
    BY <1>1, <2>2
<1>5. ASSUME NEW x \in Range(SubSeq(ms, 1, n)) PROVE x \in Range(ms)
  <2>1. PICK i \in 1..Len(SubSeq(ms, 1, n)) : SubSeq(ms, 1, n)[i] = x
    BY <1>4, RangeIs
  <2>2. i \in 1..Len(ms) /\ ms[i] = x
    BY <1>1, <1>2, <1>4, <2>1
  <2> QED
    BY <2>2, RangeIs
<1> QED
  BY <1>3, <1>4, <1>5

-----------------------------------------------------------------------------
(* Steps.                                                                  *)

LEMMA RegInvInit == RegInit => RegInv
<1> SUFFICES ASSUME RegInit PROVE RegInv
  OBVIOUS
<1>1. \A r \in Repos : markers[r] \in Seq(Manifests) /\ Range(markers[r]) = {}
  <2>1. <<>> \in Seq(Manifests) /\ Range(<<>>) = {}
    BY EmptySeq DEF Range
  <2> QED
    BY <2>1 DEF RegInit
<1>2. push.pc = "idle" /\ {"pc", "repo", "man", "tag", "need", "open"} \subseteq DOMAIN push
  BY DEF RegInit, NoPush
<1>3. DOMAIN tags = Repos /\ \A r \in Repos : DOMAIN tags[r] = {}
  BY DEF RegInit
<1> QED
  BY <1>1, <1>2, <1>3
     DEF RegInit, RegInv, RegTypes, MarkersWhole, TagsMarked, PushInv, Recorded

\* A step that takes no blob and leaves what is recorded alone.
LEMMA QuietKeeps ==
  ASSUME RegInv, UNCHANGED <<markers, tags>>, DOMAIN blobs \subseteq DOMAIN blobs',
         DOMAIN push' = DOMAIN push \/ DOMAIN push' = {"pc", "repo", "man", "tag", "need", "open"},
         push'.pc # "idle" => push'.repo \in Repos /\ push'.man \in Manifests,
         (push.pc \in Recorded => Whole(push.man))',
         push'.pc = "tag" => push'.man \in Range(markers[push'.repo])
  PROVE  RegInv'
<1>1. RegTypes' /\ TagsMarked' /\ PushInv'
  BY DEF RegInv, RegTypes, TagsMarked, PushInv
<1>2. MarkersWhole'
  BY DEF RegInv, MarkersWhole, Whole
<1> QED
  BY <1>1, <1>2 DEF RegInv

LEMMA BeginKeeps ==
  ASSUME RegInv, NEW r \in Repos, NEW m \in Manifests, NEW t \in Tags, BeginPush(r, m, t)
  PROVE  RegInv'
<1>1. /\ push'.pc = "blobs" /\ push'.repo = r /\ push'.man = m
      /\ DOMAIN push' = {"pc", "repo", "man", "tag", "need", "open"}
  BY DEF BeginPush
<1> QED
  BY <1>1, QuietKeeps DEF BeginPush, Recorded

LEMMA BlobsKeep ==
  ASSUME RegInv,
         \/ StartUpload \/ AbortPush \/ Age
         \/ \E d \in Layers : MountBlob(d) \/ \E w \in BOOLEAN : PutUpload(d, w)
  PROVE  RegInv'
<1>1. CASE Age
  <2>1. DOMAIN blobs' = DOMAIN blobs /\ UNCHANGED <<markers, tags, push>>
    BY <1>1 DEF Age
  <2>2. (push.pc \in Recorded => Whole(push.man))'
    BY <2>1 DEF RegInv, PushInv, Whole
  <2> QED
    BY <2>1, <2>2, QuietKeeps DEF RegInv, RegTypes, PushInv
<1>2. CASE AbortPush
  <2>1. /\ push'.pc = "idle" /\ UNCHANGED <<blobs, markers, tags>>
        /\ DOMAIN push' = {"pc", "repo", "man", "tag", "need", "open"}
    BY <1>2 DEF AbortPush, NoPush
  <2> QED
    BY <2>1, QuietKeeps DEF Recorded
<1>3. CASE StartUpload \/ \E d \in Layers : MountBlob(d) \/ \E w \in BOOLEAN : PutUpload(d, w)
  <2>1. CASE StartUpload
    BY <2>1, QuietKeeps DEF StartUpload, RegInv, RegTypes, Recorded
  <2>2. ASSUME NEW d \in Layers, MountBlob(d) PROVE RegInv'
    BY <2>2, QuietKeeps DEF MountBlob, RegInv, RegTypes, Recorded
  <2>3. ASSUME NEW d \in Layers, NEW w \in BOOLEAN, PutUpload(d, w) PROVE RegInv'
    <3>1. /\ UNCHANGED <<markers, tags>> /\ push.pc = "blobs"
          /\ \/ blobs' = With(blobs, d, 0)
                /\ push' = [push EXCEPT !.need = @ \ {d}, !.open = FALSE]
             \/ blobs' = blobs
                /\ push' = [push EXCEPT !.pc = "refused", !.open = FALSE]
      BY <2>3 DEF PutUpload
    <3>2. DOMAIN blobs \subseteq DOMAIN blobs'
      BY <3>1 DEF With
    <3>3. /\ push'.pc \in {"blobs", "refused"} /\ DOMAIN push' = DOMAIN push
          /\ push'.repo = push.repo /\ push'.man = push.man
      BY <3>1 DEF RegInv, RegTypes
    <3> QED
      BY <3>1, <3>2, <3>3, QuietKeeps DEF RegInv, RegTypes, Recorded
  <2> QED
    BY <1>3, <2>1, <2>2, <2>3
<1> QED
  BY <1>1, <1>2, <1>3

LEMMA PutManifestKeeps == ASSUME RegInv, PutManifest PROVE RegInv'
<1>1. /\ UNCHANGED <<markers, tags>> /\ DOMAIN blobs \subseteq DOMAIN blobs'
      /\ push.pc = "blobs" /\ push'.pc \in {"marker", "refused"}
      /\ DOMAIN push' = DOMAIN push
      /\ push'.repo = push.repo /\ push'.man = push.man
  BY DEF PutManifest, With, RegInv, RegTypes
<1>2. (push.pc = "marker" => Whole(push.man))'
  <2> SUFFICES ASSUME push'.pc = "marker" PROVE Whole(push.man)'
    OBVIOUS
  <2>1. Present(push.man)
    BY DEF PutManifest, RegInv, RegTypes
  <2>2. push.man \in DOMAIN blobs'
    BY <2>1 DEF PutManifest, With
  <2> QED
    BY <1>1, <2>1, <2>2 DEF Present, Whole
<1> QED
  BY <1>1, <1>2, QuietKeeps DEF RegInv, RegTypes, Recorded

LEMMA PutMarkerKeeps == ASSUME RegInv, PutMarker PROVE RegInv'
<1>1. /\ push.pc = "marker" /\ push'.pc = "tag" /\ DOMAIN push' = DOMAIN push
      /\ push'.repo = push.repo /\ push'.man = push.man
      /\ UNCHANGED <<blobs, tags>>
      /\ push.repo \in Repos /\ push.man \in Manifests /\ Whole(push.man)
  BY DEF PutMarker, RegInv, RegTypes, PushInv, Recorded
<1>2. /\ DOMAIN markers' = Repos
      /\ \A r \in Repos : markers'[r] = IF r = push.repo THEN Marked(markers[r], push.man)
                                                         ELSE markers[r]
  BY <1>1 DEF PutMarker, RegInv, RegTypes
<1>3. \A r \in Repos : /\ markers'[r] \in Seq(Manifests)
                       /\ Range(markers[r]) \subseteq Range(markers'[r])
                       /\ Range(markers'[r]) \subseteq {push.man} \cup Range(markers[r])
  BY <1>1, <1>2, MarkedRange DEF RegInv, RegTypes
<1>4. push.man \in Range(markers'[push.repo])
  BY <1>1, <1>2, MarkedRange DEF RegInv, RegTypes
<1>5. RegTypes' /\ TagsMarked' /\ PushInv'
  BY <1>1, <1>2, <1>3, <1>4 DEF RegInv, RegTypes, TagsMarked, PushInv, Whole
<1>6. MarkersWhole'
  BY <1>1, <1>3 DEF RegInv, MarkersWhole, Whole
<1> QED
  BY <1>5, <1>6 DEF RegInv

LEMMA PutTagKeeps == ASSUME RegInv, PutTag PROVE RegInv'
<1>1. /\ push.pc = "tag" /\ push'.pc \in {"refused", "retire"} /\ DOMAIN push' = DOMAIN push
      /\ push'.repo = push.repo /\ push'.man = push.man
      /\ UNCHANGED <<blobs, markers>>
      /\ push.repo \in Repos /\ push.man \in Manifests /\ Whole(push.man)
      /\ push.man \in Range(markers[push.repo])
  BY DEF PutTag, RegInv, RegTypes, PushInv, Recorded
<1>2. /\ DOMAIN tags' = Repos
      /\ \A r \in Repos : \A t \in DOMAIN tags'[r] :
           \/ t \in DOMAIN tags[r] /\ tags'[r][t] = tags[r][t]
           \/ r = push.repo /\ tags'[r][t] = push.man
  BY <1>1 DEF PutTag, With, RegInv, RegTypes
<1>3. TagsMarked'
  BY <1>1, <1>2 DEF RegInv, TagsMarked
<1>4. RegTypes' /\ PushInv' /\ MarkersWhole'
  BY <1>1, <1>2 DEF RegInv, RegTypes, PushInv, MarkersWhole, Whole
<1> QED
  BY <1>3, <1>4 DEF RegInv

\* Retention, pruning and the sweep, after a push or at boot.
LEMMA SweepKeeps ==
  ASSUME RegInv, Sweep, push'.pc \notin Recorded, push'.pc \in {"idle", "done"},
         {"pc", "repo", "man", "tag", "need", "open"} \subseteq DOMAIN push',
         push'.pc # "idle" => push'.repo \in Repos /\ push'.man \in Manifests
  PROVE  RegInv'
<1>1. /\ DOMAIN markers' = Repos
      /\ \A r \in Repos : /\ markers'[r] = Kept(markers[r])
                          /\ markers'[r] \in Seq(Manifests)
                          /\ Range(markers'[r]) \subseteq Range(markers[r])
  <2>1. markers' = [r \in Repos |-> Kept(markers[r])]
    BY DEF Sweep, Retired
  <2> QED
    BY <2>1, KeptRange DEF RegInv, RegTypes
<1>2. /\ DOMAIN tags' = Repos
      /\ \A r \in Repos : \A t \in DOMAIN tags'[r] : tags'[r][t] \in Range(markers'[r])
  <2>1. tags' = [r \in Repos |-> Pruned(tags[r], markers'[r])]
    BY DEF Sweep, Retired
  <2> QED
    BY <2>1 DEF Pruned, Drop
<1>3. \A d \in DOMAIN blobs : d \in Referenced(markers') => d \in DOMAIN blobs'
  BY DEF Sweep, Drop, Orphans
<1>4. ASSUME NEW r \in Repos, NEW m \in Range(markers'[r])
      PROVE  {m} \cup Children[m] \subseteq DOMAIN blobs'
  <2>1. {m} \cup Children[m] \subseteq DOMAIN blobs
    BY <1>1 DEF RegInv, MarkersWhole, Whole
  <2>2. m \in UNION {Range(markers'[q]) : q \in Repos}
    OBVIOUS
  <2>3. {m} \cup Children[m] \subseteq Referenced(markers')
    BY <2>2 DEF Referenced
  <2> QED
    BY <1>3, <2>1, <2>3
<1>5. MarkersWhole' /\ TagsMarked'
  BY <1>2, <1>4 DEF MarkersWhole, TagsMarked, Whole
<1>6. RegTypes' /\ PushInv'
  BY <1>1, <1>2 DEF RegTypes, PushInv, Recorded
<1> QED
  BY <1>5, <1>6 DEF RegInv

LEMMA SweepsKeep == ASSUME RegInv, SweepAfterPush \/ Restart PROVE RegInv'
<1>1. CASE SweepAfterPush
  <2>1. /\ Sweep /\ push'.pc = "done" /\ DOMAIN push' = DOMAIN push
        /\ push'.repo = push.repo /\ push'.man = push.man /\ push.pc = "retire"
    BY <1>1 DEF SweepAfterPush, RegInv, RegTypes
  <2> QED
    BY <2>1, SweepKeeps DEF RegInv, RegTypes, Recorded
<1>2. CASE Restart
  <2>1. /\ Sweep /\ push'.pc = "idle"
        /\ DOMAIN push' = {"pc", "repo", "man", "tag", "need", "open"}
    BY <1>2 DEF Restart, NoPush
  <2> QED
    BY <2>1, SweepKeeps DEF Recorded
<1> QED
  BY <1>1, <1>2

LEMMA RegStepKeeps == RegInv /\ [RegNext]_regVars => RegInv'
<1> SUFFICES ASSUME RegInv, [RegNext]_regVars PROVE RegInv'
  OBVIOUS
<1>1. CASE UNCHANGED regVars
  BY <1>1 DEF regVars, RegInv, RegTypes, MarkersWhole, TagsMarked, PushInv, Whole
<1>2. CASE RegNext
  BY <1>2, BeginKeeps, BlobsKeep, PutManifestKeeps, PutMarkerKeeps, PutTagKeeps, SweepsKeep
     DEF RegNext
<1> QED
  BY <1>1, <1>2

\* What a tag names can be pulled, after any pushes, crashes and sweeps
\* (handler.go putManifest, gc.go sweep).
THEOREM TagsArePullable == RegSpec => []Pullable
<1>1. RegInv => Pullable
  BY DEF RegInv, MarkersWhole, TagsMarked, Whole, Pullable
<1> QED
  BY RegInvInit, RegStepKeeps, <1>1, PTL DEF RegSpec

-----------------------------------------------------------------------------
(* Attachments.                                                            *)

\* Every link has its two fields; one with an alias names an address.
LinkInv ==
  /\ DOMAIN link = Allocs
  /\ \A a \in Allocs : /\ DOMAIN link[a] = {"ip", "done"}
                       /\ Aliased(a) => link[a].ip \in Addrs

\* The two indexes of the pool are the inverse of each other.
PoolInv ==
  /\ byAlloc \in [Allocs -> Addrs \cup {0}]
  /\ byIP \in [Addrs -> Allocs \cup {Nobody}]
  /\ \A a \in Allocs : byAlloc[a] # 0 => byIP[byAlloc[a]] = a
  /\ \A i \in Addrs : byIP[i] # Nobody => byAlloc[byIP[i]] = i

\* The address in an alias is on no other link, and the pool holds it.
AliasInv ==
  /\ \A a, b \in Allocs : Aliased(a) /\ Aliased(b) /\ link[a].ip = link[b].ip => a = b
  /\ kanead => \A a \in Allocs : Aliased(a) => byAlloc[a] = link[a].ip

\* The inductive invariant.  The pool of a daemon that is gone says nothing.
AttachInv == LinkInv /\ (kanead => PoolInv) /\ AliasInv

LEMMA AddrsFacts == 0 \notin Addrs /\ Addrs \subseteq Nat /\ Nobody \notin Allocs
  BY AttachAssumption DEF AttachAssumption, Addrs

\* A set of addresses that is not empty has a lowest.
LEMMA LowestExists ==
  ASSUME NEW S, S \subseteq Nat, S # {}
  PROVE  Min(S) \in S
<1>1. PICK x \in S : \A y \in S : ~ (<<y, x>> \in OpToRel(<, Nat))
  BY NatLessThanWellFounded, WFMin, Zenon
<1>2. \A y \in S : ~ (y < x)
  BY <1>1 DEF OpToRel
<1>3. \A y \in S : x <= y
  BY <1>2
<1> QED
  BY <1>3 DEF Min

\* The pool after the address of a stale link is freed.
LEMMA ClearedFacts ==
  ASSUME PoolInv, NEW a \in Allocs
  PROVE  /\ Cleared(a) \in [Allocs -> Addrs \cup {0}]
         /\ ClearedIPs(a) \in [Addrs -> Allocs \cup {Nobody}]
         /\ \A b \in Allocs : b # a => Cleared(a)[b] = byAlloc[b]
         /\ Cleared(a)[a] \in {0, byAlloc[a]}
         /\ \A b \in Allocs : Cleared(a)[b] # 0 => ClearedIPs(a)[Cleared(a)[b]] = b
         /\ \A i \in Addrs : ClearedIPs(a)[i] # Nobody => Cleared(a)[ClearedIPs(a)[i]] = i
<1> USE AddrsFacts
<1>1. CASE Exists(a)
  <2>1. Cleared(a) = [byAlloc EXCEPT ![a] = 0]
    BY <1>1 DEF Cleared, Released
  <2>2. ClearedIPs(a) = [i \in Addrs |-> IF byAlloc[a] = i THEN Nobody ELSE byIP[i]]
    BY <1>1 DEF ClearedIPs, ReleasedIPs
  <2> QED
    BY <2>1, <2>2 DEF PoolInv
<1>2. CASE ~Exists(a)
  BY <1>2 DEF Cleared, ClearedIPs, PoolInv
<1> QED
  BY <1>1, <1>2

\* What Reserve gives is the alloc's own address or one nobody has.
LEMMA ReserveFacts ==
  ASSUME PoolInv, NEW a \in Allocs, NEW ip \in Reservable(a, Cleared(a), ClearedIPs(a))
  PROVE  /\ ip \in Addrs
         /\ \/ ip = Cleared(a)[a]
            \/ Cleared(a)[a] = 0 /\ ClearedIPs(a)[ip] = Nobody
<1>1. CASE Cleared(a)[a] # 0
  BY <1>1, ClearedFacts DEF Reservable
<1>2. CASE Cleared(a)[a] = 0
  <2> DEFINE open == {i \in Addrs : ClearedIPs(a)[i] = Nobody}
  <2>1. open # {} /\ ip = Min(open)
    BY <1>2 DEF Reservable
  <2>2. open \subseteq Nat
    BY AddrsFacts
  <2> HIDE DEF open
  <2>3. ip \in open
    BY <2>1, <2>2, LowestExists
  <2> QED
    BY <1>2, <2>3 DEF open
<1> QED
  BY <1>1, <1>2

\* No other link carries the address an attach is given.
LEMMA ReservedIsFree ==
  ASSUME AttachInv, kanead, NEW a \in Allocs, NEW ip \in Reservable(a, Cleared(a), ClearedIPs(a)),
         NEW b \in Allocs \ {a}, Aliased(b)
  PROVE  link[b].ip # ip
<1>1. PoolInv /\ byAlloc[b] = link[b].ip /\ link[b].ip \in Addrs
  BY DEF AttachInv, AliasInv, LinkInv
<1>2. Cleared(a)[b] = link[b].ip /\ Cleared(a)[b] # 0
  BY <1>1, ClearedFacts, AddrsFacts
<1>3. ClearedIPs(a)[link[b].ip] = b
  BY <1>1, <1>2, ClearedFacts
<1>4. ip = Cleared(a)[a] => ip # 0 /\ ClearedIPs(a)[ip] = a
  BY <1>1, ReserveFacts, ClearedFacts, AddrsFacts
<1>5. CASE ip = Cleared(a)[a]
  BY <1>3, <1>4, <1>5
<1>6. CASE ClearedIPs(a)[ip] = Nobody
  BY <1>3, <1>6, AddrsFacts
<1> QED
  BY <1>1, <1>5, <1>6, ReserveFacts

\* A link written by an attach, to any of its steps.
LEMMA NewLink ==
  ASSUME AttachInv, kanead, NEW a \in Allocs, NEW ip \in Reservable(a, Cleared(a), ClearedIPs(a)),
         NEW done, link' = [link EXCEPT ![a] = [ip |-> ip, done |-> done]]
         \/ link' = [link EXCEPT ![a] = NoLink]
  PROVE  /\ LinkInv'
         /\ \A x, y \in Allocs : (Aliased(x))' /\ (Aliased(y))' /\ link'[x].ip = link'[y].ip => x = y
         /\ (Aliased(a))' => link'[a].ip = ip
         /\ \A b \in Allocs \ {a} : link'[b] = link[b]
<1>1. PoolInv /\ LinkInv /\ ip \in Addrs
  BY ReserveFacts DEF AttachInv
<1>2. /\ DOMAIN link' = Allocs
      /\ \A b \in Allocs \ {a} : link'[b] = link[b]
      /\ DOMAIN link'[a] = {"ip", "done"}
      /\ (Aliased(a))' => link'[a].ip = ip
  BY <1>1 DEF LinkInv, NoLink, Aliased
<1>3. \A b \in Allocs \ {a} : (Aliased(b))' = Aliased(b)
  BY <1>2 DEF Aliased
<1>4. LinkInv'
  BY <1>1, <1>2, <1>3 DEF LinkInv
<1>5. \A b \in Allocs \ {a} : Aliased(b) => link[b].ip # ip
  BY ReservedIsFree
<1> QED
  BY <1>2, <1>3, <1>4, <1>5 DEF AttachInv, AliasInv

\* The pool with the address written down.
LEMMA NewAddress ==
  ASSUME PoolInv, NEW a \in Allocs, NEW ip \in Reservable(a, Cleared(a), ClearedIPs(a)),
         byAlloc' = [Cleared(a) EXCEPT ![a] = ip], byIP' = [ClearedIPs(a) EXCEPT ![ip] = a]
  PROVE  PoolInv'
  BY ClearedFacts, ReserveFacts, AddrsFacts DEF PoolInv

LEMMA AttachDoneKeeps ==
  ASSUME AttachInv, NEW a \in Allocs, AttachDone(a)
  PROVE  AttachInv'
<1>1. kanead /\ kanead' = kanead /\ PoolInv
  BY DEF AttachDone, AttachInv
<1>2. PICK ip \in Reservable(a, Cleared(a), ClearedIPs(a)) :
        /\ Plumbed(a, ip, Len(Steps))
        /\ byAlloc' = [Cleared(a) EXCEPT ![a] = ip]
        /\ byIP' = [ClearedIPs(a) EXCEPT ![ip] = a]
  BY DEF AttachDone
<1> DEFINE done == Upto(Len(Steps)) \ {"identity", "netns"}
<1>3. \/ link' = [link EXCEPT ![a] = [ip |-> ip, done |-> done]]
      \/ link' = [link EXCEPT ![a] = NoLink]
  BY <1>2 DEF Plumbed
<1> HIDE DEF done
<1>4. /\ LinkInv'
      /\ \A x, y \in Allocs : (Aliased(x))' /\ (Aliased(y))' /\ link'[x].ip = link'[y].ip => x = y
      /\ (Aliased(a))' => link'[a].ip = ip
      /\ \A b \in Allocs \ {a} : link'[b] = link[b]
  BY <1>1, <1>3, NewLink
<1>5. PoolInv'
  BY <1>1, <1>2, NewAddress
<1>6. \A b \in Allocs : (Aliased(b))' => byAlloc'[b] = link'[b].ip
  <2>1. /\ byAlloc'[a] = ip
        /\ \A b \in Allocs \ {a} : byAlloc'[b] = byAlloc[b]
    BY <1>1, <1>2, ClearedFacts
  <2>2. \A b \in Allocs \ {a} : Aliased(b) => byAlloc[b] = link[b].ip
    BY <1>1 DEF AttachInv, AliasInv
  <2> QED
    BY <1>4, <2>1, <2>2 DEF Aliased
<1> QED
  BY <1>1, <1>4, <1>5, <1>6 DEF AttachInv, AliasInv

LEMMA AttachRefusedKeeps ==
  ASSUME AttachInv, NEW a \in Allocs, AttachRefused(a)
  PROVE  AttachInv'
<1>1. /\ kanead /\ kanead' = kanead /\ PoolInv
      /\ link' = [link EXCEPT ![a] = NoLink]
      /\ byAlloc' = Cleared(a) /\ byIP' = ClearedIPs(a)
  BY DEF AttachRefused, AttachInv
<1>2. /\ DOMAIN link' = Allocs /\ DOMAIN link'[a] = {"ip", "done"} /\ ~(Aliased(a))'
      /\ \A b \in Allocs \ {a} : link'[b] = link[b] /\ (Aliased(b))' = Aliased(b)
  BY <1>1 DEF AttachInv, LinkInv, NoLink, Aliased
<1>3. LinkInv'
  BY <1>2 DEF AttachInv, LinkInv
<1>4. PoolInv'
  BY <1>1, ClearedFacts DEF PoolInv
<1>5. \A b \in Allocs \ {a} : byAlloc'[b] = byAlloc[b]
  BY <1>1, ClearedFacts
<1>6. AliasInv'
  BY <1>1, <1>2, <1>5 DEF AttachInv, AliasInv
<1> QED
  BY <1>3, <1>4, <1>6 DEF AttachInv

\* The address goes back to the pool: its link is gone, when undoing does not
\* fail.
LEMMA AttachFailsKeeps ==
  ASSUME AttachInv, ~TeardownFails, NEW a \in Allocs, NEW k, NEW left, AttachFails(a, k, left)
  PROVE  AttachInv'
<1>0. left = {} /\ kanead /\ kanead' = kanead /\ PoolInv
  BY DEF AttachFails, AttachInv
<1>1. PICK ip \in Reservable(a, Cleared(a), ClearedIPs(a)) :
        /\ link' = [link EXCEPT ![a] = NoLink]
        /\ byAlloc' = [Cleared(a) EXCEPT ![a] = 0]
        /\ byIP' = [ClearedIPs(a) EXCEPT ![ip] = Nobody]
  BY <1>0 DEF AttachFails
<1>2. /\ DOMAIN link' = Allocs /\ DOMAIN link'[a] = {"ip", "done"} /\ ~(Aliased(a))'
      /\ \A b \in Allocs \ {a} : link'[b] = link[b] /\ (Aliased(b))' = Aliased(b)
  BY <1>1 DEF AttachInv, LinkInv, NoLink, Aliased
<1>3. LinkInv'
  BY <1>2 DEF AttachInv, LinkInv
<1>4. PoolInv'
  <2>1. ip \in Addrs /\ (ip = Cleared(a)[a] \/ (Cleared(a)[a] = 0 /\ ClearedIPs(a)[ip] = Nobody))
    BY <1>0, ReserveFacts
  <2> QED
    BY <1>0, <1>1, <2>1, ClearedFacts, AddrsFacts DEF PoolInv
<1>5. \A b \in Allocs \ {a} : byAlloc'[b] = byAlloc[b]
  BY <1>0, <1>1, ClearedFacts
<1>6. AliasInv'
  BY <1>0, <1>2, <1>5 DEF AttachInv, AliasInv
<1> QED
  BY <1>3, <1>4, <1>6 DEF AttachInv

LEMMA AttachCrashesKeeps ==
  ASSUME AttachInv, NEW a \in Allocs, NEW k, AttachCrashes(a, k)
  PROVE  AttachInv'
<1>1. kanead /\ ~kanead'
  BY DEF AttachCrashes
<1>2. PICK ip \in Reservable(a, Cleared(a), ClearedIPs(a)) : Plumbed(a, ip, k)
  BY DEF AttachCrashes
<1> DEFINE done == Upto(k) \ {"identity", "netns"}
<1>3. \/ link' = [link EXCEPT ![a] = [ip |-> ip, done |-> done]]
      \/ link' = [link EXCEPT ![a] = NoLink]
  BY <1>2 DEF Plumbed
<1> HIDE DEF done
<1>4. /\ LinkInv'
      /\ \A x, y \in Allocs : (Aliased(x))' /\ (Aliased(y))' /\ link'[x].ip = link'[y].ip => x = y
  BY <1>1, <1>3, NewLink
<1> QED
  BY <1>1, <1>4 DEF AttachInv, AliasInv

\* Steps after which every link has the alias it had.
LEMMA SameAliases ==
  ASSUME LinkInv, DOMAIN link' = Allocs,
         \A a \in Allocs : DOMAIN link'[a] = {"ip", "done"}
                           /\ link'[a].ip = link[a].ip /\ (Aliased(a))' = Aliased(a)
  PROVE  LinkInv'
  BY DEF LinkInv

LEMMA AdoptKeeps ==
  ASSUME AttachInv, NEW a \in Allocs, Adopt(a)
  PROVE  AttachInv'
<1>1. kanead /\ kanead' = kanead /\ PoolInv /\ LinkInv /\ Aliased(a)
      /\ byAlloc[a] = link[a].ip /\ link[a].ip \in Addrs
  BY DEF Adopt, Adoptable, AttachInv, AliasInv, LinkInv
<1>2. byAlloc' = byAlloc /\ byIP' = byIP
  <2>1. byAlloc' = [byAlloc EXCEPT ![a] = link[a].ip]
        /\ byIP' = [i \in Addrs |-> IF i = link[a].ip THEN a
                              ELSE IF i = byAlloc[a] THEN Nobody ELSE byIP[i]]
    BY DEF Adopt
  <2>2. byIP[link[a].ip] = a
    BY <1>1, AddrsFacts DEF PoolInv
  <2>3. byIP' = [i \in Addrs |-> byIP[i]]
    BY <1>1, <2>1, <2>2
  <2> QED
    BY <1>1, <2>1, <2>3 DEF PoolInv
<1>3. /\ DOMAIN link' = Allocs
      /\ \A b \in Allocs : DOMAIN link'[b] = {"ip", "done"}
                           /\ link'[b].ip = link[b].ip /\ (Aliased(b))' = Aliased(b)
  <2>1. link' = [link EXCEPT ![a].done = link[a].done \cup {"src"}]
    BY DEF Adopt
  <2>2. /\ DOMAIN link' = Allocs
        /\ \A b \in Allocs : b # a => link'[b] = link[b]
        /\ link'[a] = [link[a] EXCEPT !.done = link[a].done \cup {"src"}]
    BY <1>1, <2>1 DEF LinkInv
  <2>3. DOMAIN link[a] = {"ip", "done"}
    BY <1>1 DEF LinkInv
  <2>4. link'[a].ip = link[a].ip /\ link'[a].done = link[a].done \cup {"src"}
        /\ DOMAIN link'[a] = {"ip", "done"}
    BY <2>2, <2>3
  <2> QED
    BY <1>1, <2>2, <2>4 DEF LinkInv, Aliased
<1>4. LinkInv'
  BY <1>1, <1>3, SameAliases
<1>5. PoolInv'
  BY <1>1, <1>2 DEF PoolInv
<1>6. AliasInv'
  BY <1>1, <1>2, <1>3 DEF AttachInv, AliasInv
<1> QED
  BY <1>4, <1>5, <1>6 DEF AttachInv

LEMMA RepairKeeps ==
  ASSUME AttachInv, NEW a \in Allocs, RepairIdentity(a)
  PROVE  AttachInv'
<1>1. kanead' = kanead /\ LinkInv /\ UNCHANGED <<byAlloc, byIP>>
  BY DEF RepairIdentity, AttachInv
<1>3. /\ DOMAIN link' = Allocs
      /\ \A b \in Allocs : DOMAIN link'[b] = {"ip", "done"}
                           /\ link'[b].ip = link[b].ip /\ (Aliased(b))' = Aliased(b)
  <2>1. link' = [link EXCEPT ![a].done = link[a].done \cup {"src"}]
    BY DEF RepairIdentity
  <2>2. /\ DOMAIN link' = Allocs
        /\ \A b \in Allocs : b # a => link'[b] = link[b]
        /\ link'[a] = [link[a] EXCEPT !.done = link[a].done \cup {"src"}]
    BY <1>1, <2>1 DEF LinkInv
  <2>3. DOMAIN link[a] = {"ip", "done"}
    BY <1>1 DEF LinkInv
  <2>4. link'[a].ip = link[a].ip /\ link'[a].done = link[a].done \cup {"src"}
        /\ DOMAIN link'[a] = {"ip", "done"}
    BY <2>2, <2>3
  <2> QED
    BY <1>1, <2>2, <2>4 DEF LinkInv, Aliased
<1>4. LinkInv'
  BY <1>1, <1>3, SameAliases
<1>5. (kanead => PoolInv) => (kanead' => PoolInv')
  BY <1>1 DEF PoolInv
<1>6. AliasInv'
  BY <1>1, <1>3 DEF AttachInv, AliasInv
<1> QED
  BY <1>4, <1>5, <1>6 DEF AttachInv

\* The link goes first, so an address that is free again is on no link.
LEMMA DetachKeeps ==
  ASSUME AttachInv, NEW a \in Allocs, NEW k \in 0..4, Detach(a, k)
  PROVE  AttachInv'
<1>0. kanead /\ kanead' = kanead /\ PoolInv /\ LinkInv
  BY DEF Detach, AttachInv
<1>1. CASE k = 0
  <2>1. UNCHANGED <<link, byAlloc, byIP>>
    BY <1>1 DEF Detach
  <2> QED
    BY <1>0, <2>1 DEF AttachInv, LinkInv, PoolInv, AliasInv, Aliased
<1>2. CASE k >= 1
  <2>1. link' = [link EXCEPT ![a] = NoLink]
    BY <1>2 DEF Detach
  <2>2. /\ DOMAIN link' = Allocs /\ DOMAIN link'[a] = {"ip", "done"} /\ ~(Aliased(a))'
        /\ \A b \in Allocs \ {a} : link'[b] = link[b] /\ (Aliased(b))' = Aliased(b)
    BY <1>0, <2>1 DEF LinkInv, NoLink, Aliased
  <2>3. LinkInv'
    BY <1>0, <2>2 DEF LinkInv
  <2>4. \/ UNCHANGED <<byAlloc, byIP>>
        \/ byAlloc' = Released(a) /\ byIP' = ReleasedIPs(a)
    BY DEF Detach
  <2>5. PoolInv' /\ \A b \in Allocs \ {a} : byAlloc'[b] = byAlloc[b]
    <3>1. CASE UNCHANGED <<byAlloc, byIP>>
      BY <1>0, <3>1 DEF PoolInv
    <3>2. CASE byAlloc' = Released(a) /\ byIP' = ReleasedIPs(a)
      BY <1>0, <3>2, AddrsFacts DEF PoolInv, Released, ReleasedIPs
    <3> QED
      BY <2>4, <3>1, <3>2
  <2>6. AliasInv'
    BY <1>0, <2>2, <2>5 DEF AttachInv, AliasInv
  <2> QED
    BY <2>3, <2>5, <2>6 DEF AttachInv
<1> QED
  BY <1>1, <1>2

\* Rebuild reads the pool off the aliases.
LEMMA InitKeeps ==
  ASSUME AttachInv, NEW w, DatapathInit(w)
  PROVE  AttachInv'
<1>0. LinkInv /\ byAlloc' = Rebuilt(link) /\ byIP' = RebuiltIPs(link)
  BY DEF DatapathInit, AttachInv
<1>1. /\ DOMAIN link' = Allocs
      /\ \A b \in Allocs : DOMAIN link'[b] = {"ip", "done"}
                           /\ link'[b].ip = link[b].ip /\ (Aliased(b))' = Aliased(b)
  <2>1. link' = [a \in Allocs |->
                   IF Aliased(a) THEN [link[a] EXCEPT !.done = link[a].done \cup {"src", "programs"}]
                   ELSE link[a]]
    BY DEF DatapathInit
  <2> SUFFICES ASSUME NEW b \in Allocs
               PROVE  DOMAIN link'[b] = {"ip", "done"}
                      /\ link'[b].ip = link[b].ip /\ (Aliased(b))' = Aliased(b)
    BY <2>1
  <2>2. DOMAIN link[b] = {"ip", "done"}
    BY <1>0 DEF LinkInv
  <2>3. CASE Aliased(b)
    <3>1. link'[b] = [link[b] EXCEPT !.done = link[b].done \cup {"src", "programs"}]
      BY <2>1, <2>3
    <3>2. link'[b].ip = link[b].ip /\ link'[b].done = link[b].done \cup {"src", "programs"}
          /\ DOMAIN link'[b] = {"ip", "done"}
      BY <2>2, <3>1
    <3> QED
      BY <2>3, <3>2 DEF Aliased
  <2>4. CASE ~Aliased(b)
    BY <2>1, <2>2, <2>4 DEF Aliased
  <2> QED
    BY <2>3, <2>4
<1>2. LinkInv'
  BY <1>0, <1>1, SameAliases
<1>3. \A a \in Allocs : byAlloc'[a] = IF Aliased(a) THEN link[a].ip ELSE 0
  BY <1>0 DEF Rebuilt, Aliased
<1>4. byAlloc' \in [Allocs -> Addrs \cup {0}]
  BY <1>0, <1>3 DEF Rebuilt, LinkInv
<1>5. \A a, b \in Allocs : byAlloc'[a] # 0 /\ byAlloc'[a] = byAlloc'[b] => a = b
  BY <1>3 DEF AttachInv, AliasInv
<1>6. \A i \in Addrs : \/ byIP'[i] = Nobody /\ \A a \in Allocs : byAlloc'[a] # i
                       \/ byIP'[i] \in Allocs /\ byAlloc'[byIP'[i]] = i
  <2> SUFFICES ASSUME NEW i \in Addrs
               PROVE  \/ byIP'[i] = Nobody /\ \A a \in Allocs : byAlloc'[a] # i
                      \/ byIP'[i] \in Allocs /\ byAlloc'[byIP'[i]] = i
    OBVIOUS
  <2> DEFINE who == {a \in Allocs : Rebuilt(link)[a] = i}
  <2>1. byIP'[i] = IF who = {} THEN Nobody ELSE CHOOSE a \in who : TRUE
    BY <1>0 DEF RebuiltIPs
  <2>2. \A a \in Allocs : a \in who <=> byAlloc'[a] = i
    BY <1>0
  <2>3. who \subseteq Allocs
    OBVIOUS
  <2> HIDE DEF who
  <2>4. CASE who = {}
    BY <2>1, <2>2, <2>4
  <2>5. CASE who # {}
    <3>1. byIP'[i] \in who
      BY <2>1, <2>5
    <3> QED
      BY <2>2, <2>3, <3>1
  <2> QED
    BY <2>4, <2>5
<1>7. PoolInv'
  <2>1. byIP' \in [Addrs -> Allocs \cup {Nobody}]
    BY <1>0, <1>6 DEF RebuiltIPs
  <2>2. \A a \in Allocs : byAlloc'[a] # 0 => byIP'[byAlloc'[a]] = a
    BY <1>4, <1>5, <1>6, AddrsFacts
  <2>3. \A i \in Addrs : byIP'[i] # Nobody => byAlloc'[byIP'[i]] = i
    BY <1>6
  <2> QED
    BY <1>4, <2>1, <2>2, <2>3 DEF PoolInv
<1>8. AliasInv'
  BY <1>1, <1>3 DEF AttachInv, AliasInv
<1> QED
  BY <1>2, <1>7, <1>8 DEF AttachInv

\* An address is on one link, and the pool of a daemon that runs holds it for
\* the alloc whose link it is on, through failed attaches, crashes at every
\* step of one and restarts, as long as undoing a failed attach does not fail.
THEOREM AddressesAreUnique == ~TeardownFails => (AttachSpec => []OneAddress)
<1> SUFFICES ASSUME ~TeardownFails PROVE AttachSpec => []OneAddress
  OBVIOUS
<1>1. AttachInit => AttachInv
  <2> SUFFICES ASSUME AttachInit PROVE AttachInv
    OBVIOUS
  <2>1. LinkInv /\ \A a \in Allocs : ~Aliased(a)
    BY DEF AttachInit, LinkInv, NoLink, Aliased
  <2>2. PoolInv
    BY AddrsFacts DEF AttachInit, PoolInv
  <2> QED
    BY <2>1, <2>2 DEF AttachInv, AliasInv
<1>2. AttachInv /\ [AttachNext]_dpVars => AttachInv'
  <2> SUFFICES ASSUME AttachInv, [AttachNext]_dpVars PROVE AttachInv'
    OBVIOUS
  <2>1. ASSUME NEW a \in Allocs,
               Adopt(a) \/ AttachDone(a) \/ AttachRefused(a) \/ RepairIdentity(a)
        PROVE  AttachInv'
    BY <2>1, AdoptKeeps, AttachDoneKeeps, AttachRefusedKeeps, RepairKeeps
  <2>2. ASSUME NEW a \in Allocs, NEW k, AttachCrashes(a, k) PROVE AttachInv'
    BY <2>2, AttachCrashesKeeps
  <2>3. ASSUME NEW a \in Allocs, NEW k, NEW left, AttachFails(a, k, left) PROVE AttachInv'
    BY <2>3, AttachFailsKeeps
  <2>4. ASSUME NEW a \in Allocs, NEW k \in 0..4, Detach(a, k) PROVE AttachInv'
    BY <2>4, DetachKeeps
  <2>5. CASE DaemonDies
    BY <2>5 DEF DaemonDies, AttachInv, LinkInv, AliasInv, Aliased
  <2>6. ASSUME NEW w, DatapathInit(w) PROVE AttachInv'
    BY <2>6, InitKeeps
  <2>7. CASE UNCHANGED dpVars
    BY <2>7 DEF dpVars, AttachInv, LinkInv, PoolInv, AliasInv, Aliased
  <2> QED
    BY <2>1, <2>2, <2>3, <2>4, <2>5, <2>6, <2>7 DEF AttachNext
<1>3. AttachInv => OneAddress
  <2> SUFFICES ASSUME AttachInv, NEW a \in Allocs, Aliased(a)
               PROVE  /\ \A b \in Allocs \ {a} : Aliased(b) => link[b].ip # link[a].ip
                      /\ kanead => byAlloc[a] = link[a].ip /\ byIP[link[a].ip] = a
    BY DEF OneAddress
  <2>1. \A b \in Allocs \ {a} : Aliased(b) => link[b].ip # link[a].ip
    BY DEF AttachInv, AliasInv
  <2>2. kanead => byAlloc[a] = link[a].ip /\ byIP[link[a].ip] = a
    BY AddrsFacts DEF AttachInv, AliasInv, LinkInv, PoolInv
  <2> QED
    BY <2>1, <2>2
<1> QED
  BY <1>1, <1>2, <1>3, PTL DEF AttachSpec

-----------------------------------------------------------------------------
(* Rate limits.                                                            *)

\* What the comment on idleFactor takes for granted: a bucket left alone for
\* that many windows is full.  A burst larger than the allowance breaks it.
BurstsRefill == \A l \in Limits : l.requests + l.burst <= IdleFactor * l.requests

Bucket == [key : Subjects, limit : Limits, tokens : Nat, idle : Nat]

\* What a bucket would hold if its subject came now.
Full(b) == Lesser(Capacity(b.limit), b.tokens + b.idle * Rate(b.limit))

RateTypes ==
  /\ order \in Seq(Bucket)
  /\ limitOf \in [Subjects -> Limits]
  /\ due \in [Subjects -> Nat]
  /\ \A s \in Subjects : due[s] <= Capacity(limitOf[s])

\* A subject has one bucket.
KeysInv == \A i, j \in 1..Len(order) : order[i].key = order[j].key => i = j

\* A bucket in force holds no more than is due, ...
OwedInv ==
  \A i \in 1..Len(order) :
    order[i].limit = limitOf[order[i].key] => Full(order[i]) <= due[order[i].key]

\* ... and who has none in force has spent nothing.
FreshInv ==
  \A s \in Subjects :
    \/ due[s] = Capacity(limitOf[s])
    \/ \E i \in 1..Len(order) : order[i].key = s /\ order[i].limit = limitOf[s]

\* The inductive invariant.
RateInv == RateTypes /\ KeysInv /\ OwedInv /\ FreshInv

LEMMA LimitFacts ==
  ASSUME NEW l \in Limits
  PROVE  /\ Capacity(l) \in Nat /\ Rate(l) \in Nat
         /\ l.window * Rate(l) = l.requests * Parts
         /\ l.requests \in Nat /\ l.window \in Nat /\ l.burst \in Nat /\ Parts \in Nat
<1> USE RateAssumption DEF RateAssumption
<1> DEFINE q == l.requests * Parts
<1>1. l.requests \in Nat /\ l.window \in Nat \ {0} /\ l.burst \in Nat /\ Parts \in Nat
  OBVIOUS
<1>2. q \in Nat /\ q % l.window = 0
  <2>1. \A m, n \in Nat : m * n \in Nat
    OBVIOUS
  <2> QED
    BY <1>1, <2>1
<1>3. Capacity(l) \in Nat
  <2>1. \A m, n \in Nat : m * n \in Nat
    OBVIOUS
  <2>2. l.requests + l.burst \in Nat
    BY <1>1
  <2> QED
    BY <1>1, <2>1, <2>2 DEF Capacity
<1> HIDE DEF q
<1>4. \A m \in Nat, w \in Nat \ {0} : m \div w \in Nat /\ (m % w = 0 => w * (m \div w) = m)
  OBVIOUS
<1>5. q \div l.window \in Nat /\ l.window * (q \div l.window) = q
  BY <1>1, <1>2, <1>4
<1>6. Rate(l) = q \div l.window
  BY DEF Rate, q
<1> QED
  BY <1>1, <1>3, <1>5, <1>6 DEF q

LEMMA FullFacts ==
  ASSUME NEW b \in Bucket
  PROVE  /\ Full(b) \in Nat /\ Full(b) <= Capacity(b.limit)
         /\ b.idle * Rate(b.limit) \in Nat
         /\ b.tokens \in Nat /\ b.idle \in Nat /\ b.limit \in Limits
<1>1. b.tokens \in Nat /\ b.idle \in Nat /\ b.limit \in Limits
  BY DEF Bucket
<1>2. Capacity(b.limit) \in Nat /\ Rate(b.limit) \in Nat
  BY <1>1, LimitFacts
<1>3. \A m, n \in Nat : m * n \in Nat
  OBVIOUS
<1>4. b.idle * Rate(b.limit) \in Nat
  BY <1>1, <1>2, <1>3
<1> QED
  BY <1>1, <1>2, <1>4 DEF Full, Lesser

\* Idle for idleFactor windows, a bucket is full again.
LEMMA StaleIsFull ==
  ASSUME BurstsRefill, NEW b \in Bucket, Stale(b)
  PROVE  Full(b) = Capacity(b.limit)
<1> DEFINE l == b.limit
           R == Rate(l)
           W == l.window
           Q == l.requests
<1>1. /\ Capacity(l) \in Nat /\ R \in Nat /\ W * R = Q * Parts
      /\ W \in Nat /\ Q \in Nat /\ l.burst \in Nat /\ Parts \in Nat
      /\ b.tokens \in Nat /\ b.idle \in Nat /\ IdleFactor \in Nat
  BY LimitFacts, FullFacts, RateAssumption DEF RateAssumption
<1>2. b.idle >= IdleFactor * W
  BY DEF Stale
<1>3. Q + l.burst <= IdleFactor * Q
  BY FullFacts DEF BurstsRefill
<1>4. Capacity(l) = (Q + l.burst) * Parts
  BY DEF Capacity
<1> HIDE DEF l, R, W, Q
<1>5. \A x, y, z \in Nat : x >= y => x * z >= y * z
  OBVIOUS
<1>6. \A x, y, z \in Nat : (x * y) * z = x * (y * z)
  OBVIOUS
<1>7. \A x, y \in Nat : x * y \in Nat
  OBVIOUS
<1>8. b.idle * R >= (IdleFactor * W) * R
  BY <1>1, <1>2, <1>5, <1>7
<1>9. (IdleFactor * W) * R = (IdleFactor * Q) * Parts
  <2>1. (IdleFactor * W) * R = IdleFactor * (W * R)
    BY <1>1, <1>6
  <2>2. IdleFactor * (Q * Parts) = (IdleFactor * Q) * Parts
    BY <1>1, <1>6
  <2> QED
    BY <1>1, <2>1, <2>2
<1>10. (IdleFactor * Q) * Parts >= Capacity(l)
  <2>1. Q + l.burst \in Nat /\ IdleFactor * Q \in Nat
    BY <1>1, <1>7
  <2> QED
    BY <1>1, <1>3, <1>4, <1>5, <2>1
<1>11. b.idle * R \in Nat /\ b.idle * R >= Capacity(l)
  <2>1. b.idle * R \in Nat /\ (IdleFactor * Q) * Parts \in Nat
    BY <1>1, <1>7
  <2> QED
    BY <1>1, <1>8, <1>9, <1>10, <2>1
<1>12. Full(b) = Lesser(Capacity(l), b.tokens + b.idle * R)
  BY DEF Full, l, R
<1>13. Full(b) = Capacity(l)
  BY <1>1, <1>11, <1>12 DEF Lesser
<1> QED
  BY <1>13 DEF l

\* The bucket a request finds, or is given, holds no more than is due.
LEMMA BucketForFacts ==
  ASSUME RateInv, NEW s \in Subjects
  PROVE  LET b == BucketFor(s)
         IN  b \in Bucket /\ b.key = s /\ b.limit = limitOf[s] /\ Full(b) <= due[s]
<1> DEFINE n == NewBucket(s)
<1>0. limitOf[s] \in Limits /\ due[s] \in Nat /\ Capacity(limitOf[s]) \in Nat /\ Rate(limitOf[s]) \in Nat
  BY LimitFacts DEF RateInv, RateTypes
<1>1. n \in Bucket /\ n.key = s /\ n.limit = limitOf[s] /\ Full(n) = Capacity(limitOf[s])
  <2>1. /\ n = [key |-> s, limit |-> limitOf[s], tokens |-> Capacity(limitOf[s]), idle |-> 0]
        /\ n.limit = limitOf[s] /\ n.tokens = Capacity(limitOf[s]) /\ n.idle = 0 /\ n.key = s
    BY DEF NewBucket
  <2>2. n \in Bucket
    BY <1>0, <2>1 DEF Bucket
  <2> HIDE DEF n
  <2>3. 0 * Rate(limitOf[s]) = 0
    BY <1>0
  <2>4. Full(n) = Capacity(limitOf[s])
    BY <1>0, <2>1, <2>3 DEF Full, Lesser
  <2> QED
    BY <2>1, <2>2, <2>4
<1> HIDE DEF n
<1>2. CASE \A i \in 1..Len(order) : order[i].key = s => order[i].limit # limitOf[s]
  <2>1. due[s] = Capacity(limitOf[s])
    BY <1>2 DEF RateInv, FreshInv
  <2>2. BucketFor(s) = n
    <3>1. CASE Held(s) = {}
      BY <3>1 DEF BucketFor, n
    <3>2. CASE Held(s) # {}
      <4>1. Place(s) \in Held(s)
        BY <3>2 DEF Place
      <4>2. Place(s) \in 1..Len(order) /\ order[Place(s)].key = s
        BY <4>1 DEF Held, RateInv, RateTypes
      <4>3. order[Place(s)].limit # limitOf[s]
        BY <1>2, <4>2
      <4> QED
        BY <3>2, <4>3 DEF BucketFor, n
    <3> QED
      BY <3>1, <3>2
  <2> QED
    BY <1>0, <1>1, <2>1, <2>2
<1>3. CASE \E i \in 1..Len(order) : order[i].key = s /\ order[i].limit = limitOf[s]
  <2>1. PICK i \in 1..Len(order) : order[i].key = s /\ order[i].limit = limitOf[s]
    BY <1>3
  <2>2. i \in Held(s)
    BY <2>1 DEF Held, RateInv, RateTypes
  <2>3. Place(s) \in Held(s)
    BY <2>2 DEF Place
  <2>4. Place(s) = i
    BY <2>1, <2>3 DEF Held, RateInv, RateTypes, KeysInv
  <2>5. BucketFor(s) = order[i]
    BY <2>1, <2>2, <2>4 DEF BucketFor
  <2>6. order[i] \in Bucket
    BY <2>1, ElementOfSeq DEF RateInv, RateTypes
  <2> QED
    BY <2>1, <2>5, <2>6 DEF RateInv, OwedInv
<1> QED
  BY <1>2, <1>3

\* What an Allow leaves of the other buckets: some of them, with other keys.
LEMMA RoomFacts ==
  ASSUME RateInv, NEW s \in Subjects
  PROVE  /\ Room(s) \in Seq(Bucket)
         /\ \A i \in 1..Len(Room(s)) : \E j \in 1..Len(order) :
              Room(s)[i] = order[j] /\ order[j].key # s
         /\ \A i, j \in 1..Len(Room(s)) : Room(s)[i].key = Room(s)[j].key => i = j
<1> DEFINE L == Len(order)
<1>0. order \in Seq(Bucket) /\ L \in Nat /\ Buckets \in Nat \ {0}
  BY RateAssumption, LenProperties DEF RateInv, RateTypes, RateAssumption
<1>1. CASE Held(s) # {}
  <2> DEFINE p == Place(s)
             A == SubSeq(order, 1, p - 1)
             B == SubSeq(order, p + 1, L)
  <2>1. p \in 1..L /\ order[p].key = s
    <3>1. Place(s) \in Held(s)
      BY <1>1 DEF Place
    <3> QED
      BY <1>0, <3>1 DEF Held
  <2>2. \A j \in 1..L : j # p => order[j].key # s
    BY <2>1 DEF RateInv, KeysInv
  <2> HIDE DEF p
  <2>3. /\ A \in Seq(Bucket) /\ Len(A) = p - 1
        /\ \A i \in 1..p - 1 : A[i] = order[i]
    BY <1>0, <2>1, SubSeqProperties
  <2>4. /\ B \in Seq(Bucket) /\ Len(B) = L - p
        /\ \A i \in 1..L - p : B[i] = order[p + i]
    BY <1>0, <2>1, SubSeqProperties
  <2>5. Room(s) = A \o B
    BY <1>1 DEF Room, RemoveAt, p
  <2> HIDE DEF A, B
  <2>6. /\ Room(s) \in Seq(Bucket) /\ Len(Room(s)) = L - 1
        /\ \A i \in 1..L - 1 : Room(s)[i] = IF i < p THEN order[i] ELSE order[i + 1]
    <3>1. /\ A \o B \in Seq(Bucket) /\ Len(A \o B) = Len(A) + Len(B)
          /\ \A i \in 1..Len(A) + Len(B) : (A \o B)[i] = IF i <= Len(A) THEN A[i] ELSE B[i - Len(A)]
      BY <2>3, <2>4, ConcatProperties
    <3>2. Len(A) + Len(B) = L - 1
      BY <1>0, <2>1, <2>3, <2>4
    <3>3. ASSUME NEW i \in 1..L - 1, i < p
          PROVE  Room(s)[i] = order[i]
      <4>1. i \in 1..p - 1 /\ i <= Len(A)
        BY <1>0, <2>1, <2>3, <3>3
      <4>2. (A \o B)[i] = A[i]
        BY <3>1, <3>2, <4>1
      <4> QED
        BY <2>3, <2>5, <4>1, <4>2
    <3>4. ASSUME NEW i \in 1..L - 1, ~(i < p)
          PROVE  Room(s)[i] = order[i + 1]
      <4>1. i - Len(A) \in 1..L - p /\ ~(i <= Len(A)) /\ p + (i - Len(A)) = i + 1
        BY <1>0, <2>1, <2>3, <3>4
      <4>2. (A \o B)[i] = B[i - Len(A)]
        BY <3>1, <3>2, <4>1
      <4>3. B[i - Len(A)] = order[p + (i - Len(A))]
        BY <2>4, <4>1
      <4> QED
        BY <2>5, <4>1, <4>2, <4>3
    <3> QED
      BY <2>5, <3>1, <3>2, <3>3, <3>4
  <2>7. \A i \in 1..L - 1 : LET j == IF i < p THEN i ELSE i + 1
                            IN  j \in 1..L /\ j # p /\ Room(s)[i] = order[j]
    BY <1>0, <2>1, <2>6
  <2>8. \A i \in 1..L - 1 : \E j \in 1..L : Room(s)[i] = order[j] /\ order[j].key # s
    BY <2>2, <2>7
  <2>9. \A i, j \in 1..L - 1 : Room(s)[i].key = Room(s)[j].key => i = j
    <3> SUFFICES ASSUME NEW i \in 1..L - 1, NEW j \in 1..L - 1, Room(s)[i].key = Room(s)[j].key
                 PROVE  i = j
      OBVIOUS
    <3> DEFINE a == IF i < p THEN i ELSE i + 1
               b == IF j < p THEN j ELSE j + 1
    <3>1. a \in 1..L /\ b \in 1..L /\ order[a].key = order[b].key
      BY <2>7
    <3>2. a = b
      BY <3>1 DEF RateInv, KeysInv
    <3> QED
      BY <1>0, <2>1, <3>2
  <2> QED
    BY <2>6, <2>8, <2>9
<1>2. CASE Held(s) = {}
  <2> DEFINE n == Lesser(L, Buckets - 1)
  <2>1. n \in Nat /\ n <= L
    BY <1>0 DEF Lesser
  <2>2. Room(s) = SubSeq(order, 1, n)
    BY <1>2 DEF Room
  <2> HIDE DEF n
  <2>3. /\ Room(s) \in Seq(Bucket) /\ Len(Room(s)) = n
        /\ \A i \in 1..n : Room(s)[i] = order[i]
    BY <1>0, <2>1, <2>2, SubSeqProperties
  <2>4. \A j \in 1..L : order[j].key # s
    BY <1>0, <1>2 DEF Held
  <2> QED
    BY <1>0, <2>1, <2>3, <2>4 DEF RateInv, KeysInv
<1> QED
  BY <1>1, <1>2

LEMMA AllowKeeps ==
  ASSUME RateInv, NEW s \in Subjects, Allow(s)
  PROVE  RateInv'
<1> DEFINE b0 == BucketFor(s)
           b == Refill(b0)
           ok == b.tokens >= Parts
           b1 == IF ok THEN [b EXCEPT !.tokens = @ - Parts] ELSE b
           room == Room(s)
           gone == Evicted(s)
<1>0. /\ b0 \in Bucket /\ b0.key = s /\ b0.limit = limitOf[s] /\ Full(b0) <= due[s]
      /\ Full(b0) \in Nat /\ Full(b0) <= Capacity(limitOf[s]) /\ Parts \in Nat
  BY BucketForFacts, FullFacts, RateAssumption DEF RateAssumption
<1>1. /\ room \in Seq(Bucket)
      /\ \A i \in 1..Len(room) : \E j \in 1..Len(order) : room[i] = order[j] /\ order[j].key # s
      /\ \A i, j \in 1..Len(room) : room[i].key = room[j].key => i = j
  BY RoomFacts
<1>2. /\ order' = <<b1>> \o room /\ limitOf' = limitOf
      /\ due' = [x \in Subjects |->
                   IF x \in gone THEN Capacity(limitOf[x])
                   ELSE IF x = s /\ ok
                     THEN IF due[s] < Parts THEN 0 - 1 ELSE due[s] - Parts
                     ELSE due[x]]
  BY DEF Allow
<1>3. /\ s \notin gone
      /\ \A i \in 1..Len(room) : room[i].key \notin gone
      /\ \A i \in 1..Len(order) : order[i].key \in gone \/ order[i].key = s
                                  \/ \E j \in 1..Len(room) : room[j].key = order[i].key
  <2>1. gone = {order[i].key : i \in DOMAIN order} \ ({r.key : r \in ToSet(room)} \cup {s})
    BY DEF Evicted
  <2>2. ToSet(room) = {room[i] : i \in 1..Len(room)}
    BY <1>1 DEF ToSet
  <2>3. DOMAIN order = 1..Len(order)
    BY DEF RateInv, RateTypes
  <2> HIDE DEF room, gone
  <2> QED
    BY <2>1, <2>2, <2>3
<1>4. b = [key |-> s, limit |-> limitOf[s], tokens |-> Full(b0), idle |-> 0]
  <2>1. b = [b0 EXCEPT !.tokens = Full(b0), !.idle = 0]
    BY DEF Refill, Full
  <2> HIDE DEF b0
  <2> QED
    BY <1>0, <2>1 DEF Bucket
<1>5. /\ b1 \in Bucket /\ b1.key = s /\ b1.limit = limitOf[s]
      /\ b1.idle = 0 /\ b1.tokens = IF ok THEN Full(b0) - Parts ELSE Full(b0)
  <2>1. b.tokens = Full(b0) /\ limitOf[s] \in Limits
    BY <1>4 DEF RateInv, RateTypes
  <2>2. b1 = [key |-> s, limit |-> limitOf[s],
              tokens |-> IF ok THEN Full(b0) - Parts ELSE Full(b0), idle |-> 0]
    BY <1>4, <2>1
  <2>3. (IF ok THEN Full(b0) - Parts ELSE Full(b0)) \in Nat
    BY <1>0, <2>1
  <2> HIDE DEF b1, ok
  <2> QED
    BY <2>1, <2>2, <2>3 DEF Bucket
<1>6. ok <=> Full(b0) >= Parts
  BY <1>4
<1> HIDE DEF b0, b, ok, b1, room, gone
<1>7. /\ due' \in [Subjects -> Nat]
      /\ due'[s] = IF ok THEN due[s] - Parts ELSE due[s]
      /\ \A x \in Subjects : x # s /\ x \notin gone => due'[x] = due[x]
      /\ \A x \in gone \cap Subjects : due'[x] = Capacity(limitOf[x])
      /\ \A x \in Subjects : due'[x] <= Capacity(limitOf'[x])
  <2>1. \A x \in Subjects : /\ limitOf[x] \in Limits /\ due[x] \in Nat
                            /\ due[x] <= Capacity(limitOf[x]) /\ Capacity(limitOf[x]) \in Nat
    BY LimitFacts DEF RateInv, RateTypes
  <2>2. ok => due[s] >= Parts
    BY <1>0, <1>6, <2>1
  <2> QED
    BY <1>0, <1>2, <1>3, <2>1, <2>2
<1>8. /\ order' \in Seq(Bucket) /\ Len(order') = Len(room) + 1
      /\ order'[1] = b1
      /\ \A i \in 2..Len(order') : i - 1 \in 1..Len(room) /\ order'[i] = room[i - 1]
  <2>1. <<b1>> \in Seq(Bucket) /\ Len(<<b1>>) = 1 /\ <<b1>>[1] = b1
    BY <1>5
  <2>2. Len(room) \in Nat
    BY <1>1, LenProperties
  <2> QED
    BY <1>1, <1>2, <2>1, <2>2, ConcatProperties
<1>9. RateTypes'
  BY <1>2, <1>7, <1>8 DEF RateInv, RateTypes
<1>10. ASSUME NEW i \in 2..Len(order')
       PROVE  order'[i].key # s
  <2>1. i - 1 \in 1..Len(room) /\ order'[i] = room[i - 1]
    BY <1>8
  <2>2. PICK j \in 1..Len(order) : room[i - 1] = order[j] /\ order[j].key # s
    BY <1>1, <2>1
  <2> QED
    BY <2>1, <2>2
<1>11. KeysInv'
  <2> SUFFICES ASSUME NEW i \in 1..Len(order'), NEW j \in 1..Len(order'),
                      order'[i].key = order'[j].key
               PROVE  i = j
    BY DEF KeysInv
  <2>1. Len(room) \in Nat
    BY <1>1, LenProperties
  <2>2. CASE i = 1 \/ j = 1
    BY <1>5, <1>8, <1>10, <2>1, <2>2
  <2>3. CASE i # 1 /\ j # 1
    <3>1. /\ i - 1 \in 1..Len(room) /\ j - 1 \in 1..Len(room)
          /\ room[i - 1].key = room[j - 1].key
      BY <1>8, <2>1, <2>3
    <3>2. i - 1 = j - 1
      BY <1>1, <3>1
    <3> QED
      BY <1>8, <2>1, <3>2
  <2> QED
    BY <2>2, <2>3
<1>12. OwedInv'
  <2> SUFFICES ASSUME NEW i \in 1..Len(order'), order'[i].limit = limitOf'[order'[i].key]
               PROVE  Full(order'[i]) <= due'[order'[i].key]
    BY DEF OwedInv
  <2>1. CASE i = 1
    <3>1. Full(b1) = b1.tokens
      <4>1. /\ Capacity(limitOf[s]) \in Nat /\ Rate(limitOf[s]) \in Nat
        BY LimitFacts DEF RateInv, RateTypes
      <4>2. 0 * Rate(limitOf[s]) = 0
        BY <4>1
      <4>3. b1.tokens \in Nat /\ b1.tokens <= Capacity(limitOf[s])
        BY <1>0, <1>5, <4>1, FullFacts
      <4> QED
        BY <1>5, <4>1, <4>2, <4>3 DEF Full, Lesser
    <3>2. b1.tokens <= due'[s]
      <4>1. due[s] \in Nat
        BY DEF RateInv, RateTypes
      <4> QED
        BY <1>0, <1>5, <1>6, <1>7, <4>1
    <3> QED
      BY <1>5, <1>8, <2>1, <3>1, <3>2
  <2>2. CASE i # 1
    <3>1. i - 1 \in 1..Len(room) /\ order'[i] = room[i - 1]
      <4>1. Len(room) \in Nat
        BY <1>1, LenProperties
      <4> QED
        BY <1>8, <2>2, <4>1
    <3>2. PICK j \in 1..Len(order) : order'[i] = order[j] /\ order[j].key # s
      BY <1>1, <3>1
    <3>3. order[j].key \in Subjects
      <4>1. order \in Seq(Bucket)
        BY DEF RateInv, RateTypes
      <4>2. order[j] \in Bucket
        BY <4>1, ElementOfSeq
      <4> QED
        BY <4>2 DEF Bucket
    <3>4. due'[order[j].key] = due[order[j].key]
      BY <1>3, <1>7, <3>1, <3>2, <3>3
    <3>5. Full(order[j]) <= due[order[j].key]
      BY <1>2, <3>2 DEF RateInv, OwedInv
    <3> QED
      BY <3>2, <3>4, <3>5
  <2> QED
    BY <2>1, <2>2
<1>13. FreshInv'
  <2> SUFFICES ASSUME NEW x \in Subjects
               PROVE  \/ due'[x] = Capacity(limitOf'[x])
                      \/ \E i \in 1..Len(order') : order'[i].key = x /\ order'[i].limit = limitOf'[x]
    BY DEF FreshInv
  <2>0. Len(room) \in Nat
    BY <1>1, LenProperties
  <2>1. CASE x = s
    <3>1. 1 \in 1..Len(order')
      BY <1>8, <2>0
    <3> QED
      BY <1>2, <1>5, <1>8, <2>1, <3>1
  <2>2. CASE x \in gone
    BY <1>2, <1>7, <2>2
  <2>3. CASE x # s /\ x \notin gone /\ due[x] = Capacity(limitOf[x])
    BY <1>2, <1>7, <2>3
  <2>4. CASE x # s /\ x \notin gone
             /\ \E i \in 1..Len(order) : order[i].key = x /\ order[i].limit = limitOf[x]
    <3>1. PICK i \in 1..Len(order) : order[i].key = x /\ order[i].limit = limitOf[x]
      BY <2>4
    <3>2. PICK j \in 1..Len(room) : room[j].key = x
      BY <1>3, <2>4, <3>1
    <3>3. room[j] = order[i]
      BY <1>1, <3>1, <3>2 DEF RateInv, KeysInv
    <3>4. j + 1 \in 1..Len(order') /\ order'[j + 1] = room[j]
      BY <1>8, <2>0, <3>2
    <3> QED
      BY <1>2, <3>1, <3>3, <3>4
  <2> QED
    BY <2>1, <2>2, <2>3, <2>4 DEF RateInv, FreshInv
<1> QED
  BY <1>9, <1>11, <1>12, <1>13 DEF RateInv

LEMMA IdleSweepKeeps ==
  ASSUME RateInv, BurstsRefill, SweepIdle
  PROVE  RateInv'
<1> DEFINE L == Len(order)
           live == {i \in DOMAIN order : ~Stale(order[i])}
           upto == IF live = {} THEN 0
                   ELSE CHOOSE i \in live : \A j \in live : j <= i
<1>0. order \in Seq(Bucket) /\ L \in Nat /\ DOMAIN order = 1..L
  BY LenProperties DEF RateInv, RateTypes
<1>1. order' = SubSeq(order, 1, upto) /\ due' = due /\ limitOf' = limitOf
  BY DEF SweepIdle
<1>2. upto \in 0..L /\ \A i \in 1..L : i > upto => Stale(order[i])
  <2>1. CASE live = {}
    BY <1>0, <2>1
  <2>2. CASE live # {}
    <3> DEFINE far == {L - i : i \in live}
    <3>1. far \subseteq Nat /\ far # {}
      BY <1>0, <2>2
    <3>2. Min(far) \in far
      BY <3>1, LowestExists
    <3>3. \E x \in far : \A y \in far : x <= y
      <4>1. PICK x \in far : \A y \in far : ~ (<<y, x>> \in OpToRel(<, Nat))
        BY <3>1, NatLessThanWellFounded, WFMin, Zenon
      <4> HIDE DEF far
      <4>2. \A y \in far : ~ (y < x)
        BY <3>1, <4>1 DEF OpToRel
      <4>3. \A y \in far : x <= y
        BY <3>1, <4>2
      <4> QED
        BY <4>3
    <3>4. PICK m \in live : \A j \in live : L - m <= L - j
      BY <3>3
    <3>5. \A j \in live : j <= m
      BY <1>0, <3>4
    <3>6. upto \in live /\ \A j \in live : j <= upto
      BY <2>2, <3>5
    <3> HIDE DEF upto
    <3> QED
      BY <1>0, <3>6
  <2> QED
    BY <2>1, <2>2
<1> HIDE DEF upto, live
<1>3. /\ order' \in Seq(Bucket) /\ Len(order') = upto
      /\ \A i \in 1..upto : order'[i] = order[i]
  BY <1>0, <1>1, <1>2, SubSeqProperties
<1>4. RateTypes'
  BY <1>1, <1>3 DEF RateInv, RateTypes
<1>5. \A i \in 1..Len(order') : i \in 1..L /\ order'[i] = order[i]
  BY <1>0, <1>2, <1>3
<1>6. KeysInv'
  BY <1>5 DEF RateInv, KeysInv
<1>7. OwedInv'
  BY <1>1, <1>5 DEF RateInv, OwedInv
<1>8. FreshInv'
  <2> SUFFICES ASSUME NEW s \in Subjects
               PROVE  \/ due'[s] = Capacity(limitOf'[s])
                      \/ \E i \in 1..Len(order') : order'[i].key = s /\ order'[i].limit = limitOf'[s]
    BY DEF FreshInv
  <2>1. CASE due[s] = Capacity(limitOf[s])
    BY <1>1, <2>1
  <2>2. CASE \E i \in 1..L : order[i].key = s /\ order[i].limit = limitOf[s]
    <3>1. PICK i \in 1..L : order[i].key = s /\ order[i].limit = limitOf[s]
      BY <2>2
    <3>2. CASE i <= upto
      <4>1. i \in 1..Len(order')
        BY <1>0, <1>2, <1>3, <3>2
      <4> QED
        BY <1>1, <1>5, <3>1, <4>1
    <3>3. CASE i > upto
      <4>1. order[i] \in Bucket /\ Stale(order[i])
        BY <1>0, <1>2, <3>3, ElementOfSeq
      <4>2. Full(order[i]) = Capacity(limitOf[s])
        BY <3>1, <4>1, StaleIsFull
      <4>3. Full(order[i]) <= due[s]
        BY <3>1 DEF RateInv, OwedInv
      <4>4. due[s] \in Nat /\ due[s] <= Capacity(limitOf[s]) /\ Capacity(limitOf[s]) \in Nat
        BY LimitFacts DEF RateInv, RateTypes
      <4> QED
        BY <1>1, <4>2, <4>3, <4>4
    <3> QED
      BY <1>0, <1>2, <3>2, <3>3
  <2> QED
    BY <2>1, <2>2 DEF RateInv, FreshInv
<1> QED
  BY <1>4, <1>6, <1>7, <1>8 DEF RateInv

\* A tick adds to a bucket no more than its rate.
LEMMA TickFacts ==
  ASSUME NEW b \in Bucket
  PROVE  LET c == [b EXCEPT !.idle = Lesser(MaxIdle, @ + 1)]
         IN  /\ c \in Bucket /\ c.key = b.key /\ c.limit = b.limit
             /\ Full(c) <= Lesser(Capacity(b.limit), Full(b) + Rate(b.limit))
<1> DEFINE n == Lesser(MaxIdle, b.idle + 1)
           c == [b EXCEPT !.idle = n]
           R == Rate(b.limit)
           C == Capacity(b.limit)
<1>1. /\ b.tokens \in Nat /\ b.idle \in Nat /\ b.limit \in Limits
      /\ R \in Nat /\ C \in Nat /\ b.idle * R \in Nat
  BY FullFacts, LimitFacts
<1>2. n \in Nat /\ n <= b.idle + 1
  BY <1>1, RateAssumption DEF RateAssumption, Lesser
<1>3. Full(b) = Lesser(C, b.tokens + b.idle * R)
  BY DEF Full
<1> HIDE DEF n
<1>4. c \in Bucket /\ c.key = b.key /\ c.limit = b.limit /\ c.tokens = b.tokens /\ c.idle = n
  BY <1>1, <1>2 DEF Bucket
<1> HIDE DEF c
<1>5. Full(c) = Lesser(C, b.tokens + n * R)
  BY <1>4 DEF Full
<1> HIDE DEF R, C
<1>6. n * R \in Nat /\ n * R <= b.idle * R + R
  <2>1. \A x, y, r \in Nat : x <= y + 1 => x * r \in Nat /\ x * r <= y * r + r
    OBVIOUS
  <2> QED
    BY <1>1, <1>2, <2>1
<1>7. Full(c) <= Lesser(C, Full(b) + R)
  BY <1>1, <1>3, <1>5, <1>6 DEF Lesser
<1> QED
  BY <1>4, <1>7 DEF c, n, R, C

LEMMA TicksKeeps ==
  ASSUME RateInv, Ticks
  PROVE  RateInv'
<1> DEFINE L == Len(order)
<1>0. order \in Seq(Bucket) /\ L \in Nat /\ DOMAIN order = 1..L
  BY LenProperties DEF RateInv, RateTypes
<1>1. /\ order' = [i \in 1..L |-> [order[i] EXCEPT !.idle = Lesser(MaxIdle, @ + 1)]]
      /\ due' = [s \in Subjects |-> Lesser(Capacity(limitOf[s]), due[s] + Rate(limitOf[s]))]
      /\ limitOf' = limitOf
  BY <1>0 DEF Ticks
<1>2. \A i \in 1..L : /\ order'[i] \in Bucket
                      /\ order'[i].key = order[i].key /\ order'[i].limit = order[i].limit
                      /\ Full(order'[i]) <= Lesser(Capacity(order[i].limit),
                                                   Full(order[i]) + Rate(order[i].limit))
  <2> SUFFICES ASSUME NEW i \in 1..L
               PROVE  /\ order'[i] \in Bucket
                      /\ order'[i].key = order[i].key /\ order'[i].limit = order[i].limit
                      /\ Full(order'[i]) <= Lesser(Capacity(order[i].limit),
                                                   Full(order[i]) + Rate(order[i].limit))
    OBVIOUS
  <2>1. order'[i] = [order[i] EXCEPT !.idle = Lesser(MaxIdle, @ + 1)]
    BY <1>1
  <2>2. order[i] \in Bucket
    BY <1>0, ElementOfSeq
  <2> QED
    BY <2>1, <2>2, TickFacts
<1>3. order' \in Seq(Bucket) /\ Len(order') = L
  <2>1. order' \in [1..L -> Bucket]
    BY <1>1, <1>2
  <2> QED
    BY <1>0, <2>1
<1>4. \A s \in Subjects : /\ limitOf[s] \in Limits /\ due[s] \in Nat
                          /\ due[s] <= Capacity(limitOf[s])
                          /\ Capacity(limitOf[s]) \in Nat /\ Rate(limitOf[s]) \in Nat
  BY LimitFacts DEF RateInv, RateTypes
<1>5. \A s \in Subjects : /\ due'[s] = Lesser(Capacity(limitOf[s]), due[s] + Rate(limitOf[s]))
                          /\ due'[s] \in Nat /\ due'[s] <= Capacity(limitOf[s])
                          /\ due[s] = Capacity(limitOf[s]) => due'[s] = Capacity(limitOf[s])
  BY <1>1, <1>4 DEF Lesser
<1>6. RateTypes'
  <2>1. due' \in [Subjects -> Nat]
    BY <1>1, <1>5
  <2> QED
    BY <1>1, <1>3, <1>5, <2>1 DEF RateInv, RateTypes
<1>7. KeysInv'
  BY <1>2, <1>3 DEF RateInv, KeysInv
<1>8. OwedInv'
  <2> SUFFICES ASSUME NEW i \in 1..L, order'[i].limit = limitOf'[order'[i].key]
               PROVE  Full(order'[i]) <= due'[order'[i].key]
    BY <1>3 DEF OwedInv
  <2> DEFINE s == order[i].key
             l == limitOf[s]
  <2>1. order[i] \in Bucket /\ order'[i] \in Bucket /\ s \in Subjects
    BY <1>0, <1>2, ElementOfSeq DEF Bucket
  <2>2. order'[i].key = s /\ order[i].limit = l
    BY <1>1, <1>2
  <2>3. Full(order[i]) <= due[s] /\ Full(order[i]) \in Nat /\ Full(order'[i]) \in Nat
    BY <2>1, <2>2, FullFacts DEF RateInv, OwedInv
  <2>4. Full(order'[i]) <= Lesser(Capacity(l), Full(order[i]) + Rate(l))
    BY <1>2, <2>2
  <2>5. due'[s] = Lesser(Capacity(l), due[s] + Rate(l))
    BY <1>5, <2>1
  <2>6. Capacity(l) \in Nat /\ Rate(l) \in Nat /\ due[s] \in Nat
    BY <1>4, <2>1
  <2> HIDE DEF s, l
  <2>7. Full(order'[i]) <= due'[s]
    BY <2>3, <2>4, <2>5, <2>6 DEF Lesser
  <2> QED
    BY <2>2, <2>7
<1>9. FreshInv'
  <2> SUFFICES ASSUME NEW s \in Subjects
               PROVE  \/ due'[s] = Capacity(limitOf'[s])
                      \/ \E i \in 1..Len(order') : order'[i].key = s /\ order'[i].limit = limitOf'[s]
    BY DEF FreshInv
  <2> QED
    BY <1>1, <1>2, <1>3, <1>5 DEF RateInv, FreshInv
<1> QED
  BY <1>6, <1>7, <1>8, <1>9 DEF RateInv

LEMMA RelimitKeeps ==
  ASSUME RateInv, NEW s \in Subjects, NEW l \in Limits, Relimit(s, l)
  PROVE  RateInv'
<1>0. order \in Seq(Bucket) /\ Capacity(l) \in Nat
  BY LimitFacts DEF RateInv, RateTypes
<1>1. /\ order' = order
      /\ limitOf' \in [Subjects -> Limits] /\ limitOf'[s] = l
      /\ due' \in [Subjects -> Nat] /\ due'[s] = Capacity(l)
      /\ \A x \in Subjects : x # s => limitOf'[x] = limitOf[x] /\ due'[x] = due[x]
  BY <1>0 DEF Relimit, RateInv, RateTypes
<1>2. RateTypes'
  <2>1. \A x \in Subjects : due[x] <= Capacity(limitOf[x]) /\ Capacity(l) <= Capacity(l)
    BY <1>0 DEF RateInv, RateTypes
  <2>2. ASSUME NEW x \in Subjects
        PROVE  due'[x] <= Capacity(limitOf'[x])
    <3>1. CASE x = s
      BY <1>0, <1>1, <3>1
    <3>2. CASE x # s
      BY <1>1, <2>1, <3>2
    <3> QED
      BY <3>1, <3>2
  <2> QED
    BY <1>0, <1>1, <2>2 DEF RateTypes
<1>3. KeysInv'
  BY <1>1 DEF RateInv, KeysInv
<1>4. OwedInv'
  <2> SUFFICES ASSUME NEW i \in 1..Len(order), order[i].limit = limitOf'[order[i].key]
               PROVE  Full(order[i]) <= due'[order[i].key]
    BY <1>1 DEF OwedInv
  <2>0. order[i] \in Bucket
    BY <1>0, ElementOfSeq
  <2>1. order[i] \in Bucket /\ order[i].key \in Subjects
    BY <2>0 DEF Bucket
  <2>2. CASE order[i].key = s
    BY <1>1, <2>1, <2>2, FullFacts
  <2>3. CASE order[i].key # s
    BY <1>1, <2>1, <2>3 DEF RateInv, OwedInv
  <2> QED
    BY <2>2, <2>3
<1>5. FreshInv'
  BY <1>1 DEF RateInv, FreshInv
<1> QED
  BY <1>2, <1>3, <1>4, <1>5 DEF RateInv

\* Where idleFactor windows refill every bucket, no subject is ever admitted
\* past its limit but by an eviction: dropping an idle bucket, building it
\* again and reloading a route give nothing away (ratelimit.go Allow, Sweep).
THEOREM LimitsHold == BurstsRefill => (RateSpec => []NoFreeTokens)
<1> SUFFICES ASSUME BurstsRefill
             PROVE  RateSpec => []NoFreeTokens
  OBVIOUS
<1>1. RateInit => RateInv
  <2> SUFFICES ASSUME RateInit
               PROVE  RateInv
    OBVIOUS
  <2>1. order = <<>> /\ Len(order) = 0 /\ order \in Seq(Bucket)
    BY DEF RateInit
  <2>2. \A s \in Subjects : /\ limitOf[s] \in Limits /\ due[s] = Capacity(limitOf[s])
                            /\ Capacity(limitOf[s]) \in Nat
    BY LimitFacts DEF RateInit
  <2>3. RateTypes
    BY <2>1, <2>2 DEF RateTypes, RateInit
  <2> QED
    BY <2>1, <2>2, <2>3 DEF RateInv, KeysInv, OwedInv, FreshInv
<1>2. RateInv /\ [RateNext]_rateVars => RateInv'
  <2> SUFFICES ASSUME RateInv, [RateNext]_rateVars
               PROVE  RateInv'
    OBVIOUS
  <2>1. ASSUME NEW s \in Subjects, Allow(s)
        PROVE  RateInv'
    BY <2>1, AllowKeeps
  <2>2. ASSUME NEW s \in Subjects, NEW l \in Limits, Relimit(s, l)
        PROVE  RateInv'
    BY <2>2, RelimitKeeps
  <2>3. CASE SweepIdle
    BY <2>3, IdleSweepKeeps
  <2>4. CASE Ticks
    BY <2>4, TicksKeeps
  <2>5. CASE UNCHANGED rateVars
    <3>1. order' = order /\ due' = due /\ limitOf' = limitOf
      BY <2>5 DEF rateVars
    <3> QED
      BY <3>1 DEF RateInv, RateTypes, KeysInv, OwedInv, FreshInv
  <2> QED
    BY <2>1, <2>2, <2>3, <2>4, <2>5 DEF RateNext
<1>3. RateInv => NoFreeTokens
  BY DEF RateInv, RateTypes, NoFreeTokens
<1> QED
  BY <1>1, <1>2, <1>3, PTL DEF RateSpec
-----------------------------------------------------------------------------
(* The frontends.                                                          *)

Entry == [id : Nat, set : Seq(Nat), gen : Nat]
Want == [id : Nat, set : Seq(Nat)]
Flip == [at : {"put", "delete", "withdraw"}, f : Frontends, i : Nat, id : Nat,
         old : Entry, new : Want]

LbTypeOK ==
  /\ svc \in [Frontends -> Entry]
  /\ applied \in [Frontends -> Want] /\ wanted \in [Frontends -> Want]
  /\ toDrop \in SUBSET Frontends /\ toProgram \in SUBSET Frontends
  /\ flip \in {NoFlip} \cup Flip

Flipping(f, ats) == flip # NoFlip /\ flip.f = f /\ flip.at \in ats

\* What a pass has yet to do: a frontend to drop is there and not wanted, one to
\* program is wanted, and the one at hand is in neither set any more.
PlanInv ==
  /\ \A f \in Frontends : svc[f].id = 0 => svc[f].set = <<>>
  /\ \A f \in Frontends : wanted[f].id = 0 => wanted[f].set = <<>>
  /\ \A f \in toDrop : svc[f].id # 0 /\ wanted[f].id = 0
  /\ \A f \in toProgram : wanted[f].id # 0
  /\ flip # NoFlip =>
       /\ flip.f \notin toDrop \cup toProgram
       /\ flip.new.id = wanted[flip.f].id /\ flip.new.set = wanted[flip.f].set
       /\ flip.id # 0
       /\ flip.at = "put" => flip.id = flip.new.id /\ flip.old = svc[flip.f]
       /\ flip.at = "withdraw" =>
            wanted[flip.f].id = 0 /\ flip.old = svc[flip.f] /\ flip.id = flip.old.id

LbBase == LbTypeOK /\ PlanInv

\* An id belongs to one frontend at a time, also to the one that is about to be
\* committed: once nothing is left to withdraw, what is there has the id it is
\* wanted with.
IdsInv ==
  /\ \A f, g \in Frontends : svc[f].id # 0 /\ svc[f].id = svc[g].id => f = g
  /\ \A f, g \in Frontends : wanted[f].id # 0 /\ wanted[f].id = wanted[g].id => f = g
  /\ ~Between =>
       \A f \in Frontends : svc[f].id # 0 =>
         \/ wanted[f].id = svc[f].id
         \/ wanted[f].id = 0 /\ (f \in toDrop \/ Flipping(f, {"withdraw"}))
  /\ flip # NoFlip => \A g \in Frontends : g # flip.f => svc[g].id # flip.id

\* The puts of a flip are those of a generation nobody points at, and its deletes
\* those of one that nobody points at any more.
GenInv ==
  flip # NoFlip =>
    /\ flip.at = "put" =>
         /\ toDrop = {} /\ flip.old.id \in {0, flip.id}
         /\ flip.i \in 1..(Len(flip.new.set) + 1)
         /\ \A j \in 1..(flip.i - 1) :
              /\ <<flip.id, j, flip.old.gen + 1>> \in DOMAIN backend
              /\ backend[<<flip.id, j, flip.old.gen + 1>>] = flip.new.set[j]
    /\ flip.at = "delete" =>
         svc[flip.f].id = 0 \/ svc[flip.f].gen = flip.old.gen + 1

WholeInv == LbBase /\ IdsInv /\ GenInv /\ SetsWhole

Matches(f) == svc[f].id = wanted[f].id /\ svc[f].set = wanted[f].set

\* The cache says the truth but of the frontend between its commit and its
\* cache; a pass has yet to do whatever does not match.
CacheInv ==
  /\ \A f \in Frontends : svc[f].id # 0 /\ applied[f].id # 0 =>
       \/ applied[f].id = svc[f].id /\ applied[f].set = svc[f].set
       \/ Flipping(f, {"delete"})
  /\ settled => Between /\ \A f \in Frontends : Matches(f)
  /\ ~Between => \A f \in Frontends :
       Matches(f) \/ f \in toDrop \cup toProgram \/ Flipping(f, {"put", "withdraw"})

CachedInv == LbBase /\ CacheInv

\* The shape of a flip and of what is next in it.
LEMMA FlipShape ==
  ASSUME LbTypeOK
  PROVE  /\ flip # NoFlip <=> flip \in Flip
         /\ NextWrite \in MapWrites \cup {"cache"} => flip \in Flip
         /\ NextWrite = "put" => flip.at = "put" /\ flip.i <= Len(flip.new.set)
         /\ NextWrite = "commit" => flip.at = "put" /\ ~(flip.i <= Len(flip.new.set))
         /\ NextWrite = "withdraw" => flip.at = "withdraw"
         /\ NextWrite = "delete" => flip.at = "delete" /\ flip.i <= Len(flip.old.set)
         /\ NextWrite = "cache" => flip.at = "delete"
         /\ flip \in Flip /\ flip.at = "delete" => NextWrite \in {"delete", "cache"}
<1>1. NoFlip.at = "none"
  BY DEF NoFlip
<1>2. \A p \in Flip : p.at \in {"put", "delete", "withdraw"}
  BY DEF Flip
<1>3. flip # NoFlip <=> flip \in Flip
  BY <1>1, <1>2 DEF LbTypeOK
<1>4. flip = NoFlip => NextWrite = "none"
  BY <1>1 DEF NextWrite
<1>5. flip \in Flip =>
        /\ flip.at = "put" => NextWrite = IF flip.i <= Len(flip.new.set) THEN "put" ELSE "commit"
        /\ flip.at = "delete" => NextWrite = IF flip.i <= Len(flip.old.set) THEN "delete" ELSE "cache"
        /\ flip.at = "withdraw" => NextWrite = "withdraw"
  BY DEF NextWrite
<1>6. NextWrite \in MapWrites \cup {"cache"} => flip \in Flip
  BY <1>3, <1>4 DEF MapWrites
<1>7. CASE flip \in Flip
  <2>1. flip.at \in {"put", "delete", "withdraw"}
    BY <1>2, <1>7
  <2> QED BY <1>3, <1>5, <1>6, <1>7, <2>1
<1>8. CASE flip \notin Flip
  BY <1>3, <1>4, <1>6, <1>8
<1> QED BY <1>7, <1>8

\* What BeginSync finds to do.
LEMMA BeginSyncBase ==
  ASSUME LbBase, NEW w \in Wants, BeginSync(w)
  PROVE  /\ LbBase' /\ flip = NoFlip /\ flip' = NoFlip
         /\ \A f \in Frontends : w[f].id = 0 => w[f].set = <<>>
<1>1. flip = NoFlip /\ flip' = NoFlip /\ UNCHANGED <<svc, applied>>
  BY DEF BeginSync, Between
<1>2. w \in [Frontends -> {NoSvc} \cup [id : FrontIds, set : BackendSets]]
  BY DEF Wants
<1>3. \A f \in Frontends : w[f] \in Want /\ (w[f].id = 0 => w[f].set = <<>>)
  <2> SUFFICES ASSUME NEW f \in Frontends PROVE w[f] \in Want /\ (w[f].id = 0 => w[f].set = <<>>)
    OBVIOUS
  <2>1. CASE w[f] = NoSvc
    BY <2>1 DEF NoSvc, Want
  <2>2. CASE w[f] \in [id : FrontIds, set : BackendSets]
    BY <2>2, LoadBalancerAssumption DEF Want
  <2> QED BY <1>2, <2>1, <2>2
<1>4. w \in [Frontends -> Want]
  BY <1>2, <1>3
<1>5. wanted' = w /\ toDrop' = Unwanted(w) /\ toProgram' = Changed(w)
  BY DEF BeginSync
<1>6. LbTypeOK'
  BY <1>1, <1>4, <1>5 DEF LbBase, LbTypeOK, Unwanted, Changed
<1>7. PlanInv'
  BY <1>1, <1>3, <1>5 DEF LbBase, PlanInv, Unwanted, Changed
<1> QED BY <1>1, <1>3, <1>6, <1>7 DEF LbBase

\* What the pass turns to: one to withdraw, or, when none is left, to program.
LEMMA TurnBase ==
  ASSUME LbBase, NEW f \in Frontends, Turn(f)
  PROVE  /\ LbBase' /\ flip = NoFlip /\ flip' # NoFlip /\ flip' \in Flip /\ flip'.f = f
         /\ flip'.old = svc[f] /\ flip'.i = 1
         /\ UNCHANGED <<svc, backend, applied, wanted, settled>>
         /\ \/ /\ f \in toDrop /\ toDrop' = toDrop \ {f} /\ toProgram' = toProgram
               /\ flip'.at = "withdraw" /\ flip'.id = svc[f].id
            \/ /\ toDrop = {} /\ f \in toProgram /\ toDrop' = {}
               /\ toProgram' = toProgram \ {f}
               /\ flip'.at = "put" /\ flip'.id = wanted[f].id /\ flip'.new = wanted[f]
<1>1. /\ flip = NoFlip /\ UNCHANGED <<svc, backend, applied, wanted, settled>>
      /\ svc[f] \in Entry /\ wanted[f] \in Want /\ svc[f].id \in Nat /\ wanted[f].id \in Nat
  BY DEF LbBase, LbTypeOK, Turn, Entry, Want
<1>2. CASE /\ IsNext(f, toDrop) /\ toDrop' = toDrop \ {f} /\ toProgram' = toProgram
           /\ flip' = [at |-> "withdraw", f |-> f, i |-> 1, id |-> svc[f].id,
                       old |-> svc[f], new |-> NoSvc]
  <2>1. /\ flip' \in Flip /\ flip'.f = f /\ flip'.old = svc[f] /\ flip'.i = 1
        /\ flip'.at = "withdraw" /\ flip'.id = svc[f].id /\ flip'.new = NoSvc
    BY <1>1, <1>2 DEF Flip, NoSvc, Want
  <2>2. f \in toDrop /\ svc[f].id # 0 /\ wanted[f].id = 0 /\ wanted[f].set = <<>>
    BY <1>2 DEF IsNext, LbBase, PlanInv
  <2>3. LbTypeOK'
    BY <1>1, <1>2, <2>1 DEF LbBase, LbTypeOK
  <2>4. flip' # NoFlip
    BY <2>1 DEF NoFlip
  <2>5. f \notin toProgram
    BY <2>2 DEF LbBase, PlanInv
  <2>6. NoSvc.id = 0 /\ NoSvc.set = <<>>
    BY DEF NoSvc
  <2>7. PlanInv'
    BY <1>1, <1>2, <2>1, <2>2, <2>4, <2>5, <2>6 DEF LbBase, PlanInv
  <2> QED BY <1>1, <1>2, <2>1, <2>2, <2>3, <2>4, <2>7 DEF LbBase
<1>3. CASE /\ toDrop = {} /\ IsNext(f, toProgram) /\ toProgram' = toProgram \ {f}
           /\ toDrop' = toDrop
           /\ flip' = [at |-> "put", f |-> f, i |-> 1, id |-> wanted[f].id,
                       old |-> svc[f], new |-> wanted[f]]
  <2>1. /\ flip' \in Flip /\ flip'.f = f /\ flip'.old = svc[f] /\ flip'.i = 1
        /\ flip'.at = "put" /\ flip'.id = wanted[f].id /\ flip'.new = wanted[f]
    BY <1>1, <1>3 DEF Flip
  <2>2. f \in toProgram /\ wanted[f].id # 0
    BY <1>3 DEF IsNext, LbBase, PlanInv
  <2>3. LbTypeOK'
    BY <1>1, <1>3, <2>1 DEF LbBase, LbTypeOK
  <2>4. flip' # NoFlip
    BY <2>1 DEF NoFlip
  <2>5. PlanInv'
    BY <1>1, <1>3, <2>1, <2>2, <2>4 DEF LbBase, PlanInv
  <2> QED BY <1>1, <1>3, <2>1, <2>2, <2>3, <2>4, <2>5 DEF LbBase
<1> QED BY <1>2, <1>3 DEF Turn

\* A put or a delete of a backend touches that map and the place in the flip.
LEMMA BackendBase ==
  ASSUME LbBase, PutBackend \/ DeleteBackend
  PROVE  /\ LbBase' /\ flip # NoFlip /\ flip' # NoFlip /\ flip \in Flip /\ flip' \in Flip
         /\ flip'.at = flip.at /\ flip'.f = flip.f /\ flip'.id = flip.id
         /\ flip'.old = flip.old /\ flip'.new = flip.new /\ flip'.i = flip.i + 1
         /\ UNCHANGED <<svc, applied, wanted, toDrop, toProgram, settled>>
<1>1. /\ flip \in Flip /\ flip # NoFlip
      /\ flip' = [flip EXCEPT !.i = @ + 1]
      /\ UNCHANGED <<svc, applied, wanted, toDrop, toProgram, settled>>
  BY FlipShape DEF LbBase, PutBackend, DeleteBackend, MapWrites
<1>2. /\ flip' \in Flip
      /\ flip'.at = flip.at /\ flip'.f = flip.f /\ flip'.id = flip.id
      /\ flip'.old = flip.old /\ flip'.new = flip.new /\ flip'.i = flip.i + 1
  BY <1>1 DEF Flip
<1>3. flip' # NoFlip
  BY <1>2 DEF NoFlip, Flip
<1>4. LbTypeOK'
  BY <1>1, <1>2 DEF LbBase, LbTypeOK
<1>5. PlanInv'
  BY <1>1, <1>2, <1>3 DEF LbBase, PlanInv
<1> QED BY <1>1, <1>2, <1>3, <1>4, <1>5 DEF LbBase

\* The commit and the withdrawal are one write of the frontend at hand.
LEMMA FrontBase ==
  ASSUME LbBase, CommitService \/ DeleteService
  PROVE  /\ LbBase' /\ flip # NoFlip /\ flip' # NoFlip /\ flip \in Flip /\ flip' \in Flip
         /\ flip.f \in Frontends /\ flip'.at = "delete" /\ flip'.f = flip.f
         /\ flip'.id = flip.id /\ flip'.old = flip.old /\ flip'.new = flip.new
         /\ UNCHANGED <<backend, applied, wanted, toDrop, toProgram, settled>>
         /\ \A g \in Frontends : g # flip.f => svc'[g] = svc[g]
         /\ svc'[flip.f].id = wanted[flip.f].id /\ svc'[flip.f].set = wanted[flip.f].set
         /\ \/ /\ flip.at = "put" /\ svc'[flip.f].id = flip.id /\ flip.i > Len(flip.new.set)
               /\ svc'[flip.f].set = flip.new.set
               /\ svc'[flip.f].gen = flip.old.gen + 1
            \/ flip.at = "withdraw" /\ svc'[flip.f].id = 0
<1>1. /\ flip \in Flip /\ flip # NoFlip /\ svc \in [Frontends -> Entry]
      /\ UNCHANGED <<backend, applied, wanted, toDrop, toProgram, settled>>
  BY FlipShape DEF LbBase, LbTypeOK, CommitService, DeleteService, MapWrites
<1>2. /\ flip.f \in Frontends /\ flip.i \in Nat /\ flip.id \in Nat /\ flip.id # 0 /\ flip.old \in Entry
      /\ flip.new \in Want /\ flip.old.gen \in Nat /\ flip.new.set \in Seq(Nat)
      /\ flip.new.id = wanted[flip.f].id /\ flip.new.set = wanted[flip.f].set
      /\ flip.f \notin toDrop \cup toProgram
  BY <1>1 DEF Flip, Entry, Want, LbBase, PlanInv
<1>3. CASE CommitService
  <2>1. svc' = [svc EXCEPT ![flip.f] = NewEntry] /\ flip' = [flip EXCEPT !.at = "delete", !.i = 1]
    BY <1>3 DEF CommitService
  <2>2. /\ flip.at = "put" /\ ~(flip.i <= Len(flip.new.set)) /\ flip.id = flip.new.id
    BY <1>1, <1>3, FlipShape DEF CommitService, LbBase, PlanInv
  <2>3. /\ NewEntry \in Entry /\ NewEntry.id = flip.id /\ NewEntry.set = flip.new.set
        /\ NewEntry.gen = flip.old.gen + 1
    BY <1>2 DEF NewEntry, Entry
  <2> HIDE DEF NewEntry
  <2>4. /\ svc' \in [Frontends -> Entry] /\ svc'[flip.f] = NewEntry
        /\ \A g \in Frontends : g # flip.f => svc'[g] = svc[g]
    BY <1>1, <1>2, <2>1, <2>3
  <2>5. /\ flip' \in Flip /\ flip'.at = "delete" /\ flip'.f = flip.f
        /\ flip'.id = flip.id /\ flip'.old = flip.old /\ flip'.new = flip.new
    BY <1>1, <2>1 DEF Flip
  <2>6. flip' # NoFlip
    BY <2>5 DEF NoFlip
  <2>7. flip.i > Len(flip.new.set)
    BY <1>2, <2>2
  <2>8. LbTypeOK'
    BY <1>1, <2>4, <2>5 DEF LbBase, LbTypeOK
  <2>9. PlanInv'
    <3>1. \A g \in Frontends : svc'[g].id = 0 => svc'[g].set = <<>>
      BY <1>2, <2>3, <2>4 DEF LbBase, PlanInv
    <3>2. \A g \in toDrop' : svc'[g].id # 0 /\ wanted'[g].id = 0
      BY <1>1, <1>2, <2>4 DEF LbBase, PlanInv, LbTypeOK
    <3> QED BY <1>1, <1>2, <2>5, <3>1, <3>2 DEF LbBase, PlanInv
  <2> QED BY <1>1, <1>2, <2>2, <2>3, <2>4, <2>5, <2>6, <2>7, <2>8, <2>9 DEF LbBase
<1>4. CASE DeleteService
  <2>1. svc' = [svc EXCEPT ![flip.f] = NoEntry] /\ flip' = [flip EXCEPT !.at = "delete"]
    BY <1>4 DEF DeleteService
  <2>2. flip.at = "withdraw" /\ wanted[flip.f].id = 0 /\ wanted[flip.f].set = <<>>
    BY <1>1, <1>2, <1>4, FlipShape DEF DeleteService, LbBase, PlanInv
  <2>3. NoEntry \in Entry /\ NoEntry.id = 0 /\ NoEntry.set = <<>>
    BY DEF NoEntry, Entry
  <2>4. /\ svc' \in [Frontends -> Entry] /\ svc'[flip.f] = NoEntry
        /\ \A g \in Frontends : g # flip.f => svc'[g] = svc[g]
    BY <1>1, <1>2, <2>1, <2>3
  <2>5. /\ flip' \in Flip /\ flip'.at = "delete" /\ flip'.f = flip.f
        /\ flip'.id = flip.id /\ flip'.old = flip.old /\ flip'.new = flip.new
    BY <1>1, <2>1 DEF Flip
  <2>6. flip' # NoFlip
    BY <2>5 DEF NoFlip
  <2>7. LbTypeOK'
    BY <1>1, <2>4, <2>5 DEF LbBase, LbTypeOK
  <2>8. PlanInv'
    <3>1. \A g \in Frontends : svc'[g].id = 0 => svc'[g].set = <<>>
      BY <1>2, <2>3, <2>4 DEF LbBase, PlanInv
    <3>2. \A g \in toDrop' : svc'[g].id # 0 /\ wanted'[g].id = 0
      BY <1>1, <1>2, <2>4 DEF LbBase, PlanInv, LbTypeOK
    <3> QED BY <1>1, <1>2, <2>5, <3>1, <3>2 DEF LbBase, PlanInv
  <2> QED BY <1>1, <1>2, <2>2, <2>3, <2>4, <2>5, <2>6, <2>7, <2>8 DEF LbBase
<1> QED BY <1>3, <1>4

\* A flip ends in the cache, and a pass in a failed write or in a crash.
LEMMA EndBase ==
  ASSUME LbBase, Caches \/ WriteFails \/ LbCrash
  PROVE  /\ LbBase' /\ flip' = NoFlip /\ UNCHANGED <<svc, backend, wanted>>
         /\ Caches => /\ flip # NoFlip /\ flip \in Flip /\ flip.at = "delete" /\ flip.f \in Frontends
                      /\ UNCHANGED <<toDrop, toProgram>>
                      /\ applied'[flip.f] = flip.new
                      /\ \A g \in Frontends : g # flip.f => applied'[g] = applied[g]
         /\ ~Caches => toDrop' = {} /\ toProgram' = {} /\ settled' = FALSE
<1>1. flip' = NoFlip /\ UNCHANGED <<svc, backend, wanted>>
  BY DEF Caches, WriteFails, LbCrash
<1>2. CASE Caches
  <2>1. /\ flip \in Flip /\ flip # NoFlip /\ flip.at = "delete" /\ flip.f \in Frontends
        /\ flip.new \in Want
        /\ applied' = [applied EXCEPT ![flip.f] = flip.new] /\ applied \in [Frontends -> Want]
        /\ UNCHANGED <<toDrop, toProgram>>
    BY <1>2, FlipShape DEF LbBase, LbTypeOK, Caches, Flip
  <2>2. /\ applied' \in [Frontends -> Want] /\ applied'[flip.f] = flip.new
        /\ \A g \in Frontends : g # flip.f => applied'[g] = applied[g]
    BY <2>1
  <2>3. LbTypeOK'
    BY <1>1, <2>1, <2>2 DEF LbBase, LbTypeOK
  <2>4. PlanInv'
    BY <1>1, <2>1 DEF LbBase, PlanInv
  <2> QED BY <1>1, <1>2, <2>1, <2>2, <2>3, <2>4 DEF LbBase
<1>3. CASE ~Caches
  <2>1. toDrop' = {} /\ toProgram' = {} /\ settled' = FALSE
    BY <1>3 DEF WriteFails, LbCrash
  <2>2. applied' \in [Frontends -> Want]
    <3>1. NoSvc \in Want
      BY DEF NoSvc, Want
    <3> QED BY <1>3, <3>1 DEF WriteFails, LbCrash, LbBase, LbTypeOK
  <2>3. LbTypeOK'
    BY <1>1, <2>1, <2>2 DEF LbBase, LbTypeOK
  <2>4. PlanInv'
    BY <1>1, <2>1 DEF LbBase, PlanInv
  <2> QED BY <1>1, <1>3, <2>1, <2>3, <2>4 DEF LbBase
<1> QED BY <1>2, <1>3

\* The cache says the truth after every write, when no backend's delete fails.
LEMMA CacheStep ==
  ASSUME "delete" \notin FailOps, CachedInv, [LbNext]_lbVars
  PROVE  CachedInv'
<1> USE DEF CachedInv
<1>0. LbBase /\ CacheInv
  OBVIOUS
<1>1. CASE \E w \in Wants : BeginSync(w)
  <2>1. PICK w \in Wants : BeginSync(w)
    BY <1>1
  <2>2. /\ LbBase' /\ flip = NoFlip /\ flip' = NoFlip
        /\ \A f \in Frontends : w[f].id = 0 => w[f].set = <<>>
    BY <2>1, BeginSyncBase
  <2>3. /\ wanted' = w /\ toDrop' = Unwanted(w) /\ toProgram' = Changed(w)
        /\ settled' = (Unwanted(w) = {} /\ Changed(w) = {})
        /\ UNCHANGED <<svc, applied>>
    BY <2>1 DEF BeginSync
  <2>4. \A f \in Frontends :
          f \notin Unwanted(w) /\ f \notin Changed(w) => svc[f].id = w[f].id /\ svc[f].set = w[f].set
    BY <2>2 DEF Unwanted, Changed, Unchanged, CacheInv, LbBase, PlanInv, Flipping
  <2>5. settled' => Unwanted(w) = {} /\ Changed(w) = {}
    BY <2>3
  <2>6. settled' => (Between /\ \A f \in Frontends : Matches(f))'
    BY <2>2, <2>3, <2>4, <2>5 DEF Between, Matches
  <2>7. \A f \in Frontends : Matches(f)' \/ f \in (toDrop \cup toProgram)'
    BY <2>3, <2>4 DEF Matches
  <2>8. (\A f \in Frontends : svc[f].id # 0 /\ applied[f].id # 0 =>
          \/ applied[f].id = svc[f].id /\ applied[f].set = svc[f].set
          \/ Flipping(f, {"delete"}))'
    BY <2>2, <2>3 DEF CacheInv, Flipping
  <2> QED BY <2>2, <2>6, <2>7, <2>8 DEF CacheInv
<1>2. CASE \E f \in Frontends : Turn(f)
  <2>1. PICK f \in Frontends : Turn(f)
    BY <1>2
  <2>2. /\ LbBase' /\ flip = NoFlip /\ flip' # NoFlip /\ flip'.f = f
        /\ UNCHANGED <<svc, backend, applied, wanted, settled>>
        /\ f \in toDrop \cup toProgram
        /\ (toDrop \cup toProgram) \ {f} \subseteq toDrop' \cup toProgram'
        /\ flip'.at \in {"put", "withdraw"}
    BY <2>1, TurnBase
  <2>3. ~Between /\ ~settled /\ ~settled'
    BY <2>2 DEF CacheInv, Between
  <2>4. (\A g \in Frontends :
          Matches(g) \/ g \in toDrop \cup toProgram \/ Flipping(g, {"put", "withdraw"}))'
    BY <2>2, <2>3 DEF CacheInv, Flipping, Matches
  <2>5. (\A g \in Frontends : svc[g].id # 0 /\ applied[g].id # 0 =>
          \/ applied[g].id = svc[g].id /\ applied[g].set = svc[g].set
          \/ Flipping(g, {"delete"}))'
    BY <2>2 DEF CacheInv, Flipping
  <2> QED BY <2>2, <2>3, <2>4, <2>5 DEF CacheInv
<1>3. CASE PutBackend \/ DeleteBackend
  <2>1. /\ LbBase' /\ flip # NoFlip /\ flip' # NoFlip
        /\ flip'.at = flip.at /\ flip'.f = flip.f
        /\ UNCHANGED <<svc, applied, wanted, toDrop, toProgram, settled>>
    BY <1>3, BackendBase
  <2>2. ~Between /\ ~settled /\ ~settled'
    BY <2>1 DEF CacheInv, Between
  <2> QED BY <2>1, <2>2 DEF CacheInv, Flipping, Matches, Between
<1>4. CASE CommitService \/ DeleteService
  <2>1. /\ LbBase' /\ flip # NoFlip /\ flip' # NoFlip
        /\ flip.f \in Frontends /\ flip'.at = "delete" /\ flip'.f = flip.f
        /\ UNCHANGED <<applied, wanted, toDrop, toProgram, settled>>
        /\ \A g \in Frontends : g # flip.f => svc'[g] = svc[g]
        /\ svc'[flip.f].id = wanted[flip.f].id /\ svc'[flip.f].set = wanted[flip.f].set
    BY <1>4, FrontBase
  <2>2. ~Between /\ ~settled /\ ~settled'
    BY <2>1 DEF CacheInv, Between
  <2>3. (\A g \in Frontends :
          Matches(g) \/ g \in toDrop \cup toProgram \/ Flipping(g, {"put", "withdraw"}))'
    BY <2>1, <2>2 DEF CacheInv, Flipping, Matches
  <2>4. (\A g \in Frontends : svc[g].id # 0 /\ applied[g].id # 0 =>
          \/ applied[g].id = svc[g].id /\ applied[g].set = svc[g].set
          \/ Flipping(g, {"delete"}))'
    BY <2>1 DEF CacheInv, Flipping
  <2> QED BY <2>1, <2>2, <2>3, <2>4 DEF CacheInv
<1>5. CASE Caches
  <2>1. /\ LbBase' /\ flip' = NoFlip /\ UNCHANGED <<svc, wanted, toDrop, toProgram>>
        /\ flip # NoFlip /\ flip.at = "delete" /\ flip.f \in Frontends
        /\ applied'[flip.f] = flip.new
        /\ \A g \in Frontends : g # flip.f => applied'[g] = applied[g]
    BY <1>5, EndBase
  <2>2. /\ flip.f \notin toDrop \cup toProgram
        /\ flip.new.id = wanted[flip.f].id /\ flip.new.set = wanted[flip.f].set
    BY <2>1 DEF LbBase, PlanInv
  <2>3. ~Between /\ Matches(flip.f)
    BY <2>1, <2>2 DEF CacheInv, Between, Flipping
  <2>4. \A g \in Frontends : Matches(g) \/ g \in toDrop \cup toProgram
    BY <2>1, <2>3 DEF CacheInv, Flipping
  <2>5. (\A g \in Frontends : Matches(g) \/ g \in toDrop \cup toProgram)'
    BY <2>1, <2>4 DEF Matches
  <2>6. settled' => toDrop = {} /\ toProgram = {}
    BY <1>5 DEF Caches
  <2>7. settled' => (Between /\ \A f \in Frontends : Matches(f))'
    BY <2>1, <2>5, <2>6 DEF Between
  <2>8. (\A g \in Frontends : svc[g].id # 0 /\ applied[g].id # 0 =>
          \/ applied[g].id = svc[g].id /\ applied[g].set = svc[g].set
          \/ Flipping(g, {"delete"}))'
    BY <2>1, <2>2, <2>3 DEF CacheInv, Flipping, Matches
  <2> QED BY <2>1, <2>5, <2>7, <2>8 DEF CacheInv
<1>6. CASE WriteFails
  <2>1. /\ LbBase' /\ flip' = NoFlip /\ UNCHANGED <<svc, applied, wanted>>
        /\ toDrop' = {} /\ toProgram' = {} /\ settled' = FALSE
    BY <1>6, EndBase DEF WriteFails
  <2>2. flip.at # "delete"
    <3>1. NextWrite \in MapWrites /\ NextWrite # "delete"
      BY <1>6, LoadBalancerAssumption DEF WriteFails
    <3>2. flip \in Flip /\ NextWrite # "cache"
      BY <3>1, FlipShape DEF LbBase, MapWrites
    <3> QED BY <3>1, <3>2, FlipShape DEF LbBase
  <2> QED BY <2>1, <2>2 DEF CacheInv, Flipping, Between
<1>7. CASE LbCrash
  <2>1. /\ LbBase' /\ flip' = NoFlip /\ toDrop' = {} /\ toProgram' = {} /\ settled' = FALSE
    BY <1>7, EndBase DEF LbCrash
  <2>2. \A f \in Frontends : applied'[f].id = 0
    BY <1>7 DEF LbCrash, NoSvc
  <2> QED BY <2>1, <2>2 DEF CacheInv, Between
<1>8. CASE UNCHANGED lbVars
  BY <1>8 DEF lbVars, LbBase, LbTypeOK, PlanInv, CacheInv, Flipping, Matches, Between
<1> QED BY <1>1, <1>2, <1>3, <1>4, <1>5, <1>6, <1>7, <1>8 DEF LbNext

\* Nothing is there, nothing is wanted, and nothing is to do.
LEMMA LbInitBase ==
  ASSUME LbInit
  PROVE  LbBase /\ IdsInv /\ GenInv /\ SetsWhole /\ CacheInv
<1>1. /\ NoEntry \in Entry /\ NoEntry.id = 0 /\ NoEntry.set = <<>>
      /\ NoSvc \in Want /\ NoSvc.id = 0 /\ NoSvc.set = <<>>
  BY DEF NoEntry, NoSvc, Entry, Want
<1>2. /\ svc \in [Frontends -> Entry] /\ applied \in [Frontends -> Want]
      /\ wanted \in [Frontends -> Want] /\ toDrop = {} /\ toProgram = {} /\ flip = NoFlip
      /\ \A f \in Frontends : /\ svc[f].id = 0 /\ svc[f].set = <<>> /\ applied[f].id = 0
                              /\ wanted[f].id = 0 /\ wanted[f].set = <<>>
  BY <1>1 DEF LbInit
<1>3. LbBase
  BY <1>2 DEF LbBase, LbTypeOK, PlanInv
<1>4. IdsInv /\ GenInv
  BY <1>2 DEF IdsInv, GenInv, Between
<1>5. SetsWhole
  BY <1>2 DEF SetsWhole
<1>6. CacheInv
  BY <1>2 DEF CacheInv, Between, Matches
<1> QED BY <1>3, <1>4, <1>5, <1>6

\* A pass that ends without an error leaves exactly the frontends it was asked
\* for, when no delete of an old backend fails: what the cache lets it skip is in
\* the maps already (lb.go SyncServices).
THEOREM PassesConverge ==
  ASSUME "delete" \notin FailOps
  PROVE  LbSpec => []PassConverges
<1>1. LbInit => CachedInv
  BY LbInitBase DEF CachedInv
<1>2. CachedInv /\ [LbNext]_lbVars => CachedInv'
  BY CacheStep
<1>3. CachedInv => PassConverges
  BY DEF CachedInv, CacheInv, PassConverges, Matches
<1> QED BY <1>1, <1>2, <1>3, PTL DEF LbSpec

\* The writes of one frontend leave every committed set whole, when no address
\* passes to another port name.
LEMMA WholeBackend ==
  ASSUME WholeInv, PutBackend \/ DeleteBackend
  PROVE  WholeInv'
<1>1. /\ LbBase' /\ flip # NoFlip /\ flip' # NoFlip /\ flip \in Flip /\ flip' \in Flip
      /\ flip'.at = flip.at /\ flip'.f = flip.f /\ flip'.id = flip.id
      /\ flip'.old = flip.old /\ flip'.new = flip.new /\ flip'.i = flip.i + 1
      /\ UNCHANGED <<svc, applied, wanted, toDrop, toProgram, settled>>
  BY BackendBase DEF WholeInv
<1>2. IdsInv'
  BY <1>1 DEF WholeInv, IdsInv, Between, Flipping
<1>3. /\ flip.f \in Frontends /\ flip.i \in Nat /\ flip.id \in Nat /\ flip.id # 0
      /\ flip.old.gen \in Nat /\ flip.new.set \in Seq(Nat)
      /\ \A f \in Frontends : svc[f].id = flip.id => f = flip.f
  BY <1>1 DEF WholeInv, LbBase, LbTypeOK, PlanInv, Flip, Entry, Want, IdsInv
<1>4. CASE PutBackend
  <2> DEFINE key == <<flip.id, flip.i, flip.old.gen + 1>>
  <2>1. flip.at = "put" /\ flip.i <= Len(flip.new.set) /\ flip.old = svc[flip.f]
    BY <1>1, <1>4, FlipShape DEF PutBackend, WholeInv, LbBase, PlanInv
  <2>2. /\ DOMAIN backend' = DOMAIN backend \cup {key}
        /\ backend'[key] = flip.new.set[flip.i]
        /\ \A k \in DOMAIN backend : k # key => backend'[k] = backend[k]
    BY <1>4 DEF PutBackend, NewEntry
  <2>3. \A f \in Frontends : \A j : <<svc[f].id, j, svc[f].gen>> # key
    <3> SUFFICES ASSUME NEW f \in Frontends, NEW j, <<svc[f].id, j, svc[f].gen>> = key
                 PROVE  FALSE
      OBVIOUS
    <3>1. svc[f].id = flip.id /\ svc[f].gen = flip.old.gen + 1
      OBVIOUS
    <3>2. svc[f].gen = flip.old.gen
      BY <1>3, <2>1, <3>1
    <3> QED BY <1>3, <3>1, <3>2
  <2>4. \A j \in 1..(flip.i - 1) : <<flip.id, j, flip.old.gen + 1>> # key
    BY <1>3
  <2> HIDE DEF key
  <2>5. SetsWhole'
    BY <1>1, <2>2, <2>3 DEF WholeInv, SetsWhole
  <2>6. /\ toDrop = {} /\ flip.old.id \in {0, flip.id}
        /\ flip.i \in 1..(Len(flip.new.set) + 1) /\ Len(flip.new.set) \in Nat
        /\ \A j \in 1..(flip.i - 1) :
             /\ <<flip.id, j, flip.old.gen + 1>> \in DOMAIN backend
             /\ backend[<<flip.id, j, flip.old.gen + 1>>] = flip.new.set[j]
    BY <1>1, <1>3, <2>1 DEF WholeInv, GenInv
  <2>7. \A j \in 1..flip.i :
          /\ <<flip.id, j, flip.old.gen + 1>> \in DOMAIN backend'
          /\ backend'[<<flip.id, j, flip.old.gen + 1>>] = flip.new.set[j]
    <3> SUFFICES ASSUME NEW j \in 1..flip.i
                 PROVE  /\ <<flip.id, j, flip.old.gen + 1>> \in DOMAIN backend'
                        /\ backend'[<<flip.id, j, flip.old.gen + 1>>] = flip.new.set[j]
      OBVIOUS
    <3>1. CASE j = flip.i
      BY <2>2, <3>1 DEF key
    <3>2. CASE j # flip.i
      <4>1. j \in 1..(flip.i - 1)
        BY <1>3, <3>2
      <4> QED BY <2>2, <2>4, <2>6, <4>1
    <3> QED BY <3>1, <3>2
  <2>8. flip'.i \in 1..(Len(flip.new.set) + 1) /\ flip'.i - 1 = flip.i
    BY <1>1, <1>3, <2>1, <2>6
  <2>9. GenInv'
    BY <1>1, <2>1, <2>6, <2>7, <2>8 DEF GenInv
  <2> QED BY <1>1, <1>2, <2>5, <2>9 DEF WholeInv
<1>5. CASE DeleteBackend
  <2> DEFINE key == <<flip.id, flip.i, flip.old.gen>>
  <2>1. flip.at = "delete"
    BY <1>1, <1>5, FlipShape DEF DeleteBackend, WholeInv, LbBase
  <2>2. /\ DOMAIN backend' = DOMAIN backend \ {key}
        /\ \A k \in DOMAIN backend : k # key => backend'[k] = backend[k]
    BY <1>5 DEF DeleteBackend
  <2>3. \A f \in Frontends : \A j : <<svc[f].id, j, svc[f].gen>> # key
    <3> SUFFICES ASSUME NEW f \in Frontends, NEW j, <<svc[f].id, j, svc[f].gen>> = key
                 PROVE  FALSE
      OBVIOUS
    <3>1. svc[f].id = flip.id /\ svc[f].gen = flip.old.gen
      OBVIOUS
    <3>2. svc[f].gen = flip.old.gen + 1
      BY <1>1, <1>3, <2>1, <3>1 DEF WholeInv, GenInv
    <3> QED BY <1>3, <3>1, <3>2
  <2> HIDE DEF key
  <2>4. SetsWhole'
    BY <1>1, <2>2, <2>3 DEF WholeInv, SetsWhole
  <2>5. GenInv'
    BY <1>1, <2>1 DEF WholeInv, GenInv
  <2> QED BY <1>1, <1>2, <2>4, <2>5 DEF WholeInv
<1> QED BY <1>4, <1>5

\* A commit points at a generation that is all there.
LEMMA WholeFront ==
  ASSUME WholeInv, CommitService \/ DeleteService
  PROVE  WholeInv'
<1>1. /\ LbBase' /\ flip # NoFlip /\ flip' # NoFlip /\ flip \in Flip /\ flip' \in Flip
      /\ flip.f \in Frontends /\ flip'.at = "delete" /\ flip'.f = flip.f
      /\ flip'.id = flip.id /\ flip'.old = flip.old /\ flip'.new = flip.new
      /\ UNCHANGED <<backend, applied, wanted, toDrop, toProgram, settled>>
      /\ \A g \in Frontends : g # flip.f => svc'[g] = svc[g]
      /\ svc'[flip.f].id = wanted[flip.f].id /\ svc'[flip.f].set = wanted[flip.f].set
      /\ \/ /\ flip.at = "put" /\ svc'[flip.f].id = flip.id /\ flip.i > Len(flip.new.set)
            /\ svc'[flip.f].set = flip.new.set
            /\ svc'[flip.f].gen = flip.old.gen + 1
         \/ flip.at = "withdraw" /\ svc'[flip.f].id = 0
  BY FrontBase DEF WholeInv
<1>2. ~Between /\ ~Between'
  BY <1>1 DEF Between
<1>3. IdsInv'
  <2>1. \A f, g \in Frontends : svc'[f].id # 0 /\ svc'[f].id = svc'[g].id => f = g
    BY <1>1 DEF WholeInv, IdsInv
  <2>2. \A f \in Frontends : svc'[f].id # 0 =>
          \/ wanted[f].id = svc'[f].id
          \/ wanted[f].id = 0 /\ f \in toDrop
    BY <1>1, <1>2 DEF WholeInv, IdsInv, Flipping
  <2> QED BY <1>1, <2>1, <2>2 DEF WholeInv, IdsInv
<1>4. GenInv'
  BY <1>1 DEF GenInv
<1>5. SetsWhole'
  <2> SUFFICES ASSUME NEW f \in Frontends, NEW j \in DOMAIN svc'[f].set
               PROVE  /\ <<svc'[f].id, j, svc'[f].gen>> \in DOMAIN backend
                      /\ backend[<<svc'[f].id, j, svc'[f].gen>>] = svc'[f].set[j]
    BY <1>1 DEF SetsWhole
  <2>1. CASE f # flip.f
    BY <1>1, <2>1 DEF WholeInv, SetsWhole
  <2>2. CASE f = flip.f /\ flip.at = "put"
    <3>1. /\ flip.i \in Nat /\ flip.new.set \in Seq(Nat) /\ flip.i > Len(flip.new.set)
          /\ svc'[f].set = flip.new.set /\ svc'[f].id = flip.id
          /\ svc'[f].gen = flip.old.gen + 1
      BY <1>1, <2>2 DEF Flip, Want
    <3>2. j \in 1..(flip.i - 1)
      BY <3>1
    <3> QED BY <1>1, <2>2, <3>1, <3>2 DEF WholeInv, GenInv
  <2>3. CASE f = flip.f /\ flip.at = "withdraw"
    <3>1. svc'[f].id = 0
      BY <1>1, <2>3
    <3>2. svc'[f].set = <<>>
      BY <1>1, <3>1 DEF LbBase, PlanInv
    <3> QED BY <3>2
  <2> QED BY <1>1, <2>1, <2>2, <2>3
<1> QED BY <1>1, <1>3, <1>4, <1>5 DEF WholeInv

\* No step tears a set.
LEMMA WholeStep ==
  ASSUME ~Renames, WholeInv, [LbNext]_lbVars
  PROVE  WholeInv'
<1>0. LbBase /\ IdsInv /\ GenInv /\ SetsWhole
  BY DEF WholeInv
<1>1. CASE \E w \in Wants : BeginSync(w)
  <2>1. PICK w \in Wants : BeginSync(w)
    BY <1>1
  <2>2. LbBase' /\ flip = NoFlip /\ flip' = NoFlip
    BY <1>0, <2>1, BeginSyncBase
  <2>3. /\ wanted' = w /\ toDrop' = Unwanted(w) /\ toProgram' = Changed(w)
        /\ UNCHANGED <<svc, backend>>
        /\ \A f \in Frontends : svc[f].id # 0 => w[f].id \in {0, svc[f].id}
    BY <2>1 DEF BeginSync
  <2>4. \A f, g \in Frontends : w[f].id # 0 /\ w[f].id = w[g].id => f = g
    BY <2>1 DEF Wants
  <2>5. IdsInv'
    BY <1>0, <2>2, <2>3, <2>4 DEF IdsInv, Unwanted
  <2>6. GenInv' /\ SetsWhole'
    BY <1>0, <2>2, <2>3 DEF GenInv, SetsWhole
  <2> QED BY <2>2, <2>5, <2>6 DEF WholeInv
<1>2. CASE \E f \in Frontends : Turn(f)
  <2>1. PICK f \in Frontends : Turn(f)
    BY <1>2
  <2>2. /\ LbBase' /\ flip = NoFlip /\ flip' # NoFlip /\ flip' \in Flip /\ flip'.f = f
        /\ flip'.old = svc[f] /\ flip'.i = 1
        /\ UNCHANGED <<svc, backend, applied, wanted, settled>>
        /\ \/ /\ f \in toDrop /\ toDrop' = toDrop \ {f} /\ toProgram' = toProgram
              /\ flip'.at = "withdraw" /\ flip'.id = svc[f].id
           \/ /\ toDrop = {} /\ f \in toProgram /\ toDrop' = {}
              /\ toProgram' = toProgram \ {f}
              /\ flip'.at = "put" /\ flip'.id = wanted[f].id /\ flip'.new = wanted[f]
    BY <1>0, <2>1, TurnBase
  <2>3. SetsWhole' /\ ~Between /\ ~Between'
    BY <1>0, <2>2 DEF SetsWhole, Between
  <2>4. CASE flip'.at = "withdraw"
    <3>1. /\ f \in toDrop /\ toDrop' = toDrop \ {f} /\ flip'.id = svc[f].id
          /\ svc[f].id # 0 /\ wanted[f].id = 0
      BY <1>0, <2>2, <2>4 DEF LbBase, PlanInv
    <3>2. GenInv'
      BY <2>4 DEF GenInv
    <3>3. IdsInv'
      BY <1>0, <2>2, <2>3, <2>4, <3>1 DEF IdsInv, Flipping
    <3> QED BY <2>2, <2>3, <3>2, <3>3 DEF WholeInv
  <2>5. CASE flip'.at = "put"
    <3>1. /\ toDrop = {} /\ toDrop' = {} /\ flip'.id = wanted[f].id
          /\ flip'.new = wanted[f] /\ f \in toProgram /\ wanted[f].id # 0
      BY <1>0, <2>2, <2>5 DEF LbBase, PlanInv
    <3>2. \A g \in Frontends : svc[g].id # 0 => wanted[g].id = svc[g].id
      BY <1>0, <2>2, <2>3, <3>1 DEF IdsInv, Flipping
    <3>3. \A g \in Frontends : g # f => svc[g].id # wanted[f].id
      BY <1>0, <3>1, <3>2 DEF IdsInv
    <3>4. IdsInv'
      BY <1>0, <2>2, <3>1, <3>2, <3>3 DEF IdsInv
    <3>5. flip'.new.set \in Seq(Nat) /\ flip'.old.id \in {0, flip'.id}
      BY <2>2, <3>1, <3>2 DEF Flip, Want
    <3>6. flip'.i \in 1..(Len(flip'.new.set) + 1) /\ 1..(flip'.i - 1) = {}
      BY <2>2, <3>5
    <3>7. GenInv'
      BY <2>5, <3>1, <3>5, <3>6 DEF GenInv
    <3> QED BY <2>2, <2>3, <3>4, <3>7 DEF WholeInv
  <2> QED BY <2>2, <2>4, <2>5
<1>3. CASE PutBackend \/ DeleteBackend
  BY <1>3, WholeBackend
<1>4. CASE CommitService \/ DeleteService
  BY <1>4, WholeFront
<1>5. CASE Caches \/ WriteFails \/ LbCrash
  <2>1. /\ LbBase' /\ flip' = NoFlip /\ UNCHANGED <<svc, backend, wanted>>
        /\ Caches => /\ flip # NoFlip /\ flip.at = "delete"
                     /\ UNCHANGED <<toDrop, toProgram>>
        /\ ~Caches => toDrop' = {} /\ toProgram' = {}
    BY <1>0, <1>5, EndBase
  <2>2. GenInv' /\ SetsWhole'
    BY <1>0, <2>1 DEF GenInv, SetsWhole
  <2>3. IdsInv'
    <3>1. CASE Caches
      <4>1. ~Between
        BY <2>1, <3>1 DEF Between
      <4> QED BY <1>0, <2>1, <3>1, <4>1 DEF IdsInv, Flipping
    <3>2. CASE ~Caches
      BY <1>0, <2>1, <3>2 DEF IdsInv, Between
    <3> QED BY <3>1, <3>2
  <2> QED BY <2>1, <2>2, <2>3 DEF WholeInv
<1>6. CASE UNCHANGED lbVars
  BY <1>0, <1>6
     DEF lbVars, WholeInv, LbBase, LbTypeOK, PlanInv, IdsInv, GenInv, SetsWhole, Flipping, Between
<1> QED BY <1>1, <1>2, <1>3, <1>4, <1>5, <1>6 DEF LbNext

\* A connect never meets a torn set, between any two map writes, after a failed
\* one and after a crash, as long as no address passes from one port name to
\* another (dpmap/select.go FlipPlan, lb.go SyncServices).
THEOREM SetsAreWhole ==
  ASSUME ~Renames
  PROVE  LbSpec => []SetsWhole
<1>1. LbInit => WholeInv
  BY LbInitBase DEF WholeInv
<1>2. WholeInv /\ [LbNext]_lbVars => WholeInv'
  BY WholeStep
<1>3. WholeInv => SetsWhole
  BY DEF WholeInv
<1> QED BY <1>1, <1>2, <1>3, PTL DEF LbSpec
=============================================================================
