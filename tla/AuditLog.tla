------------------------------ MODULE AuditLog ------------------------------
(***************************************************************************)
(* The audit trail (internal/audit audit.go): entries chained by hash,     *)
(* under keys that are the time and a random suffix, appended under a      *)
(* clock that may step back, pruned from the old end in batches, and       *)
(* continued after a restart from the newest entry.                        *)
(***************************************************************************)
EXTENDS Naturals, FiniteSets

CONSTANTS MaxTime,       \* bound: clock values
          RandomParts,      \* random suffixes, as numbers
          PruneBatch,    \* pruneBatch
          MaxEntries     \* bound: entries recorded

ASSUME AuditAssumption ==
  /\ MaxTime \in Nat \ {0} /\ PruneBatch \in Nat \ {0} /\ MaxEntries \in Nat
  /\ RandomParts \subseteq Nat

VARIABLES
  trail,     \* the bucket: key -> [prev, hash]
  head,      \* the hash of the last entry, in memory; 0 is none
  last,      \* its key
  recorded   \* entries so far; the next one's hash is its number

auditVars == <<trail, head, last, recorded>>

NoKey == <<0, 0>>
\* Keys sort as strings of one width: by time, then by suffix.
Upto2(k, l) == k[1] < l[1] \/ (k[1] = l[1] /\ k[2] <= l[2])
Before(k, l) == Upto2(k, l) /\ k # l
Newest(K) == CHOOSE k \in K : \A l \in K : Upto2(l, k)

AuditInit ==
  /\ trail = [k \in {} |-> [prev |-> 0, hash |-> 0]]
  /\ head = 0 /\ last = NoKey /\ recorded = 0

\* (a bug: the key is the clock's, also when the clock went back)
NextIDRaw(t, s) == <<t, s>>

\* nextID and idAfter: past the last key, whatever the clock says.
NextID(t, s) ==
  IF last # NoKey /\ Upto2(<<t, s>>, last) THEN <<last[1] + 1, s>> ELSE <<t, s>>

\* Record; an append the store refuses changes nothing.
AuditRecord(t, s) ==
  /\ recorded < MaxEntries /\ recorded' = recorded + 1
  /\ LET k == NextID(t, s) IN
       /\ trail' = [x \in DOMAIN trail \cup {k} |->
                      IF x = k THEN [prev |-> head, hash |-> recorded + 1]
                               ELSE trail[x]]
       /\ last' = k
  /\ head' = recorded + 1

\* One batch of Prune: the oldest keys, as far as they are before the time.
PruneOnce(t) ==
  LET old == {k \in DOMAIN trail : k[1] < t}
      oldest == {k \in old : Cardinality({l \in old : Before(l, k)}) < PruneBatch}
  IN  /\ old # {}
      /\ trail' = [k \in DOMAIN trail \ oldest |-> trail[k]]
      /\ UNCHANGED <<head, last, recorded>>

\* Open: the newest entry's.
Opened ==
  IF DOMAIN trail = {} THEN [key |-> NoKey, hash |-> 0]
  ELSE [key |-> Newest(DOMAIN trail), hash |-> trail[Newest(DOMAIN trail)].hash]

Reopen ==
  /\ head' = Opened.hash /\ last' = Opened.key
  /\ UNCHANGED <<trail, recorded>>

AuditNext ==
  \/ \E t \in 1..MaxTime, s \in RandomParts : AuditRecord(t, s)
  \/ \E t \in 1..MaxTime : PruneOnce(t)
  \/ Reopen

AuditSpec == AuditInit /\ [][AuditNext]_auditVars

\* What Verify finds in a trail nobody touched: every entry but the oldest
\* follows from the one before it in key order, also where the clock stepped
\* back, where the daemon restarted, and where a prune stopped half way
\* (audit.go Record, nextID, Open, Prune).
ChainUnbroken ==
  \A k \in DOMAIN trail :
    LET older == {l \in DOMAIN trail : Before(l, k)}
    IN  older # {} => trail[k].prev = trail[Newest(older)].hash
=============================================================================
