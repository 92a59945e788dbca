------------------------------ MODULE ChangeLog ------------------------------
(***************************************************************************)
(* The Store's change log (internal/store/bbolt.go) as operators on a      *)
(* value: one bbolt file is a record                                       *)
(*     index : the monotonic index, one per Apply                          *)
(*     data  : the records, a value per key                                *)
(*     log   : the CDC bucket, one entry per record a batch changed        *)
(*     past  : history, the data after each index                          *)
(* A batch is a function from the keys it names to their new value; Absent *)
(* is a delete.  Keys are naturals: a batch lists its mutations in key     *)
(* order, so a change's key also gives its place (seq) inside its index.   *)
(***************************************************************************)
EXTENDS Integers, FiniteSets

CONSTANT Keys

ASSUME KeysAssumption == Keys \subseteq Nat /\ IsFiniteSet(Keys)

Absent == 0

NoData == [k \in Keys |-> Absent]

EmptyStore == [index |-> 0, data |-> NoData, log |-> {}, past |-> [i \in {0} |-> NoData]]

Change == [index : Nat, key : Keys, val : Nat]

\* The mutations of a batch that write a change: a delete of what is not
\* there is skipped.
Effective(s, batch) == {k \in DOMAIN batch : batch[k] # Absent \/ s.data[k] # Absent}

Updated(s, batch) == [k \in Keys |-> IF k \in DOMAIN batch THEN batch[k] ELSE s.data[k]]

\* Apply: one transaction, one index for the whole batch.  The index moves
\* even when no mutation was effective.
Apply(s, batch) ==
    [index |-> s.index + 1,
     data  |-> Updated(s, batch),
     log   |-> s.log \cup {[index |-> s.index + 1, key |-> k, val |-> batch[k]] :
                               k \in Effective(s, batch)},
     past  |-> [i \in 0..(s.index + 1) |->
                   IF i = s.index + 1 THEN Updated(s, batch) ELSE s.past[i]]]

\* The order of the log's keys, index || seq.
Before(c, d) == c.index < d.index \/ (c.index = d.index /\ c.key < d.key)

\* Everything logged above an index.
Pending(s, since) == {c \in s.log : c.index > since}

\* Changes: the first "limit" entries above "since".
Changes(s, since, limit) ==
    LET pending == Pending(s, since)
    IN  {c \in pending : Cardinality({d \in pending : Before(d, c)}) < limit}

\* PruneChanges: the log without what is at or below "upto".
PruneChanges(s, upto) == [s EXCEPT !.log = Pending(s, upto)]
=============================================================================
