---------------------------- MODULE BreakerProofs ----------------------------
(***************************************************************************)
(* Proofs about the circuit breaker, for every threshold, window and       *)
(* cooldown (with the cooldown longer than the window), any number of      *)
(* failures, resets, crashes and restarts.                                 *)
(***************************************************************************)
EXTENDS Breaker, FiniteSetTheorems, TLAPS

\* The failures are finitely many: their number goes into the record.
FiniteFailures == IsFiniteSet(failures)

\* No time in memory or in the Store lies in the future.
ClockInv ==
    /\ trippedAt <= now
    /\ record.trippedAt <= now
    /\ \A c \in Callers : \A r \in persisting[c] : r.trippedAt <= now
    /\ \A f \in failures : f.at <= now

\* A failure already counted belongs to the trip in force, or to one whose
\* cooldown has run out.
SpentInv ==
    \A f \in failures : f.spent =>
        \/ trippedAt # 0 /\ f.at <= trippedAt
        \/ now - f.at >= Cooldown

\* A time of trip t that still has cooldown left is covered by the trip in
\* force, which may be a later one.
Covered(t) == t # 0 /\ now - t < Cooldown => trippedAt >= t

\* What is written, or about to be, is covered unless the operator reset the
\* breaker; a dead daemon writes nothing.
WriteInv ==
    /\ up /\ ~wasReset => /\ Covered(record.trippedAt)
                          /\ \A r \in persisting["reconciler"] : Covered(r.trippedAt)
    /\ \A r \in persisting["operator"] : r.trippedAt = 0
    /\ ~up => \A c \in Callers : persisting[c] = NoWrite

\* The inductive invariant.
BreakerInv ==
    /\ TypeOK
    /\ FiniteFailures
    /\ ClockInv
    /\ SpentInv
    /\ WriteInv

-----------------------------------------------------------------------------
\* Pruning only removes failures.
LEMMA PruneSubset ==
    ASSUME NEW fs, NEW t
    PROVE  Prune(fs, t) \subseteq fs
  BY DEF Prune

\* The image of a finite set under a function is finite.
LEMMA FiniteImage ==
    ASSUME NEW S, IsFiniteSet(S), NEW T, NEW g \in [S -> T],
           \A t \in T : \E s \in S : g[s] = t
    PROVE  IsFiniteSet(T)
<1>1. g \in Surjection(S, T)
  BY DEF Surjection
<1> QED
  BY <1>1, FS_Surjection

\* Marking the failures of a finite set leaves it finite.
LEMMA FiniteSpent ==
    ASSUME NEW S, IsFiniteSet(S)
    PROVE  IsFiniteSet({[f EXCEPT !.spent = TRUE] : f \in S})
<1> DEFINE T == {[f EXCEPT !.spent = TRUE] : f \in S}
           g == [f \in S |-> [f EXCEPT !.spent = TRUE]]
<1>1. g \in [S -> T] /\ \A t \in T : \E f \in S : g[f] = t
  BY Zenon
<1> HIDE DEF g, T
<1>2. IsFiniteSet(T)
  BY <1>1, FiniteImage, Zenon
<1> QED
  BY <1>2 DEF T

\* The failures kept by a recorded failure are finite and well typed.
LEMMA KeptFacts ==
    ASSUME TypeOK, FiniteFailures,
           NEW kept,
           kept = Prune(failures \cup {[n |-> serial, at |-> now, spent |-> FALSE]}, now)
    PROVE  /\ kept \subseteq Failure
           /\ IsFiniteSet(kept)
           /\ Cardinality(kept) \in Nat
<1> DEFINE new == [n |-> serial, at |-> now, spent |-> FALSE]
<1>1. new \in Failure
  BY DEF TypeOK, Failure
<1>2. kept \subseteq failures \cup {new}
  BY PruneSubset
<1>3. IsFiniteSet(failures \cup {new})
  BY FS_AddElement DEF FiniteFailures
<1>4. IsFiniteSet(kept)
  BY <1>2, <1>3, FS_Subset
<1>5. Cardinality(kept) \in Nat
  BY <1>4, FS_CardinalityType
<1>6. kept \subseteq Failure
  BY <1>1, <1>2 DEF TypeOK
<1> QED
  BY <1>4, <1>5, <1>6

\* The invariant holds of a new breaker.
LEMMA InitBreakerInv == BreakerInit => BreakerInv
<1> SUFFICES ASSUME BreakerInit PROVE BreakerInv
  OBVIOUS
<1>1. TypeOK
  <2>1. record \in BreakerRecord
    BY DEF BreakerInit, BreakerRecord
  <2>2. persisting \in [Callers -> SUBSET BreakerRecord]
    BY DEF BreakerInit, NoWrite
  <2>3. now \in Nat \ {0} /\ trippedAt \in Nat /\ trips \in Nat /\ serial \in Nat \ {0}
    BY DEF BreakerInit
  <2> QED
    BY <2>1, <2>2, <2>3 DEF BreakerInit, TypeOK
<1>2. FiniteFailures
  BY FS_EmptySet DEF BreakerInit, FiniteFailures
<1>3. ClockInv /\ SpentInv /\ WriteInv
  BY DEF BreakerInit, ClockInv, SpentInv, WriteInv, Covered, NoWrite, Callers
<1> QED
  BY <1>1, <1>2, <1>3 DEF BreakerInv

\* Recording a failure without tripping.
LEMMA RecordQuietInv ==
    ASSUME BreakerInv, RecordFailure, UNCHANGED <<trippedAt, trips, persisting, wasReset>>,
           failures' = Prune(failures \cup {[n |-> serial, at |-> now, spent |-> FALSE]}, now)
    PROVE  BreakerInv'
<1> DEFINE kept == Prune(failures \cup {[n |-> serial, at |-> now, spent |-> FALSE]}, now)
<1> USE BreakerAssumption DEF BreakerInv
<1>0. /\ kept \subseteq Failure
      /\ IsFiniteSet(kept)
  BY KeptFacts
<1>1. TypeOK'
  <2>1. serial' \in Nat \ {0}
    BY DEF TypeOK, RecordFailure
  <2> QED
    BY <1>0, <2>1 DEF TypeOK, RecordFailure
<1>2. FiniteFailures'
  BY <1>0 DEF FiniteFailures
<1>3. \A f \in kept : f \in failures \/ (f.at = now /\ f.spent = FALSE)
  BY PruneSubset
<1>4. ClockInv'
  <2>0. now \in Nat /\ \A f \in failures : f.at <= now
    BY DEF ClockInv, TypeOK
  <2>3. failures' = kept
    OBVIOUS
  <2> HIDE DEF kept
  <2>1. \A f \in kept : f.at <= now
    BY <1>3, <2>0
  <2>2. now' = now /\ record' = record
    BY DEF RecordFailure
  <2> QED
    BY <2>1, <2>2, <2>3 DEF ClockInv
<1>5. SpentInv'
  BY <1>3 DEF SpentInv, RecordFailure
<1>6. WriteInv'
  BY DEF WriteInv, Covered, RecordFailure
<1> QED
  BY <1>1, <1>2, <1>4, <1>5, <1>6

\* The trip itself: every kept failure is spent from now on.
LEMMA TripInv ==
    ASSUME BreakerInv, RecordFailure, NEW kept,
           kept = Prune(failures \cup {[n |-> serial, at |-> now, spent |-> FALSE]}, now),
           failures' = {[f EXCEPT !.spent = TRUE] : f \in kept},
           trippedAt' = now, trips' = trips + 1, wasReset' = FALSE,
           persisting' = [persisting EXCEPT !["reconciler"] =
               {[trippedAt |-> now, trips |-> trips + 1, failures |-> Cardinality(kept)]}]
    PROVE  BreakerInv'
<1> USE BreakerAssumption DEF BreakerInv
<1> DEFINE rec == [trippedAt |-> now, trips |-> trips + 1, failures |-> Cardinality(kept)]
<1>0. /\ kept \subseteq Failure
      /\ IsFiniteSet(kept)
      /\ Cardinality(kept) \in Nat
  BY KeptFacts
<1>1. rec \in BreakerRecord
  <2>1. now \in Nat /\ trips + 1 \in Nat
    BY DEF TypeOK
  <2> QED
    BY <1>0, <2>1 DEF BreakerRecord
<1>2. failures' \subseteq Failure
  BY <1>0 DEF Failure
<1>3. TypeOK'
  <2>1. serial' \in Nat \ {0} /\ trips' \in Nat /\ trippedAt' \in Nat
    BY DEF TypeOK, RecordFailure
  <2>2. persisting' \in [Callers -> SUBSET BreakerRecord]
    BY <1>1 DEF TypeOK
  <2> QED
    BY <1>2, <2>1, <2>2 DEF TypeOK, RecordFailure
<1>4. FiniteFailures'
  BY <1>0, FiniteSpent, Zenon DEF FiniteFailures
<1>5. \A f \in kept : f.at <= now
  BY PruneSubset DEF ClockInv, TypeOK
<1>6. \A g \in failures' : g.at <= now
  BY <1>0, <1>5 DEF Failure
<1>7. ClockInv'
  <2>1. \A c \in Callers : \A r \in persisting'[c] : r.trippedAt <= now
    <3> SUFFICES ASSUME NEW c \in Callers, NEW r \in persisting'[c]
                 PROVE  r.trippedAt <= now
      OBVIOUS
    <3>1. CASE c = "reconciler"
      BY <3>1 DEF TypeOK
    <3>2. CASE c # "reconciler"
      BY <3>2 DEF TypeOK, ClockInv
    <3> QED
      BY <3>1, <3>2
  <2>2. now' = now /\ trippedAt' <= now' /\ record'.trippedAt <= now'
    BY DEF ClockInv, RecordFailure, TypeOK
  <2> QED
    BY <1>6, <2>1, <2>2 DEF ClockInv
<1>8. SpentInv'
  BY <1>6 DEF SpentInv, RecordFailure, TypeOK
<1>9. WriteInv'
  BY DEF WriteInv, Covered, ClockInv, RecordFailure, TypeOK, Callers
<1> QED
  BY <1>3, <1>4, <1>7, <1>8, <1>9

\* Every step preserves the invariant.
LEMMA NextBreakerInv == BreakerInv /\ [BreakerNext]_breakerVars => BreakerInv'
<1> SUFFICES ASSUME BreakerInv, [BreakerNext]_breakerVars PROVE BreakerInv'
  OBVIOUS
<1> USE BreakerAssumption
<1>1. CASE RecordFailure
  BY <1>1, RecordQuietInv, TripInv DEF RecordFailure
<1>2. CASE Allow
  <2> USE <1>2 DEF BreakerInv, Allow, LazyClose
  <2>1. trippedAt' \in Nat
    BY DEF TypeOK
  <2>2. TypeOK'
    BY <2>1 DEF TypeOK
  <2>3. FiniteFailures'
    BY DEF FiniteFailures
  <2>4. ClockInv'
    BY DEF ClockInv, TypeOK
  <2>5. SpentInv'
    BY DEF SpentInv, OpenAt, TypeOK, Failure, ClockInv
  <2>6. WriteInv'
    BY DEF WriteInv, Covered, OpenAt, TypeOK, BreakerRecord, Callers
  <2> QED
    BY <2>2, <2>3, <2>4, <2>5, <2>6
<1>3. CASE Reset
  <2> USE <1>3 DEF BreakerInv, Reset
  <2> DEFINE rec == [trippedAt |-> 0, trips |-> trips, failures |-> 0]
  <2>1. rec \in BreakerRecord
    BY DEF TypeOK, BreakerRecord
  <2>2. persisting' \in [Callers -> SUBSET BreakerRecord]
    BY <2>1 DEF TypeOK
  <2>3. trippedAt' \in Nat /\ failures' \subseteq Failure
    OBVIOUS
  <2>4. TypeOK'
    BY <2>2, <2>3 DEF TypeOK
  <2>5. FiniteFailures'
    BY FS_EmptySet DEF FiniteFailures
  <2>6. \A c \in Callers : \A r \in persisting'[c] : r.trippedAt <= now
    <3> SUFFICES ASSUME NEW c \in Callers, NEW r \in persisting'[c]
                 PROVE  r.trippedAt <= now
      OBVIOUS
    <3>1. CASE c = "operator"
      BY <3>1 DEF TypeOK
    <3>2. CASE c # "operator"
      BY <3>2 DEF TypeOK, ClockInv
    <3> QED
      BY <3>1, <3>2
  <2>7. ClockInv'
    BY <2>6 DEF ClockInv, TypeOK
  <2>8. SpentInv'
    BY DEF SpentInv
  <2>9. WriteInv'
    BY DEF WriteInv, TypeOK, Callers
  <2> QED
    BY <2>4, <2>5, <2>7, <2>8, <2>9
<1>4. ASSUME NEW c \in Callers, Persist(c) PROVE BreakerInv'
  <2> USE <1>4 DEF BreakerInv, Persist
  <2>1. record' \in BreakerRecord /\ (record' = record \/ record' \in persisting[c])
    BY DEF TypeOK
  <2>2. persisting' \in [Callers -> SUBSET BreakerRecord]
    BY DEF TypeOK, NoWrite
  <2>3. TypeOK'
    BY <2>1, <2>2 DEF TypeOK
  <2>4. FiniteFailures' /\ SpentInv'
    BY DEF FiniteFailures, SpentInv
  <2>5. \A d \in Callers : persisting'[d] \subseteq persisting[d]
    BY DEF NoWrite, TypeOK
  <2>6. ClockInv'
    BY <2>1, <2>5 DEF ClockInv
  <2>7. WriteInv'
    BY <2>1, <2>5 DEF WriteInv, Covered, Callers
  <2> QED
    BY <2>3, <2>4, <2>6, <2>7
<1>5. CASE Crash
  <2> USE <1>5 DEF BreakerInv, Crash
  <2>1. trippedAt' \in Nat /\ trips' \in Nat /\ failures' \subseteq Failure
    OBVIOUS
  <2>2. persisting' \in [Callers -> SUBSET BreakerRecord]
    BY DEF NoWrite
  <2>3. TypeOK'
    BY <2>1, <2>2 DEF TypeOK
  <2>4. FiniteFailures'
    BY FS_EmptySet DEF FiniteFailures
  <2>5. ClockInv' /\ SpentInv' /\ WriteInv'
    BY DEF ClockInv, SpentInv, WriteInv, Covered, NoWrite, TypeOK, Callers
  <2> QED
    BY <2>3, <2>4, <2>5
<1>6. CASE Restart
  <2> USE <1>6 DEF BreakerInv
  <2>0. record \in BreakerRecord /\ record.failures \in Nat /\ record.trippedAt \in Nat
        /\ record.trips \in Nat
    BY DEF TypeOK, BreakerRecord
  <2> DEFINE back(i) == [n |-> -i, at |-> record.trippedAt, spent |-> TRUE]
             restored == {back(i) : i \in 1 .. record.failures}
  <2>1. IsFiniteSet(restored)
    <3> DEFINE g == [i \in 1 .. record.failures |-> back(i)]
    <3>1. IsFiniteSet(1 .. record.failures)
      <4>1. 1 \in Int /\ record.failures \in Int
        BY <2>0
      <4> QED
        BY <4>1, FS_Interval, Zenon
    <3>2. g \in [1 .. record.failures -> restored]
      BY Zenon
    <3>3. \A t \in restored : \E i \in 1 .. record.failures : g[i] = t
      BY Zenon
    <3> HIDE DEF g, restored
    <3> QED
      BY <3>1, <3>2, <3>3, FiniteImage, Zenon
  <2>2. restored \subseteq Failure
    <3> SUFFICES ASSUME NEW i \in 1 .. record.failures PROVE back(i) \in Failure
      OBVIOUS
    <3>1. -i \in Int
      BY <2>0
    <3> QED
      BY <2>0, <3>1 DEF Failure
  <2>3. failures' = failures \/ failures' = restored
    BY DEF Restart
  <2>4. trippedAt' \in Nat /\ trippedAt' <= now /\ trips' \in Nat
    BY <2>0 DEF Restart, TypeOK, ClockInv
  <2>5. TypeOK'
    BY <2>0, <2>2, <2>3, <2>4 DEF TypeOK, Restart
  <2>6. FiniteFailures'
    BY <2>1, <2>3 DEF FiniteFailures
  <2>7. ClockInv'
    BY <2>3, <2>4 DEF ClockInv, Restart
  <2>8. SpentInv'
    BY <2>0 DEF SpentInv, Restart, TypeOK
  <2>9. WriteInv'
    BY <2>0 DEF WriteInv, Covered, Restart, NoWrite, Callers, TypeOK
  <2> QED
    BY <2>5, <2>6, <2>7, <2>8, <2>9
<1>7. CASE Tick
  <2> USE <1>7 DEF BreakerInv, Tick
  <2>1. now' \in Nat \ {0}
    BY DEF TypeOK
  <2>2. TypeOK'
    BY <2>1 DEF TypeOK
  <2>3. FiniteFailures'
    BY DEF FiniteFailures
  <2>4. ClockInv'
    BY DEF ClockInv, TypeOK, BreakerRecord, Failure
  <2>5. SpentInv'
    BY DEF SpentInv, TypeOK, Failure
  <2>6. WriteInv'
    BY DEF WriteInv, Covered, TypeOK, BreakerRecord, Callers
  <2> QED
    BY <2>2, <2>3, <2>4, <2>5, <2>6
<1>8. CASE UNCHANGED breakerVars
  BY <1>8 DEF breakerVars, BreakerInv, TypeOK, FiniteFailures, ClockInv, SpentInv, WriteInv, Covered
<1> QED
  BY <1>1, <1>2, <1>3, <1>4, <1>5, <1>6, <1>7, <1>8 DEF BreakerNext

-----------------------------------------------------------------------------
\* The invariant holds throughout: the breaker stays well typed whatever
\* restarts, resets and failed writes do to it.
THEOREM BreakerInvariant == BreakerSpec => []BreakerInv
<1> QED
  BY InitBreakerInv, NextBreakerInv, PTL DEF BreakerSpec

\* Every value RecordFailure, Reset and Restore leave behind is well typed.
THEOREM BreakerTypeOK == BreakerSpec => []TypeOK
<1>1. BreakerInv => TypeOK
  BY DEF BreakerInv
<1> QED
  BY BreakerInvariant, <1>1, PTL

\* A trip that was written refuses for its whole cooldown, across restarts.
THEOREM TripSurvivesRestart == BreakerSpec => []OpenSurvivesRestart
<1>1. BreakerInv => OpenSurvivesRestart
  <2> SUFFICES ASSUME BreakerInv, up, ~wasReset, record.trippedAt # 0,
                      now - record.trippedAt < Cooldown
               PROVE  OpenAt(now)
    BY DEF OpenSurvivesRestart
  <2>1. trippedAt >= record.trippedAt
    BY DEF BreakerInv, WriteInv, Covered
  <2>2. now \in Nat /\ trippedAt \in Nat /\ record.trippedAt \in Nat
    BY DEF BreakerInv, TypeOK, BreakerRecord
  <2> QED
    BY <2>1, <2>2, BreakerAssumption DEF OpenAt
<1> QED
  BY BreakerInvariant, <1>1, PTL

\* No failure counts towards two trips, restored failures included, because the
\* cooldown outlives the window.
THEOREM TripsCountFreshFailures == BreakerSpec => NoDoubleCount
<1> DEFINE Fresh == trippedAt' = now /\ trips' > trips /\ up =>
                        \A f \in Prune(failures, now) : ~f.spent
<1>1. BreakerInv /\ [BreakerNext]_breakerVars => [Fresh]_breakerVars
  <2> SUFFICES ASSUME BreakerInv, BreakerNext, trips' > trips, up,
                      NEW f \in Prune(failures, now), f.spent
               PROVE  FALSE
    OBVIOUS
  <2> USE BreakerAssumption
  <2>0. trips \in Nat
    BY DEF BreakerInv, TypeOK
  <2>1. RecordFailure
    <3>1. ~Restart
      BY DEF Restart
    <3>2. Crash => trips' = 0
      BY DEF Crash
    <3>3. Allow \/ Reset \/ (\E c \in Callers : Persist(c)) \/ Tick => trips' = trips
      BY Zenon DEF Allow, Reset, Persist, Tick
    <3> QED
      BY <2>0, <3>1, <3>2, <3>3 DEF BreakerNext
  <2>2. ~OpenAt(now)
    BY <2>1 DEF RecordFailure, BreakerInv, TypeOK
  <2>3. f \in failures /\ f.at >= now - Window
    BY DEF Prune
  <2>4. f.at \in Nat
    BY <2>3 DEF BreakerInv, TypeOK, Failure
  <2> QED
    BY <2>2, <2>3, <2>4 DEF OpenAt, BreakerInv, SpentInv, TypeOK
<1> QED
  BY BreakerInvariant, <1>1, PTL DEF BreakerSpec, NoDoubleCount
=============================================================================
