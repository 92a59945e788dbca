------------------------------- MODULE Breaker -------------------------------
(***************************************************************************)
(* The global circuit breaker of the reconciler                            *)
(* (internal/reconciler/breaker.go) together with the record that makes an *)
(* open breaker survive a restart of the daemon                            *)
(* (cmd/kanea/breaker_state.go).                                           *)
(*                                                                         *)
(* Two callers touch the breaker: the reconcile goroutine, which records a *)
(* failure per crashed alloc, and an operator's reset.  Both release the   *)
(* mutex before they call Persist, so their writes to the Store may land   *)
(* in either order, may fail, and may be lost to a crash.                  *)
(*                                                                         *)
(* Time is a natural number that starts at 1; 0 stands for time.Time{}.    *)
(***************************************************************************)
EXTENDS Integers, FiniteSets

CONSTANTS
    Threshold,    \* failures inside the window that trip the breaker
    Window,       \* how long a failure counts
    Cooldown,     \* how long a tripped breaker refuses
    MaxInstant,   \* bound: the last instant of a run
    MaxFailures   \* bound: failures recorded in a run

\* NewBreaker replaces non-positive settings by defaults.  That the cooldown
\* outlives the window is true of the defaults and of the daemon's wiring; the
\* comment in Restore relies on it.
ASSUME BreakerAssumption ==
    /\ Threshold \in Nat \ {0}
    /\ Window \in Nat \ {0}
    /\ Cooldown \in Nat \ {0}
    /\ Cooldown > Window
    /\ MaxInstant \in Nat \ {0}
    /\ MaxFailures \in Nat

VARIABLES
    now,        \* the clock
    up,         \* is the daemon running?
    failures,   \* Breaker.failures: records [n, at, spent]
    trippedAt,  \* Breaker.trippedAt
    trips,      \* Breaker.trips
    persisting, \* per caller, the record its Persist call is about to write
    record,     \* the Store's kv record reconciler/breaker
    serial,     \* identity of the next failure (several may share an instant)
    wasReset    \* history: the operator reset it since the last trip

breakerVars == <<now, up, failures, trippedAt, trips, persisting, record, serial, wasReset>>

Callers == {"reconciler", "operator"}

BreakerRecord == [trippedAt : Nat, trips : Nat, failures : Nat]

\* persisting[c] holds at most one record; empty: c is not inside Persist.
NoWrite == {}

\* n tells failures apart (restored ones are numbered below zero); "spent" is
\* history: the failure was counted by a trip already.
Failure == [n : Int, at : Nat, spent : BOOLEAN]

-----------------------------------------------------------------------------
\* openAt: a trip refuses for Cooldown.
OpenAt(t) == trippedAt # 0 /\ t - trippedAt < Cooldown

\* openAt's side effect: an expired trip is cleared when somebody looks.
LazyClose(t) == IF OpenAt(t) THEN trippedAt ELSE 0

\* (a bug: failures are never forgotten)
PruneNothing(fs, t) == fs

\* prune: what is not older than the window is kept.
Prune(fs, t) == {f \in fs : f.at >= t - Window}

\* A closed breaker that has recorded nothing (NewBreaker), and no record.
BreakerInit ==
    /\ now = 1
    /\ up = TRUE
    /\ failures = {}
    /\ trippedAt = 0
    /\ trips = 0
    /\ persisting = [c \in Callers |-> NoWrite]
    /\ record = [trippedAt |-> 0, trips |-> 0, failures |-> 0]
    /\ serial = 1
    /\ wasReset = FALSE

\* RecordFailure: append, prune, and trip when the window is full and the
\* breaker is not open already.  The short circuit matters: openAt, which
\* clears an expired trip, only runs when the window is full.
RecordFailure ==
    LET kept == Prune(failures \cup {[n |-> serial, at |-> now, spent |-> FALSE]}, now)
        full == Cardinality(kept) >= Threshold
    IN
    /\ up
    /\ persisting["reconciler"] = NoWrite
    /\ serial <= MaxFailures
    /\ serial' = serial + 1
    /\ \/ /\ ~full
          /\ failures' = kept
          /\ UNCHANGED <<trippedAt, trips, persisting, wasReset>>
       \/ /\ full
          /\ OpenAt(now)
          /\ failures' = kept
          /\ UNCHANGED <<trippedAt, trips, persisting, wasReset>>
       \/ /\ full
          /\ ~OpenAt(now)
          /\ failures' = {[f EXCEPT !.spent = TRUE] : f \in kept}
          /\ trippedAt' = now
          /\ trips' = trips + 1
          /\ wasReset' = FALSE
          /\ persisting' = [persisting EXCEPT !["reconciler"] =
                 {[trippedAt |-> now, trips |-> trips + 1, failures |-> Cardinality(kept)]}]
    /\ UNCHANGED <<now, up, record>>

\* Allow / Open: asked by the autoscaler and the exporter; they too close an
\* expired trip.
Allow ==
    /\ up
    /\ trippedAt # 0
    /\ trippedAt' = LazyClose(now)
    /\ UNCHANGED <<now, up, failures, trips, persisting, record, serial, wasReset>>

\* Reset: closed at once, with the trip count kept.
Reset ==
    /\ up
    /\ persisting["operator"] = NoWrite
    /\ trippedAt' = 0
    /\ failures' = {}
    /\ persisting' = [persisting EXCEPT !["operator"] =
           {[trippedAt |-> 0, trips |-> trips, failures |-> 0]}]
    /\ wasReset' = TRUE
    /\ UNCHANGED <<now, up, trips, record, serial>>

\* persistBreaker: the write lands, or fails and is only logged.
Persist(c) ==
    /\ up
    /\ persisting[c] # NoWrite
    /\ \/ record' \in persisting[c]
       \/ UNCHANGED record
    /\ persisting' = [persisting EXCEPT ![c] = NoWrite]
    /\ UNCHANGED <<now, up, failures, trippedAt, trips, serial, wasReset>>

\* The daemon dies: memory and every write under way are gone.
Crash ==
    /\ up
    /\ up' = FALSE
    /\ failures' = {}
    /\ trippedAt' = 0
    /\ trips' = 0
    /\ persisting' = [c \in Callers |-> NoWrite]
    /\ UNCHANGED <<now, record, serial, wasReset>>

\* (a bug: the breaker comes back closed)
RestartClosed ==
    /\ ~up
    /\ up' = TRUE
    /\ trips' = record.trips
    /\ UNCHANGED <<now, failures, trippedAt, persisting, record, serial, wasReset>>

\* restoreBreaker and Breaker.Restore: the trip count always carries over, the
\* open state only while its cooldown has time left; the failures that tripped
\* it come back stamped with the time of the trip.
Restart ==
    /\ ~up
    /\ up' = TRUE
    /\ trips' = record.trips
    /\ \/ /\ record.trippedAt # 0
          /\ now - record.trippedAt < Cooldown
          /\ trippedAt' = record.trippedAt
          /\ failures' = {[n |-> -i, at |-> record.trippedAt, spent |-> TRUE] :
                             i \in 1 .. record.failures}
       \/ /\ record.trippedAt = 0 \/ now - record.trippedAt >= Cooldown
          /\ UNCHANGED <<trippedAt, failures>>
    /\ UNCHANGED <<now, persisting, record, serial, wasReset>>

Tick ==
    /\ now < MaxInstant
    /\ now' = now + 1
    /\ UNCHANGED <<up, failures, trippedAt, trips, persisting, record, serial, wasReset>>

BreakerNext ==
    \/ RecordFailure
    \/ Allow
    \/ Reset
    \/ \E c \in Callers : Persist(c)
    \/ Crash
    \/ Restart
    \/ Tick

BreakerSpec == BreakerInit /\ [][BreakerNext]_breakerVars

-----------------------------------------------------------------------------
\* Counters, times and the records of the breaker are well formed; in
\* particular the time of a trip is never negative (openAt, Restore).
TypeOK ==
    /\ now \in Nat \ {0}
    /\ up \in BOOLEAN
    /\ failures \subseteq Failure
    /\ trippedAt \in Nat
    /\ trips \in Nat
    /\ persisting \in [Callers -> SUBSET BreakerRecord]
    /\ record \in BreakerRecord
    /\ serial \in Nat \ {0}
    /\ wasReset \in BOOLEAN

\* No failure is counted towards two trips, across restarts too: what Restore's
\* comment claims of the failures it brings back ("they can never contribute to
\* a second trip").
NoDoubleCount ==
    [][trippedAt' = now /\ trips' > trips /\ up =>
          \A f \in Prune(failures, now) : ~f.spent]_breakerVars

\* A trip that reached the Store, and that no operator has reset, refuses for
\* its whole cooldown, whatever crashes and restarts come in between: the point
\* of persisting the transitions (v1.37).
OpenSurvivesRestart ==
    up /\ ~wasReset /\ record.trippedAt # 0 /\ now - record.trippedAt < Cooldown
        => OpenAt(now)

\* The comment on Breaker.failures: "Bounded by the threshold it is compared
\* against, not by how bad things get."
FailuresBoundedByThreshold == Cardinality(failures) <= Threshold
=============================================================================
