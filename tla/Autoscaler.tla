------------------------------ MODULE Autoscaler ------------------------------
(***************************************************************************)
(* The autoscaling loop on one service (internal/scaling/loop.go,          *)
(* evaluator.go) and the desired state it moves (cmd/kanea/scaling.go).    *)
(*                                                                         *)
(* A pass lists the services and evaluates; a decision is then carried out *)
(* by SetCount, which reads the record again and writes the count with the *)
(* index of that second read.  The evaluator's memory is lost with the     *)
(* daemon; the time of the last change rides in the Store with the count.  *)
(*                                                                         *)
(* A metric is its value in percent of the rule's target; the largest rule *)
(* decides, so one value stands for all of them.                           *)
(***************************************************************************)
EXTENDS ServiceRecord

CONSTANTS
    Ratios,      \* metric values, in percent of the target
    Tolerance,   \* the dead band, in percent
    Stabilize,   \* the scale-down window
    ScaleCooldown,    \* the time between two changes
    MaxRestarts  \* bound: restarts of the daemon in a run

ASSUME ScalerAssumption ==
    /\ Ratios \subseteq Nat /\ Tolerance \in Nat
    /\ Stabilize \in Nat \ {0} /\ ScaleCooldown \in Nat \ {0}
    /\ MaxRestarts \in Nat

VARIABLES
    mem,      \* the evaluator's serviceState: [tracked, since, last, hist]
    pass,     \* the pass under way: [pc, want, from, fresh]
    cool,     \* the Store's cooldown record, 0 when there is none
    restarts,
    seen,     \* history: what every evaluation wanted, of this daemon and its predecessors
    scaledAt  \* history: when the autoscaler last changed this service

scalerVars == <<mem, pass, cool, restarts, seen, scaledAt>>

Untracked == [tracked |-> FALSE, since |-> 0, last |-> 0, hist |-> {}]
NoPass == [pc |-> "idle", want |-> 0, from |-> 0, fresh |-> FALSE]
NoData == -1

ScalerInit ==
    /\ mem = Untracked
    /\ pass = NoPass
    /\ cool = 0
    /\ restarts = 0
    /\ seen = {}
    /\ scaledAt = 0

-----------------------------------------------------------------------------
Larger(a, b) == IF a >= b THEN a ELSE b
Smaller(a, b) == IF a <= b THEN a ELSE b

Clamp(n, low, high) == Larger(low, Smaller(n, high))

CeilDiv(a, b) == (a + b - 1) \div b

\* rawDesired: what the rules ask for, from nothing too.
RawDesired(current, ratio) ==
    LET r == IF ratio >= 100 - Tolerance /\ ratio <= 100 + Tolerance THEN 100 ELSE ratio
    IN  IF current = 0 THEN (IF r > 100 THEN 1 ELSE 0)
        ELSE CeilDiv(current * r, 100)

\* One step at most doubles, and at most halves.
CapStepUp(current, n) == Smaller(n, IF current = 0 THEN 1 ELSE 2 * current)
CapStepDown(current, n) == Larger(n, current \div 2)

\* stateFor: a service is tracked from the first evaluation that has data.
StateFor(m) == IF m.tracked THEN m ELSE [Untracked EXCEPT !.tracked = TRUE, !.since = clock]

\* record: append, and drop what the window no longer needs.
Record(m, raw) ==
    [m EXCEPT !.hist = {h \in @ : h.at >= clock - Stabilize} \cup {[at |-> clock, count |-> raw]}]

\* maxDesired: the highest count the window holds.
MaxDesired(m) ==
    LET counts == {h.count : h \in {x \in m.hist : x.at >= clock - Stabilize}}
    IN  CHOOSE n \in counts \cup {0} : \A c \in counts : c <= n

\* (a bug: a window is trusted before it was watched)
WindowedUnwatched(m, current, n) ==
    LET highest == Clamp(MaxDesired(m), MinCount, MaxCount)
    IN  IF highest >= current THEN current
        ELSE CapStepDown(current, Larger(n, highest))

\* Evaluate's scale-down half: hold until a whole window was watched, then
\* shrink no further than the highest count in it.
Windowed(m, current, n) ==
    LET highest == Clamp(MaxDesired(m), MinCount, MaxCount)
    IN  IF clock - m.since < Stabilize \/ highest >= current THEN current
        ELSE CapStepDown(current, Larger(n, highest))

\* Evaluate: the count a service should have, before the cooldown.
Desired(m, current, raw) ==
    LET n == Clamp(raw, MinCount, MaxCount)
    IN  IF n > current THEN CapStepUp(current, n)
        ELSE IF n < current THEN Windowed(m, current, n)
        ELSE current

\* History: the evaluations of the last window.
Recent == {o \in seen : o.at > clock - Stabilize}

Cooling(m) == m.last # 0 /\ clock - m.last < ScaleCooldown

\* One pass over a service with a policy: evaluate, ask the breaker, decide.
\* The loop's interval is the unit of time, so an instant has one pass.
\* No data: nothing is decided and nothing is remembered.
Evaluate ==
    /\ pass = NoPass /\ svc.on
    /\ \A o \in seen : o.at < clock
    /\ \/ /\ seen' = Recent \cup {[at |-> clock, raw |-> NoData]}
          /\ UNCHANGED <<mem, pass>>
       \/ \E ratio \in Ratios :
             LET raw == RawDesired(svc.count, ratio)
                 m   == Record(StateFor(mem), raw)
                 n   == Desired(m, svc.count, raw)
             IN  /\ mem' = m
                 /\ seen' = Recent \cup {[at |-> clock, raw |-> raw]}
                 /\ \/ UNCHANGED pass   \* no change, too soon, or the breaker is open
                    \/ /\ n # svc.count /\ ~Cooling(m)
                       /\ pass' = [pc |-> "decided", want |-> n, from |-> svc.count, fresh |-> TRUE]
    /\ UNCHANGED <<svcVars, cool, restarts, scaledAt>>

\* Once's last loop: a service that is gone takes its state with it.
Forget ==
    /\ pass = NoPass /\ ~svc.on /\ mem.tracked
    /\ mem' = Untracked
    /\ UNCHANGED <<svcVars, pass, cool, restarts, seen, scaledAt>>

\* SetCount reads the record again, and keeps all of it but the count.
SetCountRead ==
    /\ pass.pc = "decided"
    /\ \/ /\ svc.on
          /\ Sends("scaler", [svc EXCEPT !.count = pass.want])
          /\ pass' = [pass EXCEPT !.pc = "writing"]
       \/ /\ ~svc.on
          /\ pass' = NoPass
          /\ UNCHANGED request
    /\ UNCHANGED <<svc, remote, clock, edits, moves, writer>>
    /\ UNCHANGED <<mem, cool, restarts, seen, scaledAt>>

\* (a bug: the cooldown is only remembered by the daemon)
SetCountForgets ==
    /\ pass.pc = "writing"
    /\ pass' = NoPass
    /\ \/ /\ Landed("scaler")
          /\ mem' = [StateFor(mem) EXCEPT !.last = clock]
          /\ scaledAt' = clock
       \/ /\ Refused("scaler")
          /\ UNCHANGED <<mem, scaledAt>>
    /\ UNCHANGED <<remote, clock, edits, moves, restarts, seen, cool>>

\* The count and the cooldown record are one batch; Applied then starts the
\* cooldown in memory.  A conflict starts nothing: the next pass retries.
SetCountWrite ==
    /\ pass.pc = "writing"
    /\ pass' = NoPass
    /\ \/ /\ Landed("scaler")
          /\ cool' = clock
          /\ mem' = [StateFor(mem) EXCEPT !.last = clock]
          /\ scaledAt' = clock
       \/ /\ Refused("scaler")
          /\ UNCHANGED <<mem, cool, scaledAt>>
    /\ UNCHANGED <<remote, clock, edits, moves, restarts, seen>>

\* The daemon restarts: seedCooldowns replays the record of a service that
\* exists through Applied, and reaps the record of one that does not.
ScalerRestarts ==
    /\ restarts < MaxRestarts /\ restarts' = restarts + 1
    /\ Dies
    /\ pass' = NoPass
    /\ mem' = IF svc.on /\ cool # 0 THEN [StateFor(Untracked) EXCEPT !.last = cool] ELSE Untracked
    /\ cool' = IF svc.on THEN cool ELSE 0
    /\ UNCHANGED <<seen, scaledAt>>

ScalerNext ==
    \/ Evaluate
    \/ Forget
    \/ SetCountRead
    \/ SetCountWrite

\* What a step of somebody else does to the loop: a write of the record makes
\* the list a pass works from old.
ScalerWatches ==
    /\ pass' = [pass EXCEPT !.fresh = @ /\ svc' = svc]
    /\ scaledAt' = IF svc'.on THEN scaledAt ELSE 0
    /\ UNCHANGED <<mem, cool, restarts, seen>>

-----------------------------------------------------------------------------
\* Two changes of one service by the autoscaler are a cooldown apart, across
\* restarts of the daemon: "a daemon restarted mid-cooldown no longer forgets
\* it and re-scales a service the running daemon would have held".
CooldownHolds ==
    [][(pass.pc = "writing" /\ svc' # svc /\ writer' = "scaler" /\ scaledAt # 0)
          => clock - scaledAt >= ScaleCooldown]_<<svcVars, scalerVars>>

\* No shrink is decided while an evaluation of the last window, of this daemon
\* or of the one before it, wanted at least the current count: one quiet minute
\* inside a busy five does not shed capacity, and a restart does not either.
ShrinkWatched ==
    [][(pass.pc = "idle" /\ pass'.pc = "decided" /\ pass'.want < pass'.from)
          => \A o \in seen : o.at > clock - Stabilize
                                 => Clamp(o.raw, MinCount, MaxCount) < pass'.from]_<<svcVars, scalerVars>>

\* The comment on serviceState.since: "A shrink is refused until a full
\* stabilization window has been *observed*": no evaluation in the window was
\* without data.
ShrinkObserved ==
    [][(pass.pc = "idle" /\ pass'.pc = "decided" /\ pass'.want < pass'.from)
          => \A o \in seen : o.at > clock - Stabilize => o.raw # NoData]_<<svcVars, scalerVars>>

\* The comment in SetCount: an operator editing the service "must not have
\* their change silently overwritten by a scale decision made against the
\* version before it": a count lands only on the version the pass listed.
DecisionNotStale ==
    [][(pass.pc = "writing" /\ svc' # svc /\ writer' = "scaler") => pass.fresh]_<<svcVars, scalerVars>>
=============================================================================
