----------------------------- MODULE RateLimiter -----------------------------
(***************************************************************************)
(* The bounded token buckets (internal/ratelimit ratelimit.go).  Time is   *)
(* in ticks and tokens are in parts, Parts to a request, so that a tick's  *)
(* refill is a whole number.                                               *)
(***************************************************************************)
EXTENDS Naturals, Sequences, SequencesExt

CONSTANTS Subjects,      \* keys
          Limits,        \* the limits routes may have: [requests, window, burst]
          Buckets,       \* capacity of the limiter
          IdleFactor,    \* idleFactor
          Parts,         \* token parts to a request
          MaxIdle        \* bound: idle time that is told apart

ASSUME RateAssumption ==
  /\ Buckets \in Nat \ {0} /\ Parts \in Nat \ {0}
  /\ IdleFactor \in Nat /\ MaxIdle \in Nat
  /\ \A l \in Limits : /\ l.requests \in Nat \ {0} /\ l.window \in Nat \ {0}
                       /\ l.burst \in Nat
                       /\ (l.requests * Parts) % l.window = 0

VARIABLES
  order,   \* the buckets, most recently used first: [key, limit, tokens, idle]
  due,     \* subject -> what it may still spend, had no bucket been dropped
  limitOf  \* subject -> the limit its route has now

rateVars == <<order, due, limitOf>>

Rate(l) == (l.requests * Parts) \div l.window
Capacity(l) == (l.requests + l.burst) * Parts
Lesser(a, b) == IF a < b THEN a ELSE b

RateInit ==
  /\ order = <<>>
  /\ limitOf \in [Subjects -> Limits]
  /\ due = [s \in Subjects |-> Capacity(limitOf[s])]

Held(s) == {i \in DOMAIN order : order[i].key = s}
Place(s) == CHOOSE i \in Held(s) : TRUE
NewBucket(s) == [key |-> s, limit |-> limitOf[s],
                 tokens |-> Capacity(limitOf[s]), idle |-> 0]

\* bucketFor: a limit that changed starts over.
BucketFor(s) ==
  IF Held(s) = {} THEN NewBucket(s)
  ELSE LET b == order[Place(s)]
       IN  IF b.limit = limitOf[s] THEN b ELSE NewBucket(s)

Refill(b) ==
  [b EXCEPT !.tokens = Lesser(Capacity(b.limit), @ + b.idle * Rate(b.limit)),
            !.idle = 0]

\* A bucket that is there moves to the front; for a new one evictIfFull makes
\* room, from the back.
Room(s) == IF Held(s) # {} THEN RemoveAt(order, Place(s))
           ELSE SubSeq(order, 1, Lesser(Len(order), Buckets - 1))
Evicted(s) == {order[i].key : i \in DOMAIN order}
                \ ({b.key : b \in ToSet(Room(s))} \cup {s})

\* Allow.  An evicted subject starts full: the limiter says so.
Allow(s) ==
  LET b == Refill(BucketFor(s))
      ok == b.tokens >= Parts
      held == due[s]
  IN  /\ order' = <<IF ok THEN [b EXCEPT !.tokens = @ - Parts] ELSE b>> \o Room(s)
      /\ due' = [x \in Subjects |->
                   IF x \in Evicted(s) THEN Capacity(limitOf[x])
                   ELSE IF x = s /\ ok
                     THEN IF held < Parts THEN 0 - 1 ELSE held - Parts
                     ELSE due[x]]
      /\ UNCHANGED limitOf

\* (a bug: one idle window is taken for a full bucket)
StaleSoon(b) == b.idle >= b.limit.window

\* Idle for idleFactor windows.
Stale(b) == b.idle >= IdleFactor * b.limit.window

\* Sweep: from the back, to the first that was used lately.
SweepIdle ==
  /\ LET live == {i \in DOMAIN order : ~Stale(order[i])}
         upto == IF live = {} THEN 0
                 ELSE CHOOSE i \in live : \A j \in live : j <= i
     IN  order' = SubSeq(order, 1, upto)
  /\ UNCHANGED <<due, limitOf>>

Ticks ==
  /\ order' = [i \in DOMAIN order |->
                 [order[i] EXCEPT !.idle = Lesser(MaxIdle, @ + 1)]]
  /\ due' = [s \in Subjects |->
               Lesser(Capacity(limitOf[s]), due[s] + Rate(limitOf[s]))]
  /\ UNCHANGED limitOf

\* A route is reloaded with another limit; its count starts over.
Relimit(s, l) ==
  /\ l # limitOf[s]
  /\ limitOf' = [limitOf EXCEPT ![s] = l]
  /\ due' = [due EXCEPT ![s] = Capacity(l)]
  /\ UNCHANGED order

RateNext ==
  \/ \E s \in Subjects : Allow(s) \/ \E l \in Limits : Relimit(s, l)
  \/ SweepIdle \/ Ticks

RateSpec == RateInit /\ [][RateNext]_rateVars

\* A subject never gets more than its limit: what is admitted is what its own
\* bucket would have admitted, never dropped, through sweeps and reloads; only
\* an eviction for room gives more, as the limiter says (ratelimit.go Allow,
\* Sweep).
NoFreeTokens == \A s \in Subjects : due[s] \in Nat
=============================================================================
