----------------------------- MODULE Dispatcher -----------------------------
(***************************************************************************)
(* The notification dispatcher of internal/notify.  Publish puts an event  *)
(* in a bounded queue and never waits; one goroutine (Run) takes events,   *)
(* route reloads and clock ticks, files each event with every matching     *)
(* route, and sends each route's pending events as one digest, under a     *)
(* rate limit and with retries.  Everything slow happens in that one       *)
(* goroutine: while it sends, time passes and events keep arriving.        *)
(*                                                                         *)
(* Times are kept as what is left of them: due[r] is the time left until   *)
(* flushAt, recent[r] the time each recorded send stays in the rate        *)
(* window.  The code reads the clock once per pass and uses that reading   *)
(* after its sends; work.lag is how old the reading is.                    *)
(***************************************************************************)
EXTENDS Integers, Sequences, SequencesExt, FiniteSets

CONSTANTS
    Routes,        \* channels that may be configured
    RouteSets,     \* the sets of them an operator configures
    Scope,         \* [Routes -> Projects \cup {AnyProject}]
    Limit,         \* [Routes -> Int]: messages per minute, negative: none
    Projects, AnyProject,
    Kinds,         \* kinds of event that are published
    Filter,        \* [Routes -> SUBSET kinds]
    QueueDepth, MaxBatch, MaxAttempts,
    CoalesceWindow, Minute,   \* in ticks
    MaxEvents,     \* bound on published events
    MaxLag,        \* bound on the ticks one pass takes
    MaxReloads     \* bound on reconfigurations

\* The kind of the events a failed function invocation publishes.
FunctionKind == "function.invoke_failed"

ASSUME DispatcherAssumption ==
    /\ RouteSets \subseteq SUBSET Routes
    /\ Scope \in [Routes -> Projects \cup {AnyProject}]
    /\ Limit \in [Routes -> Int] /\ \A r \in Routes : Limit[r] # 0
    /\ Filter \in [Routes -> SUBSET (Kinds \cup {FunctionKind})]
    /\ {QueueDepth, MaxBatch, MaxAttempts, CoalesceWindow, Minute} \subseteq Nat \ {0}
    /\ {MaxEvents, MaxLag, MaxReloads} \subseteq Nat

VARIABLES
    queue,      \* d.queue
    reload,     \* d.reload: at most one route set
    active,     \* d.routes
    pending,    \* routeState.pending
    due,        \* time left to routeState.flushAt; meaningful when pending
    recent,     \* routeState.sent: time left in the window
    work,       \* what Run is in the middle of
    ticked,     \* the ticker's channel holds a tick
    cancelled,  \* the daemon's context is done
    stopped,    \* Run has returned
    dropped,    \* d.dropped
    published,  \* history: events published so far
    copies,     \* history: copies filed with routes, and where they ended
    reloads     \* history: reconfigurations so far

dispVars == <<queue, reload, active, pending, due, recent, work, ticked,
              cancelled, stopped, dropped, published, copies, reloads>>

Event == [id : 1..MaxEvents, project : Projects, kind : Kinds \cup {FunctionKind}]

Idle == [at |-> "idle"]
NoSend == [at |-> "none"]

\* The goroutine's position: a pass over the routes still to visit, filing an
\* event ("route") or sending digests ("flush"), and then applying a route
\* set, stopping, or neither.
Pass(at, events, todo, force, then, set) ==
    [at |-> at, events |-> events, todo |-> todo, force |-> force,
     then |-> then, set |-> set, lag |-> 0, sending |-> NoSend]

-----------------------------------------------------------------------------
(* Callers of the dispatcher.                                              *)

\* (a bug: a full queue drops the event without counting it)
PublishUncounted(project, kind) ==
    LET e == [id |-> published + 1, project |-> project, kind |-> kind] IN
    /\ published < MaxEvents
    /\ published' = published + 1
    /\ IF Len(queue) < QueueDepth THEN queue' = Append(queue, e)
                                  ELSE UNCHANGED queue
    /\ UNCHANGED <<reload, active, pending, due, recent, work, ticked,
                   cancelled, stopped, copies, reloads, dropped>>

Publish(project, kind) ==
    LET e == [id |-> published + 1, project |-> project, kind |-> kind] IN
    /\ published < MaxEvents
    /\ published' = published + 1
    /\ \/ /\ Len(queue) < QueueDepth
          /\ queue' = Append(queue, e)
          /\ UNCHANGED dropped
       \/ /\ Len(queue) >= QueueDepth
          /\ dropped' = dropped + 1
          /\ UNCHANGED queue
    /\ UNCHANGED <<reload, active, pending, due, recent, work, ticked,
                   cancelled, stopped, copies, reloads>>

\* SetRoutes: the latest replacement wins.
SetRoutes(set) ==
    /\ reloads < MaxReloads
    /\ reloads' = reloads + 1
    /\ reload' = <<set>>
    /\ UNCHANGED <<queue, active, pending, due, recent, work, ticked,
                   cancelled, stopped, dropped, published, copies>>

\* The daemon is told to stop.
Cancel ==
    /\ ~cancelled
    /\ cancelled' = TRUE
    /\ UNCHANGED <<queue, reload, active, pending, due, recent, work, ticked,
                   stopped, dropped, published, copies, reloads>>

\* A second passes.  While Run is in the middle of a pass, the clock reading
\* the pass works with grows older.
Tick ==
    LET Less(n) == IF n > -MaxLag THEN n - 1 ELSE n IN
    /\ ~stopped
    /\ work # Idle => work.lag < MaxLag
    /\ ticked' = TRUE
    /\ due' = [r \in Routes |-> IF pending[r] = <<>> THEN due[r] ELSE Less(due[r])]
    /\ recent' = [r \in Routes |-> [i \in DOMAIN recent[r] |-> Less(recent[r][i])]]
    /\ work' = IF work = Idle THEN work ELSE [work EXCEPT !.lag = @ + 1]
    /\ UNCHANGED <<queue, reload, active, pending, cancelled, stopped, dropped,
                   published, copies, reloads>>

-----------------------------------------------------------------------------
(* Run's select: one of the ready cases, in no particular order.           *)

\* route's two conditions on a route.
Matches(r, e) ==
    /\ Scope[r] \in {AnyProject, e.project}
    /\ e.kind \in Filter[r]

Pending(r) == pending[r] # <<>>

TakeEvent ==
    LET e == Head(queue) IN
    /\ work = Idle /\ ~stopped /\ queue # <<>>
    /\ queue' = Tail(queue)
    /\ copies' = [copies EXCEPT !.taken = @ \cup {e.id}]
    /\ work' = Pass("route", <<e>>, {r \in active : Matches(r, e)}, FALSE, "none", {})
    /\ UNCHANGED <<reload, active, pending, due, recent, ticked, cancelled,
                   stopped, dropped, published, reloads>>

TakeReload ==
    /\ work = Idle /\ ~stopped /\ reload # <<>>
    /\ reload' = <<>>
    /\ work' = Pass("flush", <<>>, {r \in active : Pending(r)}, TRUE, "apply", reload[1])
    /\ UNCHANGED <<queue, active, pending, due, recent, ticked, cancelled,
                   stopped, dropped, published, copies, reloads>>

TakeTick ==
    /\ work = Idle /\ ~stopped /\ ticked
    /\ ticked' = FALSE
    /\ work' = Pass("flush", <<>>, {r \in active : Pending(r)}, FALSE, "none", {})
    /\ UNCHANGED <<queue, reload, active, pending, due, recent, cancelled,
                   stopped, dropped, published, copies, reloads>>

TakeDone ==
    /\ work = Idle /\ ~stopped /\ cancelled
    /\ work' = Pass("flush", <<>>, {r \in active : Pending(r)}, TRUE, "stop", {})
    /\ UNCHANGED <<queue, reload, active, pending, due, recent, ticked, cancelled,
                   stopped, dropped, published, copies, reloads>>

-----------------------------------------------------------------------------
(* The pass.                                                               *)

\* (a bug: send times never leave the window)
allowKeptAll(r) == recent[r]

\* The send times still in the window, by the pass's clock reading.
allowKept(r) == SelectSeq(recent[r], LAMBDA n : n + work.lag > 0)

allow(r) == Limit[r] < 0 \/ Len(allowKept(r)) < Limit[r]

\* The time left until the oldest send leaves the window; at least a second,
\* counted from the pass's clock reading.
retryAfter(r) ==
    LET kept == allowKept(r) IN
    IF kept # <<>> THEN kept[1] ELSE 1 - work.lag

\* The limit holds the digest back: its newest copies stay pending.
Hold(r, batch) ==
    LET over == Len(batch) - MaxBatch IN
    /\ pending' = [pending EXCEPT ![r] =
                     IF over > 0 THEN SubSeq(batch, over + 1, Len(batch)) ELSE batch]
    /\ dropped' = IF over > 0 THEN dropped + over ELSE dropped
    /\ recent' = [recent EXCEPT ![r] = allowKept(r)]
    /\ due' = [due EXCEPT ![r] = retryAfter(r)]
    /\ work' = [work EXCEPT !.todo = @ \ {r}]

\* flush: a digest is held, or its delivery begins.  A final one ignores the
\* limit and is not recorded in the window.
flush(r, batch, final) ==
    \/ /\ ~final /\ ~allow(r)
       /\ Hold(r, batch)
    \/ /\ final \/ allow(r)
       /\ pending' = [pending EXCEPT ![r] = <<>>]
       /\ recent' = IF final \/ Limit[r] < 0 THEN recent
                    ELSE [recent EXCEPT ![r] = Append(allowKept(r), Minute - work.lag)]
       /\ work' = [work EXCEPT !.todo = @ \ {r},
                               !.sending = [at |-> r, batch |-> batch, attempt |-> 1]]
       /\ UNCHANGED <<due, dropped>>

Copy(e, r) == <<e.id, r>>

\* route's loop body for a matching route.
RouteTo(r) ==
    LET e == work.events[1]
        batch == Append(pending[r], e) IN
    /\ copies' = [copies EXCEPT !.filed = @ \cup {Copy(e, r)}]
    /\ \/ /\ Len(batch) >= MaxBatch
          /\ flush(r, batch, FALSE)
       \/ /\ Len(batch) < MaxBatch
          /\ pending' = [pending EXCEPT ![r] = batch]
          /\ due' = IF Pending(r) THEN due
                    ELSE [due EXCEPT ![r] = CoalesceWindow - work.lag]
          /\ work' = [work EXCEPT !.todo = @ \ {r}]
          /\ UNCHANGED <<recent, dropped>>

\* flushAll's loop body.
FlushTo(r) ==
    /\ UNCHANGED copies
    /\ \/ /\ work.force \/ due[r] <= -work.lag
          /\ flush(r, pending[r], work.force)
       \/ /\ ~work.force /\ due[r] > -work.lag
          /\ work' = [work EXCEPT !.todo = @ \ {r}]
          /\ UNCHANGED <<pending, due, recent, dropped>>

Visit ==
    /\ work # Idle /\ work.sending = NoSend
    /\ \E r \in work.todo :
         \/ work.at = "route" /\ RouteTo(r)
         \/ work.at = "flush" /\ FlushTo(r)
    /\ UNCHANGED <<queue, reload, active, ticked, cancelled, stopped, published,
                   reloads>>

\* Only the last pass is shielded from the end of the context.
CtxDone == cancelled /\ work.then # "stop"

Ends ==
    LET sent == work.sending
        ids == {Copy(sent.batch[i], sent.at) : i \in DOMAIN sent.batch} IN
    /\ copies' = [copies EXCEPT !.ended = @ \cup ids]
    /\ work' = [work EXCEPT !.sending = NoSend]

\* One attempt of deliver: the message arrives or fails for good, and either
\* way is counted (d.delivered, d.failed), or it fails for now.  When the context
\* ends, so do the attempt and the backoff after it.
Attempt ==
    /\ work # Idle /\ work.sending # NoSend
    /\ \/ Ends
       \/ /\ ~CtxDone /\ work.sending.attempt < MaxAttempts
          /\ work' = [work EXCEPT !.sending.attempt = @ + 1]
          /\ UNCHANGED copies
    /\ UNCHANGED <<queue, reload, active, pending, due, recent, ticked, cancelled,
                   stopped, dropped, published, reloads>>

\* applyRoutes' second half: new state for the new routes.
applyRoutes(set) ==
    /\ active' = set
    /\ pending' = [r \in Routes |-> <<>>]
    /\ due' = [r \in Routes |-> 0]
    /\ recent' = [r \in Routes |-> <<>>]
    /\ UNCHANGED stopped

Finish ==
    /\ work # Idle /\ work.sending = NoSend /\ work.todo = {}
    /\ work' = Idle
    /\ \/ /\ work.then = "none"
          /\ UNCHANGED <<active, pending, due, recent, stopped>>
       \/ /\ work.then = "stop"
          /\ stopped' = TRUE
          /\ UNCHANGED <<active, pending, due, recent>>
       \/ /\ work.then = "apply"
          /\ applyRoutes(work.set)
    /\ UNCHANGED <<queue, reload, ticked, cancelled, dropped, published, copies,
                   reloads>>

-----------------------------------------------------------------------------
DispInit ==
    /\ queue = <<>> /\ reload = <<>>
    /\ active \in RouteSets
    /\ pending = [r \in Routes |-> <<>>]
    /\ due = [r \in Routes |-> 0]
    /\ recent = [r \in Routes |-> <<>>]
    /\ work = Idle /\ ticked = FALSE
    /\ cancelled = FALSE /\ stopped = FALSE
    /\ dropped = 0 /\ published = 0 /\ reloads = 0
    /\ copies = [taken |-> {}, filed |-> {}, ended |-> {}]

\* Run, and its callers.
RunStep == TakeReload \/ TakeTick \/ TakeDone \/ Visit \/ Attempt \/ Finish

Callers ==
    \/ \E p \in Projects, k \in Kinds : Publish(p, k)
    \/ \E s \in RouteSets : SetRoutes(s)
    \/ Cancel
    \/ Tick

\* The dispatcher alone: its callers, the failed invocations among them, and Run.
DispNext ==
    \/ Callers
    \/ \E p \in Projects : Publish(p, FunctionKind)
    \/ TakeEvent
    \/ RunStep

DispSpec == DispInit /\ [][DispNext]_dispVars

-----------------------------------------------------------------------------
(* Properties.                                                             *)

\* The copies filed with r that the dispatcher still has.
Held(r) ==
    {Copy(pending[r][i], r) : i \in DOMAIN pending[r]}
    \cup IF work = Idle \/ work.sending = NoSend \/ work.sending.at # r THEN {}
         ELSE {Copy(work.sending.batch[i], r) : i \in DOMAIN work.sending.batch}

\* Every published event was taken from the queue, is in it, or is counted in
\* dropped, and every copy filed with a route is pending, being sent,
\* delivered, in a message counted and logged as failed, or counted in dropped:
\* limits, full batches, retries and reloads lose nothing without a trace
\* (Publish, flush, deliver, applyRoutes).
Accounted ==
    LET queued == {queue[i].id : i \in DOMAIN queue}
        refused == (1..published) \ (copies.taken \cup queued)
        gone == copies.filed \ (copies.ended \cup UNION {Held(r) : r \in Routes})
    IN  dropped = Cardinality(refused) + Cardinality(gone)

\* A pending digest is eventually sent, failed or dropped: no limit, retry or
\* stream of reloads keeps it waiting for ever (flushAll, retryAfter, allow).
PendingLeaves == \A r \in Routes : Pending(r) ~> ~Pending(r)
=============================================================================
