------------------------------ MODULE Invoker -------------------------------
(***************************************************************************)
(* Functions (internal/functions/invoker.go): services that are invoked by *)
(* events and by cron schedules.  The dispatcher's sink hands every event  *)
(* to a bounded queue; one goroutine matches events, fires schedules and   *)
(* reloads its table of triggers when desired state changes, and starts    *)
(* invocations, each on a goroutine of its own, a bounded number at once.  *)
(* An invocation that fails publishes an event of its own through the      *)
(* dispatcher.  A trigger's address is the frontend the reconciler gave    *)
(* the function's service.                                                 *)
(*                                                                         *)
(* All schedules have one period; clk is the time within it.               *)
(***************************************************************************)
EXTENDS Dispatcher, Frontends

CONSTANTS
    EventFns, CronFns,   \* the functions with each kind of trigger
    SignedFns,           \* the functions with a signing reference
    Period,
    FnQueueDepth, MaxConcurrent, FnAttempts,
    MaxApplies           \* bound on changes of desired state

ASSUME InvokerAssumption ==
    /\ EventFns \subseteq Services /\ CronFns \subseteq Services
    /\ SignedFns \subseteq Services
    /\ {Period, FnQueueDepth, MaxConcurrent, FnAttempts} \subseteq Nat \ {0}
    /\ MaxApplies \in Nat

VARIABLES
    desired,     \* store: the services applied
    notify,      \* the daemon's change signal, and its copies:
    recNotify,   \*   for the reconciler
    fnNotify,    \*   for the invoker
    wake,        \* i.wake
    fnQueue,     \* i.queue
    table,       \* i.targets: [Services -> address, NoVIP when absent]
    next,        \* time left to each schedule's next fire
    timer,       \* time left on the timer, NoTimer for the long re-arm
    starting,    \* deliveries the goroutine has still to start
    rearm,       \* it re-arms the timer after them
    running,     \* invocations in flight
    clk,         \* time within the period
    stale,       \* history: the last reload could not read the targets
    fired,       \* history: fires of each schedule since its last tick
    applies      \* history: changes of desired state

fnVars == <<desired, notify, recNotify, fnNotify, wake, fnQueue, table, next,
            timer, starting, rearm, running, clk, stale, fired, applies>>

NoTimer == Period + 1

\* schedule.Next from now.
NextTick == Period - clk

\* The targets Source.Targets returns: services with a trigger and an address.
Targets ==
    [s \in Services |->
       IF s \in desired \cap (EventFns \cup CronFns) THEN vips[s] ELSE NoVIP]

\* The timer armCron sets for a table and its schedules.
Soonest(t, n) ==
    LET times == {n[s] : s \in {s \in CronFns : t[s] # NoVIP}}
    IN  IF times = {} THEN NoTimer ELSE Min(times)

-----------------------------------------------------------------------------
(* Changes of desired state, and the signal.                               *)

\* An operator applies or removes a service; the API pulses the signal.
ChangeDesired(s) ==
    /\ applies < MaxApplies
    /\ applies' = applies + 1
    /\ desired' = IF s \in desired THEN desired \ {s} ELSE desired \cup {s}
    /\ notify' = TRUE
    /\ UNCHANGED <<recNotify, fnNotify, wake, fnQueue, table, next, timer, starting,
                   rearm, running, clk, stale, fired, vipVars>>

FanOut ==
    /\ notify
    /\ notify' = FALSE /\ recNotify' = TRUE /\ fnNotify' = TRUE
    /\ UNCHANGED <<desired, wake, fnQueue, table, next, timer, starting, rearm,
                   running, clk, stale, fired, applies, vipVars>>

invokerWaker ==
    /\ fnNotify
    /\ fnNotify' = FALSE /\ wake' = TRUE
    /\ UNCHANGED <<desired, notify, recNotify, fnQueue, table, next, timer, starting,
                   rearm, running, clk, stale, fired, applies, vipVars>>

\* The reconciler's pass, on its signal: it gives the desired services
\* their addresses, and signals nobody.
ReconcilerPass ==
    /\ recNotify
    /\ recNotify' = FALSE
    /\ Sync(desired)
    /\ UNCHANGED <<desired, notify, fnNotify, wake, fnQueue, table, next, timer,
                   starting, rearm, running, clk, stale, fired, applies>>

-----------------------------------------------------------------------------
(* The invoker's goroutine.                                                *)

\* Record, the second consumer of the dispatcher's feed.
Record(e) ==
    /\ fnQueue' = IF Len(fnQueue) < FnQueueDepth THEN Append(fnQueue, e) ELSE fnQueue
    /\ UNCHANGED <<desired, notify, recNotify, fnNotify, wake, table, next, timer,
                   starting, rearm, running, clk, stale, fired, applies, vipVars>>

Delivery(s, cause) == [fn |-> s, vip |-> table[s], cause |-> cause, attempt |-> 1]

Waiting == starting = <<>> /\ ~rearm

\* dispatchEvent: one delivery for every function with a matching trigger,
\* and none for the events of functions.
TriggeredBy(e) ==
    IF e.kind = FunctionKind THEN <<>>
    ELSE SetToSeq({Delivery(s, e.kind) : s \in {s \in EventFns : table[s] # NoVIP}})

DispatchEvent ==
    /\ Waiting /\ fnQueue # <<>>
    /\ fnQueue' = Tail(fnQueue)
    /\ starting' = TriggeredBy(Head(fnQueue))
    /\ UNCHANGED <<desired, notify, recNotify, fnNotify, wake, table, next, timer,
                   rearm, running, clk, stale, fired, applies, vipVars>>

\* reload: the targets of this moment; a schedule that was counting down keeps
\* its next fire, any other starts from now.  A failed read keeps the table.
Reload ==
    /\ Waiting /\ wake
    /\ wake' = FALSE
    /\ \/ /\ table' = Targets
          /\ stale' = FALSE
          /\ next' = [s \in Services |->
                        IF table[s] # NoVIP /\ next[s] > 0 THEN next[s] ELSE NextTick]
       \/ stale' = TRUE /\ UNCHANGED <<table, next>>
    /\ timer' = Soonest(table', next')
    /\ UNCHANGED <<desired, notify, recNotify, fnNotify, fnQueue, starting, rearm,
                   running, clk, fired, applies, vipVars>>

\* fireDueCrons: what is due is started and moved to its next tick from now;
\* the timer is armed again after the deliveries have been started.
FireDueCrons ==
    LET dueFns == {s \in CronFns : table[s] # NoVIP /\ next[s] = 0} IN
    /\ Waiting /\ timer = 0
    /\ starting' = SetToSeq({Delivery(s, "cron") : s \in dueFns})
    /\ next' = [s \in Services |-> IF s \in dueFns THEN NextTick ELSE next[s]]
    /\ fired' = [s \in Services |-> IF s \in dueFns THEN fired[s] + 1 ELSE fired[s]]
    /\ timer' = NoTimer /\ rearm' = TRUE
    /\ UNCHANGED <<desired, notify, recNotify, fnNotify, wake, fnQueue, table,
                   running, clk, stale, applies, vipVars>>

ArmCron ==
    /\ rearm /\ starting = <<>>
    /\ rearm' = FALSE
    /\ timer' = Soonest(table, next)
    /\ UNCHANGED <<desired, notify, recNotify, fnNotify, wake, fnQueue, table, next,
                   starting, running, clk, stale, fired, applies, vipVars>>

\* invokeAsync: waits for a place among the invocations in flight.
InvokeAsync ==
    /\ starting # <<>> /\ Len(running) < MaxConcurrent
    /\ starting' = Tail(starting)
    /\ running' = Append(running, Head(starting))
    /\ UNCHANGED <<desired, notify, recNotify, fnNotify, wake, fnQueue, table, next,
                   timer, rearm, clk, stale, fired, applies, vipVars>>

FnTick ==
    LET Less(n) == IF n > 0 THEN n - 1 ELSE 0
        wraps == clk + 1 = Period IN
    /\ clk' = IF wraps THEN 0 ELSE clk + 1
    /\ next' = [s \in Services |-> Less(next[s])]
    /\ timer' = IF timer = NoTimer THEN NoTimer ELSE Less(timer)
    /\ fired' = IF wraps THEN [s \in Services |-> 0] ELSE fired
    /\ UNCHANGED <<desired, notify, recNotify, fnNotify, wake, fnQueue, table,
                   starting, rearm, running, stale, applies, vipVars>>

-----------------------------------------------------------------------------
(* An invocation's goroutine.                                              *)

\* (a bug: an invocation that cannot be signed keeps its place)
LeavesSigned(i) ==
    IF running[i].fn \in SignedFns THEN UNCHANGED running
    ELSE running' = RemoveAt(running, i)

Leaves(i) == running' = RemoveAt(running, i)

\* A post is answered, and the invocation is over.
InvokeOk(i) ==
    /\ Leaves(i)
    /\ UNCHANGED <<desired, notify, recNotify, fnNotify, wake, fnQueue, table, next,
                   timer, starting, rearm, clk, stale, fired, applies, vipVars>>

\* A post fails and another attempt is left.
InvokeRetry(i) ==
    /\ running[i].attempt < FnAttempts
    /\ running' = [running EXCEPT ![i].attempt = @ + 1]
    /\ UNCHANGED <<desired, notify, recNotify, fnNotify, wake, fnQueue, table, next,
                   timer, starting, rearm, clk, stale, fired, applies, vipVars>>

\* The attempts are spent, or the signing secret cannot be resolved before the
\* first of them: the failure is published.
InvokeFails(i) ==
    /\ \/ running[i].attempt = FnAttempts
       \/ running[i].fn \in SignedFns /\ running[i].attempt = 1
    /\ Leaves(i)
    /\ UNCHANGED <<desired, notify, recNotify, fnNotify, wake, fnQueue, table, next,
                   timer, starting, rearm, clk, stale, fired, applies, vipVars>>

FnInit ==
    /\ desired = {} /\ fnQueue = <<>> /\ starting = <<>> /\ running = <<>>
    /\ notify = FALSE /\ recNotify = FALSE /\ fnNotify = FALSE /\ wake = FALSE
    /\ table = [s \in Services |-> NoVIP]
    /\ next = [s \in Services |-> Period]
    /\ timer = NoTimer /\ rearm = FALSE
    /\ clk = 0 /\ stale = FALSE /\ applies = 0
    /\ fired = [s \in Services |-> 0]

-----------------------------------------------------------------------------
\* A schedule fires at most once for each tick of its clock, however reloads,
\* late timers and blocked deliveries fall between (fireDueCrons, reload, armCron).
FiresOncePerTick == \A s \in Services : fired[s] <= 1

\* The invoker's goroutine never waits for ever: what it has to start is
\* started, although invocations are bounded, retried, and publish into the
\* dispatcher that feeds the invoker (invokeAsync, invoke, failSigning).
StartsAll == starting # <<>> ~> starting = <<>>

\* A function that was removed stops being triggered: every change signal
\* reaches the table, unless the reload it led to could not read the targets
\* (fanOut, invokerWaker, Wake, reload).
RemovedLeaves ==
    \A s \in EventFns \cup CronFns :
        (s \notin desired) ~> (table[s] = NoVIP \/ s \in desired \/ stale)

\* A function that was applied and has its address is wired, with no restart
\* and no later change (Wake: "so `kanea apply` wires a new trigger with no
\* restart").
TriggerWired ==
    \A s \in EventFns \cup CronFns :
        (s \in desired /\ vips[s] # NoVIP)
            ~> (table[s] # NoVIP \/ s \notin desired \/ stale)
=============================================================================
