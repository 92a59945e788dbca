------------------------------ MODULE MCEvents ------------------------------
(***************************************************************************)
(* Notifications, functions, volumes, edge.  focus says what a behaviour is *)
(* about: "channels" is the dispatcher with its routes and no sink;        *)
(* "functions" the dispatcher with no routes and the invoker as its sink,  *)
(* which publishes back into the dispatcher; "frontends" the address       *)
(* allocator through changes of its services and of its pools; "cron" a    *)
(* schedule asked for one fire after another; "volumes" one network volume *)
(* between the reconciler and its supervisor; "edge" the edge proxy that   *)
(* follows the file the reconciler's passes publish.                       *)
(***************************************************************************)
EXTENDS Invoker, Cron, VolumeManager, EdgeFeed

CONSTANTS MaxCron       \* bound on the time schedules are followed to

VARIABLES focus

vars == <<dispVars, fnVars, vipVars, cronVars, volVars, edgeFeedVars, focus>>
\* All but the volume, and all but the edge.
other == <<dispVars, fnVars, vipVars, cronVars, edgeFeedVars, focus>>
notEdge == <<dispVars, fnVars, vipVars, cronVars, volVars, focus>>

MCScope == [r \in Routes |-> IF r = "node" THEN AnyProject ELSE "p"]
MCLimit == [r \in Routes |-> IF r = "node" THEN 1 ELSE -1]
MCFilter == [r \in Routes |-> {"deploy"}]
MCMonthDays == <<3, 2>>

\* Bounds on events and on changes of desired state, for each part.
EventsOf == [channels |-> MaxEvents, functions |-> MaxEvents,
             frontends |-> 0, cron |-> 0]
AppliesOf == [channels |-> 0, functions |-> 2,
              frontends |-> MaxApplies, cron |-> 0]

Star(n) == [body |-> "*", lo |-> 0, hi |-> 0, step |-> n]
Value(v) == [body |-> "value", lo |-> v, hi |-> v, step |-> 1]
Interval(a, b) == [body |-> "range", lo |-> a, hi |-> b, step |-> 1]
\* Expressions with every kind of item, and one that never fires.
Exprs == [minute : {<<Star(1)>>, <<Value(1)>>},
          hour : {<<Star(1)>>, <<Star(2)>>},
          dom : {<<Star(1)>>, <<Star(2)>>, <<Value(1), Value(3)>>, <<Star(1), Value(2)>>},
          month : {<<Star(1)>>, <<Value(2)>>, <<Interval(1, 2)>>},
          dow : {<<Star(1)>>, <<Value(2)>>}]
\* What Parse refuses: there is no schedule.
NoSchedule == [f \in ToSet(Fields) |-> <<Interval(2, 1)>>]

Init ==
    /\ DispInit /\ FnInit /\ VipInit /\ VolInit /\ EdgeFeedInit
    /\ focus \in {"channels", "functions", "frontends", "cron",
                 "volumes", "edge"}
    /\ focus # "frontends" => ~ipv6
    /\ active = IF focus = "channels" THEN Routes ELSE {}
    /\ IF focus = "cron" THEN cronExpr \in Exprs /\ cronNow \in 0..4
                         ELSE cronExpr = NoSchedule /\ cronNow = 0
    /\ CronInit

\* Bound on events and changes together, where functions run.
FnBound == 3

\* The failure an invocation publishes; past the bound on events it is not
\* followed further.
PublishFailure ==
    \/ published + applies < FnBound /\ Publish("p", FunctionKind)
    \/ published + applies >= FnBound /\ UNCHANGED dispVars

InvokeFailsAndPublishes ==
    /\ \E i \in DOMAIN running : InvokeFails(i)
    /\ PublishFailure

Invocation ==
    \/ \E i \in DOMAIN running : InvokeOk(i)
    \/ \E i \in DOMAIN running : InvokeRetry(i)

FnGoroutine ==
    DispatchEvent \/ Reload \/ FireDueCrons \/ ArmCron \/ InvokeAsync

Events ==
    /\ focus \notin {"volumes", "edge"} /\ UNCHANGED <<focus, volVars, edgeFeedVars>>
    /\ \/ /\ focus = "channels" /\ UNCHANGED <<fnVars, vipVars, cronVars>>
          /\ Callers \/ TakeEvent \/ RunStep
       \/ /\ focus = "functions" /\ UNCHANGED cronVars
          /\ \/ TakeEvent /\ Record(Head(queue))
             \/ Finish /\ UNCHANGED <<fnVars, vipVars>>
             \/ Publish("p", "deploy") /\ UNCHANGED <<fnVars, vipVars>>
             \/ InvokeFailsAndPublishes
             \/ /\ UNCHANGED dispVars
                /\ \/ \E s \in EventFns \cup CronFns : ChangeDesired(s)
                   \/ FanOut \/ invokerWaker \/ ReconcilerPass
                   \/ FnGoroutine
                   \/ Invocation
                   \/ FnTick
       \/ /\ focus = "frontends" /\ UNCHANGED <<dispVars, cronVars>>
          /\ \/ \E s \in Services : ChangeDesired(s)
             \/ Sync(desired) /\ UNCHANGED fnVars
             \/ Reconfigure /\ UNCHANGED fnVars
       \/ /\ focus = "cron"
          /\ FireCron /\ cronNow' <= MaxCron
          /\ UNCHANGED <<dispVars, fnVars, vipVars>>
    /\ published' <= EventsOf[focus] /\ applies' <= AppliesOf[focus]
    \* a reload or the end of the daemon comes in the place of an event
    /\ published' + reloads' + (IF cancelled' THEN 1 ELSE 0) <= MaxEvents
    /\ focus = "functions" => published' + applies' <= FnBound

Next ==
    \/ Events
    \/ focus = "volumes" /\ VolNext /\ UNCHANGED other
    \/ focus = "edge" /\ EdgeFeedNext /\ UNCHANGED notEdge

rest == <<edgeFeedVars, volVars, fnVars, vipVars, cronVars, focus>>
fnRest == <<edgeFeedVars, volVars, dispVars, cronVars, focus>>

\* Time passes; Run finishes the pass it is in and takes a tick that is always
\* ready again in time, as its select chooses among the ready cases at random.
DispFairness ==
    /\ WF_vars(focus = "channels" /\ Tick /\ UNCHANGED rest)
    /\ WF_vars(focus = "channels" /\ (Visit \/ Attempt \/ Finish) /\ UNCHANGED rest)
    /\ SF_vars(focus = "channels" /\ TakeTick /\ UNCHANGED rest)

\* Signals are passed on, an invocation ends or tries again, and the invoker's
\* goroutine goes on and takes a wake that stays ready.
FnFairness ==
    /\ WF_vars(focus = "functions" /\ (FanOut \/ invokerWaker) /\ UNCHANGED fnRest)
    /\ WF_vars(focus = "functions" /\ (InvokeAsync \/ ArmCron) /\ UNCHANGED fnRest)
    /\ WF_vars(/\ focus = "functions"
               /\ \/ Invocation /\ UNCHANGED dispVars
                  \/ InvokeFailsAndPublishes
               /\ UNCHANGED <<cronVars, volVars, edgeFeedVars, focus>>)
    /\ SF_vars(focus = "functions" /\ Reload /\ UNCHANGED fnRest)

FnSpec == Init /\ focus = "functions" /\ [][Next]_vars /\ FnFairness

\* Passes and probes go on, a backoff ends, a driver gives up on a probe.
VolFairness ==
    /\ WF_vars(focus = "volumes" /\ (Ensure \/ Release) /\ UNCHANGED other)
    /\ WF_vars(focus = "volumes" /\ BackoffEnds /\ UNCHANGED other)
    /\ WF_vars(focus = "volumes" /\ Supervise /\ UNCHANGED other)
    /\ WF_vars(focus = "volumes" /\ ProbeReturns /\ UNCHANGED other)

VolSpec == Init /\ focus = "volumes" /\ [][Next]_vars /\ VolFairness

\* The reconciler makes passes that see everything, and the edge polls.
EdgeFairness ==
    /\ WF_vars(focus = "edge" /\ EdgePass /\ UNCHANGED notEdge)
    /\ WF_vars(focus = "edge" /\ Poll /\ UNCHANGED notEdge)

EdgeSpec == Init /\ focus = "edge" /\ [][Next]_vars /\ EdgeFairness

Spec ==
    /\ Init /\ [][Next]_vars
    /\ DispFairness /\ FnFairness /\ VolFairness /\ EdgeFairness

-----------------------------------------------------------------------------
\* NextExact of every expression, "*/n" in a day field included (Schedule:
\* "domStar and dowStar record whether the field was `*`").
NextMeans ==
    Accepts(cronExpr) =>
        NextFire(Parse(cronExpr), cronNow) = FirstMeant(cronExpr, cronNow)
=============================================================================
