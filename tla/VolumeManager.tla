---------------------------- MODULE VolumeManager ----------------------------
(***************************************************************************)
(* One network volume (internal/storage manager.go): the reconciler's      *)
(* goroutine ensures it before an alloc starts and releases it when        *)
(* nothing wants it; the supervisor's probes it and remounts it when it    *)
(* does not answer.  They meet on a table of mount states, whose entry is  *)
(* removed by a release and made anew by the next use.                     *)
(*                                                                         *)
(* Each state has its lock, held through a mount command, so a mount, a    *)
(* remount and a release are one step each.                                *)
(***************************************************************************)
EXTENDS Naturals

CONSTANTS MaxStates,    \* bound: mount states made for the target
          MaxOutages,   \* bound: outages of the file server
          MaxUnmountErrors  \* bound: unmounts that fail, the lazy one too

ASSUME VolumeAssumption ==
  MaxStates \in Nat \ {0} /\ MaxOutages \in Nat /\ MaxUnmountErrors \in Nat

VARIABLES
  server,     \* whether the file server answers
  kernel,     \* the mount table's entry: none, good, or stale
  entry,      \* the tracked mount state, 0 when the target is not tracked
  made,       \* mount states made so far
  mstate,     \* [backoff, probing, announced] of each of them
  needed,     \* whether a declared service uses the volume
  started,    \* whether its alloc runs
  sup,        \* the supervisor: step, and the state it took from the table
  outages, unmountErrors

volVars == <<server, kernel, entry, made, mstate, needed, started, sup,
             outages, unmountErrors>>

NewState == [backoff |-> FALSE, probing |-> FALSE, announced |-> FALSE]
NoTick == [pc |-> "idle", of |-> 0]

VolInit ==
  /\ server = TRUE /\ kernel = "none" /\ entry = 0 /\ made = 0
  /\ mstate = [i \in 1..MaxStates |-> NewState]
  /\ needed = FALSE /\ started = FALSE /\ sup = NoTick
  /\ outages = 0 /\ unmountErrors = 0

-----------------------------------------------------------------------------
(* The server and the specification.                                       *)

ServerDown ==
  /\ server /\ outages < MaxOutages
  /\ server' = FALSE /\ outages' = outages + 1
  /\ kernel' = IF kernel = "good" THEN "stale" ELSE kernel
  /\ UNCHANGED <<entry, made, mstate, needed, started, sup, unmountErrors>>

\* An NFS mount may answer again when its server does; s3fs never does.
ServerUp ==
  /\ ~server /\ server' = TRUE
  /\ kernel' \in IF kernel = "stale" THEN {"stale", "good"} ELSE {kernel}
  /\ UNCHANGED <<entry, made, mstate, needed, started, sup, outages, unmountErrors>>

Declare ==
  /\ ~needed /\ made < MaxStates /\ needed' = TRUE
  /\ UNCHANGED <<server, kernel, entry, made, mstate, started, sup, outages,
                 unmountErrors>>

Undeclare ==
  /\ needed /\ needed' = FALSE
  /\ UNCHANGED <<server, kernel, entry, made, mstate, started, sup, outages,
                 unmountErrors>>

-----------------------------------------------------------------------------
(* The reconciler.                                                         *)

\* stateFor.
Tracked == IF entry = 0 THEN made + 1 ELSE entry

\* mount, under the lock of state i; ok says whether it worked.
Mount(i) ==
  IF server
    THEN /\ kernel' = "good"
         /\ mstate' = [mstate EXCEPT ![i] = [mstate[i] EXCEPT
                                      !.backoff = FALSE, !.announced = FALSE]]
    ELSE /\ kernel' = "none"
         /\ mstate' = [mstate EXCEPT ![i] = [mstate[i] EXCEPT
                                      !.backoff = TRUE, !.announced = TRUE]]

\* Ensure, before the alloc is created: what is mounted is used, an attempt
\* that failed is not repeated before its backoff.
Ensure ==
  /\ needed /\ ~started /\ Tracked <= MaxStates
  /\ entry' = Tracked /\ made' = IF entry = 0 THEN made + 1 ELSE made
  /\ IF kernel # "none"
       THEN /\ started' = TRUE /\ UNCHANGED kernel
            /\ mstate' = [mstate EXCEPT ![Tracked].backoff = FALSE]
       ELSE /\ ~mstate[Tracked].backoff
            /\ Mount(Tracked) /\ started' = server
  /\ UNCHANGED <<server, needed, sup, outages, unmountErrors>>

BackoffEnds ==
  /\ entry # 0 /\ mstate[entry].backoff
  /\ mstate' = [mstate EXCEPT ![entry].backoff = FALSE]
  /\ UNCHANGED <<server, kernel, entry, made, needed, started, sup, outages,
                 unmountErrors>>

\* A pass without the volume: its allocs are gone, then pruneMounts releases
\* it.  The entry goes first; an unmount that fails is an error in the log.
Release ==
  /\ ~needed /\ entry # 0
  /\ entry' = 0 /\ started' = FALSE
  /\ \/ kernel' = "none" /\ UNCHANGED unmountErrors
     \/ /\ kernel # "none" /\ unmountErrors < MaxUnmountErrors
        /\ unmountErrors' = unmountErrors + 1 /\ UNCHANGED kernel
  /\ UNCHANGED <<server, made, mstate, needed, sup, outages>>

-----------------------------------------------------------------------------
(* The supervisor.                                                         *)

\* A tick: the table is copied.
Snapshot ==
  /\ sup.pc = "idle" /\ entry # 0
  /\ sup' = [pc |-> "check", of |-> entry]
  /\ UNCHANGED <<server, kernel, entry, made, mstate, needed, started, outages,
                 unmountErrors>>

\* (a bug: the directory is probed, mounted or not)
VerdictStatOnly(i) ==
  IF mstate[i].probing THEN {"failed"}
  ELSE IF kernel = "stale" THEN {"failed", "stuck"} ELSE {"ok"}

\* Check of the state that is tracked: the mount table first, then a probe,
\* unless one is stuck already.
Verdict(i) ==
  IF kernel = "none" \/ mstate[i].probing THEN {"failed"}
  ELSE IF kernel = "stale" THEN {"failed", "stuck"} ELSE {"ok"}

\* superviseOnce: a target that is not tracked any more is an error like any
\* other.
Check ==
  /\ sup.pc = "check"
  /\ \E v \in IF entry = 0 THEN {"failed"} ELSE Verdict(entry) :
       /\ sup' = IF v = "ok" THEN NoTick ELSE [sup EXCEPT !.pc = "remount"]
       /\ mstate' = IF v = "ok" THEN mstate
                    ELSE [i \in 1..MaxStates |->
                            [mstate[i] EXCEPT
                               !.probing = @ \/ (v = "stuck" /\ i = entry),
                               !.announced = @ \/ i = sup.of]]
  /\ UNCHANGED <<server, kernel, entry, made, needed, started, outages,
                 unmountErrors>>

\* remount, on the state of the snapshot.
Remount ==
  /\ sup.pc = "remount" /\ sup' = NoTick
  /\ Mount(sup.of)
  /\ UNCHANGED <<server, entry, made, needed, started, outages, unmountErrors>>

\* The driver gives up on a probe.
ProbeReturns ==
  /\ \E i \in 1..MaxStates :
       mstate[i].probing /\ mstate' = [mstate EXCEPT ![i].probing = FALSE]
  /\ UNCHANGED <<server, kernel, entry, made, needed, started, sup, outages,
                 unmountErrors>>

Supervise == Snapshot \/ Check \/ Remount

VolNext ==
  \/ ServerDown \/ ServerUp \/ Declare \/ Undeclare
  \/ Ensure \/ BackoffEnds \/ Release \/ Supervise \/ ProbeReturns

-----------------------------------------------------------------------------
(* Properties.                                                             *)

\* When the file server stays up and the volume stays declared, the alloc ends
\* up running on a mount that serves, whatever outage, failed attempt, stuck
\* probe or release came before (manager.go Supervise, Check).
VolumeBack ==
  <>[](server /\ needed) => <>[](started /\ kernel = "good")

\* "The data is safe, the next pass retries" (reconcile.go pruneMounts): a
\* volume that stays undeclared ends up unmounted.  It does not hold: a
\* release forgets the mount before it unmounts it, and the supervisor may
\* remount what was released between its probe and its remount.
UnusedLetGo ==
  <>[](~needed) => <>[](kernel = "none")
=============================================================================
