---------------------------- MODULE RunLifecycle ----------------------------
(***************************************************************************)
(* What the build pipeline promises of its run records, without queue,     *)
(* worker, process or restart: a run is recorded as queued, runs while no  *)
(* other run does, may release its image while it runs, and ends once.     *)
(* Releases of one service never go back to an older commit.  Pipeline     *)
(* implements this specification (Pipeline!Implements).                    *)
(***************************************************************************)
EXTENDS Naturals

CONSTANTS Runs,        \* the identities of the runs
          Services     \* the services that are built

VARIABLES state,       \* the state of every run's record
          released     \* the newest commit released to each service

vars == <<state, released>>

States == {"none", "queued", "running", "succeeded", "failed", "cancelled"}

Terminal == {"succeeded", "failed", "cancelled"}

TypeOK == /\ state \in [Runs -> States]
          /\ released \in [Services -> Nat]

Init == /\ state = [r \in Runs |-> "none"]
        /\ released = [s \in Services |-> 0]

Move(R, from, to) ==
  /\ \A r \in R : state[r] \in from
  /\ state' = [r \in Runs |-> IF r \in R THEN to ELSE state[r]]
  /\ UNCHANGED released

Submit(r) == Move({r}, {"none"}, "queued")

Start(r) == /\ \A q \in Runs : state[q] # "running"
            /\ Move({r}, {"queued"}, "running")

Release(r, s) == /\ state[r] = "running"
                 /\ released'[s] >= released[s]
                 /\ released' = [released EXCEPT ![s] = released'[s]]
                 /\ UNCHANGED state

Succeed(r) == Move({r}, {"running"}, "succeeded")

Fail(r) == Move({r}, {"queued", "running"}, "failed")

Cancel(r) == Move({r}, {"queued"}, "cancelled")

\* A restart ends what the last process left: what was queued is cancelled,
\* what was running has failed.
Sweep ==
  /\ state' = [r \in Runs |-> CASE state[r] = "queued"  -> "cancelled"
                                [] state[r] = "running" -> "failed"
                                [] OTHER                -> state[r]]
  /\ UNCHANGED released

Next == \/ Sweep
        \/ \E r \in Runs :
             \/ Submit(r) \/ Start(r) \/ Succeed(r) \/ Fail(r) \/ Cancel(r)
             \/ \E s \in Services : Release(r, s)

Spec == Init /\ [][Next]_vars
=============================================================================
