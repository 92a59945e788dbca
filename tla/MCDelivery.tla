----------------------------- MODULE MCDelivery -----------------------------
(***************************************************************************)
(* From a commit to a served name.  focus says what a behaviour is about:  *)
(* "pipeline" is one project, synced by the poll loop and by requests;     *)
(* "certificates" the loop that keeps the routes' certificates and the     *)
(* edge that serves them.                                                  *)
(*                                                                         *)
(* MaxChanges bounds what disturbs a pipeline: a sync that is broken off,  *)
(* a trigger, an edit or a delete of the project, and, up to MaxStops, a   *)
(* stop or a crash.                                                        *)
(***************************************************************************)
EXTENDS Pipeline, Certificates

VARIABLES focus, stops, changes
others == <<certVars, focus>>
notCerts == <<pipeVars, focus, stops, changes>>
mcVars == <<pipeVars, certVars, focus, stops, changes>>

\* One name from the CA, which a second one turns into a wildcard; and one
\* route for each of the other sources.
Declared ==
  {[s \in Sites |-> IF s \in AutoSites THEN "acme" ELSE Plaintext],
   [s \in Sites |-> IF s \in AutoSites THEN "self-signed" ELSE "provided"]}

Init ==
  /\ PipeInit /\ CertInit /\ stops = 0 /\ changes = 0
  /\ \/ focus = "pipeline" /\ project.here /\ want = [s \in Sites |-> Plaintext]
     \/ focus = "certificates" /\ want \in Declared /\ ~project.here

Quiet(A) == focus = "pipeline" /\ A /\ UNCHANGED <<stops, changes, others>>
Disturb(A) == /\ focus = "pipeline" /\ A
              /\ changes + stops < MaxChanges /\ changes' = changes + 1
              /\ UNCHANGED <<stops, others>>
Halt(A) == /\ focus = "pipeline" /\ A
           /\ stops < MaxStops /\ changes + stops < MaxChanges
           /\ stops' = stops + 1 /\ UNCHANGED <<changes, others>>
Certs(A) == focus = "certificates" /\ A /\ UNCHANGED notCerts

Next ==
  \/ Quiet(WorkerStep \/ Fail \/ LifeStep \/ Push)
  \/ Quiet(\E a \in Syncers : SyncerStep(a))
  \/ Disturb(\E a \in Syncers : SyncAbort(a))
  \/ Disturb(\E s \in Services, d \in BOOLEAN : Trigger(s, d))
  \/ Disturb(DeleteProject \/ \E h \in BOOLEAN : EditProject(h))
  \/ Halt(Stop \/ Crash)
  \/ Certs(CertNext)

\* Goroutines go on; the certificate loop too, the edge polls, time passes.
Fairness ==
  /\ WF_mcVars(Quiet(WorkerStep)) /\ WF_mcVars(Quiet(LifeStep))
  /\ WF_mcVars(Quiet(SyncerStep("poll")))
  /\ WF_mcVars(Quiet(SyncerStep("api")))
  /\ WF_mcVars(Certs(CertLoop)) /\ WF_mcVars(Certs(EdgeLoads))
  /\ WF_mcVars(Certs(CertTick))

Spec == Init /\ [][Next]_mcVars /\ Fairness
=============================================================================
