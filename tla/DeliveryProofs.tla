--------------------------- MODULE DeliveryProofs ---------------------------
(***************************************************************************)
(* Certificates: whatever the CA, the Store, the publisher and the daemon  *)
(* do, names that are still requested of the CA keep a certificate that is *)
(* in the Store: WorkingKept, for every set of routes and every kind of    *)
(* failure.  GitOps: the pipeline implements RunLifecycle, and no run is   *)
(* lost while the daemon runs, for every number of runs, services and      *)
(* pushes, every capacity of the queue, and any number of stops, crashes   *)
(* and edits.                                                              *)
(***************************************************************************)
EXTENDS Pipeline, Certificates, SequenceTheorems, TLAPS

-----------------------------------------------------------------------------
(* Certificates.                                                           *)

\* The memory of the loop, of the publisher and of the Store has its fields.
Shape ==
    /\ pass = [at |-> pass.at, first |-> pass.first, next |-> pass.next,
               mode |-> pass.mode, reqs |-> pass.reqs, todo |-> pass.todo,
               out |-> pass.out, req |-> pass.req, got |-> pass.got, err |-> pass.err]
    /\ certStore = [acme |-> certStore.acme, own |-> certStore.own, ca |-> certStore.ca]
    /\ pub = [by |-> pub.by, challenges |-> pub.challenges, auth |-> pub.auth,
              last |-> pub.last]
    /\ pub.by = [m \in CertModes |-> pub.by[m]]

\* The places of the loop inside Sync.
InSync == pass.mode = "acme" /\ pass.at \in {"source", "verify", "validate", "cleanup", "save"}

\* Names whose certificate is in the Store are still to be looked at, are being
\* obtained, or are among what Sync will return.
Accounted(names) ==
    \/ names \in pass.todo
    \/ pass.at # "source" /\ names = pass.req
    \/ Covering(pass.out, names) # {}

CertInv ==
    /\ Shape
    /\ pass.at = "publish" => pass.mode = "provided"
    /\ InSync => \A names \in pass.reqs["acme"] :
                    Covering(certStore.acme, names) # {} => Accounted(names)

\* A certificate that is put in the Store replaces none of other names.
LEMMA StoredKeepsOthers ==
    ASSUME NEW S, NEW c, NEW names, names # c.names, Covering(Stored(S, c), names) # {}
    PROVE  Covering(S, names) # {}
  BY DEF Covering, Covers, Stored

\* What is added to a set takes no covering certificate away.
LEMMA CoveringGrows ==
    ASSUME NEW S, NEW T, NEW names, Covering(S, names) # {} \/ Covering(T, names) # {}
    PROVE  Covering(S \cup T, names) # {}
  BY DEF Covering, Covers

LEMMA CertInvHolds == CertInit => CertInv
  BY DEF CertInit, CertInv, Shape, InSync, Pass0, NoRequests

\* Where the loop is not inside Sync the invariant asks for its fields only.
LEMMA OutsideSync ==
    ASSUME Shape', pass'.at # "publish", ~InSync'
    PROVE  CertInv'
  BY DEF CertInv

\* Steps of the others leave the loop and the Store as they are.
LEMMA OthersKeep ==
    ASSUME CertInv, UNCHANGED <<pass, certStore>>, Shape'
    PROVE  CertInv'
  BY DEF CertInv, InSync, Accounted

\* The publisher's write changes its memory of what it wrote last and no more.
LEMMA WriteShape ==
    ASSUME NEW p, NEW ok, write(p, ok),
           p = [by |-> p.by, challenges |-> p.challenges, auth |-> p.auth, last |-> p.last]
    PROVE  /\ pub' = [by |-> pub'.by, challenges |-> pub'.challenges,
                      auth |-> pub'.auth, last |-> pub'.last]
           /\ pub'.by = p.by
  BY DEF write

\* Leaving a source, the loop is at the next one or waits.
LEMMA FollowingShape ==
    ASSUME Shape,
           pass' \in {Following(pass), Following([pass EXCEPT !.err = TRUE]), Waiting(TRUE)}
    PROVE  /\ pass' = [at |-> pass'.at, first |-> pass'.first, next |-> pass'.next,
               mode |-> pass'.mode, reqs |-> pass'.reqs, todo |-> pass'.todo,
               out |-> pass'.out, req |-> pass'.req, got |-> pass'.got, err |-> pass'.err]
           /\ pass'.at \in {"load", "wait"}
  BY DEF Shape, Following, Waiting, Pass0

LEMMA PassBeginsKeeps ==
    ASSUME CertInv, PassBegins
    PROVE  CertInv'
<1>1. UNCHANGED <<certStore, pub>> /\ pass'.at \in {"load", "wait"}
  BY DEF PassBegins, Waiting, Pass0
<1>2. Shape'
  BY <1>1 DEF PassBegins, CertInv, Shape, Waiting, Pass0
<1> QED
  BY <1>1, <1>2, OutsideSync DEF InSync

LEMMA LoadKeeps ==
    ASSUME CertInv, Load
    PROVE  CertInv'
<1>1. UNCHANGED <<certStore, pub>>
  BY DEF Load
<1>2. CASE Works /\ pass' = [pass EXCEPT !.at = "source", !.out = {},
                                         !.todo = pass.reqs[pass.mode]]
  <2>1. Shape'
    BY <1>1, <1>2 DEF CertInv, Shape
  <2>2. /\ pass'.at = "source" /\ pass'.mode = pass.mode /\ pass'.reqs = pass.reqs
        /\ pass'.todo = pass.reqs[pass.mode]
    BY <1>2 DEF CertInv, Shape
  <2> QED
    BY <2>1, <2>2 DEF CertInv, InSync, Accounted
<1>3. CASE pass' = Following([pass EXCEPT !.err = TRUE])
  <2>1. Shape' /\ pass'.at \in {"load", "wait"}
    BY <1>1, <1>3, FollowingShape DEF CertInv, Shape
  <2> QED
    BY <2>1, OutsideSync DEF InSync
<1> QED
  BY <1>2, <1>3 DEF Load

\* What Sync returns for names it could not obtain is what the Store has.
LEMMA UnobtainedKeeps ==
    ASSUME CertInv, InSync, NEW names, pass.at = "source" \/ names = pass.req,
           pass' = Unobtained(names), UNCHANGED certStore, Shape'
    PROVE  CertInv'
<1>1. /\ pass'.at = "source" /\ pass'.mode = "acme" /\ pass'.reqs = pass.reqs
      /\ pass'.todo = pass.todo \ {names}
      /\ pass'.out = pass.out \cup Covering(certStore.acme, names)
  BY DEF Unobtained, CertInv, Shape, InSync, Held, CertModes
<1>2. ASSUME NEW n \in pass.reqs["acme"], Covering(certStore.acme, n) # {}
      PROVE  n \in pass'.todo \/ Covering(pass'.out, n) # {}
  <2>1. CASE n = names
    <3>1. Covering(Covering(certStore.acme, n), n) # {}
      BY <1>2 DEF Covering, Covers
    <3> QED
      BY <1>1, <2>1, <3>1, CoveringGrows
  <2>2. CASE n # names
    <3>1. n \in pass.todo \/ Covering(pass.out, n) # {}
      BY <1>2, <2>2 DEF CertInv, Accounted
    <3> QED
      BY <1>1, <2>2, <3>1, CoveringGrows
  <2> QED
    BY <2>1, <2>2
<1> QED
  BY <1>1, <1>2 DEF CertInv, InSync, Accounted

LEMMA AcmeStepKeeps ==
    ASSUME CertInv, AcmeStep
    PROVE  CertInv'
<1>0. InSync
  BY DEF AcmeStep, AcmeKeeps, ObtainFails, ObtainDns, Present, Verify, Validate, CleanUp,
         Save, Due, AcmeAt, InSync
<1>1. ASSUME NEW names \in pass.todo, AcmeKeeps(names)
      PROVE  CertInv'
  <2>1. /\ pass'.at = "source" /\ pass'.mode = "acme" /\ pass'.reqs = pass.reqs
        /\ pass'.todo = pass.todo \ {names} /\ pass'.out = pass.out \cup Kept(names)
        /\ pass.at = "source" /\ Shape' /\ UNCHANGED certStore
    BY <1>1 DEF AcmeKeeps, AcmeAt, CertInv, Shape
  <2>2. Covering(Kept(names), names) # {}
    BY <1>1 DEF AcmeKeeps, Kept, Covering, Covers
  <2>3. ASSUME NEW n \in pass.reqs["acme"], Covering(certStore.acme, n) # {}
        PROVE  n \in pass'.todo \/ Covering(pass'.out, n) # {}
    <3>1. n \in pass.todo \/ Covering(pass.out, n) # {}
      BY <1>0, <2>1, <2>3 DEF CertInv, Accounted
    <3> QED
      BY <2>1, <2>2, <3>1, CoveringGrows
  <2> QED
    BY <2>1, <2>3 DEF CertInv, InSync, Accounted
<1>2. ASSUME NEW names \in pass.todo, ObtainFails(names)
      PROVE  CertInv'
  <2>1. /\ pass' = Unobtained(names) /\ UNCHANGED <<certStore, pub>> /\ pass.at = "source"
    BY <1>2 DEF ObtainFails, Due, AcmeAt
  <2>2. Shape'
    BY <2>1 DEF CertInv, Shape, Unobtained
  <2> QED
    BY <1>0, <2>1, <2>2, UnobtainedKeeps
<1>3. ASSUME NEW names \in pass.todo, ObtainDns(names)
      PROVE  CertInv'
  <2>1. /\ pass.at = "source" /\ pass'.mode = pass.mode /\ pass'.reqs = pass.reqs
        /\ pass'.todo = pass.todo /\ pass'.out = pass.out /\ pass'.at = "save"
        /\ Shape' /\ UNCHANGED certStore
    BY <1>3 DEF ObtainDns, Due, AcmeAt, CertInv, Shape
  <2> QED
    BY <1>0, <2>1 DEF CertInv, InSync, Accounted
<1>4. ASSUME NEW names \in pass.todo, Present(names)
      PROVE  CertInv'
  <2>1. /\ pass.at = "source" /\ pass'.mode = pass.mode /\ pass'.reqs = pass.reqs
        /\ pass'.todo = pass.todo /\ pass'.out = pass.out
        /\ pass'.at \in {"verify", "cleanup"} /\ UNCHANGED certStore
    BY <1>4 DEF Present, Due, AcmeAt, CertInv, Shape
  <2>2. Shape'
    <3>1. PICK ok \in BOOLEAN : write([pub EXCEPT !.challenges = @ \cup names], ok)
      BY <1>4 DEF Present
    <3>2. /\ pub' = [by |-> pub'.by, challenges |-> pub'.challenges,
                      auth |-> pub'.auth, last |-> pub'.last]
          /\ pub'.by = pub.by
      BY <3>1, WriteShape DEF CertInv, Shape
    <3> QED
      BY <1>4, <2>1, <3>2 DEF Present, CertInv, Shape
  <2> QED
    BY <1>0, <2>1, <2>2 DEF CertInv, InSync, Accounted
<1>5. ASSUME Verify \/ Validate
      PROVE  CertInv'
  <2>1. /\ pass'.mode = pass.mode /\ pass'.reqs = pass.reqs /\ pass'.req = pass.req
        /\ pass'.todo = pass.todo /\ pass'.out = pass.out
        /\ pass.at # "source" /\ pass'.at \in {"validate", "cleanup"}
        /\ Shape' /\ UNCHANGED certStore
    BY <1>5 DEF Verify, Validate, AcmeAt, CertInv, Shape
  <2> QED
    BY <1>0, <2>1 DEF CertInv, InSync, Accounted
<1>6. ASSUME CleanUp
      PROVE  CertInv'
  <2>1. UNCHANGED certStore /\ pass.at = "cleanup"
    BY <1>6 DEF CleanUp, AcmeAt
  <2>2. PICK ok \in BOOLEAN : write([pub EXCEPT !.challenges = @ \ pass.req], ok)
    BY <1>6 DEF CleanUp
  <2>3. /\ pub' = [by |-> pub'.by, challenges |-> pub'.challenges,
                    auth |-> pub'.auth, last |-> pub'.last]
        /\ pub'.by = pub.by
    BY <2>2, WriteShape DEF CertInv, Shape
  <2>4. CASE pass.got
    <3>1. /\ pass'.mode = pass.mode /\ pass'.reqs = pass.reqs /\ pass'.req = pass.req
          /\ pass'.todo = pass.todo /\ pass'.out = pass.out /\ pass'.at = "save"
      BY <1>6, <2>4 DEF CleanUp, CertInv, Shape
    <3>2. Shape'
      BY <1>6, <2>1, <2>3, <2>4 DEF CleanUp, CertInv, Shape
    <3> QED
      BY <1>0, <2>1, <3>1, <3>2 DEF CertInv, InSync, Accounted
  <2>5. CASE ~pass.got
    <3>1. pass' = Unobtained(pass.req)
      BY <1>6, <2>5 DEF CleanUp
    <3>2. Shape'
      BY <2>1, <2>3, <3>1 DEF Unobtained, CertInv, Shape
    <3> QED
      BY <1>0, <2>1, <3>1, <3>2, UnobtainedKeeps
  <2> QED
    BY <2>4, <2>5
<1>7. ASSUME Save
      PROVE  CertInv'
  <2> DEFINE issued == [names |-> pass.req, from |-> certNow]
  <2>1. /\ pass.at = "save" /\ pass'.at = "source" /\ pass'.mode = "acme"
        /\ pass'.reqs = pass.reqs /\ pass'.todo = pass.todo \ {pass.req}
        /\ pass'.out = pass.out \cup {issued} /\ UNCHANGED pub
    BY <1>7 DEF Save, AcmeAt, CertInv, Shape
  <2>2. /\ certStore'.acme \in {certStore.acme, Stored(certStore.acme, issued)} /\ Shape'
    BY <1>7, <2>1 DEF Save, CertInv, Shape
  <2>3. ASSUME NEW n \in pass.reqs["acme"], Covering(certStore'.acme, n) # {}
        PROVE  n \in pass'.todo \/ Covering(pass'.out, n) # {}
    <3>1. CASE n = pass.req
      <4>1. issued.names = n
        BY <3>1
      <4> HIDE DEF issued
      <4>2. Covering({issued}, n) # {}
        BY <4>1 DEF Covering, Covers
      <4> QED
        BY <2>1, <4>2, CoveringGrows
    <3>2. CASE n # pass.req
      <4>1. Covering(certStore.acme, n) # {}
        <5>1. issued.names = pass.req
          OBVIOUS
        <5> HIDE DEF issued
        <5>2. CASE certStore'.acme = Stored(certStore.acme, issued)
          <6>1. Covering(Stored(certStore.acme, issued), n) # {}
            BY <2>3, <5>2
          <6>2. n # issued.names
            BY <3>2, <5>1
          <6> QED
            BY <6>1, <6>2, StoredKeepsOthers
        <5>3. CASE certStore'.acme = certStore.acme
          BY <2>3, <5>3
        <5> QED
          BY <2>2, <5>2, <5>3
      <4>2. n \in pass.todo \/ Covering(pass.out, n) # {}
        BY <1>0, <2>3, <3>2, <4>1 DEF CertInv, Accounted
      <4> HIDE DEF issued
      <4> QED
        BY <2>1, <3>2, <4>2, CoveringGrows
    <3> QED
      BY <3>1, <3>2
  <2> QED
    BY <2>1, <2>2, <2>3 DEF CertInv, InSync, Accounted
<1> QED
  BY <1>1, <1>2, <1>3, <1>4, <1>5, <1>6, <1>7 DEF AcmeStep

\* The other two sources are not Sync.
LEMMA OtherSourcesKeep ==
    ASSUME CertInv, ProvidedEnsure \/ (\E names \in pass.todo : SelfSignedEnsure(names))
    PROVE  CertInv'
<1>1. CASE ProvidedEnsure
  <2>1. pass'.mode = "provided" /\ pass'.at = "publish" /\ Shape'
    BY <1>1 DEF ProvidedEnsure, CertInv, Shape
  <2> QED
    BY <2>1 DEF CertInv, InSync
<1>2. ASSUME NEW names \in pass.todo, SelfSignedEnsure(names)
      PROVE  CertInv'
  <2>1. pass'.mode = "self-signed" /\ pass'.at = "source" /\ Shape'
    <3>1. CASE Kept(names) # {}
      BY <1>2, <3>1 DEF SelfSignedEnsure, CertInv, Shape
    <3>2. CASE Kept(names) = {}
      BY <1>2, <3>2 DEF SelfSignedEnsure, CertInv, Shape
    <3> QED
      BY <3>1, <3>2
  <2> QED
    BY <2>1 DEF CertInv, InSync
<1> QED
  BY <1>1, <1>2

LEMMA PublishKeeps ==
    ASSUME CertInv, Publish
    PROVE  CertInv'
<1>1. PICK ok \in BOOLEAN : /\ write([pub EXCEPT !.by[pass.mode] = pass.out], ok)
                            /\ pass' = IF ok THEN Following(pass) ELSE Waiting(TRUE)
  BY DEF Publish
<1> DEFINE p == [pub EXCEPT !.by[pass.mode] = pass.out]
<1>2. /\ p = [by |-> p.by, challenges |-> p.challenges, auth |-> p.auth, last |-> p.last]
      /\ p.by = [m \in CertModes |-> p.by[m]]
  BY DEF CertInv, Shape
<1>3. /\ pub' = [by |-> pub'.by, challenges |-> pub'.challenges,
                  auth |-> pub'.auth, last |-> pub'.last]
      /\ pub'.by = p.by
  <2> HIDE DEF p
  <2>1. write(p, ok)
    BY <1>1 DEF p
  <2> QED
    BY <1>2, <2>1, WriteShape
<1>4. pass' \in {Following(pass), Waiting(TRUE)} /\ UNCHANGED certStore
  BY <1>1 DEF Publish
<1> HIDE DEF p
<1>5. /\ pass' = [at |-> pass'.at, first |-> pass'.first, next |-> pass'.next,
               mode |-> pass'.mode, reqs |-> pass'.reqs, todo |-> pass'.todo,
               out |-> pass'.out, req |-> pass'.req, got |-> pass'.got, err |-> pass'.err]
      /\ pass'.at \in {"load", "wait"}
  BY <1>4, FollowingShape DEF CertInv
<1>6. pub'.by = [m \in CertModes |-> pub'.by[m]]
  BY <1>2, <1>3
<1>7. certStore' = [acme |-> certStore'.acme, own |-> certStore'.own, ca |-> certStore'.ca]
  BY <1>4 DEF CertInv, Shape
<1>8. Shape'
  BY <1>3, <1>5, <1>6, <1>7 DEF Shape
<1> QED
  BY <1>5, <1>8, OutsideSync DEF InSync

LEMMA SurroundingsKeep ==
    ASSUME CertInv,
           \/ SetAuth \/ EdgeLoads \/ RingRestarts \/ Rewrite \/ CertTick
           \/ \E s \in Sites : Declare(s)
    PROVE  CertInv' /\ pub'.by = pub.by
<1>1. UNCHANGED <<pass, certStore>>
  BY DEF SetAuth, EdgeLoads, RingRestarts, Rewrite, CertTick, Declare
<1>2. CASE SetAuth
  <2>1. PICK ok \in BOOLEAN : write([pub EXCEPT !.auth = TRUE], ok)
    BY <1>2 DEF SetAuth
  <2>2. /\ pub' = [by |-> pub'.by, challenges |-> pub'.challenges,
                    auth |-> pub'.auth, last |-> pub'.last]
        /\ pub'.by = pub.by
    BY <2>1, WriteShape DEF CertInv, Shape
  <2>3. Shape'
    BY <1>1, <2>2 DEF CertInv, Shape
  <2> QED
    BY <1>1, <2>2, <2>3, OthersKeep
<1>3. CASE ~SetAuth
  <2>1. UNCHANGED pub
    BY <1>3 DEF EdgeLoads, RingRestarts, Rewrite, CertTick, Declare
  <2>2. Shape'
    BY <1>1, <2>1 DEF CertInv, Shape
  <2> QED
    BY <1>1, <2>1, <2>2, OthersKeep
<1> QED
  BY <1>2, <1>3

LEMMA RestartKeeps ==
    ASSUME CertInv, CertRestarts
    PROVE  CertInv' /\ pass'.at = "boot"
<1>1. pass'.at = "boot" /\ Shape'
  BY DEF CertRestarts, CertInv, Shape, Pass0, NoRequests
<1> QED
  BY <1>1, OutsideSync DEF InSync

LEMMA CertStepKeeps == CertInv /\ [CertNext]_certVars => CertInv'
<1> SUFFICES ASSUME CertInv, [CertNext]_certVars
             PROVE  CertInv'
  OBVIOUS
<1>1. CASE UNCHANGED certVars
  <2>1. UNCHANGED <<pass, certStore, pub>>
    BY <1>1 DEF certVars
  <2>2. Shape'
    BY <2>1 DEF CertInv, Shape
  <2> QED
    BY <2>1, <2>2, OthersKeep
<1>2. CASE CertLoop
  BY <1>2, PassBeginsKeeps, LoadKeeps, AcmeStepKeeps, OtherSourcesKeep, PublishKeeps
     DEF CertLoop
<1> QED
  BY <1>1, <1>2, SurroundingsKeep, RestartKeeps DEF CertNext

\* One step: what is published for names that are requested and stored stays,
\* because a publish of this source comes at the end of Sync.
LEMMA PublishedStays ==
    ASSUME CertInv, [CertNext]_certVars, NEW c \in pub.by["acme"],
           c.names \in pass.reqs["acme"], Covering(certStore.acme, c.names) # {},
           pass'.at # "boot"
    PROVE  Covering(pub'.by["acme"], c.names) # {}
<1>1. CASE pub'.by = pub.by
  BY <1>1 DEF Covering, Covers
<1>2. CASE Publish
  <2>1. pub'.by["acme"] = IF pass.mode = "acme" THEN pass.out ELSE pub.by["acme"]
    <3>1. PICK ok \in BOOLEAN : write([pub EXCEPT !.by[pass.mode] = pass.out], ok)
      BY <1>2 DEF Publish
    <3> DEFINE p == [pub EXCEPT !.by[pass.mode] = pass.out]
    <3>2. /\ p = [by |-> p.by, challenges |-> p.challenges, auth |-> p.auth, last |-> p.last]
          /\ p.by["acme"] = IF pass.mode = "acme" THEN pass.out ELSE pub.by["acme"]
      BY DEF CertInv, Shape, CertModes
    <3> HIDE DEF p
    <3>3. write(p, ok)
      BY <3>1 DEF p
    <3> QED
      BY <3>2, <3>3, WriteShape
  <2>2. CASE pass.mode = "acme"
    <3>1. pass.at = "source" /\ pass.todo = {}
      BY <1>2, <2>2 DEF Publish, CertInv
    <3>2. InSync
      BY <2>2, <3>1 DEF InSync
    <3>3. Covering(pass.out, c.names) # {}
      BY <3>1, <3>2 DEF CertInv, Accounted
    <3> QED
      BY <2>1, <2>2, <3>3
  <2>3. CASE pass.mode # "acme"
    BY <2>1, <2>3 DEF Covering, Covers
  <2> QED
    BY <2>2, <2>3
<1>3. ASSUME NEW names \in pass.todo, Present(names)
      PROVE  pub'.by = pub.by
  <2>1. PICK ok \in BOOLEAN : write([pub EXCEPT !.challenges = @ \cup names], ok)
    BY <1>3 DEF Present
  <2> QED
    BY <2>1, WriteShape DEF CertInv, Shape
<1>4. ASSUME CleanUp
      PROVE  pub'.by = pub.by
  <2>1. PICK ok \in BOOLEAN : write([pub EXCEPT !.challenges = @ \ pass.req], ok)
    BY <1>4 DEF CleanUp
  <2> QED
    BY <2>1, WriteShape DEF CertInv, Shape
<1>5. CASE AcmeStep
  <2>1. UNCHANGED pub \/ CleanUp \/ \E names \in pass.todo : Present(names)
    BY <1>5 DEF AcmeStep, AcmeKeeps, ObtainFails, ObtainDns, Verify, Validate, Save
  <2> QED
    BY <1>1, <1>3, <1>4, <2>1
<1>6. CASE PassBegins \/ Load \/ ProvidedEnsure \/ \E names \in pass.todo : SelfSignedEnsure(names)
  <2>1. UNCHANGED pub
    BY <1>6 DEF PassBegins, Load, ProvidedEnsure, SelfSignedEnsure
  <2> QED
    BY <1>1, <2>1
<1>7. CASE UNCHANGED certVars
  BY <1>1, <1>7 DEF certVars
<1> QED
  BY <1>1, <1>2, <1>5, <1>6, <1>7, SurroundingsKeep, RestartKeeps DEF CertNext, CertLoop

\* Every behaviour has WorkingKept: a name that is requested of the CA and has a
\* certificate in the Store is never left without one by a pass (Sync,
\* syncCertificates), for every set of routes and every pattern of failures.
THEOREM WorkingStays == CertSpec => WorkingKept
<1>1. CertInv /\ [CertNext]_certVars =>
        [\A c \in pub.by["acme"] :
           (c.names \in pass.reqs["acme"] /\ Covering(certStore.acme, c.names) # {}
              /\ pass'.at # "boot")
               => Covering(pub'.by["acme"], c.names) # {}]_certVars
  BY PublishedStays
<1> QED
  BY CertInvHolds, CertStepKeeps, <1>1, PTL DEF CertSpec, WorkingKept

-----------------------------------------------------------------------------
(* The pipeline.                                                           *)

USE DEF RunIds, Syncers

WorkerSteps == {"idle", "taken", "checkout", "deploy", "finish"}
Executing == {"checkout", "deploy", "finish"}

SyncerTypes ==
  /\ DOMAIN syncer = Syncers
  /\ \A a \in Syncers :
       {"pc", "made", "todo"} \subseteq DOMAIN syncer[a] /\ syncer[a].made \in Nat

RunTypes ==
  /\ DOMAIN runs = RunIds
  /\ \A r \in RunIds : /\ {"state", "svc", "deploy"} \subseteq DOMAIN runs[r]
                       /\ runs[r].state \in Lifecycle!States
                       /\ runs[r].svc \in Services

PipeTypes ==
  /\ life \in {"up", "stopping", "down"}
  /\ head \in Nat
  /\ RunTypes
  /\ queue \in Seq(RunIds)
  /\ worker \in [pc : WorkerSteps, run : Nat, commit : Nat]
  /\ SyncerTypes
  /\ newest \in [Services -> Nat]

\* Run r waits in the channel q, and in q every run waits once.
Waits(q, r) == \E i \in 1..Len(q) : q[i] = r
Distinct(q) == \A i, j \in 1..Len(q) : q[i] = q[j] => i = j

\* A submitter holds the record it has created, alone.
MadeInv ==
  \A a \in Syncers :
    syncer[a].made # 0 =>
      /\ syncer[a].pc = "submit"
      /\ syncer[a].made \in RunIds
      /\ runs[syncer[a].made].state = "queued"
      /\ ~Waits(queue, syncer[a].made)
      /\ \A b \in Syncers : b # a => syncer[b].made # syncer[a].made

QueueInv ==
  /\ Distinct(queue)
  /\ \A r \in RunIds : Waits(queue, r) => runs[r].state = "queued"

\* The worker's run is queued until it starts, and in nobody else's hands.
WorkerInv ==
  /\ worker.pc = "taken" =>
       /\ worker.run \in RunIds
       /\ runs[worker.run].state = "queued"
       /\ ~Waits(queue, worker.run)
       /\ \A a \in Syncers : syncer[a].made # worker.run
  /\ worker.pc \in Executing =>
       worker.run \in RunIds /\ runs[worker.run].state = "running"

\* Only the worker's run is running, but for what a stop has left behind; in
\* a process that is gone nobody holds anything.
LifeInv ==
  /\ life = "up" =>
       \A r \in RunIds :
         runs[r].state = "running" => worker.pc \in Executing /\ worker.run = r
  /\ life = "down" =>
       /\ queue = <<>> /\ worker.pc = "idle"
       /\ \A a \in Syncers : syncer[a].made = 0

\* What was released is no newer than the remote, nor than what is deployed next.
CommitInv ==
  \A s \in Services :
    /\ newest[s] <= head
    /\ worker.pc = "deploy" => newest[s] <= worker.commit /\ worker.commit <= head

PipeInv ==
  /\ PipeTypes /\ MadeInv /\ QueueInv /\ WorkerInv /\ LifeInv /\ CommitInv
  /\ RunsHeld

LifecycleStep == [Lifecycle!Next]_(Lifecycle!vars)

-----------------------------------------------------------------------------
(* The channel.                                                            *)

LEMMA AppendWaits ==
  ASSUME NEW q \in Seq(RunIds), NEW x \in RunIds
  PROVE  /\ Append(q, x) \in Seq(RunIds)
         /\ \A r : Waits(Append(q, x), r) <=> Waits(q, r) \/ r = x
         /\ Distinct(q) /\ ~Waits(q, x) => Distinct(Append(q, x))
<1>1. /\ Append(q, x) \in Seq(RunIds)
      /\ Len(Append(q, x)) = Len(q) + 1
      /\ \A i \in 1..Len(q) : Append(q, x)[i] = q[i]
      /\ Append(q, x)[Len(q) + 1] = x
      /\ Len(q) \in Nat
  BY AppendProperties, LenProperties
<1> QED
  BY <1>1 DEF Waits, Distinct

LEMMA TailWaits ==
  ASSUME NEW q \in Seq(RunIds), q # <<>>
  PROVE  /\ Head(q) \in RunIds /\ Tail(q) \in Seq(RunIds)
         /\ Waits(q, Head(q))
         /\ Distinct(q) =>
              /\ Distinct(Tail(q))
              /\ \A r : Waits(Tail(q), r) <=> Waits(q, r) /\ r # Head(q)
<1>1. /\ Head(q) = q[1] /\ Len(q) \in Nat /\ Len(q) >= 1
      /\ Head(q) \in RunIds /\ Tail(q) \in Seq(RunIds)
      /\ Len(Tail(q)) = Len(q) - 1
      /\ \A i \in 1..Len(Tail(q)) : Tail(q)[i] = q[i + 1]
  <2>1. /\ Head(q) \in RunIds /\ Tail(q) \in Seq(RunIds)
        /\ Len(Tail(q)) = Len(q) - 1
        /\ \A i \in 1..Len(Tail(q)) : Tail(q)[i] = q[i + 1]
    BY HeadTailProperties
  <2>2. Len(q) \in Nat /\ Len(q) # 0
    BY LenProperties, EmptySeq
  <2> QED
    BY <2>1, <2>2
<1>2. Waits(q, Head(q))
  BY <1>1 DEF Waits
<1>3. ASSUME Distinct(q)
      PROVE  Distinct(Tail(q))
  <2>1. \A i \in 1..Len(Tail(q)) : i + 1 \in 1..Len(q)
    BY <1>1
  <2> QED
    BY <1>1, <1>3, <2>1 DEF Distinct
<1>4. ASSUME Distinct(q), NEW r
      PROVE  Waits(Tail(q), r) <=> Waits(q, r) /\ r # Head(q)
  <2>1. ASSUME Waits(Tail(q), r)
        PROVE  Waits(q, r) /\ r # Head(q)
    <3>1. PICK i \in 1..Len(Tail(q)) : Tail(q)[i] = r
      BY <2>1 DEF Waits
    <3>2. i + 1 \in 1..Len(q) /\ q[i + 1] = r /\ i + 1 # 1 /\ 1 \in 1..Len(q)
      BY <1>1, <3>1
    <3> QED
      BY <1>1, <1>4, <3>2 DEF Waits, Distinct
  <2>2. ASSUME Waits(q, r), r # Head(q)
        PROVE  Waits(Tail(q), r)
    <3>1. PICK i \in 1..Len(q) : q[i] = r
      BY <2>2 DEF Waits
    <3>2. i - 1 \in 1..Len(Tail(q)) /\ Tail(q)[i - 1] = r
      BY <1>1, <2>2, <3>1
    <3> QED
      BY <3>2 DEF Waits
  <2> QED
    BY <2>1, <2>2
<1> QED
  BY <1>1, <1>2, <1>3, <1>4

LEMMA NobodyWaits == \A r : ~Waits(<<>>, r) /\ Distinct(<<>>) /\ <<>> \in Seq(RunIds)
  BY DEF Waits, Distinct

-----------------------------------------------------------------------------
(* The records, as RunLifecycle sees them.                                 *)

\* One record's move is the same move of the abstract state.
LEMMA OneMoves ==
  ASSUME RunTypes, NEW r \in RunIds, NEW to \in Lifecycle!States,
         runs' = [runs EXCEPT ![r].state = to]
  PROVE  /\ RunTypes'
         /\ runs'[r].state = to
         /\ \A q \in RunIds : q # r => runs'[q] = runs[q]
         /\ [q \in RunIds |-> runs'[q].state]
              = [q \in RunIds |-> IF q \in {r} THEN to
                                  ELSE [p \in RunIds |-> runs[p].state][q]]
<1>1. /\ runs'[r] = [runs[r] EXCEPT !.state = to]
      /\ \A q \in RunIds : q # r => runs'[q] = runs[q]
      /\ DOMAIN runs' = RunIds
  BY DEF RunTypes
<1>2. /\ runs'[r].state = to /\ runs'[r].svc = runs[r].svc
      /\ DOMAIN runs'[r] = DOMAIN runs[r]
  BY <1>1 DEF RunTypes
<1>3. RunTypes'
  BY <1>1, <1>2 DEF RunTypes
<1>4. \A q \in RunIds : runs'[q].state = IF q \in {r} THEN to ELSE runs[q].state
  BY <1>1, <1>2
<1> QED
  BY <1>1, <1>2, <1>3, <1>4

LEMMA RecordsStill ==
  ASSUME UNCHANGED <<runs, newest>>
  PROVE  LifecycleStep
  BY DEF LifecycleStep, Lifecycle!vars

\* A record that moves as runs do is a step of RunLifecycle.
LEMMA AbstractMove ==
  ASSUME NEW r \in RunIds, NEW to, UNCHANGED newest,
         [q \in RunIds |-> runs'[q].state]
           = [q \in RunIds |-> IF q \in {r} THEN to
                               ELSE [p \in RunIds |-> runs[p].state][q]],
         \/ runs[r].state = "none" /\ to = "queued"
         \/ /\ runs[r].state = "queued" /\ to = "running"
            /\ \A q \in RunIds : runs[q].state # "running"
         \/ runs[r].state = "running" /\ to = "succeeded"
         \/ runs[r].state \in {"queued", "running"} /\ to = "failed"
         \/ runs[r].state = "queued" /\ to = "cancelled"
  PROVE  LifecycleStep
<1>1. CASE runs[r].state = "none" /\ to = "queued"
  <2>1. Lifecycle!Submit(r)
    BY <1>1 DEF Lifecycle!Submit, Lifecycle!Move
  <2> QED
    BY <2>1 DEF LifecycleStep, Lifecycle!Next
<1>2. CASE /\ runs[r].state = "queued" /\ to = "running"
           /\ \A q \in RunIds : runs[q].state # "running"
  <2>1. Lifecycle!Start(r)
    BY <1>2 DEF Lifecycle!Start, Lifecycle!Move
  <2> QED
    BY <2>1 DEF LifecycleStep, Lifecycle!Next
<1>3. CASE runs[r].state = "running" /\ to = "succeeded"
  <2>1. Lifecycle!Succeed(r)
    BY <1>3 DEF Lifecycle!Succeed, Lifecycle!Move
  <2> QED
    BY <2>1 DEF LifecycleStep, Lifecycle!Next
<1>4. CASE runs[r].state \in {"queued", "running"} /\ to = "failed"
  <2>1. Lifecycle!Fail(r)
    BY <1>4 DEF Lifecycle!Fail, Lifecycle!Move
  <2> QED
    BY <2>1 DEF LifecycleStep, Lifecycle!Next
<1>5. CASE runs[r].state = "queued" /\ to = "cancelled"
  <2>1. Lifecycle!Cancel(r)
    BY <1>5 DEF Lifecycle!Cancel, Lifecycle!Move
  <2> QED
    BY <2>1 DEF LifecycleStep, Lifecycle!Next
<1> QED
  BY <1>1, <1>2, <1>3, <1>4, <1>5

LEMMA AbstractInit == PipeInit => Lifecycle!Init
  BY DEF PipeInit, NoRun, Lifecycle!Init

LEMMA PipeInvInit == PipeInit => PipeInv
<1> SUFFICES ASSUME PipeInit
             PROVE  PipeInv
  OBVIOUS
<1>1. PipeTypes
  <2>1. NoRun.state \in Lifecycle!States /\ NoRun.svc \in Services
    BY PipelineAssumption DEF NoRun, Lifecycle!States
  <2>2. Resting \in [pc : WorkerSteps, run : Nat, commit : Nat]
    BY DEF Resting, WorkerSteps
  <2>3. SyncerTypes
    BY DEF SyncerTypes, PipeInit, Idle
  <2>4. RunTypes
    BY <2>1 DEF PipeInit, RunTypes, NoRun
  <2> QED
    BY <2>1, <2>2, <2>3, <2>4, NobodyWaits DEF PipeInit, PipeTypes
<1>2. MadeInv /\ WorkerInv /\ CommitInv
  BY DEF PipeInit, MadeInv, WorkerInv, CommitInv, Idle, Resting, Executing
<1>3. QueueInv /\ LifeInv /\ RunsHeld
  BY NobodyWaits DEF PipeInit, QueueInv, LifeInv, RunsHeld, NoRun
<1> QED
  BY <1>1, <1>2, <1>3 DEF PipeInv

-----------------------------------------------------------------------------
(* Syncs, triggers and the operator leave records, channel and worker alone. *)

Bystander ==
  \/ Push \/ DeleteProject
  \/ \E a \in Syncers : SyncFetch(a) \/ SyncApply(a) \/ SyncRecord(a) \/ SubmitDone(a)
                        \/ SyncAbort(a)
  \/ \E s \in Services, d \in BOOLEAN : Trigger(s, d)
  \/ \E held \in BOOLEAN : EditProject(held)

LEMMA BystanderKeeps ==
  ASSUME PipeInv, Bystander
  PROVE  PipeInv' /\ LifecycleStep
<1>1. UNCHANGED <<life, runs, queue, worker, newest, stranded>>
  BY DEF Bystander, Push, DeleteProject, SyncFetch, SyncApply, SyncRecord, SubmitDone,
         SyncAbort, Trigger, EditProject
<1>2. head' \in Nat /\ head <= head'
  <2>1. CASE Push
    BY <2>1 DEF Push, PipeInv, PipeTypes
  <2>2. CASE UNCHANGED head
    BY <2>2 DEF PipeInv, PipeTypes
  <2> QED
    BY <2>1, <2>2 DEF Bystander, DeleteProject, SyncFetch, SyncApply, SyncRecord,
       SubmitDone, SyncAbort, Trigger, EditProject
<1>3. /\ SyncerTypes'
      /\ \A a \in Syncers :
           /\ syncer'[a].made = syncer[a].made
           /\ syncer[a].made # 0 => syncer'[a].pc = "submit"
  <2>0. \A a \in Syncers : syncer[a].made # 0 => syncer[a].pc = "submit"
    BY DEF PipeInv, MadeInv
  <2>1. CASE UNCHANGED syncer
    BY <2>0, <2>1 DEF PipeInv, PipeTypes, SyncerTypes
  <2>2. ASSUME NEW a \in Syncers, SyncFetch(a)
        PROVE  <1>3!1 /\ <1>3!2
    <3>1. syncer' = [syncer EXCEPT ![a] = [Idle EXCEPT !.pc = "apply",
                       !.held = project.held, !.commit = head]]
      BY <2>2 DEF SyncFetch, PipeInv, PipeTypes, SyncerTypes
    <3>2. syncer[a].made = 0
      BY <2>0, <2>2 DEF SyncFetch
    <3> QED
      BY <2>0, <3>1, <3>2 DEF PipeInv, PipeTypes, SyncerTypes, Idle
  <2>3. ASSUME NEW a \in Syncers, SyncApply(a)
        PROVE  <1>3!1 /\ <1>3!2
    <3>1. syncer' = [syncer EXCEPT ![a] = [syncer[a] EXCEPT !.pc = "record"]]
      BY <2>3 DEF SyncApply, PipeInv, PipeTypes, SyncerTypes
    <3>2. syncer[a].made = 0
      BY <2>0, <2>3 DEF SyncApply
    <3> QED
      BY <2>0, <3>1, <3>2 DEF PipeInv, PipeTypes, SyncerTypes, Idle
  <2>4. ASSUME NEW a \in Syncers, SyncRecord(a)
        PROVE  <1>3!1 /\ <1>3!2
    <3>1. CASE StillThere(a)
      <4>1. syncer' = [syncer EXCEPT ![a] = [syncer[a] EXCEPT !.pc = "submit", !.todo = Services]]
        BY <2>4, <3>1 DEF SyncRecord, PipeInv, PipeTypes, SyncerTypes
      <4> QED
        BY <2>0, <4>1 DEF PipeInv, PipeTypes, SyncerTypes, Idle
    <3>2. CASE ~StillThere(a)
      <4>1. syncer[a].made = 0 /\ syncer' = [syncer EXCEPT ![a] = Idle]
        BY <2>0, <2>4, <3>2 DEF SyncRecord
      <4> QED
        BY <2>0, <4>1 DEF PipeInv, PipeTypes, SyncerTypes, Idle
    <3> QED
      BY <3>1, <3>2
  <2>5. ASSUME NEW a \in Syncers, SubmitDone(a)
        PROVE  <1>3!1 /\ <1>3!2
    BY <2>5 DEF SubmitDone, PipeInv, PipeTypes, SyncerTypes, MadeInv, Idle
  <2>6. ASSUME NEW a \in Syncers, SyncAbort(a)
        PROVE  <1>3!1 /\ <1>3!2
    BY <2>6 DEF SyncAbort, PipeInv, PipeTypes, SyncerTypes, MadeInv, Idle
  <2>7. ASSUME NEW s \in Services, NEW d \in BOOLEAN, Trigger(s, d)
        PROVE  <1>3!1 /\ <1>3!2
    <3>1. syncer' = [syncer EXCEPT !["api"] = [Idle EXCEPT !.pc = "submit",
                       !.todo = {s}, !.deploy = d]]
      BY <2>7 DEF Trigger
    <3>2. syncer["api"].made = 0
      BY <2>0, <2>7 DEF Trigger
    <3> QED
      BY <2>0, <3>1, <3>2 DEF PipeInv, PipeTypes, SyncerTypes, Idle
  <2> QED
    BY <2>1, <2>2, <2>3, <2>4, <2>5, <2>6, <2>7
       DEF Bystander, Push, DeleteProject, EditProject
<1>5. PipeTypes'
  BY <1>1, <1>2, <1>3 DEF PipeInv, PipeTypes, RunTypes
<1>6. MadeInv'
  BY <1>1, <1>3 DEF PipeInv, MadeInv
<1>7. QueueInv' /\ WorkerInv' /\ LifeInv'
  BY <1>1, <1>3 DEF PipeInv, QueueInv, WorkerInv, LifeInv
<1>8. CommitInv'
  BY <1>1, <1>2, <1>5 DEF PipeInv, PipeTypes, CommitInv
<1>9. RunsHeld'
  BY <1>1, <1>3 DEF PipeInv, RunsHeld
<1> QED
  BY <1>1, <1>5, <1>6, <1>7, <1>8, <1>9, RecordsStill DEF PipeInv

-----------------------------------------------------------------------------
(* Queue.Submit.                                                           *)

LEMMA CreateRunKeeps ==
  ASSUME PipeInv, NEW a \in Syncers, NEW s \in Services, CreateRun(a, s)
  PROVE  PipeInv' /\ LifecycleStep
<1>1. PICK r \in RunIds :
        /\ runs[r].state = "none"
        /\ runs' = [runs EXCEPT ![r] = [state |-> "queued", svc |-> s,
                                        deploy |-> syncer[a].deploy]]
        /\ syncer' = [syncer EXCEPT ![a] = [syncer[a] EXCEPT
                        !.made = r, !.todo = syncer[a].todo \ {s}]]
  BY DEF CreateRun
<1>2. UNCHANGED <<life, head, queue, worker, newest, stranded>> /\ life = "up"
  BY DEF CreateRun
<1>3. /\ RunTypes' /\ runs'[r].state = "queued"
      /\ \A q \in RunIds : q # r => runs'[q] = runs[q]
  BY <1>1 DEF PipeInv, PipeTypes, RunTypes, Lifecycle!States
<1>4. [q \in RunIds |-> runs'[q].state]
        = [q \in RunIds |-> IF q \in {r} THEN "queued"
                            ELSE [p \in RunIds |-> runs[p].state][q]]
  BY <1>3
<1>5. LifecycleStep
  BY <1>1, <1>2, <1>4, AbstractMove
<1>6. /\ SyncerTypes' /\ syncer'[a].made = r /\ syncer'[a].pc = "submit"
      /\ \A b \in Syncers : b # a => syncer'[b] = syncer[b]
      /\ r \in Nat /\ r # 0
  <2>1. syncer[a].pc = "submit" /\ r \in Nat /\ r # 0
    BY PipelineAssumption DEF CreateRun
  <2> QED
    BY <1>1, <2>1 DEF PipeInv, PipeTypes, SyncerTypes
<1>7. \A b \in Syncers : syncer[b].made # r
  BY <1>1, <1>6 DEF PipeInv, MadeInv
<1>8. ~Waits(queue, r)
  BY <1>1 DEF PipeInv, QueueInv
<1>9. PipeTypes'
  BY <1>2, <1>3, <1>6 DEF PipeInv, PipeTypes
<1>10. MadeInv'
  BY <1>2, <1>3, <1>6, <1>7, <1>8 DEF PipeInv, MadeInv
<1>11. QueueInv' /\ WorkerInv'
  <2>1. QueueInv'
    BY <1>2, <1>3, <1>8 DEF PipeInv, QueueInv
  <2>2. /\ worker.pc = "taken" => worker.run # r
        /\ worker.pc \in Executing => worker.run # r
    BY <1>1 DEF PipeInv, WorkerInv
  <2>3. worker.pc = "taken" => \A b \in Syncers : syncer'[b].made # worker.run
    BY <1>6, <2>2 DEF PipeInv, WorkerInv
  <2>4. WorkerInv'
    BY <1>2, <1>3, <2>2, <2>3 DEF PipeInv, WorkerInv
  <2> QED
    BY <2>1, <2>4
<1>12. LifeInv' /\ CommitInv'
  BY <1>2, <1>3, <1>6 DEF PipeInv, LifeInv, CommitInv
<1>13. RunsHeld'
  <2>1. ASSUME NEW q \in RunIds, q # r, runs'[q].state \in {"queued", "running"}
        PROVE  \/ \E i \in 1..Len(queue') : queue'[i] = q
               \/ worker'.pc # "idle" /\ worker'.run = q
               \/ \E b \in Syncers : syncer'[b].made = q
               \/ q \in stranded'
    <3>1. syncer[a].made = 0 /\ q # 0
      BY PipelineAssumption DEF CreateRun
    <3> QED
      BY <1>2, <1>3, <1>6, <2>1, <3>1 DEF PipeInv, RunsHeld
  <2> QED
    BY <1>6, <2>1 DEF RunsHeld
<1> QED
  BY <1>5, <1>9, <1>10, <1>11, <1>12, <1>13 DEF PipeInv

LEMMA EnqueueKeeps ==
  ASSUME PipeInv, NEW a \in Syncers, Enqueue(a)
  PROVE  PipeInv' /\ LifecycleStep
<1> DEFINE r == syncer[a].made
<1>1. /\ r # 0 /\ r \in RunIds /\ runs[r].state = "queued" /\ ~Waits(queue, r)
      /\ \A b \in Syncers : b # a => syncer[b].made # r
  BY DEF Enqueue, PipeInv, MadeInv
<1>2. UNCHANGED <<life, head, worker, newest>> /\ life # "down"
  BY DEF Enqueue
<1>3. /\ SyncerTypes' /\ syncer'[a].made = 0
      /\ \A b \in Syncers : b # a => syncer'[b] = syncer[b]
  BY DEF Enqueue, PipeInv, PipeTypes, SyncerTypes
<1> HIDE DEF r
<1>4. CASE UNCHANGED <<runs, queue>> /\ stranded' = stranded \cup {r}
  <2>1. PipeTypes'
    BY <1>2, <1>3, <1>4 DEF PipeInv, PipeTypes, RunTypes
  <2>2. MadeInv' /\ QueueInv' /\ WorkerInv'
    <3>1. MadeInv'
      BY <1>3, <1>4 DEF PipeInv, MadeInv
    <3>2. QueueInv'
      BY <1>4 DEF PipeInv, QueueInv
    <3>3. worker.pc = "taken" => worker.run \in RunIds /\ worker.run # 0
      BY PipelineAssumption DEF PipeInv, WorkerInv
    <3>4. WorkerInv'
      BY <1>2, <1>3, <1>4, <3>3 DEF PipeInv, WorkerInv
    <3> QED
      BY <3>1, <3>2, <3>4
  <2>3. LifeInv' /\ CommitInv'
    BY <1>2, <1>3, <1>4 DEF PipeInv, LifeInv, CommitInv
  <2>4. RunsHeld'
    BY <1>2, <1>3, <1>4 DEF PipeInv, RunsHeld, r
  <2> QED
    BY <1>2, <1>4, <2>1, <2>2, <2>3, <2>4, RecordsStill DEF PipeInv
<1>5. CASE UNCHANGED <<queue, stranded>> /\ runs' = [runs EXCEPT ![r].state = "cancelled"]
  <2>1. /\ RunTypes' /\ runs'[r].state = "cancelled"
        /\ \A q \in RunIds : q # r => runs'[q] = runs[q]
        /\ LifecycleStep
    <3>1. /\ "cancelled" \in Lifecycle!States /\ r \in RunIds /\ RunTypes
          /\ runs' = [runs EXCEPT ![r].state = "cancelled"]
      BY <1>1, <1>5 DEF Lifecycle!States, PipeInv, PipeTypes
    <3>2. /\ RunTypes' /\ runs'[r].state = "cancelled"
          /\ \A q \in RunIds : q # r => runs'[q] = runs[q]
          /\ [q \in RunIds |-> runs'[q].state]
               = [q \in RunIds |-> IF q \in {r} THEN "cancelled"
                                   ELSE [p \in RunIds |-> runs[p].state][q]]
      BY <3>1, OneMoves
    <3>3. LifecycleStep
      BY <1>1, <1>2, <3>2, AbstractMove
    <3> QED
      BY <3>2, <3>3
  <2>2. PipeTypes'
    BY <1>2, <1>3, <1>5, <2>1 DEF PipeInv, PipeTypes
  <2>3. MadeInv' /\ QueueInv' /\ WorkerInv'
    <3>1. MadeInv'
      BY <1>1, <1>3, <1>5, <2>1 DEF PipeInv, MadeInv
    <3>2. QueueInv'
      BY <1>1, <1>5, <2>1 DEF PipeInv, QueueInv
    <3>3. worker.pc # "idle" => worker.run # r
      BY <1>1 DEF PipeInv, PipeTypes, WorkerSteps, WorkerInv, Executing, r
    <3>4. worker.pc = "taken" => worker.run \in RunIds /\ worker.run # 0
      BY PipelineAssumption DEF PipeInv, WorkerInv
    <3>5. WorkerInv'
      BY <1>2, <1>3, <1>5, <2>1, <3>3, <3>4 DEF PipeInv, WorkerInv, Executing
    <3> QED
      BY <3>1, <3>2, <3>5
  <2>4. LifeInv' /\ CommitInv'
    BY <1>1, <1>2, <1>3, <1>5, <2>1 DEF PipeInv, LifeInv, CommitInv
  <2>5. RunsHeld'
    BY <1>2, <1>3, <1>5, <2>1 DEF PipeInv, RunsHeld, r
  <2> QED
    BY <2>1, <2>2, <2>3, <2>4, <2>5 DEF PipeInv
<1>6. CASE UNCHANGED <<runs, stranded>> /\ queue' = Append(queue, r)
  <2>1. /\ queue' \in Seq(RunIds) /\ Distinct(queue')
        /\ \A q : Waits(queue', q) <=> Waits(queue, q) \/ q = r
    BY <1>1, <1>6, AppendWaits DEF PipeInv, PipeTypes, QueueInv
  <2>2. PipeTypes'
    BY <1>2, <1>3, <1>6, <2>1 DEF PipeInv, PipeTypes, RunTypes
  <2>3. MadeInv' /\ QueueInv' /\ WorkerInv'
    <3>1. MadeInv'
      BY <1>1, <1>3, <1>6, <2>1 DEF PipeInv, MadeInv
    <3>2. QueueInv'
      BY <1>1, <1>6, <2>1 DEF PipeInv, QueueInv
    <3>3. worker.pc = "taken" => worker.run \in RunIds /\ worker.run # 0 /\ worker.run # r
      BY PipelineAssumption DEF PipeInv, WorkerInv, r
    <3>4. WorkerInv'
      BY <1>2, <1>3, <1>6, <2>1, <3>3 DEF PipeInv, WorkerInv
    <3> QED
      BY <3>1, <3>2, <3>4
  <2>4. LifeInv' /\ CommitInv'
    BY <1>2, <1>3, <1>6 DEF PipeInv, LifeInv, CommitInv
  <2>5. RunsHeld'
    BY <1>2, <1>3, <1>6, <2>1 DEF PipeInv, RunsHeld, Waits, r
  <2> QED
    BY <1>2, <1>6, <2>2, <2>3, <2>4, <2>5, RecordsStill DEF PipeInv
<1> QED
  BY <1>4, <1>5, <1>6 DEF Enqueue, Rejected, r

-----------------------------------------------------------------------------
(* The worker.                                                             *)

LEMMA TakeKeeps ==
  ASSUME PipeInv, Take
  PROVE  PipeInv' /\ LifecycleStep
<1>1. /\ queue # <<>> /\ worker.pc = "idle" /\ queue' = Tail(queue)
      /\ worker' = [pc |-> "taken", run |-> Head(queue), commit |-> 0]
      /\ UNCHANGED <<life, head, syncer, stranded, runs, newest>> /\ life = "up"
  BY DEF Take, Rest, Free
<1>2. /\ Head(queue) \in RunIds /\ queue' \in Seq(RunIds) /\ Distinct(queue')
      /\ Waits(queue, Head(queue))
      /\ \A q : Waits(queue', q) <=> Waits(queue, q) /\ q # Head(queue)
  BY <1>1, TailWaits DEF PipeInv, PipeTypes, QueueInv
<1>3. worker'.pc = "taken" /\ worker'.run = Head(queue) /\ Head(queue) \in Nat
  BY <1>1, <1>2, PipelineAssumption
<1>4. /\ runs[Head(queue)].state = "queued"
      /\ \A a \in Syncers : syncer[a].made # Head(queue)
  <2>1. Head(queue) # 0
    BY <1>2, PipelineAssumption
  <2> QED
    BY <1>2, <2>1 DEF PipeInv, QueueInv, MadeInv
<1>5. PipeTypes'
  BY <1>1, <1>2, <1>3 DEF PipeInv, PipeTypes, RunTypes, SyncerTypes, WorkerSteps
<1>6. MadeInv' /\ QueueInv'
  BY <1>1, <1>2 DEF PipeInv, MadeInv, QueueInv
<1>7. WorkerInv'
  BY <1>1, <1>2, <1>3, <1>4 DEF WorkerInv, Executing
<1>8. LifeInv'
  BY <1>1 DEF PipeInv, LifeInv, Executing
<1>9. CommitInv'
  BY <1>1, <1>3 DEF PipeInv, CommitInv
<1>10. RunsHeld'
  BY <1>1, <1>2, <1>3 DEF PipeInv, RunsHeld, Waits
<1> QED
  BY <1>1, <1>5, <1>6, <1>7, <1>8, <1>9, <1>10, RecordsStill DEF PipeInv

\* A step of the worker that ends with its run recorded in state to.
LEMMA RunMoves ==
  ASSUME PipeInv, worker.pc # "idle", NEW to \in {"running", "succeeded", "failed"},
         Record(worker.run, to), UNCHANGED <<life, head, syncer, stranded, queue, newest>>,
         life = "up",
         to = "running" => worker.pc = "taken" /\ worker' = [worker EXCEPT !.pc = "checkout"],
         to # "running" => worker' = Resting,
         to = "succeeded" => worker.pc \in Executing
  PROVE  PipeInv' /\ LifecycleStep
<1> DEFINE r == worker.run
<1>1. /\ r \in RunIds /\ runs[r].state \in {"queued", "running"}
      /\ ~Waits(queue, r) /\ \A a \in Syncers : syncer[a].made # r
      /\ worker.pc \in Executing <=> runs[r].state = "running"
      /\ r # 0
  BY PipelineAssumption
     DEF PipeInv, PipeTypes, WorkerSteps, WorkerInv, QueueInv, MadeInv, Executing
<1>2. /\ RunTypes' /\ runs'[r].state = to
      /\ \A q \in RunIds : q # r => runs'[q] = runs[q]
      /\ [q \in RunIds |-> runs'[q].state]
           = [q \in RunIds |-> IF q \in {r} THEN to
                               ELSE [p \in RunIds |-> runs[p].state][q]]
  <2>1. to \in Lifecycle!States /\ runs' = [runs EXCEPT ![r].state = to]
    BY DEF Lifecycle!States, Record
  <2> HIDE DEF r
  <2> QED
    BY <1>1, <2>1, OneMoves DEF PipeInv, PipeTypes
<1>3. \A q \in RunIds : runs[q].state = "running" => q = r /\ worker.pc \in Executing
  BY DEF PipeInv, LifeInv
<1>4. LifecycleStep
  <2>1. \/ /\ runs[r].state = "queued" /\ to = "running"
           /\ \A q \in RunIds : runs[q].state # "running"
        \/ runs[r].state = "running" /\ to = "succeeded"
        \/ runs[r].state \in {"queued", "running"} /\ to = "failed"
    BY <1>1, <1>3 DEF Executing
  <2> HIDE DEF r
  <2> QED
    BY <1>1, <1>2, <2>1, AbstractMove
<1>5. /\ worker' \in [pc : WorkerSteps, run : Nat, commit : Nat]
      /\ to = "running" => worker'.pc = "checkout" /\ worker'.run = r
      /\ to # "running" => worker'.pc = "idle"
  BY DEF PipeInv, PipeTypes, WorkerSteps, Resting
<1> HIDE DEF r
<1>6. PipeTypes'
  BY <1>2, <1>5 DEF PipeInv, PipeTypes, SyncerTypes
<1>7. MadeInv'
  BY <1>1, <1>2 DEF PipeInv, MadeInv
<1>8. QueueInv'
  BY <1>1, <1>2 DEF PipeInv, QueueInv
<1>9. WorkerInv'
  BY <1>1, <1>2, <1>5 DEF WorkerInv, Executing
<1>10. LifeInv'
  BY <1>2, <1>3, <1>5 DEF LifeInv, Executing
<1>11. CommitInv'
  BY <1>5 DEF PipeInv, CommitInv
<1>12. RunsHeld'
  <2>1. ASSUME NEW q \in RunIds, runs'[q].state \in {"queued", "running"}
        PROVE  \/ \E i \in 1..Len(queue') : queue'[i] = q
               \/ worker'.pc # "idle" /\ worker'.run = q
               \/ \E b \in Syncers : syncer'[b].made = q
               \/ q \in stranded'
    <3>1. CASE q = r
      BY <1>2, <1>5, <2>1, <3>1
    <3>2. CASE q # r
      BY <1>2, <2>1, <3>2 DEF PipeInv, RunsHeld, r
    <3> QED
      BY <3>1, <3>2
  <2> QED
    BY <2>1 DEF RunsHeld
<1> QED
  BY <1>4, <1>6, <1>7, <1>8, <1>9, <1>10, <1>11, <1>12 DEF PipeInv

\* A step of the worker that leaves the records alone.
LEMMA WorkKeeps ==
  ASSUME PipeInv, UNCHANGED <<life, head, syncer, stranded, queue, runs>>,
         worker'.pc \in Executing, worker.pc \in Executing, worker'.run = worker.run,
         worker' \in [pc : WorkerSteps, run : Nat, commit : Nat],
         newest' \in [Services -> Nat], CommitInv'
  PROVE  PipeInv'
<1>1. PipeTypes'
  BY DEF PipeInv, PipeTypes, RunTypes, SyncerTypes
<1>2. MadeInv' /\ QueueInv'
  BY DEF PipeInv, MadeInv, QueueInv
<1>3. WorkerInv' /\ LifeInv'
  BY DEF PipeInv, WorkerInv, LifeInv, Executing
<1>4. RunsHeld'
  BY DEF PipeInv, RunsHeld, Executing
<1> QED
  BY <1>1, <1>2, <1>3, <1>4 DEF PipeInv

LEMMA BuildKeeps ==
  ASSUME PipeInv, Build
  PROVE  PipeInv' /\ LifecycleStep
<1>1. /\ worker.pc = "checkout" /\ UNCHANGED <<life, head, syncer, stranded, queue, runs, newest>>
      /\ worker' \in [pc : WorkerSteps, run : Nat, commit : Nat]
      /\ worker'.commit = head /\ worker'.run = worker.run
      /\ worker'.pc \in {"deploy", "finish"}
  BY DEF Build, At, Rest, PipeInv, PipeTypes, WorkerSteps
<1>2. CommitInv'
  BY <1>1 DEF PipeInv, PipeTypes, CommitInv
<1>3. newest' \in [Services -> Nat]
  BY <1>1 DEF PipeInv, PipeTypes
<1>4. worker.pc \in Executing /\ worker'.pc \in Executing
  BY <1>1 DEF Executing
<1> QED
  BY <1>1, <1>2, <1>3, <1>4, WorkKeeps, RecordsStill

LEMMA DeployKeeps ==
  ASSUME PipeInv, Deploy
  PROVE  PipeInv' /\ LifecycleStep
<1>1. worker.pc = "deploy" /\ life = "up" /\ UNCHANGED <<life, head, syncer, stranded, queue>>
  BY DEF Deploy, At, Rest
<1> DEFINE s == runs[worker.run].svc
<1>2. worker.run \in RunIds /\ runs[worker.run].state = "running" /\ s \in Services
  BY <1>1 DEF PipeInv, PipeTypes, RunTypes, WorkerInv, Executing
<1>3. CASE /\ newest' = [newest EXCEPT ![s] = worker.commit]
           /\ worker' = [worker EXCEPT !.pc = "finish"] /\ UNCHANGED runs
  <2>1. /\ worker' \in [pc : WorkerSteps, run : Nat, commit : Nat]
        /\ worker'.pc = "finish" /\ worker'.run = worker.run
        /\ newest' \in [Services -> Nat]
    BY <1>2, <1>3 DEF PipeInv, PipeTypes, WorkerSteps
  <2> HIDE DEF s
  <2>2. /\ newest'[s] = worker.commit /\ newest'[s] >= newest[s] /\ worker.commit <= head
        /\ \A t \in Services : t # s => newest'[t] = newest[t]
    BY <1>1, <1>2, <1>3 DEF PipeInv, PipeTypes, CommitInv
  <2>3. CommitInv'
    BY <1>1, <2>1, <2>2 DEF PipeInv, CommitInv
  <2>4. worker.pc \in Executing /\ worker'.pc \in Executing
    BY <1>1, <2>1 DEF Executing
  <2>5. Lifecycle!Release(worker.run, s)
    <3>1. newest' = [newest EXCEPT ![s] = newest'[s]]
      BY <1>3, <2>2
    <3> QED
      BY <1>2, <1>3, <2>2, <3>1 DEF Lifecycle!Release
  <2>6. LifecycleStep
    BY <1>2, <2>5 DEF LifecycleStep, Lifecycle!Next
  <2> QED
    BY <1>1, <1>3, <2>1, <2>3, <2>4, <2>6, WorkKeeps
<1>4. CASE Record(worker.run, "failed") /\ worker' = Resting /\ UNCHANGED newest
  BY <1>1, <1>4, RunMoves
<1> QED
  BY <1>3, <1>4 DEF Deploy

LEMMA WorkerKeeps ==
  ASSUME PipeInv, WorkerStep \/ Fail
  PROVE  PipeInv' /\ LifecycleStep
<1>1. CASE Start
  <2>1. /\ worker.pc = "taken" /\ life = "up" /\ Record(worker.run, "running")
        /\ worker' = [worker EXCEPT !.pc = "checkout"]
        /\ UNCHANGED <<life, head, syncer, stranded, queue, newest>>
    BY <1>1 DEF Start, At, Rest
  <2> QED
    BY <2>1, RunMoves
<1>2. CASE Finish
  <2>1. /\ worker.pc = "finish" /\ life = "up" /\ Record(worker.run, "succeeded")
        /\ worker' = Resting /\ worker.pc \in Executing
        /\ UNCHANGED <<life, head, syncer, stranded, queue, newest>>
    BY <1>2 DEF Finish, At, Rest, Executing
  <2> QED
    BY <2>1, RunMoves
<1>3. CASE Fail
  <2>1. /\ worker.pc # "idle" /\ life = "up" /\ Record(worker.run, "failed")
        /\ worker' = Resting
        /\ UNCHANGED <<life, head, syncer, stranded, queue, newest>>
    BY <1>3 DEF Fail, Rest
  <2> QED
    BY <2>1, RunMoves
<1> QED
  BY <1>1, <1>2, <1>3, TakeKeeps, BuildKeeps, DeployKeeps DEF WorkerStep

-----------------------------------------------------------------------------
(* Shutdown, crash, boot.                                                  *)

LEMMA StopKeeps ==
  ASSUME PipeInv, Stop
  PROVE  PipeInv' /\ LifecycleStep
<1>1. UNCHANGED <<head, project, runs, queue, worker, syncer, newest>> /\ life' = "stopping"
  BY DEF Stop
<1>2. PipeTypes' /\ MadeInv' /\ QueueInv'
  BY <1>1 DEF PipeInv, PipeTypes, RunTypes, SyncerTypes, MadeInv, QueueInv
<1>3. WorkerInv' /\ LifeInv' /\ CommitInv' /\ RunsHeld'
  BY <1>1 DEF PipeInv, WorkerInv, LifeInv, CommitInv, RunsHeld
<1> QED
  BY <1>1, <1>2, <1>3, RecordsStill DEF PipeInv

LEMMA AbandonKeeps ==
  ASSUME PipeInv, Abandon
  PROVE  PipeInv' /\ LifecycleStep
<1>1. /\ UNCHANGED <<life, head, syncer, stranded, runs, queue, newest>>
      /\ life = "stopping" /\ worker' = Resting
  BY DEF Abandon, Rest
<1>2. PipeTypes' /\ MadeInv' /\ QueueInv'
  BY <1>1 DEF PipeInv, PipeTypes, RunTypes, SyncerTypes, WorkerSteps, Resting, MadeInv,
     QueueInv
<1>3. WorkerInv' /\ LifeInv' /\ CommitInv' /\ RunsHeld'
  BY <1>1 DEF PipeInv, WorkerInv, LifeInv, CommitInv, RunsHeld, Resting, Executing
<1> QED
  BY <1>1, <1>2, <1>3, RecordsStill DEF PipeInv

LEMMA DrainKeeps ==
  ASSUME PipeInv, Drain
  PROVE  PipeInv' /\ LifecycleStep
<1> DEFINE r == Head(queue)
<1>1. /\ life = "stopping" /\ worker.pc = "idle" /\ queue # <<>> /\ queue' = Tail(queue)
      /\ Record(r, "cancelled")
      /\ UNCHANGED <<life, head, syncer, stranded, worker, newest>>
  BY DEF Drain, Rest, Free
<1>2. /\ r \in RunIds /\ queue' \in Seq(RunIds) /\ Distinct(queue') /\ Waits(queue, r)
      /\ \A q : Waits(queue', q) <=> Waits(queue, q) /\ q # r
  BY <1>1, TailWaits DEF PipeInv, PipeTypes, QueueInv
<1>3. runs[r].state = "queued" /\ \A a \in Syncers : syncer[a].made # r
  <2>1. r # 0
    BY <1>2, PipelineAssumption
  <2> QED
    BY <1>2, <2>1 DEF PipeInv, QueueInv, MadeInv
<1> HIDE DEF r
<1>4. /\ RunTypes' /\ runs'[r].state = "cancelled"
      /\ \A q \in RunIds : q # r => runs'[q] = runs[q]
      /\ [q \in RunIds |-> runs'[q].state]
           = [q \in RunIds |-> IF q \in {r} THEN "cancelled"
                               ELSE [p \in RunIds |-> runs[p].state][q]]
  <2>1. "cancelled" \in Lifecycle!States /\ runs' = [runs EXCEPT ![r].state = "cancelled"]
    BY <1>1 DEF Lifecycle!States, Record
  <2> QED
    BY <1>2, <2>1, OneMoves DEF PipeInv, PipeTypes
<1>5. LifecycleStep
  BY <1>1, <1>2, <1>3, <1>4, AbstractMove
<1>6. PipeTypes'
  BY <1>1, <1>2, <1>4 DEF PipeInv, PipeTypes, SyncerTypes
<1>7. MadeInv'
  BY <1>1, <1>2, <1>3, <1>4 DEF PipeInv, MadeInv
<1>8. QueueInv'
  BY <1>1, <1>2, <1>4 DEF PipeInv, QueueInv
<1>9. WorkerInv' /\ LifeInv' /\ CommitInv' /\ RunsHeld'
  BY <1>1 DEF PipeInv, WorkerInv, LifeInv, CommitInv, RunsHeld, Executing
<1> QED
  BY <1>5, <1>6, <1>7, <1>8, <1>9 DEF PipeInv

LEMMA GoneKeeps ==
  ASSUME PipeInv, Exit \/ Crash
  PROVE  PipeInv' /\ LifecycleStep
<1>1. /\ life' = "down" /\ queue' = <<>> /\ worker' = Resting
      /\ syncer' = [a \in Syncers |-> Idle]
      /\ UNCHANGED <<head, runs, newest>>
  BY DEF Exit, Crash, Gone
<1>2. /\ SyncerTypes' /\ \A a \in Syncers : syncer'[a].made = 0
      /\ queue' \in Seq(RunIds) /\ Distinct(queue') /\ \A r : ~Waits(queue', r)
  BY <1>1, NobodyWaits DEF SyncerTypes, Idle
<1>3. PipeTypes'
  BY <1>1, <1>2 DEF PipeInv, PipeTypes, RunTypes, WorkerSteps, Resting
<1>4. MadeInv' /\ QueueInv' /\ WorkerInv'
  BY <1>1, <1>2 DEF MadeInv, QueueInv, WorkerInv, Resting, Executing
<1>5. LifeInv' /\ CommitInv' /\ RunsHeld'
  BY <1>1, <1>2 DEF PipeInv, LifeInv, CommitInv, RunsHeld, Resting
<1> QED
  BY <1>1, <1>3, <1>4, <1>5, RecordsStill DEF PipeInv

LEMMA BootKeeps ==
  ASSUME PipeInv, Boot
  PROVE  PipeInv' /\ LifecycleStep
<1>1. /\ life = "down" /\ life' = "up" /\ runs' = [r \in RunIds |-> Swept(runs[r])]
      /\ UNCHANGED <<head, queue, worker, syncer, newest>>
  BY DEF Boot
<1>2. /\ queue = <<>> /\ worker.pc = "idle" /\ \A a \in Syncers : syncer[a].made = 0
      /\ \A r : ~Waits(queue, r)
  BY <1>1, NobodyWaits DEF PipeInv, LifeInv
<1>3. \A r \in RunIds :
        /\ runs'[r].state = CASE runs[r].state = "queued"  -> "cancelled"
                               [] runs[r].state = "running" -> "failed"
                               [] OTHER                     -> runs[r].state
        /\ runs'[r].svc = runs[r].svc
        /\ {"state", "svc", "deploy"} \subseteq DOMAIN runs'[r]
  BY <1>1 DEF Swept, PipeInv, PipeTypes, RunTypes
<1>4. \A r \in RunIds : runs'[r].state \in Lifecycle!States \ {"queued", "running"}
  BY <1>3 DEF PipeInv, PipeTypes, RunTypes, Lifecycle!States
<1>5. RunTypes'
  BY <1>1, <1>3, <1>4 DEF PipeInv, PipeTypes, RunTypes
<1>6. LifecycleStep
  <2>1. Lifecycle!Sweep
    BY <1>1, <1>3 DEF Lifecycle!Sweep
  <2> QED
    BY <2>1 DEF LifecycleStep, Lifecycle!Next
<1>7. PipeTypes'
  BY <1>1, <1>5 DEF PipeInv, PipeTypes, SyncerTypes
<1>8. MadeInv' /\ QueueInv' /\ WorkerInv'
  BY <1>1, <1>2 DEF PipeInv, MadeInv, QueueInv, WorkerInv, Executing
<1>9. LifeInv' /\ CommitInv' /\ RunsHeld'
  BY <1>1, <1>2, <1>4 DEF PipeInv, LifeInv, CommitInv, RunsHeld
<1> QED
  BY <1>6, <1>7, <1>8, <1>9 DEF PipeInv

LEMMA PipeStepKeeps ==
  PipeInv /\ [PipeNext]_pipeVars => PipeInv' /\ LifecycleStep
<1> SUFFICES ASSUME PipeInv, [PipeNext]_pipeVars
             PROVE  PipeInv' /\ LifecycleStep
  OBVIOUS
<1>1. CASE UNCHANGED pipeVars
  <2>1. UNCHANGED <<life, head, runs, queue, worker, syncer, newest, stranded>>
    BY <1>1 DEF pipeVars
  <2>2. PipeTypes' /\ MadeInv' /\ QueueInv'
    BY <2>1 DEF PipeInv, PipeTypes, RunTypes, SyncerTypes, MadeInv, QueueInv
  <2>3. WorkerInv' /\ LifeInv' /\ CommitInv' /\ RunsHeld'
    BY <2>1 DEF PipeInv, WorkerInv, LifeInv, CommitInv, RunsHeld
  <2> QED
    BY <2>1, <2>2, <2>3, RecordsStill DEF PipeInv
<1>2. CASE PipeNext
  <2>1. \/ WorkerStep \/ Fail \/ Stop \/ Abandon \/ Drain \/ Exit \/ Crash \/ Boot
        \/ Bystander
        \/ \E a \in Syncers : Enqueue(a) \/ \E s \in Services : CreateRun(a, s)
    BY <1>2 DEF PipeNext, LifeStep, SyncerStep, Bystander
  <2> QED
    BY <2>1, WorkerKeeps, StopKeeps, AbandonKeeps, DrainKeeps, GoneKeeps, BootKeeps,
       BystanderKeeps, EnqueueKeeps, CreateRunKeeps
<1> QED
  BY <1>1, <1>2

-----------------------------------------------------------------------------

\* While the daemon runs, a run that has not ended is in somebody's hands
\* (queue.go, pipeline.go), for every number of runs, services and stops.
THEOREM RunsAreHeld == PipeSpec => []RunsHeld
<1>1. PipeInv => RunsHeld
  BY DEF PipeInv
<1> QED
  BY PipeInvInit, PipeStepKeeps, <1>1, PTL DEF PipeSpec

\* The pipeline with its queue, worker, requests and restarts implements the
\* life of a run (queue.go Run, runner.go Execute, pipeline.go SweepOrphans).
THEOREM PipelineImplements == PipeSpec => Implements
<1>1. PipeInv /\ [PipeNext]_pipeVars => [Lifecycle!Next]_(Lifecycle!vars)
  BY PipeStepKeeps DEF LifecycleStep
<1> QED
  BY PipeInvInit, PipeStepKeeps, AbstractInit, <1>1, PTL DEF PipeSpec, Implements, Lifecycle!Spec

\* A deleted project stays deleted until an operator applies it again: whatever
\* syncs were under way, queued or left over when it was deleted, none writes
\* its record back (service.go Sync).
THEOREM DeletedStaysDeleted == PipeSpec => NoResurrection
<1>1. ASSUME PipeNext, ~project.here, project'.here
      PROVE  \E held \in BOOLEAN : EditProject(held)
  <2>1. project' # project
    BY <1>1
  <2>2. ~ \E a \in Syncers : SyncRecord(a)
    BY <1>1, <2>1 DEF SyncRecord, StillThere
  <2>3. ~ (WorkerStep \/ Fail \/ LifeStep \/ Stop \/ Crash \/ Push)
    BY <2>1 DEF WorkerStep, Take, Start, Build, Deploy, Finish, Fail, Rest, LifeStep, Abandon,
       Drain, Exit, Boot, Stop, Crash, Gone, Push
  <2>4. ~DeleteProject
    BY <1>1 DEF DeleteProject
  <2>5. ~ \E a \in Syncers : SyncerStep(a) \/ SyncAbort(a)
    BY <2>1, <2>2 DEF SyncerStep, SyncFetch, SyncApply, Enqueue, SubmitDone, CreateRun, SyncAbort
  <2>6. ~ \E s \in Services, d \in BOOLEAN : Trigger(s, d)
    BY <2>1 DEF Trigger
  <2> QED
    BY <1>1, <2>3, <2>4, <2>5, <2>6 DEF PipeNext
<1>2. [PipeNext]_pipeVars => [~project.here /\ project'.here
                                => \E held \in BOOLEAN : EditProject(held)]_pipeVars
  BY <1>1
<1> QED
  BY <1>2, PTL DEF PipeSpec, NoResurrection
=============================================================================
