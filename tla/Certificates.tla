---------------------------- MODULE Certificates ----------------------------
(***************************************************************************)
(* How a route gets its certificate (internal/certsource, internal/acme,   *)
(* cmd/kanea/certs.go): a loop asks three sources in turn for what the     *)
(* declared routes need, and a publisher merges what they hold, the        *)
(* pending challenges and the reconciler's verifier material into one file *)
(* that the edge polls (internal/edge certs.go, watch.go, tls.go).         *)
(*                                                                         *)
(* A certificate is the names it covers and when it was issued; two for    *)
(* the same names within one unit of time are not told apart.  A unit is   *)
(* the interval between two checks (certCheckInterval): a pass of the loop *)
(* and a poll of the edge take less.  The routes belong to one project.    *)
(***************************************************************************)
EXTENDS Integers, FiniteSets

CONSTANTS
    Sites,           \* routes, each with one name
    AutoSites,       \* those whose name was generated: one wildcard covers them
    GrantNames,      \* what the operator's own certificate names
    Wildcards,       \* whether a DNS-01 solver is configured
    WildcardThreshold,
    Life,            \* how long a certificate is valid
    CertFaults,      \* the kinds of failure that happen
    MaxCertTime, MaxCertEdits, MaxCertFaults    \* bounds

ASSUME CertAssumption ==
    /\ AutoSites \subseteq Sites /\ GrantNames \subseteq Sites
    /\ Wildcards \in BOOLEAN /\ WildcardThreshold \in Nat \ {0}
    /\ Life \in Nat \ {0}
    /\ CertFaults \subseteq {"ca", "list", "put", "publish", "files", "edge", "crash"}
    /\ MaxCertTime \in Nat /\ MaxCertEdits \in Nat /\ MaxCertFaults \in Nat

VARIABLES
    want,       \* route -> the mode it declares
    certStore,  \* the Store: certificates of the CA, of this node, its own CA
    disk,       \* the operator's configuration and pair of files
    pub,        \* the publisher's memory
    bundle,     \* the file
    ring,       \* what the edge loaded of it
    pass,       \* the loop
    certMem,    \* what the sources remember
    certNow, certEdits, certFaults

certVars == <<want, certStore, disk, pub, bundle, ring, pass, certMem,
              certNow, certEdits, certFaults>>
world == <<want, disk, certNow, certEdits>>

Star == "*"
CertModes == {"acme", "provided", "self-signed"}
Plaintext == "plaintext"
NoPair == -1

-----------------------------------------------------------------------------
(* Certificates.                                                           *)

\* RenewAfter, in whole units: two thirds of the life.
NeedsRenewal(c) == certNow >= c.from + (2 * Life) \div 3
Expired(c) == certNow >= c.from + Life
Covers(c, names) == c.names = names
Covering(S, names) == {c \in S : Covers(c, names)}
\* Store records are kept by primary name: a new one replaces the old.
Stored(S, c) == (S \ Covering(S, c.names)) \cup {c}

\* PlanRequests: one wildcard for the generated names when there are too many
\* certificates and one can be had; custom names are never collapsed.
PlanRequests(S) ==
    LET auto == S \cap AutoSites
        collapse == Wildcards /\ Cardinality(S) > WildcardThreshold
    IN  {{s} : s \in S \ auto} \cup
        (IF ~collapse THEN {{s} : s \in auto}
         ELSE IF auto = {} THEN {} ELSE {{Star}})

certRequests(w) ==
    [m \in CertModes |->
        LET S == {s \in Sites : w[s] = m}
        IN  IF m = "acme" THEN PlanRequests(S) ELSE {{s} : s \in S}]

-----------------------------------------------------------------------------
(* The publisher.                                                          *)

\* A name that two sources hold goes to the later of these.
mergeOrder == <<"self-signed", "acme", "provided">>
Rank(m) == CHOOSE i \in 1..3 : mergeOrder[i] = m

\* Every source's certificates, each with the names it won.
merged(by) ==
    LET won(m, n) == \A k \in CertModes : \A c \in by[k] : n \in c.names => Rank(k) <= Rank(m)
        kept(m, c) == {n \in c.names : won(m, n)}
    IN  UNION {{[names |-> kept(m, c), from |-> c.from, source |-> m] :
                   c \in {d \in by[m] : kept(m, d) # {}}} : m \in CertModes}

BundleOf(p) == [certs |-> merged(p.by), challenges |-> p.challenges, auth |-> p.auth]
NoBundle == [certs |-> {}, challenges |-> {}, auth |-> FALSE]

Works == UNCHANGED certFaults
\* Whatever fails recovers in time for a last pass.
Fails(kind) ==
    /\ kind \in CertFaults /\ certFaults < MaxCertFaults /\ certNow < MaxCertTime
    /\ certFaults' = certFaults + 1
Tries(kind, ok) == IF ok THEN Works ELSE Fails(kind)

\* write: a set that did not change is not written; what is to be written is
\* remembered first, whether or not that succeeds.
write(p, ok) ==
    LET body == BundleOf(p)
    IN  /\ pub' = [p EXCEPT !.last = {body}]
        /\ bundle' = IF body \in p.last \/ ~ok THEN bundle ELSE body

\* The reconciler's projection of the verifier material, on each of its passes.
SetAuth ==
    /\ ~pub.auth
    /\ \E ok \in BOOLEAN : Tries("publish", ok) /\ write([pub EXCEPT !.auth = TRUE], ok)
    /\ UNCHANGED <<certStore, ring, pass, certMem, world>>

-----------------------------------------------------------------------------
(* The loop.                                                               *)

NoRequests == [m \in CertModes |-> {}]
Pass0 == [at |-> "boot", first |-> TRUE, next |-> 0, mode |-> "acme", reqs |-> NoRequests,
          todo |-> {}, out |-> {}, req |-> {}, got |-> FALSE, err |-> FALSE]

\* (a bug: an error leaves the timer as it is, which has fired)
WaitingUnset(err) ==
    [Pass0 EXCEPT !.at = "wait", !.first = FALSE,
                  !.next = IF err /\ ~pass.first THEN MaxCertTime + 1 ELSE certNow + 1]

\* The timer after a pass: the next check, or sooner after an error
\* (certRetryInterval), unless that was the first pass, whose error is logged.
Waiting(err) ==
    [Pass0 EXCEPT !.at = "wait", !.first = FALSE,
                  !.next = IF err /\ ~pass.first THEN certNow ELSE certNow + 1]

\* The sources in their order.
Following(p) ==
    IF p.mode = "self-signed" THEN Waiting(p.err)
    ELSE [p EXCEPT !.mode = IF @ = "acme" THEN "provided" ELSE "self-signed", !.at = "load",
                   !.todo = {}, !.out = {}]

\* What Changed hashes: a configuration that does not parse names no files.
fingerprint == IF disk.config THEN disk ELSE [disk EXCEPT !.pair = NoPair]

\* The loop's select, and what each case takes.
Wakes ==
    \/ pass.at = "boot" /\ UNCHANGED certMem
    \/ /\ pass.at = "wait"
       /\ \/ certNow >= pass.next /\ UNCHANGED certMem
          \/ /\ fingerprint \notin certMem.hash
             /\ certMem' = [certMem EXCEPT !.hash = {fingerprint}]
          \/ certMem.notified /\ certMem' = [certMem EXCEPT !.notified = FALSE]

\* syncCertificates reads what is declared.
PassBegins ==
    /\ Wakes
    /\ \/ Works /\ pass' = [Pass0 EXCEPT !.at = "load", !.first = pass.at = "boot",
                                         !.reqs = certRequests(want)]
       \/ Fails("list") /\ pass' = Waiting(TRUE)
    /\ UNCHANGED <<certStore, pub, bundle, ring, world>>

\* What each source has in the Store; only the loop writes it.
Held == [m \in CertModes |-> CASE m = "acme" -> certStore.acme
                               [] m = "self-signed" -> certStore.own
                               [] OTHER -> {}]

\* A source loads what it has; one that cannot leaves what it last published.
Load ==
    /\ pass.at = "load"
    /\ \/ /\ Works
          /\ pass' = [pass EXCEPT !.at = "source", !.out = {},
                                  !.todo = pass.reqs[pass.mode]]
          /\ certMem' = [certMem EXCEPT !.policy =
                           @ \/ (pass.mode = "provided" /\ disk.config)]
       \/ /\ pass.mode # "provided" /\ Fails("list")
          /\ pass' = Following([pass EXCEPT !.err = TRUE]) /\ UNCHANGED certMem
    /\ UNCHANGED <<certStore, pub, bundle, ring, world>>

AcmeAt(place) == pass.mode = "acme" /\ pass.at = place
Kept(names) == {c \in Covering(Held[pass.mode], names) : ~NeedsRenewal(c)}

\* (a bug: only the certificates that were obtained are returned)
UnobtainedDropped(names) ==
    [pass EXCEPT !.at = "source", !.todo = @ \ {names}]

\* An issuance that failed: what there is goes on being served, and the loop is
\* not told.
Unobtained(names) ==
    [pass EXCEPT !.at = "source", !.todo = @ \ {names}, !.out = @ \cup Covering(Held[pass.mode], names)]

\* Sync, for one request.
AcmeKeeps(names) ==
    /\ AcmeAt("source") /\ names \in pass.todo /\ Kept(names) # {} /\ Works
    /\ pass' = [pass EXCEPT !.todo = @ \ {names}, !.out = @ \cup Kept(names)]
    /\ UNCHANGED <<certStore, pub, bundle, ring, certMem, world>>

Due(names) == AcmeAt("source") /\ names \in pass.todo /\ Kept(names) = {}

\* The account, the order or the DNS-01 validation fails.
ObtainFails(names) ==
    /\ Due(names) /\ Fails("ca") /\ pass' = Unobtained(names)
    /\ UNCHANGED <<certStore, pub, bundle, ring, certMem, world>>

\* installSolver: a wildcard is validated through the DNS.
ObtainDns(names) ==
    /\ Due(names) /\ names = {Star} /\ Works
    /\ pass' = [pass EXCEPT !.at = "save", !.req = names]
    /\ UNCHANGED <<certStore, pub, bundle, ring, certMem, world>>

Present(names) ==
    /\ Due(names) /\ names # {Star}
    /\ \E ok \in BOOLEAN :
         /\ Tries("publish", ok)
         /\ write([pub EXCEPT !.challenges = @ \cup names], ok)
         /\ pass' = [pass EXCEPT !.at = IF ok THEN "verify" ELSE "cleanup",
                                 !.req = names, !.got = FALSE]
    /\ UNCHANGED <<certStore, ring, certMem, world>>

\* wait: the edge answers, or the time for that is over.
Verify ==
    /\ AcmeAt("verify")
    /\ \/ Works /\ pass.req \subseteq ring.challenges /\ pass' = [pass EXCEPT !.at = "validate"]
       \/ Fails("ca") /\ pass' = [pass EXCEPT !.at = "cleanup"]
    /\ UNCHANGED <<certStore, pub, bundle, ring, certMem, world>>

\* The CA looks (external).
Validate ==
    /\ AcmeAt("validate")
    /\ \E ok \in BOOLEAN :
         Tries("ca", ok) /\ pass' = [pass EXCEPT !.at = "cleanup", !.got = ok]
    /\ UNCHANGED <<certStore, pub, bundle, ring, certMem, world>>

\* A challenge that cannot be withdrawn does not fail the issuance.
CleanUp ==
    /\ AcmeAt("cleanup")
    /\ \E ok \in BOOLEAN :
         Tries("publish", ok) /\ write([pub EXCEPT !.challenges = @ \ pass.req], ok)
    /\ pass' = IF pass.got THEN [pass EXCEPT !.at = "save"] ELSE Unobtained(pass.req)
    /\ UNCHANGED <<certStore, ring, certMem, world>>

\* A certificate that cannot be saved is served all the same.
Save ==
    /\ AcmeAt("save")
    /\ LET issued == [names |-> pass.req, from |-> certNow]
       IN  \E ok \in BOOLEAN :
             /\ Tries("put", ok)
             /\ certStore' = IF ok THEN [certStore EXCEPT !.acme = Stored(@, issued)] ELSE certStore
             /\ pass' = [pass EXCEPT !.at = "source", !.todo = @ \ {pass.req},
                                     !.out = @ \cup {issued}]
    /\ UNCHANGED <<pub, bundle, ring, certMem, world>>

AcmeStep ==
    \/ \E names \in pass.todo :
         AcmeKeeps(names) \/ ObtainFails(names) \/ ObtainDns(names) \/ Present(names)
    \/ Verify \/ Validate \/ CleanUp \/ Save

\* Provided.Ensure: a request whose pair cannot be loaded, or that the grant does
\* not cover, gets nothing.
ProvidedEnsure ==
    /\ pass.mode = "provided" /\ pass.at = "source" /\ Works
    /\ LET loads == certMem.policy /\ disk.pair # NoPair
           given == {r \in pass.todo : loads /\ r \subseteq GrantNames}
       IN  pass' = [pass EXCEPT !.at = "publish", !.err = @ \/ given # pass.todo,
                      !.out = {[names |-> GrantNames, from |-> disk.pair] : r \in given}]
    /\ UNCHANGED <<certStore, pub, bundle, ring, certMem, world>>

\* SelfSigned.Ensure, for one request.  ensureCA generates a CA that does not
\* exist; a CA or a leaf that cannot be stored is a failure, and the leaf that
\* was to be replaced is not returned.
SelfSignedEnsure(names) ==
    /\ pass.mode = "self-signed" /\ pass.at = "source" /\ names \in pass.todo
    /\ IF Kept(names) # {}
       THEN /\ Works /\ UNCHANGED certStore
            /\ pass' = [pass EXCEPT !.todo = @ \ {names}, !.out = @ \cup Kept(names)]
       ELSE LET leaf == [names |-> names, from |-> certNow]
            IN  \E ca, ok \in BOOLEAN :
                  /\ (certStore.ca => ca) /\ (ok => ca) /\ Tries("put", ok)
                  /\ certStore' = [certStore EXCEPT !.ca = ca,
                                     !.own = IF ok THEN Stored(@, leaf) ELSE @]
                  /\ pass' = [pass EXCEPT !.todo = @ \ {names}, !.err = @ \/ ~ok,
                                !.out = IF ok THEN @ \cup {leaf} ELSE @]
    /\ UNCHANGED <<pub, bundle, ring, certMem, world>>

\* SetCertificates replaces one source's contribution; a publish that fails
\* ends the pass.
Publish ==
    /\ \/ pass.at = "publish"
       \/ pass.at = "source" /\ pass.mode # "provided" /\ pass.todo = {}
    /\ \E ok \in BOOLEAN :
         /\ Tries("publish", ok)
         /\ write([pub EXCEPT !.by[pass.mode] = pass.out], ok)
         /\ pass' = IF ok THEN Following(pass) ELSE Waiting(TRUE)
    /\ UNCHANGED <<certStore, ring, certMem, world>>

CertLoop ==
    \/ PassBegins \/ Load \/ AcmeStep \/ ProvidedEnsure \/ Publish
    \/ \E names \in pass.todo : SelfSignedEnsure(names)

-----------------------------------------------------------------------------
(* The edge, the operator and the clock.                                   *)

\* The edge's watcher: a file that changed replaces everything it had.
EdgeLoads ==
    /\ ring # bundle /\ ring' = bundle
    /\ UNCHANGED <<certStore, pub, bundle, pass, certMem, world, certFaults>>

RingRestarts ==
    /\ Fails("edge") /\ ring # NoBundle /\ ring' = NoBundle
    /\ UNCHANGED <<certStore, pub, bundle, pass, certMem, world>>

\* kanead restarts: the Store and the file stay.
CertRestarts ==
    /\ Fails("crash")
    /\ pub' = [by |-> NoRequests, challenges |-> {}, auth |-> FALSE, last |-> {}]
    /\ pass' = Pass0
    /\ certMem' = [certMem EXCEPT !.policy = FALSE, !.hash = {}, !.notified = FALSE]
    /\ UNCHANGED <<certStore, bundle, ring, world>>

Edit == certEdits < MaxCertEdits /\ certEdits' = certEdits + 1

\* An apply changes a route, and wakes the loop (external).
Declare(s) ==
    /\ Edit
    /\ \E m \in CertModes \cup {Plaintext} :
         m # want[s] /\ want' = [want EXCEPT ![s] = m]
    /\ certMem' = [certMem EXCEPT !.notified = TRUE]
    /\ UNCHANGED <<certStore, disk, pub, bundle, ring, pass, certNow, certFaults>>

\* A renewal tool replaces the pair, which does not match in between, or the
\* configuration is edited (external); bound: only while a route uses them.
Rewrite ==
    /\ Edit /\ \E s \in Sites : want[s] = "provided"
    /\ \/ "files" \in CertFaults /\ disk.pair # NoPair /\ disk' = [disk EXCEPT !.pair = NoPair]
       \/ "files" \in CertFaults /\ disk' = [disk EXCEPT !.config = ~@]
       \/ disk' = [disk EXCEPT !.pair = certEdits']
    /\ UNCHANGED <<want, certStore, pub, bundle, ring, pass, certMem, certNow, certFaults>>

CertTick ==
    /\ pass.at = "wait" /\ ring = bundle
    /\ certNow < MaxCertTime /\ certNow' = certNow + 1
    /\ UNCHANGED <<want, disk, certStore, pub, bundle, ring, pass, certMem, certEdits, certFaults>>

CertInit ==
    /\ want \in [Sites -> CertModes \cup {Plaintext}]
    /\ certStore = [acme |-> {}, own |-> {}, ca |-> FALSE]
    /\ disk = [config |-> TRUE, pair |-> 0]
    /\ pub = [by |-> NoRequests, challenges |-> {}, auth |-> FALSE, last |-> {}]
    /\ bundle = NoBundle /\ ring = NoBundle
    /\ pass = Pass0
    /\ certMem = [policy |-> FALSE, hash |-> {}, notified |-> FALSE]
    /\ certNow = 0 /\ certEdits = 0 /\ certFaults = 0

CertNext ==
    \/ CertLoop \/ SetAuth \/ EdgeLoads \/ RingRestarts \/ CertRestarts
    \/ Rewrite \/ CertTick
    \/ \E s \in Sites : Declare(s)

CertSpec == CertInit /\ [][CertNext]_certVars

-----------------------------------------------------------------------------
(* Properties.                                                             *)

\* The certificate of bundle b that a handshake for s is given.
certificateFor(b, s) ==
    LET exact == {c \in b.certs : s \in c.names}
    IN  IF exact # {} \/ s \notin AutoSites THEN exact
        ELSE {c \in b.certs : Star \in c.names}

\* s has what its mode promises: a valid certificate, or the operator's current.
Working(b, s) ==
    \E c \in certificateFor(b, s) :
        CASE c.source = "provided" -> c.from = disk.pair
          [] OTHER                 -> ~Expired(c)

\* Every route comes to have a certificate that works and keeps one: through
\* failed issuances and renewals, restarts of the daemon and the edge, edits of
\* routes and of the operator's files (runCertificates, Sync, Changed).
CertsServed ==
    <>[]\A s \in Sites :
          \/ want[s] = Plaintext
          \/ want[s] = "provided" /\ (~disk.config \/ disk.pair = NoPair \/ s \notin GrantNames)
          \/ Working(ring, s)

\* Names that are still requested of the CA keep a certificate that is in the
\* Store, whatever fails: "an expiring certificate is better than no
\* certificate" (Sync), "leave what it last published in place" (syncCertificates).
WorkingKept ==
    [][\A c \in pub.by["acme"] :
         (c.names \in pass.reqs["acme"] /\ Covering(certStore.acme, c.names) # {}
            /\ pass'.at # "boot")
             => Covering(pub'.by["acme"], c.names) # {}]_certVars

\* A restart withdraws no certificate that works: "a restart must put the
\* certificates it already holds back in front of the edge without waiting for
\* the CA to answer" (runCertificates).
ServedThroughRestart ==
    [][\A s \in Sites :
         (Working(bundle, s) /\ want' = want /\ disk' = disk /\ want[s] # Plaintext)
             => certificateFor(bundle', s) # {}]_certVars
=============================================================================
