---------------------------- MODULE ServiceRecord ----------------------------
(***************************************************************************)
(* One service's desired-state record and everybody who writes it.  The    *)
(* record lives in the Store under an index that every write moves.  A     *)
(* handler reads it, works on its copy, and writes the copy back: either   *)
(* with the index it read (a compare-and-set, UpdateMutation) or blindly   *)
(* (PutMutation, DeleteMutation).                                          *)
(*                                                                         *)
(* An index is only ever compared with the index of an earlier read, so a  *)
(* request carries "fresh" (nobody wrote since the read) in its place.     *)
(* Every kind of request has at most one instance under way.               *)
(*                                                                         *)
(* Fields: image is the declared tag; pin, roll, upd and chk are           *)
(* PinnedImage, RollbackImage, ImageUpdatedAt and ImageCheckedAt; 0 is the *)
(* empty reference and the zero time.                                      *)
(***************************************************************************)
EXTENDS Integers, FiniteSets

CONSTANTS
    Tags,       \* tags an operator may declare
    Digests,    \* digests a tag may point at
    Counts,     \* counts an operator may ask for
    MinCount,   \* the scaling policy's bounds
    MaxCount,
    MaxEdits,   \* bound: requests of operators and pipelines, together
    MaxMoves,   \* bound: times a tag is pushed again
    MaxTime     \* bound: the last instant of a run

ASSUME ServiceAssumption ==
    /\ Tags \subseteq Nat \ {0} /\ Digests \subseteq Nat \ {0} /\ Tags \cap Digests = {}
    /\ Tags # {} /\ Digests # {}
    /\ Counts \subseteq Nat
    /\ MinCount \in Nat /\ MaxCount \in Nat \ {0} /\ MinCount <= MaxCount
    /\ MaxEdits \in Nat /\ MaxMoves \in Nat /\ MaxTime \in Nat \ {0}

VARIABLES
    svc,      \* the record
    request,  \* per writer, the write it is about to send
    remote,   \* what each tag points at in its registry
    clock,
    edits, moves,
    writer    \* history: who wrote the record last

svcVars == <<svc, request, remote, clock, edits, moves, writer>>

CasWriters == {"scale", "deploy", "watcher", "scaler"}
Writers == CasWriters \cup {"apply", "restart", "delete"}

NoImage == 0
Gone == [on |-> FALSE, auto |-> FALSE, image |-> NoImage, pin |-> NoImage, roll |-> NoImage,
         upd |-> 0, chk |-> 0, count |-> 0, gen |-> 0]

Idle == [busy |-> FALSE, fresh |-> FALSE, val |-> Gone]

\* What the file says of the service, with nothing of the running one.
Declared(tag, auto, n) ==
    [Gone EXCEPT !.on = TRUE, !.auto = auto, !.image = tag, !.count = n]

SvcInit ==
    /\ svc = Declared(CHOOSE t \in Tags : TRUE, TRUE, MinCount)
    /\ request = [w \in Writers |-> Idle]
    /\ remote = [t \in Tags |-> CHOOSE d \in Digests : TRUE]
    /\ clock = 1
    /\ edits = 0 /\ moves = 0
    /\ writer = "none"

-----------------------------------------------------------------------------
\* A handler has read the record and decided what to write.
Sends(w, val) ==
    request' = [request EXCEPT ![w] = [busy |-> TRUE, fresh |-> TRUE, val |-> val]]

\* Apply commits a write: every other request now holds an old version.
Commits(w, val) ==
    /\ svc' = val
    /\ writer' = w
    /\ request' = [x \in Writers |->
           IF x = w THEN Idle ELSE [request[x] EXCEPT !.fresh = FALSE]]

\* (a bug: the index is not compared)
ConflictsNever(w) == FALSE

\* Apply's precondition: the record must still be the one that was read.
Conflicts(w) == w \in CasWriters /\ ~request[w].fresh

\* The write is refused: ErrConflict.
Refused(w) ==
    /\ request[w].busy /\ Conflicts(w)
    /\ request' = [request EXCEPT ![w] = Idle]
    /\ UNCHANGED <<svc, writer>>

Landed(w) ==
    /\ request[w].busy /\ ~Conflicts(w)
    /\ Commits(w, request[w].val)

\* An operator or a pipeline starts a request.
Starts(w, val) ==
    /\ edits < MaxEdits
    /\ edits' = edits + 1
    /\ ~request[w].busy
    /\ Sends(w, val)
    /\ UNCHANGED <<svc, remote, clock, moves, writer>>

\* applyServices: the generation carries over from the record; so do the pin,
\* its rollback target and the update under way, if the tag is the same and
\* auto-update is still on.  The check clock never does.
CarriedOver(d) ==
    IF ~svc.on THEN d
    ELSE IF d.auto /\ d.image = svc.image
         THEN [d EXCEPT !.gen = svc.gen, !.pin = svc.pin, !.roll = svc.roll, !.upd = svc.upd]
         ELSE [d EXCEPT !.gen = svc.gen]

\* pin: an auto-updating service without a pin gets the digest its tag has
\* now; a registry that does not answer leaves it without.
Pinned(d) ==
    IF d.auto /\ d.pin = NoImage
    THEN {d, [d EXCEPT !.pin = remote[d.image], !.chk = clock]}
    ELSE {d}

\* PUT /v1/services: read, merge, resolve; the write is blind.
ApplyServices(tags, autos, counts) ==
    \E tag \in tags, auto \in autos, n \in counts :
        \E d \in Pinned(CarriedOver(Declared(tag, auto, n))) : Starts("apply", d)

\* POST restart: the generation moves; the write is blind.
HandleRestart == svc.on /\ Starts("restart", [svc EXCEPT !.gen = @ + 1])

\* POST scale: a count outside an autoscaled service's bounds is refused.
HandleScale(counts) ==
    /\ svc.on
    /\ \E n \in counts : MinCount <= n /\ n <= MaxCount /\ Starts("scale", [svc EXCEPT !.count = n])

\* DELETE of the service: it must exist when it is looked up.
HandleDeleteService == svc.on /\ Starts("delete", Gone)

\* storeDeployer.Deploy: a pipeline's build names another image; one that is
\* there already is not written.
Deploy(tags) ==
    /\ svc.on
    /\ \E tag \in tags : tag # svc.image /\ Starts("deploy", [svc EXCEPT !.image = tag])

\* storeApplier.Apply: a git sync writes what the file says, whatever is there.
SyncApply(tags, autos, counts) ==
    /\ edits < MaxEdits
    /\ edits' = edits + 1
    /\ \E tag \in tags, auto \in autos, n \in counts : Commits("sync", Declared(tag, auto, n))
    /\ UNCHANGED <<remote, clock, moves>>

\* The write of an operator or a pipeline reaches the Store.
Answered(w) ==
    /\ w \notin {"watcher", "scaler"}
    /\ Landed(w) \/ Refused(w)
    /\ UNCHANGED <<remote, clock, edits, moves>>

\* Somebody pushes a tag.
TagMoves ==
    /\ moves < MaxMoves
    /\ moves' = moves + 1
    /\ \E t \in Tags, d \in Digests : d # remote[t] /\ remote' = [remote EXCEPT ![t] = d]
    /\ UNCHANGED <<svc, request, clock, edits, writer>>

ClockTicks ==
    /\ clock < MaxTime
    /\ clock' = clock + 1
    /\ UNCHANGED <<svc, request, remote, edits, moves, writer>>

\* The daemon dies and comes back: the Store is intact, requests are not.
Dies ==
    /\ request' = [w \in Writers |-> Idle]
    /\ UNCHANGED <<svc, remote, clock, edits, moves, writer>>

\* Operators and pipelines, who ask for these tags, update policies and counts.
ApiNext(tags, autos, counts) ==
    \/ ApplyServices(tags, autos, counts)
    \/ HandleRestart
    \/ HandleScale(counts)
    \/ HandleDeleteService
    \/ Deploy(tags)
    \/ SyncApply(tags, autos, counts)
    \/ \E w \in Writers : Answered(w)
    \/ ClockTicks

-----------------------------------------------------------------------------
\* The fields a partial update may change.
Owned(w) ==
    CASE w \in {"scale", "scaler"} -> {"count"}
      [] w = "deploy"  -> {"image"}
      [] w = "watcher" -> {"pin", "roll", "upd", "chk"}

\* A partial update (the scale route, a deploy, the image watcher, the
\* autoscaler) changes its own fields of the record as it is when the write
\* lands, whoever wrote in between, and never brings a deleted service back:
\* "an operator editing the spec while a poll is in flight must not have their
\* change overwritten by a watcher that read the record first".
OnlyOwnFields ==
    [][\A w \in CasWriters :
          (request[w].busy /\ ~request'[w].busy /\ svc' # svc /\ writer' = w)
              => /\ svc.on /\ svc'.on
                 /\ \A f \in DOMAIN svc \ Owned(w) : svc'[f] = svc[f]]_svcVars

\* What the comment in applyServices says of the restart generation: it
\* "belongs to the running service, not to the file", and a spec that does not
\* mention it must not reset it.
GenerationKept == [][svc.on /\ svc'.on => svc'.gen >= svc.gen]_svcVars
=============================================================================
