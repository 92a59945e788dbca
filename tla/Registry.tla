------------------------------ MODULE Registry ------------------------------
(***************************************************************************)
(* The node's image registry (internal/registry): upload sessions that are *)
(* verified before they become blobs, manifests recorded under a           *)
(* repository and a tag, the retention that follows every push, crash and  *)
(* the sweep at boot.                                                      *)
(*                                                                         *)
(* Only a build pushes (the credential leaves the process inside a build's *)
(* configuration) and the pipeline runs one build at a time, so there is   *)
(* one push; sessions that earlier pushes abandoned stay beside it.  A     *)
(* manifest is the image it describes: config and layers.                  *)
(***************************************************************************)
EXTENDS Naturals, Sequences, FiniteSets, SequencesExt

CONSTANTS Repos, Tags, Layers, Manifests,
          Children,       \* manifest -> what referencedDigests finds in it
          KeepManifests,  \* keepManifests
          MaxTags,        \* maxTags
          MaxUploads,     \* maxUploads
          Expiry          \* uploadExpiry, in ticks

ASSUME RegistryAssumption ==
  /\ Children \in [Manifests -> SUBSET Layers]
  /\ KeepManifests \in Nat \ {0} /\ MaxTags \in Nat \ {0}
  /\ MaxUploads \in Nat \ {0} /\ Expiry \in Nat \ {0}

VARIABLES
  blobs,    \* digest -> the age of its file
  markers,  \* repository -> its manifests, newest first
  tags,     \* repository -> tag -> manifest
  uploads,  \* the live sessions: the age of each, oldest first
  push      \* the push under way: step, what is still to do

regVars == <<blobs, markers, tags, uploads, push>>

None == "none"
Digests == Layers \cup Manifests
NoPush == [pc |-> "idle", repo |-> CHOOSE r \in Repos : TRUE, man |-> None,
           tag |-> None, need |-> {}, open |-> FALSE]
Drop(f, S) == [d \in DOMAIN f \ S |-> f[d]]
With(f, d, v) == [x \in DOMAIN f \cup {d} |-> IF x = d THEN v ELSE f[x]]

RegInit ==
  /\ blobs = [d \in {} |-> 0]
  /\ markers = [r \in Repos |-> <<>>]
  /\ tags = [r \in Repos |-> [t \in {} |-> None]]
  /\ uploads = <<>> /\ push = NoPush

-----------------------------------------------------------------------------
(* A push, as the builder does it: every blob that is not there already,   *)
(* then the manifest.                                                      *)

BeginPush(r, m, t) ==
  /\ push.pc \in {"idle", "done", "refused"}
  /\ push' = [pc |-> "blobs", repo |-> r, man |-> m, tag |-> t,
              need |-> Children[m], open |-> FALSE]
  /\ UNCHANGED <<blobs, markers, tags, uploads>>

\* A blob that is present is answered without an upload: its file, and its
\* age, stay as they are.
MountBlob(d) ==
  /\ push.pc = "blobs" /\ ~push.open /\ d \in push.need
  /\ d \in DOMAIN blobs
  /\ push' = [push EXCEPT !.need = @ \ {d}]
  /\ UNCHANGED <<blobs, markers, tags, uploads>>

\* startUpload: sessions past their expiry are dropped, then the cap.
Live == SelectSeq(uploads, LAMBDA age : age < Expiry)

StartUpload ==
  /\ push.pc = "blobs" /\ ~push.open /\ push.need \ DOMAIN blobs # {}
  /\ IF Len(Live) >= MaxUploads
       THEN uploads' = Live /\ push' = [push EXCEPT !.pc = "refused"]
       ELSE uploads' = Append(Live, 0) /\ push' = [push EXCEPT !.open = TRUE]
  /\ UNCHANGED <<blobs, markers, tags>>

\* commitUpload: the content is what its digest says, or it is deleted; the
\* session ends either way.
PutUpload(d, whole) ==
  /\ push.pc = "blobs" /\ push.open /\ d \in push.need \ DOMAIN blobs
  /\ uploads' = Front(uploads)
  /\ IF whole
       THEN /\ blobs' = With(blobs, d, 0)
            /\ push' = [push EXCEPT !.need = @ \ {d}, !.open = FALSE]
       ELSE push' = [push EXCEPT !.pc = "refused", !.open = FALSE]
            /\ UNCHANGED blobs
  /\ UNCHANGED <<markers, tags>>

\* The build fails or is called off; its session stays.
AbortPush ==
  /\ push.pc = "blobs" /\ push' = NoPush
  /\ UNCHANGED <<blobs, markers, tags, uploads>>

\* putManifest's check: every child is here.
Present(m) == Children[m] \subseteq DOMAIN blobs

\* The manifest may come before its blobs; a healthy builder's does not.
PutManifest ==
  /\ push.pc = "blobs" /\ ~push.open
  /\ IF Present(push.man)
       THEN /\ blobs' = IF push.man \in DOMAIN blobs THEN blobs
                                         ELSE With(blobs, push.man, 0)
            /\ push' = [push EXCEPT !.pc = "marker"]
       ELSE push' = [push EXCEPT !.pc = "refused"] /\ UNCHANGED blobs
  /\ UNCHANGED <<markers, tags, uploads>>

\* The marker is written, or touched: the newest of its repository.
Marked(ms, m) ==
  <<m>> \o IF m \in Range(ms) THEN RemoveAt(ms, CHOOSE i \in DOMAIN ms : ms[i] = m)
                              ELSE ms

PutMarker ==
  /\ push.pc = "marker"
  /\ markers' = [markers EXCEPT ![push.repo] = Marked(@, push.man)]
  /\ push' = [push EXCEPT !.pc = "tag"]
  /\ UNCHANGED <<blobs, tags, uploads>>

\* The tag is written after the marker; a new one only below the cap.
PutTag ==
  /\ push.pc = "tag"
  /\ LET ts == tags[push.repo] IN
       IF push.tag \notin DOMAIN ts /\ Cardinality(DOMAIN ts) >= MaxTags
         THEN push' = [push EXCEPT !.pc = "refused"] /\ UNCHANGED tags
         ELSE /\ tags' = [tags EXCEPT
                            ![push.repo] = With(ts, push.tag, push.man)]
              /\ push' = [push EXCEPT !.pc = "retire"]
  /\ UNCHANGED <<blobs, markers, uploads>>

-----------------------------------------------------------------------------
(* sweep: retention, then the blobs no kept manifest reaches.              *)

\* retainManifests.
Kept(ms) == SubSeq(ms, 1, IF Len(ms) < KeepManifests THEN Len(ms)
                                                    ELSE KeepManifests)

\* pruneTags.
Pruned(ts, ms) == Drop(ts, {t \in DOMAIN ts : ts[t] \notin Range(ms)})

Retired == [r \in Repos |-> Kept(markers[r])]

\* (a bug: a blob shared by two repositories is only counted in the first)
ReferencedOne(kept) ==
  LET ms == Range(kept[CHOOSE r \in Repos : TRUE])
  IN  ms \cup UNION {Children[m] : m \in ms}

\* collectReferenced, over every repository.
Referenced(kept) ==
  LET ms == UNION {Range(kept[r]) : r \in Repos}
  IN  ms \cup UNION {Children[m] : m \in ms}

\* The age guard: nothing younger than an upload's expiry is removed.
Orphans(kept) ==
  {d \in DOMAIN blobs : d \notin Referenced(kept) /\ blobs[d] >= Expiry}

Sweep ==
  /\ markers' = Retired
  /\ tags' = [r \in Repos |-> Pruned(tags[r], Retired[r])]
  /\ blobs' = Drop(blobs, Orphans(Retired))

SweepAfterPush ==
  /\ push.pc = "retire" /\ Sweep /\ push' = [push EXCEPT !.pc = "done"]
  /\ UNCHANGED uploads

\* A crash anywhere in a push; at boot the stranded sessions are wiped and
\* the sweep that may not have run runs.
Restart ==
  /\ Sweep /\ uploads' = <<>> /\ push' = NoPush

Grow(age) == IF age < Expiry THEN age + 1 ELSE age

\* Time passes.
Age ==
  /\ blobs' = [d \in DOMAIN blobs |-> Grow(blobs[d])]
  /\ uploads' = [i \in DOMAIN uploads |-> Grow(uploads[i])]
  /\ UNCHANGED <<markers, tags, push>>

RegNext ==
  \/ \E r \in Repos, m \in Manifests, t \in Tags : BeginPush(r, m, t)
  \/ \E d \in Layers : MountBlob(d) \/ \E w \in BOOLEAN : PutUpload(d, w)
  \/ StartUpload \/ AbortPush \/ PutManifest \/ PutMarker \/ PutTag
  \/ SweepAfterPush \/ Restart \/ Age

RegSpec == RegInit /\ [][RegNext]_regVars

-----------------------------------------------------------------------------
(* Properties.                                                             *)

\* What a tag names can be pulled, after any push, crash and sweep: the
\* manifest is recorded and it and everything it references is in the store
\* (handler.go putManifest, gc.go sweep).
Pullable ==
  \A r \in Repos : \A t \in DOMAIN tags[r] :
    LET m == tags[r][t] IN
      /\ m \in Range(markers[r])
      /\ {m} \cup Children[m] \subseteq DOMAIN blobs
=============================================================================
