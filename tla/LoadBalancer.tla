---------------------------- MODULE LoadBalancer ----------------------------
(***************************************************************************)
(* The service frontends in the kernel's maps (internal/datapath lb.go,    *)
(* dpmap/select.go, maps_linux.go ApplyFlip): a pass withdraws the         *)
(* frontends nobody wants and replaces the backend set of those that       *)
(* changed by a generation flip, one map write at a time, while connects   *)
(* read the maps.                                                          *)
(*                                                                         *)
(* A frontend is an address and a port; its id belongs to a service's port *)
(* name and outlives both.  The maps of the two address families have the  *)
(* same code; one is modelled.                                             *)
(***************************************************************************)
EXTENDS Naturals, Sequences

CONSTANTS Frontends,    \* addresses a service port may have, as numbers
          FrontIds,     \* frontend ids
          BackendSets,  \* backend sets, each in the order of its allocs
          Renames,      \* whether an address may pass to another port name
          FailOps,      \* the kinds of map write that may fail
          MaxGen,       \* bound: generations of one frontend
          MaxLbFaults   \* bound: failed writes and crashes

MapWrites == {"put", "commit", "delete", "withdraw"}

ASSUME LoadBalancerAssumption ==
  /\ Frontends \subseteq Nat /\ FrontIds \subseteq Nat \ {0}
  /\ BackendSets \subseteq Seq(Nat)
  /\ Renames \in BOOLEAN /\ FailOps \subseteq MapWrites
  /\ MaxGen \in Nat /\ MaxLbFaults \in Nat

VARIABLES
  svc,      \* frontend -> [id, set, gen] as committed, or NoEntry
  backend,  \* the backend map: <<id, index, gen>> -> backend
  applied,  \* the daemon's cache: frontend -> [id, set], or NoSvc
  wanted,   \* the services of the pass: frontend -> [id, set], or NoSvc
  toDrop,   \* the frontends the pass still has to withdraw
  toProgram,\* and those it still has to program
  flip,     \* where it is in the writes of one frontend, or NoFlip
  settled,  \* whether the last pass ended without an error
  lbFaults

lbVars == <<svc, backend, applied, wanted, toDrop, toProgram, flip, settled, lbFaults>>

NoSvc == [id |-> 0, set |-> <<>>]
NoEntry == [id |-> 0, set |-> <<>>, gen |-> 0]
NoFlip == [at |-> "none"]

LbInit ==
  /\ svc = [f \in Frontends |-> NoEntry]
  /\ backend = [k \in {} |-> 0]
  /\ applied = [f \in Frontends |-> NoSvc]
  /\ wanted = [f \in Frontends |-> NoSvc]
  /\ toDrop = {} /\ toProgram = {} /\ flip = NoFlip
  /\ settled = TRUE /\ lbFaults = 0

-----------------------------------------------------------------------------
(* The pass.                                                               *)

\* Desired frontends: an id is at most one of them.
Wants ==
  {w \in [Frontends -> {NoSvc} \cup [id : FrontIds, set : BackendSets]] :
     \A f, g \in Frontends : f # g /\ w[f].id # 0 => w[f].id # w[g].id}

Unwanted(w) == {f \in Frontends : svc[f].id # 0 /\ w[f].id = 0}

\* Unchanged by the cache's word, and there: nothing is written.
Unchanged(f, w) == svc[f].id # 0 /\ applied[f] = w[f]

Changed(w) == {f \in Frontends : w[f].id # 0 /\ ~Unchanged(f, w)}

Between == flip = NoFlip /\ toDrop = {} /\ toProgram = {}

\* SyncServices reads what is there and knows what it has to do.
BeginSync(w) ==
  /\ Between
  /\ Renames \/ \A f \in Frontends : svc[f].id # 0 => w[f].id \in {0, svc[f].id}
  /\ \A f \in Frontends : svc[f].gen < MaxGen
  /\ wanted' = w /\ toDrop' = Unwanted(w) /\ toProgram' = Changed(w)
  /\ settled' = (Unwanted(w) = {} /\ Changed(w) = {})
  /\ UNCHANGED <<svc, backend, applied, flip, lbFaults>>

\* The frontends are walked in the order of their keys.
IsNext(f, S) == f \in S /\ \A g \in S : f <= g

\* (a bug: an address is withdrawn after the services have their new ones)
TurnLate(f) ==
  /\ flip = NoFlip
  /\ IF toProgram = {}
     THEN /\ IsNext(f, toDrop) /\ toDrop' = toDrop \ {f} /\ UNCHANGED toProgram
          /\ flip' = [at |-> "withdraw", f |-> f, i |-> 1, id |-> svc[f].id,
                      old |-> svc[f], new |-> NoSvc]
     ELSE /\ IsNext(f, toProgram) /\ toProgram' = toProgram \ {f} /\ UNCHANGED toDrop
          /\ flip' = [at |-> "put", f |-> f, i |-> 1, id |-> wanted[f].id,
                      old |-> svc[f], new |-> wanted[f]]
  /\ UNCHANGED <<svc, backend, applied, wanted, settled, lbFaults>>

\* The next frontend: those to withdraw come first.
Turn(f) ==
  /\ flip = NoFlip
  /\ \/ /\ IsNext(f, toDrop)
        /\ toDrop' = toDrop \ {f} /\ UNCHANGED toProgram
        /\ flip' = [at |-> "withdraw", f |-> f, i |-> 1, id |-> svc[f].id,
                    old |-> svc[f], new |-> NoSvc]
     \/ /\ toDrop = {} /\ IsNext(f, toProgram)
        /\ toProgram' = toProgram \ {f} /\ UNCHANGED toDrop
        /\ flip' = [at |-> "put", f |-> f, i |-> 1, id |-> wanted[f].id,
                    old |-> svc[f], new |-> wanted[f]]
  /\ UNCHANGED <<svc, backend, applied, wanted, settled, lbFaults>>

-----------------------------------------------------------------------------
(* The writes of one frontend.  A flip puts the new generation's backends, *)
(* commits, and deletes the old one's; a frontend that is withdrawn goes   *)
(* before its backends.                                                    *)

\* The write that is next.
NextWrite ==
  CASE flip.at = "put" -> IF flip.i <= Len(flip.new.set) THEN "put" ELSE "commit"
    [] flip.at = "delete" -> IF flip.i <= Len(flip.old.set) THEN "delete" ELSE "cache"
    [] OTHER -> flip.at

NewEntry == [id |-> flip.id, set |-> flip.new.set, gen |-> flip.old.gen + 1]

PutBackend ==
  LET key == <<flip.id, flip.i, NewEntry.gen>> IN
  /\ NextWrite = "put"
  /\ backend' = [k \in DOMAIN backend \cup {key} |->
                   IF k = key THEN flip.new.set[flip.i] ELSE backend[k]]
  /\ flip' = [flip EXCEPT !.i = @ + 1]
  /\ UNCHANGED <<svc, applied, wanted, toDrop, toProgram, settled, lbFaults>>

CommitService ==
  /\ NextWrite = "commit"
  /\ svc' = [svc EXCEPT ![flip.f] = NewEntry]
  /\ flip' = [flip EXCEPT !.at = "delete", !.i = 1]
  /\ UNCHANGED <<backend, applied, wanted, toDrop, toProgram, settled, lbFaults>>

DeleteService ==
  /\ NextWrite = "withdraw"
  /\ svc' = [svc EXCEPT ![flip.f] = NoEntry]
  /\ flip' = [flip EXCEPT !.at = "delete"]
  /\ UNCHANGED <<backend, applied, wanted, toDrop, toProgram, settled, lbFaults>>

\* Deleting an entry that is not there is no error.
DeleteBackend ==
  LET key == <<flip.id, flip.i, flip.old.gen>> IN
  /\ NextWrite = "delete"
  /\ backend' = [k \in DOMAIN backend \ {key} |-> backend[k]]
  /\ flip' = [flip EXCEPT !.i = @ + 1]
  /\ UNCHANGED <<svc, applied, wanted, toDrop, toProgram, settled, lbFaults>>

\* The cache follows the flip.
Caches ==
  /\ NextWrite = "cache"
  /\ applied' = [applied EXCEPT ![flip.f] = flip.new]
  /\ flip' = NoFlip
  /\ settled' = (toDrop = {} /\ toProgram = {})
  /\ UNCHANGED <<svc, backend, wanted, toDrop, toProgram, lbFaults>>

\* (a bug: the cache is filled although a write failed)
WriteFailsCached ==
  /\ NextWrite \in FailOps
  /\ lbFaults < MaxLbFaults /\ lbFaults' = lbFaults + 1
  /\ applied' = [applied EXCEPT ![flip.f] = flip.new]
  /\ toDrop' = {} /\ toProgram' = {} /\ flip' = NoFlip /\ settled' = FALSE
  /\ UNCHANGED <<svc, backend, wanted>>

\* A write fails and ends the pass; the next one starts over.
WriteFails ==
  /\ NextWrite \in FailOps
  /\ lbFaults < MaxLbFaults /\ lbFaults' = lbFaults + 1
  /\ toDrop' = {} /\ toProgram' = {} /\ flip' = NoFlip /\ settled' = FALSE
  /\ UNCHANGED <<svc, backend, applied, wanted>>

\* The daemon dies; the maps are pinned, the cache is memory.
LbCrash ==
  /\ lbFaults < MaxLbFaults /\ lbFaults' = lbFaults + 1
  /\ toDrop' = {} /\ toProgram' = {} /\ flip' = NoFlip /\ settled' = FALSE
  /\ applied' = [f \in Frontends |-> NoSvc]
  /\ UNCHANGED <<svc, backend, wanted>>

LbNext ==
  \/ \E w \in Wants : BeginSync(w)
  \/ \E f \in Frontends : Turn(f)
  \/ PutBackend \/ CommitService \/ DeleteService \/ DeleteBackend
  \/ Caches \/ WriteFails \/ LbCrash

LbSpec == LbInit /\ [][LbNext]_lbVars

-----------------------------------------------------------------------------
(* Properties.                                                             *)

\* A connect never meets a torn set: at every moment, also between two map
\* writes, after a failed one and after a crash, the generation a frontend
\* points at is all there and is the set that was committed
\* (dpmap/select.go FlipPlan, lb.go SyncServices).
SetsWhole ==
  \A f \in Frontends : \A i \in DOMAIN svc[f].set :
    /\ <<svc[f].id, i, svc[f].gen>> \in DOMAIN backend
    /\ backend[<<svc[f].id, i, svc[f].gen>>] = svc[f].set[i]

\* A pass that ends without an error leaves exactly the frontends it was asked
\* for: what the cache lets it skip is in the maps already (lb.go
\* SyncServices).
PassConverges ==
  settled => \A f \in Frontends :
               svc[f].id = wanted[f].id /\ svc[f].set = wanted[f].set
=============================================================================
