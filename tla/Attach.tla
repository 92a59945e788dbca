------------------------------- MODULE Attach -------------------------------
(***************************************************************************)
(* Attaching allocs to the eBPF datapath (internal/datapath attach.go,     *)
(* ipam.go, datapath.go Init): the address pool in memory, the identity    *)
(* map and the veth links in the kernel, the order in which an attach      *)
(* writes them, and what a failure, a crash of the daemon and an upgrade   *)
(* that wipes the pinned maps leave behind.                                *)
(*                                                                         *)
(* Attach, Detach and RepairIdentity hold one mutex and are called by the  *)
(* reconciler's one goroutine, so each is one step; what the kernel shows  *)
(* in the middle of one is what a crash there leaves.  The v6 half rides   *)
(* inside the same steps and is not kept apart.                            *)
(***************************************************************************)
EXTENDS Naturals, Sequences, FiniteSets, SequencesExt, FiniteSetsExt

CONSTANTS Allocs,
          ServiceOf,      \* alloc -> its service, the identity it is given
          PoolSize,       \* addresses in the node CIDR
          TeardownFails,  \* whether undoing a failed attach may fail too
          MaxFaults       \* bound: failed steps and crashes

Nobody == "nobody"

ASSUME AttachAssumption ==
  /\ PoolSize \in Nat \ {0} /\ MaxFaults \in Nat /\ TeardownFails \in BOOLEAN
  /\ Nobody \notin Allocs

VARIABLES
  link,      \* alloc -> its veth: the steps done on it, the alias's address
  ident,     \* address -> the service in the identity map, or none
  netns,     \* the allocs with a network namespace
  byAlloc,   \* ipam: alloc -> address, or 0
  byIP,      \* ipam: address -> alloc, or none
  kanead,    \* whether the daemon runs
  attached,  \* the allocs whose last Attach returned nil
  dpFaults

dpVars == <<link, ident, netns, byAlloc, byIP, kanead, attached, dpFaults>>

Addrs == 1..PoolSize
NoLink == [ip |-> 0, done |-> {}]
Exists(a) == "veth" \in link[a].done
Aliased(a) == "alias" \in link[a].done

AttachInit ==
  /\ link = [a \in Allocs |-> NoLink] /\ ident = [i \in Addrs |-> Nobody]
  /\ netns = {} /\ attached = {} /\ kanead = TRUE /\ dpFaults = 0
  /\ byAlloc = [a \in Allocs |-> 0] /\ byIP = [i \in Addrs |-> Nobody]

Fault == dpFaults < MaxFaults /\ dpFaults' = dpFaults + 1

-----------------------------------------------------------------------------
(* The pool.                                                               *)

\* Release.
ReleasedIPs(a) ==
  [i \in Addrs |-> IF byAlloc[a] = i THEN Nobody ELSE byIP[i]]
Released(a) == [byAlloc EXCEPT ![a] = 0]

\* Reserve: the address it has, else the lowest free one.
Reservable(a, bA, bI) ==
  IF bA[a] # 0 THEN {bA[a]}
  ELSE LET open == {i \in Addrs : bI[i] = Nobody}
       IN  IF open = {} THEN {} ELSE {Min(open)}

\* (a bug: the pool starts empty after a restart)
RebuiltEmpty(links) == [a \in Allocs |-> 0]

\* Rebuild: the aliases are the durable record.
Rebuilt(links) ==
  [a \in Allocs |-> IF "alias" \in links[a].done THEN links[a].ip ELSE 0]
RebuiltIPs(links) ==
  [i \in Addrs |->
     LET who == {a \in Allocs : Rebuilt(links)[a] = i}
     IN  IF who = {} THEN Nobody ELSE CHOOSE a \in who : TRUE]

-----------------------------------------------------------------------------
(* Attach.                                                                 *)

\* plumb's order, CreateVeth's two parts apart.
Steps ==
  <<"identity", "veth", "alias", "src", "programs", "netns", "peer",
    "configure", "up", "route">>

\* What the first k steps leave.
Upto(k) == {Steps[j] : j \in 1..k}
Plumbed(a, ip, k) ==
  /\ ident' = IF "identity" \in Upto(k)
                THEN [ident EXCEPT ![ip] = ServiceOf[a]] ELSE ident
  /\ link' = [link EXCEPT ![a] =
                IF "veth" \in Upto(k)
                  THEN [ip |-> ip, done |-> Upto(k) \ {"identity", "netns"}]
                  ELSE NoLink]
  /\ netns' = IF "netns" \in Upto(k) THEN netns \cup {a} ELSE netns

\* reuseExisting: a link with our alias and the identity it should have is
\* taken for a finished attach; its source binding is written again.
Adoptable(a) == Aliased(a) /\ ident[link[a].ip] = ServiceOf[a]

Adopt(a) ==
  /\ kanead /\ Adoptable(a)
  /\ byIP' = [i \in Addrs |-> IF i = link[a].ip THEN a
                              ELSE IF i = byAlloc[a] THEN Nobody ELSE byIP[i]]
  /\ byAlloc' = [byAlloc EXCEPT ![a] = link[a].ip]
  /\ link' = [link EXCEPT ![a].done = @ \cup {"src"}]
  /\ attached' = attached \cup {a}
  /\ UNCHANGED <<ident, netns, kanead, dpFaults>>

\* Anything else on the device's name is stale: deleted, its address freed.
Cleared(a) == IF Exists(a) THEN Released(a) ELSE byAlloc
ClearedIPs(a) == IF Exists(a) THEN ReleasedIPs(a) ELSE byIP

\* The whole of it.
AttachDone(a) ==
  /\ kanead /\ ~Adoptable(a)
  /\ \E ip \in Reservable(a, Cleared(a), ClearedIPs(a)) :
       /\ Plumbed(a, ip, Len(Steps))
       /\ byAlloc' = [Cleared(a) EXCEPT ![a] = ip]
       /\ byIP' = [ClearedIPs(a) EXCEPT ![ip] = a]
  /\ attached' = attached \cup {a} /\ UNCHANGED <<kanead, dpFaults>>

\* The pool is exhausted; a stale link is gone by then.
AttachRefused(a) ==
  /\ kanead /\ ~Adoptable(a)
  /\ Reservable(a, Cleared(a), ClearedIPs(a)) = {}
  /\ link' = [link EXCEPT ![a] = NoLink]
  /\ byAlloc' = Cleared(a) /\ byIP' = ClearedIPs(a)
  /\ attached' = attached \ {a}
  /\ UNCHANGED <<ident, netns, kanead, dpFaults>>

\* A step fails after the first k: teardownPartial undoes what it can, keeps
\* what `left` names, and gives the address back whatever happened.
AttachFails(a, k, left) ==
  /\ kanead /\ ~Adoptable(a) /\ Fault
  /\ left \subseteq IF TeardownFails THEN {"veth", "identity"} ELSE {}
  /\ \E ip \in Reservable(a, Cleared(a), ClearedIPs(a)) :
       /\ link' = [link EXCEPT ![a] =
                     IF "veth" \in left \cap Upto(k)
                       THEN [ip |-> ip, done |-> Upto(k) \ {"identity", "netns"}]
                       ELSE NoLink]
       /\ ident' = [ident EXCEPT ![ip] =
                      IF "identity" \in left \cap Upto(k)
                        THEN ServiceOf[a] ELSE Nobody]
       /\ byAlloc' = [Cleared(a) EXCEPT ![a] = 0]
       /\ byIP' = [ClearedIPs(a) EXCEPT ![ip] = Nobody]
  /\ netns' = netns \ {a} /\ attached' = attached \ {a}
  /\ UNCHANGED kanead

\* The daemon dies after the first k steps.
AttachCrashes(a, k) ==
  /\ kanead /\ ~Adoptable(a) /\ Fault
  /\ \E ip \in Reservable(a, Cleared(a), ClearedIPs(a)) : Plumbed(a, ip, k)
  /\ kanead' = FALSE /\ attached' = attached \ {a}
  /\ UNCHANGED <<byAlloc, byIP>>

-----------------------------------------------------------------------------
(* Detach, repair, restart.                                                *)

\* The address Detach knows: the pool's, else the alias's.
Known(a) == IF byAlloc[a] # 0 THEN byAlloc[a]
            ELSE IF Aliased(a) THEN link[a].ip ELSE 0

\* veth, identity, release, namespace; the first k happen.  Detach runs when
\* the task is gone, and again when it failed.
Detach(a, k) ==
  /\ kanead
  /\ IF k < 4 THEN Fault ELSE UNCHANGED dpFaults
  /\ link' = IF k >= 1 THEN [link EXCEPT ![a] = NoLink] ELSE link
  /\ ident' = [i \in Addrs |->
                 IF k >= 2 /\ i = Known(a) THEN Nobody ELSE ident[i]]
  /\ byAlloc' = IF k >= 3 THEN Released(a) ELSE byAlloc
  /\ byIP' = IF k >= 3 THEN ReleasedIPs(a) ELSE byIP
  /\ netns' = IF k = 4 THEN netns \ {a} ELSE netns
  /\ attached' = attached \ {a} /\ UNCHANGED kanead

\* repairNetwork and RepairIdentity: an attachment that is not Ready.
RepairIdentity(a) ==
  /\ kanead /\ Aliased(a) /\ ident[link[a].ip] = Nobody
  /\ ident' = [ident EXCEPT ![link[a].ip] = ServiceOf[a]]
  /\ link' = [link EXCEPT ![a].done = @ \cup {"src"}]
  /\ UNCHANGED <<netns, byAlloc, byIP, kanead, attached, dpFaults>>

\* The daemon dies between operations; the pool is memory.
DaemonDies ==
  /\ kanead /\ Fault /\ kanead' = FALSE
  /\ UNCHANGED <<link, ident, netns, byAlloc, byIP, attached>>

\* Init, after an upgrade that changed the maps' layout (wiped) or not.
DatapathInit(wiped) ==
  /\ ~kanead /\ kanead' = TRUE
  /\ link' = [a \in Allocs |->
                IF Aliased(a)
                  THEN [link[a] EXCEPT !.done = @ \cup {"src", "programs"}]
                  ELSE link[a]]
  /\ ident' = IF wiped THEN [i \in Addrs |-> Nobody] ELSE ident
  /\ byAlloc' = Rebuilt(link) /\ byIP' = RebuiltIPs(link)
  /\ UNCHANGED <<netns, attached, dpFaults>>

AttachNext ==
  \/ \E a \in Allocs :
       \/ Adopt(a) \/ AttachDone(a) \/ AttachRefused(a) \/ RepairIdentity(a)
       \/ \E k \in 0..Len(Steps) - 1 :
            \/ AttachCrashes(a, k)
            \/ \E left \in SUBSET {"veth", "identity"} : AttachFails(a, k, left)
       \/ \E k \in 0..4 : Detach(a, k)
  \/ DaemonDies \/ \E w \in BOOLEAN : DatapathInit(w)

AttachSpec == AttachInit /\ [][AttachNext]_dpVars

-----------------------------------------------------------------------------
(* Properties.                                                             *)

\* An address is on one link, and while the daemon runs the pool holds it for
\* the alloc that has it, through failed attaches, crashes and restarts: what
\* the next attach is given is on no link (ipam.go Reserve, Rebuild).
OneAddress ==
  \A a \in Allocs : Aliased(a) =>
    /\ \A b \in Allocs \ {a} : Aliased(b) => link[b].ip # link[a].ip
    /\ kanead => byAlloc[a] = link[a].ip /\ byIP[link[a].ip] = a

\* "A matching alias with the v4 identity present means the attach completed":
\* an alloc whose Attach returned nil has every step behind it.  It does not
\* hold (attach.go reuseExisting): the identity is the first thing written,
\* and a crash after the alias leaves a link that the retry adopts.
AttachComplete ==
  \A a \in attached :
    /\ Upto(Len(Steps)) \ {"identity", "netns"} \subseteq link[a].done
    /\ a \in netns
=============================================================================
