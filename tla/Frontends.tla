----------------------------- MODULE Frontends ------------------------------
(***************************************************************************)
(* The frontend addresses of services (internal/reconciler/vip.go): one    *)
(* IPv4 address for every service with a port, an IPv6 twin when the node  *)
(* has an IPv6 pool, both remembered in the store.  Sync runs in every     *)
(* reconciler pass with the services of that pass's view.                  *)
(***************************************************************************)
EXTENDS Integers, FiniteSets, FiniteSetsExt

CONSTANTS
    Services,      \* numbers: their order is the order of their names
    Pool, Pool6    \* the usable addresses of each family, as numbers

ASSUME FrontendsAssumption ==
    /\ Services \subseteq Nat /\ Pool \subseteq Nat \ {0} /\ Pool6 \subseteq Nat \ {0}
    /\ IsFiniteSet(Services) /\ IsFiniteSet(Pool) /\ IsFiniteSet(Pool6)

VARIABLES
    vips, vips6,   \* store: lb/vip/ and lb/vip6/
    ipv6           \* the daemon runs with an IPv6 pool

vipVars == <<vips, vips6, ipv6>>

NoVIP == 0

\* The place of x in S, from 1.
Place(x, S) == Cardinality({y \in S : y <= x})

\* (a bug: addresses in use are not left out)
FreeAll(v, pool, wanted) == pool

\* The addresses Sync may hand out: those no wanted service holds.
Free(v, pool, wanted) == pool \ {v[s] : s \in wanted}

Fresh(v, wanted) == {s \in wanted : v[s] = NoVIP}

\* nextFree runs out before every fresh service has an address.
Exhausted(v, pool, wanted) ==
    Cardinality(Fresh(v, wanted)) > Cardinality(Free(v, pool, wanted))

\* Addresses are released first; then each service without one, in the order
\* of names, gets the lowest free address.
Assigned(v, pool, wanted) ==
    [s \in Services |->
       IF s \notin wanted THEN NoVIP
       ELSE IF v[s] # NoVIP THEN v[s]
       ELSE CHOOSE ip \in Free(v, pool, wanted) :
              Place(ip, Free(v, pool, wanted)) = Place(s, Fresh(v, wanted))]

\* One pass: both families in one batch, or nothing when a pool is exhausted
\* or the store refuses the batch.
Sync(wanted) ==
    /\ \/ /\ ~Exhausted(vips, Pool, wanted)
          /\ ipv6 => ~Exhausted(vips6, Pool6, wanted)
          /\ vips' = Assigned(vips, Pool, wanted)
          /\ vips6' = IF ipv6 THEN Assigned(vips6, Pool6, wanted) ELSE vips6
       \/ UNCHANGED <<vips, vips6>>
    /\ UNCHANGED ipv6

\* The daemon restarts, with or without an IPv6 pool.
Reconfigure ==
    /\ ipv6' = ~ipv6
    /\ UNCHANGED <<vips, vips6>>

VipInit ==
    /\ vips = [s \in Services |-> NoVIP]
    /\ vips6 = [s \in Services |-> NoVIP]
    /\ ipv6 \in BOOLEAN

VipSpec ==
    VipInit /\ [][(\E wanted \in SUBSET Services : Sync(wanted)) \/ Reconfigure]_vipVars

-----------------------------------------------------------------------------
\* No two services share an address of either family, whatever was released,
\* reused, or left behind while the node ran without IPv6 (Sync, nextFree).
VipsUnique ==
    \A s, u \in Services : s # u =>
        /\ vips[s] = vips[u] => vips[s] = NoVIP
        /\ vips6[s] = vips6[u] => vips6[s] = NoVIP

\* A service that keeps existing keeps its addresses: clients cache them, so an
\* assignment only ends with its service (Sync: "a service whose frontend moved
\* would have every existing client pointing at nothing").
VipsStay ==
    [][\A s \in Services :
         /\ vips[s] # NoVIP => vips'[s] \in {vips[s], NoVIP}
         /\ vips6[s] # NoVIP => vips6'[s] \in {vips6[s], NoVIP}]_vipVars
=============================================================================
