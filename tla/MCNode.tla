------------------------------- MODULE MCNode -------------------------------
(***************************************************************************)
(* The parts of a node that keep their own state and are checked for       *)
(* safety alone.  focus says which of them a behaviour is about: the       *)
(* registry, the attachments or the frontends of the datapath, the audit   *)
(* trail, the rate limiter, or the connections of the published ports.     *)
(***************************************************************************)
EXTENDS Registry, Attach, LoadBalancer, AuditLog, RateLimiter, Relay

CONSTANTS b1, b2, k1, k2, c1, c2    \* backends, connections, clients that are alike

VARIABLE focus

vars == <<regVars, dpVars, lbVars, auditVars, rateVars, relayVars, focus>>

McChildren == [m1 |-> {"l1", "l2"}, m2 |-> {"l2"}]
McSourceOf == [c \in Clients |-> IF c \in {c1, c2} THEN "c" ELSE "d"]
\* No backend, one, and two, the first of which is another.
McBackendSets == {<<>>, <<1>>, <<2, 1>>}
McServiceOf == [a1 |-> "s", a2 |-> "s", b1 |-> "t"]
\* A limit without a burst, and one with as much burst as allowance.
McLimits == {[requests |-> 2, window |-> 2, burst |-> 0],
             [requests |-> 1, window |-> 2, burst |-> 1]}
McSymmetry == 
    Permutations({b1, b2}) \cup Permutations({k1, k2}) \cup Permutations({c1, c2})

Init ==
  /\ RegInit /\ AttachInit /\ LbInit /\ AuditInit /\ RateInit /\ RelayInit
  /\ focus \in {"registry", "attach", "frontends", "audit", "rate", "relays"}
  /\ focus # "rate" => limitOf = [s \in Subjects |-> CHOOSE l \in Limits : TRUE]
  /\ udp.cfg = [backends |-> {b1}, limit |-> Max(PortLimits)]
  /\ tcp.limit = Max(PortLimits)

Step ==
  \/ /\ focus = "registry" /\ RegNext
     /\ UNCHANGED <<dpVars, lbVars, auditVars, rateVars, relayVars>>
  \/ /\ focus = "attach" /\ AttachNext
     /\ UNCHANGED <<regVars, lbVars, auditVars, rateVars, relayVars>>
  \/ /\ focus = "frontends" /\ LbNext
     /\ UNCHANGED <<regVars, dpVars, auditVars, rateVars, relayVars>>
  \/ /\ focus = "audit" /\ AuditNext
     /\ UNCHANGED <<regVars, dpVars, lbVars, rateVars, relayVars>>
  \/ /\ focus = "rate" /\ RateNext
     /\ UNCHANGED <<regVars, dpVars, lbVars, auditVars, relayVars>>
  \/ /\ focus = "relays" /\ RelayNext
     /\ UNCHANGED <<regVars, dpVars, lbVars, auditVars, rateVars>>

Next == UNCHANGED focus /\ Step

Spec == Init /\ [][Next]_vars
=============================================================================
