------------------------------- MODULE Relay -------------------------------
(***************************************************************************)
(* The connections of the edge's published ports (internal/edge tcp.go,    *)
(* udp.go, listeners.go): a udp relay and a tcp relay that share one       *)
(* node-wide limit, each followed until its port is withdrawn.             *)
(*                                                                         *)
(* A udp session lives in the reader's openSession, in the table, and in   *)
(* its replyLoop, which alone takes it out and returns its slot; the       *)
(* janitor, a new configuration and a withdrawal only collect sessions     *)
(* under the lock and close their sockets after it.  A tcp connection is   *)
(* a goroutine of its own.                                                 *)
(***************************************************************************)
EXTENDS Integers, FiniteSets

CONSTANTS
    Clients,       \* udp clients: a source address and a port each
    SourceOf,      \* client -> its source address
    SourceCap,     \* DefaultMaxSessionsPerIP
    Conns,         \* tcp connections that may be open together
    NodeMax,       \* the shared limit
    PortLimits,    \* what max_conns of a port may be
    PortBackends,  \* sets of backends the udp port may have
    MaxSessions,   \* bound: udp sessions opened
    MaxUpdates     \* bound: configurations swapped in

ASSUME RelayAssumption ==
    /\ SourceCap \in Nat \ {0} /\ NodeMax \in Nat \ {0}
    /\ PortLimits \subseteq Nat \ {0} /\ IsFiniteSet(PortLimits)
    /\ MaxSessions \in Nat /\ MaxUpdates \in Nat

VARIABLES
    udp,        \* the udp relay: configuration, table, counts per source
    opening,    \* sessions inside openSession: none or one, there is one reader
    leaving,    \* sessions out of the table whose slot is not returned yet
    tcp,        \* the tcp relay: limit, and the connections it has registered
    conns,      \* what each connection's goroutine is at
    slots,      \* connLimiter.inUse
    collected,  \* by Apply and by the janitor: what they are about to close
    opened, updates

relayVars == <<udp, opening, leaving, tcp, conns, slots, collected, opened, updates>>
tcpVars == <<tcp, conns>>
udpVars == <<udp, opening, leaving, opened>>

Sources == {SourceOf[c] : c \in Clients}
PortConfigs == [backends : PortBackends, limit : PortLimits]
Gone == [at |-> "gone"]

-----------------------------------------------------------------------------
(* Sessions.                                                               *)

\* openSession up to the dial, for a client without a session: against the
\* configuration read here, and with a slot of the node's.  The datagram may
\* have been read just before the socket was closed.
OpenSession(c) ==
    /\ opening = {} /\ c \notin {s.client : s \in udp.sessions}
    /\ slots < NodeMax /\ slots' = slots + 1
    /\ opened < MaxSessions /\ opened' = opened + 1
    /\ \E b \in udp.cfg.backends :
         opening' = {[session |-> [n |-> opened, client |-> c, backend |-> b, cut |-> FALSE],
                      limit |-> udp.cfg.limit]}
    /\ UNCHANGED <<udp, leaving, tcpVars, collected, updates>>

Admits(s, limit) ==
    /\ ~udp.closed /\ Cardinality(udp.sessions) < limit
    /\ udp.perSource[SourceOf[s.client]] < SourceCap

\* (a bug: a session that is not admitted keeps its slot)
RegisterLeaks ==
    \E o \in opening :
      LET s == o.session IN
        /\ opening' = {}
        /\ \/ /\ Admits(s, o.limit)
              /\ udp' = [udp EXCEPT !.sessions = @ \cup {s},
                                    !.perSource[SourceOf[s.client]] = @ + 1]
           \/ ~Admits(s, o.limit) /\ UNCHANGED udp
        /\ UNCHANGED <<slots, leaving, tcpVars, collected, opened, updates>>

\* The end of openSession: registered, or refused with the slot returned; the
\* dial may have failed, too.
Register ==
    \E o \in opening :
      LET s == o.session IN
        /\ opening' = {}
        /\ \/ /\ Admits(s, o.limit)
              /\ udp' = [udp EXCEPT !.sessions = @ \cup {s},
                                    !.perSource[SourceOf[s.client]] = @ + 1]
              /\ UNCHANGED slots
           \/ UNCHANGED udp /\ slots' = slots - 1
        /\ UNCHANGED <<leaving, tcpVars, collected, opened, updates>>

Cut(s) ==
    udp' = [udp EXCEPT !.sessions = (@ \ {s}) \cup {[s EXCEPT !.cut = TRUE]}]

\* A datagram that the backend refuses ends its session (handle).
SendFails ==
    /\ ~udp.closed /\ opening = {}
    /\ \E s \in udp.sessions : ~s.cut /\ Cut(s)
    /\ UNCHANGED <<opening, leaving, opened, tcpVars, slots, collected, updates>>

\* replyLoop ends when its socket is closed, or fails: first the session
\* leaves the table, then its slot is returned.
ReplyEnds ==
    /\ \E s \in udp.sessions :
         /\ udp' = [udp EXCEPT !.sessions = @ \ {s},
                               !.perSource[SourceOf[s.client]] = @ - 1]
         /\ leaving' = leaving \cup {s}
    /\ UNCHANGED <<opening, opened, tcpVars, slots, collected, updates>>

ReplyReleases ==
    /\ \E s \in leaving : leaving' = leaving \ {s}
    /\ slots' = slots - 1
    /\ UNCHANGED <<udp, opening, opened, tcpVars, collected, updates>>

\* expireIdle: some sessions are idle.
ExpireIdle ==
    /\ collected.janitor = {}
    /\ \E S \in SUBSET udp.sessions :
         collected' = [collected EXCEPT !.janitor = {s.n : s \in S}]
    /\ collected' # collected
    /\ UNCHANGED <<udpVars, tcpVars, slots, updates>>

\* What was collected is closed one at a time; closing twice, or closing a
\* session that is gone, does nothing.
CloseSession(by) ==
    \E n \in collected[by] :
        /\ collected' = [collected EXCEPT ![by] = @ \ {n}]
        /\ \/ \E s \in udp.sessions : s.n = n /\ Cut(s)
           \/ n \notin {s.n : s \in udp.sessions} /\ UNCHANGED udp
        /\ UNCHANGED <<opening, leaving, opened, tcpVars, slots, updates>>

-----------------------------------------------------------------------------
(* Connections.                                                            *)

At(k, where) == conns[k].at = where
Moves(k, where) == conns' = [conns EXCEPT ![k].at = where]

\* serve and the start of handle: the limit is the one read now.  The listener
\* may be closed between the two.
Accept(k) ==
    /\ At(k, "gone")
    /\ conns' = [conns EXCEPT ![k] = [at |-> "accepted", limit |-> tcp.limit, cut |-> FALSE]]
    /\ UNCHANGED <<udpVars, tcp, slots, collected, updates>>

\* (a bug: a withdrawn port still takes what it had accepted)
TakeAlways(k) ==
    /\ At(k, "accepted")
    /\ \/ /\ Cardinality(tcp.live) < conns[k].limit
          /\ tcp' = [tcp EXCEPT !.live = @ \cup {k}] /\ Moves(k, "taken")
       \/ conns' = [conns EXCEPT ![k] = Gone] /\ UNCHANGED tcp
    /\ UNCHANGED <<udpVars, slots, collected, updates>>

\* A connection refused by its address or its listener's limit is closed.
Take(k) ==
    /\ At(k, "accepted")
    /\ \/ /\ ~tcp.closed /\ Cardinality(tcp.live) < conns[k].limit
          /\ tcp' = [tcp EXCEPT !.live = @ \cup {k}] /\ Moves(k, "taken")
       \/ conns' = [conns EXCEPT ![k] = Gone] /\ UNCHANGED tcp
    /\ UNCHANGED <<udpVars, slots, collected, updates>>

Acquire(k) ==
    /\ At(k, "taken")
    /\ \/ slots < NodeMax /\ slots' = slots + 1 /\ Moves(k, "relaying")
       \/ slots >= NodeMax /\ UNCHANGED slots /\ Moves(k, "leaving")
    /\ UNCHANGED <<udpVars, tcp, collected, updates>>

\* Either side ends, the dial fails, or the connection was closed: the slot
\* goes back before the listener forgets the connection.
RelayEnds(k) ==
    /\ At(k, "relaying") /\ slots' = slots - 1 /\ Moves(k, "leaving")
    /\ UNCHANGED <<udpVars, tcp, collected, updates>>

Done(k) ==
    /\ At(k, "leaving")
    /\ tcp' = [tcp EXCEPT !.live = @ \ {k}] /\ conns' = [conns EXCEPT ![k] = Gone]
    /\ UNCHANGED <<udpVars, slots, collected, updates>>

CloseConn ==
    \E k \in collected.conns :
        /\ collected' = [collected EXCEPT !.conns = @ \ {k}]
        /\ \/ ~At(k, "gone") /\ conns' = [conns EXCEPT ![k].cut = TRUE]
           \/ At(k, "gone") /\ UNCHANGED conns
        /\ UNCHANGED <<udpVars, tcp, slots, updates>>

-----------------------------------------------------------------------------
(* The watcher's goroutine, in listenerSet.Apply.                          *)

Applies ==
    /\ collected.apply = {} /\ collected.conns = {}
    /\ updates < MaxUpdates /\ updates' = updates + 1

\* update of the udp relay: the sessions of backends that left are collected.
UpdateUDP ==
    /\ Applies /\ ~udp.closed
    /\ \E cfg \in PortConfigs \ {udp.cfg} :
         /\ udp' = [udp EXCEPT !.cfg = cfg]
         /\ collected' = [collected EXCEPT
                !.apply = {s.n : s \in {t \in udp.sessions : t.backend \notin cfg.backends}}]
    /\ UNCHANGED <<opening, leaving, opened, tcpVars, slots>>

UpdateTCP ==
    /\ Applies /\ ~tcp.closed
    /\ \E limit \in PortLimits \ {tcp.limit} : tcp' = [tcp EXCEPT !.limit = limit]
    /\ UNCHANGED <<udpVars, conns, slots, collected>>

\* stop and closeLive: the socket is closed, the relay is marked, and what it
\* holds is collected.
WithdrawUDP ==
    /\ Applies /\ ~udp.closed /\ udp' = [udp EXCEPT !.closed = TRUE]
    /\ collected' = [collected EXCEPT !.apply = {s.n : s \in udp.sessions}]
    /\ UNCHANGED <<opening, leaving, opened, tcpVars, slots>>

WithdrawTCP ==
    /\ Applies /\ ~tcp.closed /\ tcp' = [tcp EXCEPT !.closed = TRUE]
    /\ collected' = [collected EXCEPT !.conns = tcp.live]
    /\ UNCHANGED <<udpVars, conns, slots>>

RelayInit ==
    /\ \E cfg \in PortConfigs :
         udp = [cfg |-> cfg, sessions |-> {}, perSource |-> [i \in Sources |-> 0], closed |-> FALSE]
    /\ \E limit \in PortLimits : tcp = [limit |-> limit, live |-> {}, closed |-> FALSE]
    /\ opening = {} /\ leaving = {} /\ conns = [k \in Conns |-> Gone]
    /\ slots = 0 /\ collected = [apply |-> {}, conns |-> {}, janitor |-> {}]
    /\ opened = 0 /\ updates = 0

RelayNext ==
    \/ \E c \in Clients : OpenSession(c)
    \/ Register \/ SendFails \/ ReplyEnds \/ ReplyReleases \/ ExpireIdle
    \/ \E by \in {"apply", "janitor"} : CloseSession(by)
    \/ CloseConn
    \/ \E k \in Conns : Accept(k) \/ Take(k) \/ Acquire(k) \/ RelayEnds(k) \/ Done(k)
    \/ UpdateUDP \/ UpdateTCP \/ WithdrawUDP \/ WithdrawTCP

RelaySpec == RelayInit /\ [][RelayNext]_relayVars

-----------------------------------------------------------------------------
(* Properties.                                                             *)

\* Every slot of the node's limit is held by one session or connection that
\* will return it, and none of the three limits is ever exceeded: the shared
\* count, the count per source and the count per listener are kept in different
\* critical sections, by different goroutines (openSession, replyLoop, handle).
SlotsCounted ==
    /\ slots = Cardinality(opening) + Cardinality(udp.sessions) + Cardinality(leaving)
               + Cardinality({k \in Conns : At(k, "relaying")})
    /\ slots <= NodeMax
    /\ \A i \in Sources :
         LET held == Cardinality({s \in udp.sessions : SourceOf[s.client] = i})
         IN  udp.perSource[i] = held /\ held <= SourceCap
    /\ \E limit \in PortLimits :
         Cardinality(udp.sessions) <= limit /\ Cardinality(tcp.live) <= limit

\* Once a port is withdrawn, whatever it still holds has been closed or is
\* about to be: no session or connection that was being opened slips past
\* closeLive and outlives its port.
NoneOutlives ==
    /\ udp.closed => \A s \in udp.sessions : s.cut \/ s.n \in collected.apply
    /\ tcp.closed => \A k \in tcp.live :
                        At(k, "leaving") \/ conns[k].cut \/ k \in collected.conns

\* Between two configurations every session goes to a backend of the port:
\* "Sessions to a backend that left the set are ended" (udpRelay.update).
SessionsOnBackends ==
    collected.apply = {} /\ ~udp.closed =>
        \A s \in udp.sessions : s.cut \/ s.backend \in udp.cfg.backends
=============================================================================
