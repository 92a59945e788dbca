---------------------------- MODULE NetworkProofs ----------------------------
(***************************************************************************)
(* The edge's published ports, the services' addresses and the             *)
(* notifications: connections end with their port and hold exactly the     *)
(* slots they count; no two services share an address or lose one; no      *)
(* event is lost without being counted.  For any number of clients,        *)
(* connections, backends, services, routes and events, every limit and     *)
(* every pool.                                                             *)
(***************************************************************************)
EXTENDS Relay, Frontends, Dispatcher,
        FiniteSetTheorems, SequenceTheorems, WellFoundedInduction, TLAPS

-----------------------------------------------------------------------------
(* The connections of the published ports.                                 *)

Backends == UNION PortBackends
Session == [n : Nat, client : Clients, backend : Backends, cut : BOOLEAN]
Opening == [session : Session, limit : PortLimits]
Slotted == {"taken", "relaying", "leaving"}
ConnState == {Gone} \cup [at : Slotted \cup {"accepted"}, limit : PortLimits, cut : BOOLEAN]

UdpType == [cfg : PortConfigs, sessions : SUBSET Session,
            perSource : [Sources -> Int], closed : BOOLEAN]
CollectedType == [apply : SUBSET Nat, conns : SUBSET Conns, janitor : SUBSET Nat]

RelayTypeOK ==
    /\ udp \in UdpType
    /\ opening \in SUBSET Opening /\ leaving \in SUBSET Session
    /\ tcp \in [limit : PortLimits, live : SUBSET Conns, closed : BOOLEAN]
    /\ conns \in [Conns -> ConnState]
    /\ collected \in CollectedType
    /\ slots \in Int /\ opened \in Nat /\ updates \in Nat

\* A session's number is its own, wherever the session is; there is one reader.
NumbersInv ==
    /\ \A s \in udp.sessions : s.n < opened
    /\ \A s \in leaving : s.n < opened
    /\ \A o \in opening : o.session.n < opened
    /\ \A s, u \in udp.sessions : s.n = u.n => s = u
    /\ \A s \in udp.sessions, u \in leaving : s.n # u.n
    /\ \A o \in opening : \A s \in udp.sessions \cup leaving : s.n # o.session.n
    /\ \A o, p \in opening : o = p

\* The listener's table holds the connections whose goroutine will leave it.
LiveInv == \A k \in Conns : k \in tcp.live <=> conns[k].at \in Slotted

RelayInv == RelayTypeOK /\ NumbersInv /\ LiveInv

-----------------------------------------------------------------------------
\* What a relay's fields may be changed to.
LEMMA UdpChanges ==
    ASSUME NEW u \in UdpType, NEW S \in SUBSET Session, NEW c \in Clients
    PROVE  /\ [u EXCEPT !.sessions = S,
                        !.perSource[SourceOf[c]] = @ + 1] \in UdpType
           /\ [u EXCEPT !.sessions = S,
                        !.perSource[SourceOf[c]] = @ - 1] \in UdpType
<1>1. SourceOf[c] \in Sources
  BY DEF Sources
<1>2. u.perSource \in [Sources -> Int]
  BY DEF UdpType
<1>3. /\ [u.perSource EXCEPT ![SourceOf[c]] = @ + 1] \in [Sources -> Int]
      /\ [u.perSource EXCEPT ![SourceOf[c]] = @ - 1] \in [Sources -> Int]
  BY <1>1, <1>2
<1>4. /\ [u EXCEPT !.sessions = S,
                   !.perSource[SourceOf[c]] = @ + 1] \in UdpType
      /\ [u EXCEPT !.sessions = S,
                   !.perSource[SourceOf[c]] = @ - 1] \in UdpType
  BY <1>3 DEF UdpType
<1> QED
  BY <1>4

\* A connection that is not gone is a goroutine with a place, a limit and a
\* socket, which it keeps as it moves on.
LEMMA ConnMoves ==
    ASSUME NEW r \in ConnState, r.at # "gone", NEW where \in Slotted
    PROVE  /\ [r EXCEPT !.at = where] \in ConnState
           /\ [r EXCEPT !.at = where].at = where
           /\ [r EXCEPT !.at = where].cut = r.cut
           /\ [r EXCEPT !.cut = TRUE] \in ConnState
           /\ [r EXCEPT !.cut = TRUE].at = r.at
           /\ [r EXCEPT !.cut = TRUE].cut
<1>1. r \in [at : Slotted \cup {"accepted"}, limit : PortLimits, cut : BOOLEAN]
  BY DEF ConnState, Gone
<1>2. /\ [r EXCEPT !.at = where] \in [at : Slotted \cup {"accepted"}, limit : PortLimits, cut : BOOLEAN]
      /\ [r EXCEPT !.at = where].at = where
      /\ [r EXCEPT !.at = where].cut = r.cut
  BY <1>1, Zenon
<1>3. /\ [r EXCEPT !.cut = TRUE] \in [at : Slotted \cup {"accepted"}, limit : PortLimits, cut : BOOLEAN]
      /\ [r EXCEPT !.cut = TRUE].at = r.at
      /\ [r EXCEPT !.cut = TRUE].cut
  BY <1>1, Zenon
<1> QED
  BY <1>2, <1>3 DEF ConnState

\* The initial state: nothing is open.
LEMMA RelayInitInv == RelayInit => RelayInv /\ NoneOutlives
BY RelayAssumption DEF RelayInit, RelayInv, RelayTypeOK, UdpType, CollectedType, NumbersInv, LiveInv, NoneOutlives,
   ConnState, Gone, Slotted, PortConfigs

\* Udp: what each step of a session does to the numbers and the types.
LEMMA OpenSessionInv ==
    ASSUME RelayInv, NEW c \in Clients, OpenSession(c)
    PROVE  RelayInv' /\ (NoneOutlives => NoneOutlives')
<1>1. PICK b \in udp.cfg.backends :
        opening' = {[session |-> [n |-> opened, client |-> c, backend |-> b, cut |-> FALSE],
                     limit |-> udp.cfg.limit]}
  BY DEF OpenSession
<1>2. /\ opened' = opened + 1 /\ slots' = slots + 1
      /\ UNCHANGED <<udp, leaving, tcp, conns, collected, updates>>
  BY DEF OpenSession, tcpVars
<1>3. udp.cfg \in PortConfigs /\ udp.cfg.limit \in PortLimits /\ b \in Backends
  BY DEF RelayInv, RelayTypeOK, UdpType, CollectedType, PortConfigs, Backends
<1>4. opening' \in SUBSET Opening
  BY <1>1, <1>3 DEF Opening, Session, RelayInv, RelayTypeOK
<1>5. RelayTypeOK'
  BY <1>2, <1>4 DEF RelayInv, RelayTypeOK
<1>6. NumbersInv'
  BY <1>1, <1>2 DEF RelayInv, RelayTypeOK, UdpType, CollectedType, NumbersInv, Session
<1>7. LiveInv' /\ (NoneOutlives => NoneOutlives')
  BY <1>2 DEF RelayInv, LiveInv, NoneOutlives, At
<1> QED
  BY <1>5, <1>6, <1>7 DEF RelayInv

\* The session that leaves openSession is in the table afterwards, or nowhere.
LEMMA RegisterInv ==
    ASSUME RelayInv, Register
    PROVE  RelayInv' /\ (NoneOutlives => NoneOutlives')
<1>1. PICK o \in opening :
        /\ opening' = {}
        /\ \/ /\ Admits(o.session, o.limit) /\ UNCHANGED slots
              /\ udp' = [udp EXCEPT !.sessions = @ \cup {o.session},
                           !.perSource[SourceOf[o.session.client]] = @ + 1]
           \/ UNCHANGED udp /\ slots' = slots - 1
        /\ UNCHANGED <<leaving, tcp, conns, collected, opened, updates>>
  BY DEF Register, tcpVars
<1>2. o.session \in Session /\ o.session.n < opened
  BY DEF RelayInv, RelayTypeOK, NumbersInv, Opening
<1>3. CASE UNCHANGED udp
  <2>1. slots' \in Int
    BY <1>1 DEF RelayInv, RelayTypeOK
  <2>2. RelayTypeOK'
    BY <1>1, <1>3, <2>1 DEF RelayInv, RelayTypeOK
  <2>3. NumbersInv'
    BY <1>1, <1>3 DEF RelayInv, NumbersInv
  <2>4. LiveInv' /\ (NoneOutlives => NoneOutlives')
    BY <1>1, <1>3 DEF RelayInv, LiveInv, NoneOutlives, At
  <2> QED
    BY <2>2, <2>3, <2>4 DEF RelayInv
<1>4. CASE /\ Admits(o.session, o.limit) /\ UNCHANGED slots
           /\ udp' = [udp EXCEPT !.sessions = @ \cup {o.session},
                           !.perSource[SourceOf[o.session.client]] = @ + 1]
  <2>1. /\ udp'.sessions = udp.sessions \cup {o.session}
        /\ udp'.closed = udp.closed /\ ~udp.closed /\ udp'.cfg = udp.cfg
    BY <1>4 DEF Admits, RelayInv, RelayTypeOK
  <2>2. udp' \in UdpType
    <3>1. /\ udp \in UdpType /\ udp.sessions \cup {o.session} \in SUBSET Session
          /\ o.session.client \in Clients
      BY <1>2 DEF RelayInv, RelayTypeOK, UdpType, Session
    <3>2. udp' = [udp EXCEPT !.sessions = udp.sessions \cup {o.session},
                             !.perSource[SourceOf[o.session.client]] = @ + 1]
      BY <1>4
    <3> QED
      BY <3>1, <3>2, UdpChanges
  <2>3. RelayTypeOK'
    BY <1>1, <1>4, <2>2 DEF RelayInv, RelayTypeOK
  <2>4. NumbersInv'
    BY <1>1, <1>2, <2>1 DEF RelayInv, NumbersInv
  <2>5. LiveInv' /\ (NoneOutlives => NoneOutlives')
    BY <1>1, <2>1 DEF RelayInv, LiveInv, NoneOutlives, At
  <2> QED
    BY <2>3, <2>4, <2>5 DEF RelayInv
<1> QED
  BY <1>1, <1>3, <1>4

\* Closing a session's socket marks it and moves nothing.
LEMMA CutInv ==
    ASSUME RelayInv, NEW s \in udp.sessions, Cut(s),
           UNCHANGED <<opening, leaving, opened, tcp, conns, slots, updates>>,
           collected' \in CollectedType,
           \A n \in collected.apply : n \in collected'.apply \/ n = s.n,
           collected'.conns = collected.conns
    PROVE  RelayInv' /\ (NoneOutlives => NoneOutlives')
<1> DEFINE r == [s EXCEPT !.cut = TRUE]
<1>1. r \in Session /\ r.n = s.n /\ r.cut = TRUE
  BY DEF RelayInv, RelayTypeOK, UdpType, CollectedType, Session
<1>2. /\ udp'.sessions = (udp.sessions \ {s}) \cup {r} /\ udp'.closed = udp.closed
      /\ udp' \in UdpType
  BY <1>1 DEF Cut, RelayInv, RelayTypeOK, UdpType, CollectedType
<1> HIDE DEF r
<1>3. RelayTypeOK'
  BY <1>2 DEF RelayInv, RelayTypeOK
<1>4. NumbersInv'
  BY <1>1, <1>2 DEF RelayInv, NumbersInv
<1>5. LiveInv'
  BY DEF RelayInv, LiveInv
<1>6. ASSUME NoneOutlives PROVE NoneOutlives'
  <2>1. ASSUME udp'.closed, NEW u \in udp'.sessions
        PROVE  u.cut \/ u.n \in collected'.apply
    <3>1. CASE u = r
      BY <3>1, <1>1
    <3>2. CASE u \in udp.sessions /\ u # s
      BY <3>2, <2>1, <1>2, <1>6 DEF NoneOutlives, RelayInv, NumbersInv
    <3> QED
      BY <3>1, <3>2, <2>1, <1>2
  <2> QED
    BY <2>1, <1>6 DEF NoneOutlives, At
<1> QED
  BY <1>3, <1>4, <1>5, <1>6 DEF RelayInv

LEMMA SendFailsInv ==
    ASSUME RelayInv, SendFails
    PROVE  RelayInv' /\ (NoneOutlives => NoneOutlives')
<1>1. PICK s \in udp.sessions : Cut(s)
  BY DEF SendFails
<1>2. UNCHANGED <<opening, leaving, opened, tcp, conns, slots, collected, updates>>
  BY DEF SendFails, tcpVars
<1> QED
  BY <1>1, <1>2, CutInv DEF RelayInv, RelayTypeOK

\* What was collected is closed before it is forgotten.
LEMMA CloseSessionInv ==
    ASSUME RelayInv, NEW by \in {"apply", "janitor"}, CloseSession(by)
    PROVE  RelayInv' /\ (NoneOutlives => NoneOutlives')
<1>1. PICK n \in collected[by] :
        /\ collected' = [collected EXCEPT ![by] = @ \ {n}]
        /\ \/ \E s \in udp.sessions : s.n = n /\ Cut(s)
           \/ n \notin {s.n : s \in udp.sessions} /\ UNCHANGED udp
  BY DEF CloseSession
<1>2. UNCHANGED <<opening, leaving, opened, tcp, conns, slots, updates>>
  BY DEF CloseSession, tcpVars
<1>3. /\ collected' \in CollectedType
      /\ collected'.conns = collected.conns
      /\ \A m \in collected.apply : m \in collected'.apply \/ m = n
  BY <1>1 DEF RelayInv, RelayTypeOK, UdpType, CollectedType
<1>4. CASE \E s \in udp.sessions : s.n = n /\ Cut(s)
  BY <1>4, <1>2, <1>3, CutInv
<1>5. CASE n \notin {s.n : s \in udp.sessions} /\ UNCHANGED udp
  <2>1. RelayInv'
    BY <1>2, <1>3, <1>5 DEF RelayInv, RelayTypeOK, NumbersInv, LiveInv
  <2>2. NoneOutlives => NoneOutlives'
    BY <1>2, <1>3, <1>5 DEF NoneOutlives, At
  <2> QED
    BY <2>1, <2>2
<1> QED
  BY <1>1, <1>4, <1>5

\* A session leaves the table by its reply loop alone.
LEMMA ReplyEndsInv ==
    ASSUME RelayInv, ReplyEnds
    PROVE  RelayInv' /\ (NoneOutlives => NoneOutlives')
<1>1. PICK s \in udp.sessions :
        /\ udp' = [udp EXCEPT !.sessions = @ \ {s},
                              !.perSource[SourceOf[s.client]] = @ - 1]
        /\ leaving' = leaving \cup {s}
  BY DEF ReplyEnds
<1>2. UNCHANGED <<opening, opened, tcp, conns, slots, collected, updates>>
  BY DEF ReplyEnds, tcpVars
<1>3. /\ udp'.sessions = udp.sessions \ {s} /\ udp'.closed = udp.closed
      /\ udp' \in UdpType
  <2>1. /\ udp \in UdpType /\ udp.sessions \ {s} \in SUBSET Session
        /\ s.client \in Clients
    BY DEF RelayInv, RelayTypeOK, UdpType, Session
  <2>2. udp' = [udp EXCEPT !.sessions = udp.sessions \ {s},
                           !.perSource[SourceOf[s.client]] = @ - 1]
    BY <1>1
  <2>3. udp' \in UdpType
    BY <2>1, <2>2, UdpChanges
  <2> QED
    BY <2>1, <2>2, <2>3 DEF UdpType
<1>4. RelayTypeOK'
  BY <1>1, <1>2, <1>3 DEF RelayInv, RelayTypeOK, UdpType, CollectedType
<1>5. NumbersInv'
  BY <1>1, <1>2, <1>3 DEF RelayInv, NumbersInv
<1>6. LiveInv' /\ (NoneOutlives => NoneOutlives')
  BY <1>2, <1>3 DEF RelayInv, LiveInv, NoneOutlives, At
<1> QED
  BY <1>4, <1>5, <1>6 DEF RelayInv

LEMMA ReplyReleasesInv ==
    ASSUME RelayInv, ReplyReleases
    PROVE  RelayInv' /\ (NoneOutlives => NoneOutlives')
<1>1. /\ leaving' \subseteq leaving /\ slots' = slots - 1
      /\ UNCHANGED <<udp, opening, opened, tcp, conns, collected, updates>>
  BY DEF ReplyReleases, tcpVars
<1>2. RelayTypeOK'
  BY <1>1 DEF RelayInv, RelayTypeOK
<1>3. NumbersInv'
  BY <1>1 DEF RelayInv, NumbersInv
<1>4. LiveInv' /\ (NoneOutlives => NoneOutlives')
  BY <1>1 DEF RelayInv, LiveInv, NoneOutlives, At
<1> QED
  BY <1>2, <1>3, <1>4 DEF RelayInv

\* Collecting sessions, by the janitor, a new configuration or a withdrawal,
\* takes none out; a withdrawal collects them all.
LEMMA CollectInv ==
    ASSUME RelayInv,
           udp' \in UdpType,
           udp'.sessions = udp.sessions,
           collected' \in CollectedType,
           collected'.conns = collected.conns,
           \/ udp'.closed = udp.closed /\ collected'.apply = collected.apply
           \/ ~udp'.closed
           \/ collected'.apply = {s.n : s \in udp.sessions},
           updates' \in Nat,
           UNCHANGED <<opening, leaving, opened, tcp, conns, slots>>
    PROVE  RelayInv' /\ (NoneOutlives => NoneOutlives')
<1>1. RelayTypeOK'
  BY DEF RelayInv, RelayTypeOK
<1>2. NumbersInv'
  BY DEF RelayInv, NumbersInv
<1>3. LiveInv'
  BY DEF RelayInv, LiveInv
<1>4. NoneOutlives => NoneOutlives'
  BY DEF NoneOutlives, At
<1> QED
  BY <1>1, <1>2, <1>3, <1>4 DEF RelayInv

LEMMA UdpCollects ==
    ASSUME RelayInv, ExpireIdle \/ UpdateUDP \/ WithdrawUDP
    PROVE  RelayInv' /\ (NoneOutlives => NoneOutlives')
<1>0. \A S \in SUBSET udp.sessions : {s.n : s \in S} \in SUBSET Nat
  BY DEF RelayInv, RelayTypeOK, UdpType, CollectedType, Session
<1>1. CASE ExpireIdle
  <2>1. PICK S \in SUBSET udp.sessions :
          collected' = [collected EXCEPT !.janitor = {s.n : s \in S}]
    BY <1>1 DEF ExpireIdle
  <2>2. UNCHANGED <<udp, opening, leaving, opened, tcp, conns, slots, updates>>
    BY <1>1 DEF ExpireIdle, udpVars, tcpVars
  <2>3. /\ collected' \in CollectedType
        /\ collected'.conns = collected.conns /\ collected'.apply = collected.apply
    BY <2>1, <1>0 DEF RelayInv, RelayTypeOK, UdpType, CollectedType
  <2>4. /\ udp' \in UdpType
        /\ updates' \in Nat
    BY <2>2 DEF RelayInv, RelayTypeOK
  <2> QED
    BY <2>2, <2>3, <2>4, CollectInv
<1>2. CASE UpdateUDP
  <2>1. PICK cfg \in PortConfigs :
          /\ udp' = [udp EXCEPT !.cfg = cfg]
          /\ collected' = [collected EXCEPT
                !.apply = {s.n : s \in {t \in udp.sessions : t.backend \notin cfg.backends}}]
    BY <1>2 DEF UpdateUDP
  <2>2. /\ UNCHANGED <<opening, leaving, opened, tcp, conns, slots>>
        /\ updates' = updates + 1 /\ ~udp.closed
    BY <1>2 DEF UpdateUDP, Applies, tcpVars
  <2>3. {s.n : s \in {t \in udp.sessions : t.backend \notin cfg.backends}} \in SUBSET Nat
    BY <1>0
  <2>4. /\ collected' \in CollectedType
        /\ collected'.conns = collected.conns
    BY <2>1, <2>3 DEF RelayInv, RelayTypeOK, UdpType, CollectedType
  <2>5. /\ udp' \in UdpType
        /\ udp'.sessions = udp.sessions /\ ~udp'.closed /\ updates' \in Nat
    BY <2>1, <2>2 DEF RelayInv, RelayTypeOK, UdpType, CollectedType
  <2> QED
    BY <2>2, <2>4, <2>5, CollectInv
<1>3. CASE WithdrawUDP
  <2>1. /\ udp' = [udp EXCEPT !.closed = TRUE]
        /\ collected' = [collected EXCEPT !.apply = {s.n : s \in udp.sessions}]
        /\ UNCHANGED <<opening, leaving, opened, tcp, conns, slots>>
        /\ updates' = updates + 1
    BY <1>3 DEF WithdrawUDP, Applies, tcpVars
  <2>2. /\ collected' \in CollectedType
        /\ collected'.conns = collected.conns
        /\ collected'.apply = {s.n : s \in udp.sessions}
    BY <2>1, <1>0 DEF RelayInv, RelayTypeOK, UdpType, CollectedType
  <2>3. /\ udp' \in UdpType
        /\ udp'.sessions = udp.sessions /\ updates' \in Nat
    <3>1. udp \in UdpType /\ udp'.sessions = udp.sessions /\ updates' \in Nat
      BY <2>1 DEF RelayInv, RelayTypeOK, UdpType
    <3>2. [udp EXCEPT !.closed = TRUE] \in UdpType
      BY <3>1, Zenon DEF UdpType
    <3> QED
      BY <2>1, <3>1, <3>2
  <2> QED
    BY <2>1, <2>2, <2>3, CollectInv
<1> QED
  BY <1>1, <1>2, <1>3

\* Tcp: one goroutine moves, and the table follows what it holds.  A goroutine
\* that enters the table of a withdrawn port must have been closed.
LEMMA ConnInv ==
    ASSUME RelayInv, NEW k \in Conns, NEW r \in ConnState,
           conns' = [conns EXCEPT ![k] = r],
           tcp' \in [limit : PortLimits, live : SUBSET Conns, closed : BOOLEAN],
           \A j \in Conns \ {k} : j \in tcp'.live <=> j \in tcp.live,
           k \in tcp'.live <=> r.at \in Slotted,
           tcp'.closed = tcp.closed,
           slots' \in Int,
           UNCHANGED <<udpVars, updates>>,
           collected' \in CollectedType, collected'.apply = collected.apply,
           \A j \in Conns \ {k} : j \in collected.conns => j \in collected'.conns,
           \/ k \notin tcp'.live \/ ~tcp'.closed \/ r.at = "leaving" \/ r.cut
           \/ /\ k \in tcp.live /\ conns[k].at # "leaving" /\ conns[k].cut = r.cut
              /\ k \in collected.conns => k \in collected'.conns
    PROVE  RelayInv' /\ (NoneOutlives => NoneOutlives')
<1>1. conns' \in [Conns -> ConnState] /\ conns'[k] = r
      /\ \A j \in Conns \ {k} : conns'[j] = conns[j]
  BY DEF RelayInv, RelayTypeOK
<1>2. UNCHANGED <<udp, opening, leaving, opened>>
  BY DEF udpVars
<1>3. RelayTypeOK'
  BY <1>1, <1>2 DEF RelayInv, RelayTypeOK
<1>4. NumbersInv'
  BY <1>2 DEF RelayInv, NumbersInv
<1>5. LiveInv'
  BY <1>1 DEF RelayInv, LiveInv
<1>6. ASSUME NoneOutlives PROVE NoneOutlives'
  <2>1. ASSUME tcp'.closed, NEW j \in tcp'.live
        PROVE  conns'[j].at = "leaving" \/ conns'[j].cut \/ j \in collected'.conns
    <3>1. j \in Conns
      BY <2>1
    <3>2. CASE j # k
      BY <3>1, <3>2, <2>1, <1>1, <1>6 DEF NoneOutlives, At
    <3>3. CASE j = k
      BY <3>3, <2>1, <1>1, <1>6 DEF NoneOutlives, At
    <3> QED
      BY <3>2, <3>3
  <2> QED
    BY <2>1, <1>2, <1>6 DEF NoneOutlives, At
<1> QED
  BY <1>3, <1>4, <1>5, <1>6 DEF RelayInv

\* A connection is in the table between take and done.
LEMMA ConnStepInv ==
    ASSUME RelayInv, NEW k \in Conns,
           Accept(k) \/ Take(k) \/ Acquire(k) \/ RelayEnds(k) \/ Done(k)
    PROVE  RelayInv' /\ (NoneOutlives => NoneOutlives')
<1>0. /\ tcp \in [limit : PortLimits, live : SUBSET Conns, closed : BOOLEAN]
      /\ conns \in [Conns -> ConnState] /\ conns[k] \in ConnState
      /\ slots \in Int /\ collected \in CollectedType
      /\ k \in tcp.live <=> conns[k].at \in Slotted
  BY DEF RelayInv, RelayTypeOK, LiveInv
<1>1. CASE Accept(k)
  <2> DEFINE r == [at |-> "accepted", limit |-> tcp.limit, cut |-> FALSE]
  <2>1. r \in ConnState /\ r.at = "accepted"
    BY <1>0 DEF ConnState
  <2>2. conns' = [conns EXCEPT ![k] = r] /\ conns[k].at = "gone"
        /\ UNCHANGED <<udpVars, tcp, slots, collected, updates>>
    BY <1>1 DEF Accept, At
  <2> HIDE DEF r
  <2> QED
    BY <2>1, <2>2, <1>0, ConnInv DEF Slotted
<1>2. CASE Take(k)
  <2>1. /\ conns[k].at = "accepted" /\ k \notin tcp.live
        /\ UNCHANGED <<udpVars, slots, collected, updates>>
    BY <1>2, <1>0 DEF Take, At, Slotted
  <2>2. CASE conns' = [conns EXCEPT ![k] = Gone] /\ UNCHANGED tcp
    <3>1. Gone \in ConnState /\ Gone.at \notin Slotted
      BY DEF ConnState, Gone, Slotted
    <3> QED
      BY <3>1, <2>1, <2>2, <1>0, ConnInv
  <2>3. CASE ~tcp.closed /\ tcp' = [tcp EXCEPT !.live = @ \cup {k}] /\ Moves(k, "taken")
    <3> DEFINE r == [conns[k] EXCEPT !.at = "taken"]
    <3>1. r \in ConnState /\ r.at = "taken" /\ "taken" \in Slotted
      BY <2>1, <1>0, ConnMoves DEF Slotted
    <3>2. conns' = [conns EXCEPT ![k] = r]
      BY <2>3, <1>0 DEF Moves
    <3>3. /\ tcp'.live = tcp.live \cup {k} /\ tcp'.closed = tcp.closed
          /\ tcp' \in [limit : PortLimits, live : SUBSET Conns, closed : BOOLEAN]
      BY <2>3, <1>0
    <3> HIDE DEF r
    <3> QED
      BY <3>1, <3>2, <3>3, <2>1, <2>3, <1>0, ConnInv
  <2> QED
    BY <2>2, <2>3, <1>2 DEF Take
<1>3. ASSUME NEW where \in {"relaying", "leaving"}, Moves(k, where),
             conns[k].at \in {"taken", "relaying"}, slots' \in Int,
             UNCHANGED <<udpVars, tcp, collected, updates>>
      PROVE  RelayInv' /\ (NoneOutlives => NoneOutlives')
  <2> DEFINE r == [conns[k] EXCEPT !.at = where]
  <2>0. where \in Slotted /\ conns[k].at # "gone"
    BY <1>3 DEF Slotted
  <2>1. r \in ConnState /\ r.at = where /\ r.cut = conns[k].cut
    BY <2>0, <1>0, ConnMoves
  <2>2. conns' = [conns EXCEPT ![k] = r] /\ k \in tcp.live /\ conns[k].at # "leaving"
    BY <1>3, <1>0 DEF Moves, Slotted
  <2> HIDE DEF r
  <2> QED
    BY <2>0, <2>1, <2>2, <1>3, <1>0, ConnInv
<1>4. CASE Acquire(k)
  BY <1>4, <1>3, <1>0 DEF Acquire, At
<1>5. CASE RelayEnds(k)
  BY <1>5, <1>3, <1>0 DEF RelayEnds, At
<1>6. CASE Done(k)
  <2>1. /\ conns' = [conns EXCEPT ![k] = Gone]
        /\ UNCHANGED <<udpVars, slots, collected, updates>>
    BY <1>6 DEF Done
  <2>2. /\ tcp'.live = tcp.live \ {k} /\ tcp'.closed = tcp.closed
        /\ tcp' \in [limit : PortLimits, live : SUBSET Conns, closed : BOOLEAN]
    BY <1>6, <1>0 DEF Done
  <2>3. Gone \in ConnState /\ Gone.at \notin Slotted
    BY DEF ConnState, Gone, Slotted
  <2> QED
    BY <2>1, <2>2, <2>3, <1>0, ConnInv
<1> QED
  BY <1>1, <1>2, <1>4, <1>5, <1>6

LEMMA CloseConnInv ==
    ASSUME RelayInv, CloseConn
    PROVE  RelayInv' /\ (NoneOutlives => NoneOutlives')
<1>1. PICK k \in collected.conns :
        /\ collected' = [collected EXCEPT !.conns = @ \ {k}]
        /\ \/ ~At(k, "gone") /\ conns' = [conns EXCEPT ![k].cut = TRUE]
           \/ At(k, "gone") /\ UNCHANGED conns
        /\ UNCHANGED <<udpVars, tcp, slots, updates>>
  BY DEF CloseConn
<1>2. /\ tcp \in [limit : PortLimits, live : SUBSET Conns, closed : BOOLEAN]
      /\ conns \in [Conns -> ConnState] /\ k \in Conns /\ conns[k] \in ConnState
      /\ slots \in Int /\ collected \in CollectedType
      /\ k \in tcp.live <=> conns[k].at \in Slotted
  BY DEF RelayInv, RelayTypeOK, LiveInv, CollectedType
<1>3. /\ collected' \in CollectedType /\ collected'.apply = collected.apply
      /\ \A j \in Conns \ {k} : j \in collected.conns => j \in collected'.conns
  BY <1>1, <1>2 DEF CollectedType
<1>4. CASE conns[k].at # "gone" /\ conns' = [conns EXCEPT ![k].cut = TRUE]
  <2> DEFINE r == [conns[k] EXCEPT !.cut = TRUE]
  <2>1. r \in ConnState /\ r.at = conns[k].at /\ r.cut
    BY <1>2, <1>4, ConnMoves DEF Slotted
  <2>2. conns' = [conns EXCEPT ![k] = r]
    BY <1>4, <1>2
  <2> HIDE DEF r
  <2> QED
    BY <2>1, <2>2, <1>1, <1>2, <1>3, ConnInv
<1>5. CASE conns[k].at = "gone" /\ UNCHANGED conns
  <2>1. conns' = [conns EXCEPT ![k] = conns[k]] /\ k \notin tcp.live
    BY <1>2, <1>5 DEF Slotted
  <2> QED
    BY <2>1, <1>1, <1>2, <1>3, ConnInv
<1> QED
  BY <1>1, <1>4, <1>5 DEF At

LEMMA TcpAppliesInv ==
    ASSUME RelayInv, UpdateTCP \/ WithdrawTCP
    PROVE  RelayInv' /\ (NoneOutlives => NoneOutlives')
<1>0. /\ tcp \in [limit : PortLimits, live : SUBSET Conns, closed : BOOLEAN]
      /\ collected \in CollectedType
  BY DEF RelayInv, RelayTypeOK
<1>1. /\ UNCHANGED <<udp, opening, leaving, opened, conns, slots>>
      /\ updates' = updates + 1
  BY DEF UpdateTCP, WithdrawTCP, udpVars, Applies
<1>2. /\ tcp'.live = tcp.live
      /\ tcp' \in [limit : PortLimits, live : SUBSET Conns, closed : BOOLEAN]
  <2>1. [tcp EXCEPT !.closed = TRUE]
          \in [limit : PortLimits, live : SUBSET Conns, closed : BOOLEAN]
    BY <1>0, Zenon
  <2>2. CASE UpdateTCP
    BY <2>2, <1>0 DEF UpdateTCP
  <2>3. CASE WithdrawTCP
    BY <2>1, <2>3, <1>0 DEF WithdrawTCP
  <2> QED
    BY <2>2, <2>3
<1>3. /\ collected' \in CollectedType /\ collected'.apply = collected.apply
      /\ ~tcp'.closed \/ collected'.conns = tcp.live
  BY <1>0 DEF UpdateTCP, WithdrawTCP, CollectedType
<1>4. RelayTypeOK'
  BY <1>1, <1>2, <1>3 DEF RelayInv, RelayTypeOK
<1>5. NumbersInv' /\ LiveInv'
  BY <1>1, <1>2 DEF RelayInv, NumbersInv, LiveInv
<1>6. NoneOutlives => NoneOutlives'
  BY <1>1, <1>2, <1>3 DEF NoneOutlives, At
<1> QED
  BY <1>4, <1>5, <1>6 DEF RelayInv

LEMMA RelayStepInv ==
    RelayInv /\ [RelayNext]_relayVars => RelayInv' /\ (NoneOutlives => NoneOutlives')
<1> SUFFICES ASSUME RelayInv, [RelayNext]_relayVars
             PROVE  RelayInv' /\ (NoneOutlives => NoneOutlives')
  OBVIOUS
<1>1. CASE \E c \in Clients : OpenSession(c)
  BY <1>1, OpenSessionInv
<1>2. CASE Register
  BY <1>2, RegisterInv
<1>3. CASE SendFails
  BY <1>3, SendFailsInv
<1>4. CASE ReplyEnds
  BY <1>4, ReplyEndsInv
<1>5. CASE ReplyReleases
  BY <1>5, ReplyReleasesInv
<1>6. CASE ExpireIdle \/ UpdateUDP \/ WithdrawUDP
  BY <1>6, UdpCollects
<1>7. CASE \E by \in {"apply", "janitor"} : CloseSession(by)
  BY <1>7, CloseSessionInv
<1>8. CASE CloseConn
  BY <1>8, CloseConnInv
<1>9. CASE \E k \in Conns : Accept(k) \/ Take(k) \/ Acquire(k) \/ RelayEnds(k) \/ Done(k)
  BY <1>9, ConnStepInv
<1>10. CASE UpdateTCP \/ WithdrawTCP
  BY <1>10, TcpAppliesInv
<1>11. CASE UNCHANGED relayVars
  BY <1>11 DEF relayVars, RelayInv, RelayTypeOK, NumbersInv, LiveInv, NoneOutlives, At
<1> QED
  BY <1>1, <1>2, <1>3, <1>4, <1>5, <1>6, <1>7, <1>8, <1>9, <1>10, <1>11 DEF RelayNext

\* Whatever a withdrawn port still holds is closed or about to be: a session or
\* a connection that was on its way in while closeLive ran is refused
\* (udp.go openSession, tcp.go handle, listeners.go stop).
THEOREM WithdrawnPortsEnd == RelaySpec => []NoneOutlives
<1>1. RelayInit => RelayInv /\ NoneOutlives
  BY RelayInitInv
<1>2. RelayInv /\ NoneOutlives /\ [RelayNext]_relayVars => RelayInv' /\ NoneOutlives'
  BY RelayStepInv
<1> QED
  BY <1>1, <1>2, PTL DEF RelaySpec

-----------------------------------------------------------------------------
(* The counts.                                                             *)

\* The sessions of S from source i, and the connections that hold a slot.
From(S, i) == {s \in S : SourceOf[s.client] = i}
Relaying == {k \in Conns : At(k, "relaying")}
One(s, i) == IF SourceOf[s.client] = i THEN 1 ELSE 0

CountInv ==
    /\ IsFiniteSet(opening) /\ IsFiniteSet(udp.sessions) /\ IsFiniteSet(leaving)
    /\ IsFiniteSet(tcp.live)
    /\ SlotsCounted

\* SlotsCounted, with names for the sets it counts.
SlotsParts ==
    /\ slots = Cardinality(opening) + Cardinality(udp.sessions) + Cardinality(leaving)
               + Cardinality(Relaying)
    /\ slots <= NodeMax
    /\ \A i \in Sources : /\ udp.perSource[i] = Cardinality(From(udp.sessions, i))
                          /\ Cardinality(From(udp.sessions, i)) <= SourceCap
    /\ \E limit \in PortLimits :
         Cardinality(udp.sessions) <= limit /\ Cardinality(tcp.live) <= limit

LEMMA PartsCounted == (SlotsParts <=> SlotsCounted) /\ (SlotsParts' <=> SlotsCounted')
BY Zenon DEF SlotsParts, SlotsCounted, From, Relaying

\* One more session counts once in all, and once for its source.
LEMMA OneMore ==
    ASSUME NEW S, IsFiniteSet(S), NEW s, s \notin S, NEW U, U = S \cup {s}, NEW i
    PROVE  /\ IsFiniteSet(U) /\ Cardinality(S) \in Nat
           /\ Cardinality(U) = Cardinality(S) + 1
           /\ Cardinality(From(S, i)) \in Nat
           /\ Cardinality(From(U, i)) = Cardinality(From(S, i)) + One(s, i)
<1>1. /\ IsFiniteSet(U) /\ Cardinality(S) \in Nat
      /\ Cardinality(U) = Cardinality(S) + 1
  BY FS_AddElement, FS_CardinalityType
<1>2. IsFiniteSet(From(S, i)) /\ Cardinality(From(S, i)) \in Nat
  <2>1. From(S, i) \subseteq S
    BY DEF From
  <2> QED
    BY <2>1, FS_Subset, FS_CardinalityType
<1>3. CASE SourceOf[s.client] = i
  <2>1. From(U, i) = From(S, i) \cup {s} /\ s \notin From(S, i)
    BY <1>3 DEF From
  <2>2. Cardinality(From(S, i) \cup {s}) = Cardinality(From(S, i)) + 1
    BY <1>2, <2>1, FS_AddElement
  <2> QED
    BY <1>1, <1>2, <1>3, <2>1, <2>2 DEF One
<1>4. CASE SourceOf[s.client] # i
  <2>1. From(U, i) = From(S, i)
    BY <1>4 DEF From
  <2> QED
    BY <1>1, <1>2, <1>4, <2>1 DEF One
<1> QED
  BY <1>3, <1>4

\* A session that is closed is counted as before.
LEMMA Replaced ==
    ASSUME NEW S, IsFiniteSet(S), NEW s \in S, NEW r, r \notin S \ {s},
           SourceOf[r.client] = SourceOf[s.client],
           NEW U, U = (S \ {s}) \cup {r}, NEW i
    PROVE  /\ IsFiniteSet(U) /\ Cardinality(U) = Cardinality(S)
           /\ Cardinality(From(U, i)) = Cardinality(From(S, i))
<1>0. PICK T : T = S \ {s}
  OBVIOUS
<1>1. IsFiniteSet(T) /\ s \notin T /\ S = T \cup {s} /\ r \notin T /\ U = T \cup {r}
  BY <1>0, FS_Subset
<1>2. /\ Cardinality(S) = Cardinality(T) + 1
      /\ Cardinality(From(S, i)) = Cardinality(From(T, i)) + One(s, i)
  BY <1>1, OneMore
<1>3. /\ IsFiniteSet(U) /\ Cardinality(U) = Cardinality(T) + 1
      /\ Cardinality(From(U, i)) = Cardinality(From(T, i)) + One(r, i)
  BY <1>1, OneMore
<1>4. One(r, i) = One(s, i)
  BY DEF One
<1> QED
  BY <1>2, <1>3, <1>4

\* The slots in use, and what each step may change of them.
LEMMA Counts ==
    ASSUME RelayInv, CountInv
    PROVE  /\ Cardinality(opening) \in Nat /\ Cardinality(udp.sessions) \in Nat
           /\ Cardinality(leaving) \in Nat /\ Cardinality(tcp.live) \in Nat
           /\ IsFiniteSet(Relaying) /\ Cardinality(Relaying) \in Nat
           /\ slots = Cardinality(opening) + Cardinality(udp.sessions)
                        + Cardinality(leaving) + Cardinality(Relaying)
           /\ slots <= NodeMax /\ slots \in Int /\ NodeMax \in Nat /\ SourceCap \in Nat
           /\ \A i \in Sources :
                udp.perSource[i] = Cardinality(From(udp.sessions, i))
                /\ Cardinality(From(udp.sessions, i)) <= SourceCap
           /\ \E limit \in PortLimits : Cardinality(udp.sessions) <= limit
                                       /\ Cardinality(tcp.live) <= limit
           /\ PortLimits \subseteq Nat
<1>1. Relaying \subseteq tcp.live
  BY DEF Relaying, RelayInv, LiveInv, At, Slotted
<1>2. IsFiniteSet(Relaying) /\ Cardinality(Relaying) \in Nat
  BY <1>1, FS_Subset, FS_CardinalityType DEF CountInv
<1>3. /\ Cardinality(opening) \in Nat /\ Cardinality(udp.sessions) \in Nat
      /\ Cardinality(leaving) \in Nat /\ Cardinality(tcp.live) \in Nat
  BY FS_CardinalityType DEF CountInv
<1> QED
  BY <1>2, <1>3, RelayAssumption DEF CountInv, SlotsCounted, Relaying, From, RelayInv, RelayTypeOK

LEMMA CountInit == RelayInit => CountInv
<1> SUFFICES ASSUME RelayInit PROVE CountInv
  OBVIOUS
<1>1. /\ opening = {} /\ udp.sessions = {} /\ leaving = {} /\ tcp.live = {} /\ slots = 0
      /\ \A i \in Sources : udp.perSource[i] = 0
  BY DEF RelayInit
<1>0. tcp.limit \in PortLimits
  BY DEF RelayInit
<1>2. Relaying = {}
  BY DEF RelayInit, At, Gone, Relaying
<1>3. IsFiniteSet({}) /\ Cardinality({}) = 0
  BY FS_EmptySet
<1>4. \A i \in Sources : From(udp.sessions, i) = {}
  BY <1>1 DEF From
<1>5. PortLimits \subseteq Nat /\ NodeMax \in Nat /\ SourceCap \in Nat
  BY RelayAssumption
<1>6. \A i \in Sources : Cardinality(From(udp.sessions, i)) = 0
  BY <1>3, <1>4
<1>7. Cardinality(Relaying) = 0
  BY <1>2, <1>3
<1>8. /\ Cardinality(opening) = 0 /\ Cardinality(udp.sessions) = 0
      /\ Cardinality(leaving) = 0 /\ Cardinality(tcp.live) = 0
  BY <1>1, <1>3
<1>9. SlotsParts
  <2>1. /\ slots = Cardinality(opening) + Cardinality(udp.sessions) + Cardinality(leaving)
                   + Cardinality(Relaying)
        /\ slots <= NodeMax
    BY <1>1, <1>5, <1>7, <1>8
  <2>2. \A i \in Sources : /\ udp.perSource[i] = Cardinality(From(udp.sessions, i))
                           /\ Cardinality(From(udp.sessions, i)) <= SourceCap
    BY <1>1, <1>5, <1>6
  <2>3. tcp.limit \in Nat
    BY <1>0, <1>5
  <2>4. Cardinality(udp.sessions) <= tcp.limit /\ Cardinality(tcp.live) <= tcp.limit
    BY <1>8, <2>3
  <2> QED
    BY <1>0, <2>1, <2>2, <2>4, Zenon DEF SlotsParts
<1> QED
  BY <1>1, <1>3, <1>9, PartsCounted DEF CountInv

\* A step that leaves the connections alone, and accounts for the sessions.
LEMMA UdpCounts ==
    ASSUME RelayInv, CountInv, UNCHANGED conns, tcp'.live = tcp.live,
           IsFiniteSet(opening'), IsFiniteSet(udp'.sessions), IsFiniteSet(leaving'),
           slots' = Cardinality(opening') + Cardinality(udp'.sessions)
                    + Cardinality(leaving') + Cardinality(Relaying),
           slots' <= NodeMax,
           \A i \in Sources : /\ udp'.perSource[i] = Cardinality(From(udp'.sessions, i))
                             /\ Cardinality(From(udp'.sessions, i)) <= SourceCap,
           \/ Cardinality(udp'.sessions) <= Cardinality(udp.sessions)
           \/ \E limit \in PortLimits : Cardinality(udp'.sessions) <= limit
    PROVE  CountInv'
<1>1. Relaying' = Relaying
  BY DEF Relaying, At
<1>2. \E limit \in PortLimits : Cardinality(udp'.sessions) <= limit
                                /\ Cardinality(tcp'.live) <= limit
  <2>1. PICK limit \in PortLimits : Cardinality(udp.sessions) <= limit
                                    /\ Cardinality(tcp.live) <= limit
    BY Counts
  <2>2. /\ Cardinality(udp.sessions) \in Nat /\ Cardinality(tcp.live) \in Nat
        /\ Cardinality(udp'.sessions) \in Nat /\ PortLimits \subseteq Nat /\ limit \in Nat
    BY Counts, FS_CardinalityType
  <2>3. Cardinality(tcp'.live) = Cardinality(tcp.live)
    OBVIOUS
  <2>4. CASE Cardinality(udp'.sessions) <= Cardinality(udp.sessions)
    BY <2>1, <2>2, <2>3, <2>4
  <2>5. CASE \E l \in PortLimits : Cardinality(udp'.sessions) <= l
    <3>1. PICK l \in PortLimits : Cardinality(udp'.sessions) <= l
      BY <2>5
    <3>2. l \in Nat
      BY <2>2
    <3>3. CASE l <= limit
      BY <2>1, <2>2, <2>3, <3>1, <3>2, <3>3
    <3>4. CASE limit <= l
      BY <2>1, <2>2, <2>3, <3>1, <3>2, <3>4
    <3> QED
      BY <2>2, <3>2, <3>3, <3>4
  <2> QED
    BY <2>4, <2>5
<1>3. SlotsParts'
  BY <1>1, <1>2, Zenon DEF SlotsParts
<1>4. IsFiniteSet(tcp'.live)
  BY DEF CountInv
<1> QED
  BY <1>3, <1>4, PartsCounted DEF CountInv

LEMMA OpenSessionCounts ==
    ASSUME RelayInv, CountInv, NEW c \in Clients, OpenSession(c)
    PROVE  CountInv'
<1>1. PICK o : opening = {} /\ opening' = {o}
  BY DEF OpenSession
<1>2. /\ slots < NodeMax /\ slots' = slots + 1 /\ UNCHANGED <<udp, leaving, tcp, conns>>
  BY DEF OpenSession, tcpVars
<1>3. /\ IsFiniteSet(opening') /\ Cardinality(opening) = 0 /\ Cardinality(opening') = 1
  BY <1>1, FS_EmptySet, FS_Singleton
<1>4. /\ Cardinality(udp'.sessions) = Cardinality(udp.sessions)
      /\ Cardinality(leaving') = Cardinality(leaving)
  BY <1>2
<1>5. /\ slots' = Cardinality(opening') + Cardinality(udp'.sessions)
                  + Cardinality(leaving') + Cardinality(Relaying)
      /\ slots' <= NodeMax /\ Cardinality(udp'.sessions) <= Cardinality(udp.sessions)
  BY <1>2, <1>3, <1>4, Counts
<1>6. \A i \in Sources : /\ udp'.perSource[i] = Cardinality(From(udp'.sessions, i))
                         /\ Cardinality(From(udp'.sessions, i)) <= SourceCap
  BY <1>2, Counts
<1>7. IsFiniteSet(udp'.sessions) /\ IsFiniteSet(leaving') /\ tcp'.live = tcp.live
  BY <1>2 DEF CountInv
<1> QED
  BY <1>2, <1>3, <1>5, <1>6, <1>7, UdpCounts

LEMMA RegisterCounts ==
    ASSUME RelayInv, CountInv, Register
    PROVE  CountInv'
<1>1. PICK o \in opening :
        /\ opening' = {}
        /\ \/ /\ Admits(o.session, o.limit) /\ UNCHANGED slots
              /\ udp' = [udp EXCEPT !.sessions = @ \cup {o.session},
                           !.perSource[SourceOf[o.session.client]] = @ + 1]
           \/ UNCHANGED udp /\ slots' = slots - 1
        /\ UNCHANGED <<leaving, tcp, conns>>
  BY DEF Register, tcpVars
<1>2. opening = {o}
  BY DEF RelayInv, NumbersInv
<1>3. /\ IsFiniteSet(opening') /\ Cardinality(opening) = 1 /\ Cardinality(opening') = 0
      /\ IsFiniteSet(leaving') /\ Cardinality(leaving') = Cardinality(leaving)
  BY <1>1, <1>2, FS_EmptySet, FS_Singleton DEF CountInv
<1>4. CASE UNCHANGED udp /\ slots' = slots - 1
  <2>1. Cardinality(udp'.sessions) = Cardinality(udp.sessions)
    BY <1>4
  <2>2. /\ slots' = Cardinality(opening') + Cardinality(udp'.sessions)
                    + Cardinality(leaving') + Cardinality(Relaying)
        /\ slots' <= NodeMax /\ Cardinality(udp'.sessions) <= Cardinality(udp.sessions)
    BY <1>3, <1>4, <2>1, Counts
  <2>3. \A i \in Sources : /\ udp'.perSource[i] = Cardinality(From(udp'.sessions, i))
                           /\ Cardinality(From(udp'.sessions, i)) <= SourceCap
    BY <1>4, Counts
  <2>4. IsFiniteSet(udp'.sessions) /\ tcp'.live = tcp.live
    BY <1>1, <1>4 DEF CountInv
  <2> QED
    BY <1>1, <1>3, <2>2, <2>3, <2>4, UdpCounts
<1>5. CASE /\ Admits(o.session, o.limit) /\ UNCHANGED slots
           /\ udp' = [udp EXCEPT !.sessions = @ \cup {o.session},
                           !.perSource[SourceOf[o.session.client]] = @ + 1]
  <2>1. PICK s : s = o.session
    OBVIOUS
  <2>2. /\ s \notin udp.sessions /\ o.limit \in PortLimits
        /\ udp \in UdpType /\ SourceOf[s.client] \in Sources
    BY <2>1 DEF RelayInv, NumbersInv, RelayTypeOK, Opening, Session, Sources
  <2>3. /\ udp'.sessions = udp.sessions \cup {s}
        /\ udp'.perSource = [udp.perSource EXCEPT ![SourceOf[s.client]] = @ + 1]
    BY <1>5, <2>1, <2>2 DEF UdpType
  <2>4. /\ Cardinality(udp.sessions) < o.limit
        /\ udp.perSource[SourceOf[s.client]] < SourceCap
    BY <1>5, <2>1 DEF Admits
  <2>5. /\ IsFiniteSet(udp'.sessions)
        /\ Cardinality(udp'.sessions) = Cardinality(udp.sessions) + 1
    BY <2>2, <2>3, OneMore DEF CountInv
  <2>6. ASSUME NEW i \in Sources
        PROVE  /\ udp'.perSource[i] = Cardinality(From(udp'.sessions, i))
               /\ Cardinality(From(udp'.sessions, i)) <= SourceCap
    <3>1. /\ Cardinality(From(udp.sessions, i)) \in Nat
          /\ Cardinality(From(udp'.sessions, i)) =
               Cardinality(From(udp.sessions, i)) + One(s, i)
      <4>1. PICK S, U : S = udp.sessions /\ U = udp'.sessions
        OBVIOUS
      <4>2. IsFiniteSet(S) /\ s \notin S /\ U = S \cup {s}
        BY <2>2, <2>3, <4>1 DEF CountInv
      <4>3. /\ Cardinality(From(S, i)) \in Nat
            /\ Cardinality(From(U, i)) = Cardinality(From(S, i)) + One(s, i)
        BY <4>2, OneMore
      <4> QED
        BY <4>1, <4>3
    <3>2. /\ udp.perSource[i] = Cardinality(From(udp.sessions, i))
          /\ Cardinality(From(udp.sessions, i)) <= SourceCap /\ SourceCap \in Nat
      BY Counts
    <3>3. udp'.perSource[i] = udp.perSource[i] + One(s, i)
      <4>1. udp.perSource \in [Sources -> Int] /\ udp.perSource[i] \in Int
        BY <2>2 DEF UdpType
      <4> QED
        BY <2>2, <2>3, <4>1 DEF One
    <3>4. CASE SourceOf[s.client] = i
      BY <3>1, <3>2, <3>3, <3>4, <2>4 DEF One
    <3>5. CASE SourceOf[s.client] # i
      BY <3>1, <3>2, <3>3, <3>5 DEF One
    <3> QED
      BY <3>4, <3>5
  <2>7. /\ slots' = Cardinality(opening') + Cardinality(udp'.sessions)
                    + Cardinality(leaving') + Cardinality(Relaying)
        /\ slots' <= NodeMax
    BY <1>3, <1>5, <2>5, Counts
  <2>8. \E limit \in PortLimits : Cardinality(udp'.sessions) <= limit
    <3>1. o.limit \in Nat /\ Cardinality(udp.sessions) \in Nat
      BY <2>2, Counts
    <3>2. Cardinality(udp'.sessions) <= o.limit
      BY <2>4, <2>5, <3>1
    <3> QED
      BY <2>2, <3>2
  <2>9. tcp'.live = tcp.live
    BY <1>1
  <2> QED
    BY <1>1, <1>3, <2>5, <2>6, <2>7, <2>8, <2>9, UdpCounts
<1> QED
  BY <1>1, <1>4, <1>5

LEMMA CutCounts ==
    ASSUME RelayInv, CountInv, NEW s \in udp.sessions, Cut(s),
           UNCHANGED <<opening, leaving, tcp, conns, slots>>
    PROVE  CountInv'
<1>1. PICK r : r = [s EXCEPT !.cut = TRUE]
  OBVIOUS
<1>2. r.n = s.n /\ r.client = s.client
  BY <1>1 DEF RelayInv, RelayTypeOK, UdpType, Session
<1>3. /\ udp'.sessions = (udp.sessions \ {s}) \cup {r} /\ udp'.perSource = udp.perSource
  BY <1>1 DEF Cut, RelayInv, RelayTypeOK, UdpType
<1>4. r \notin udp.sessions \ {s}
  BY <1>2 DEF RelayInv, NumbersInv
<1>5. /\ IsFiniteSet(udp'.sessions)
      /\ Cardinality(udp'.sessions) = Cardinality(udp.sessions)
      /\ \A i : Cardinality(From(udp'.sessions, i)) = Cardinality(From(udp.sessions, i))
  <2>1. PICK S, U : S = udp.sessions /\ U = udp'.sessions
    OBVIOUS
  <2>2. /\ IsFiniteSet(S) /\ SourceOf[r.client] = SourceOf[s.client]
        /\ s \in S /\ r \notin S \ {s} /\ U = (S \ {s}) \cup {r}
    BY <1>2, <1>3, <1>4, <2>1 DEF CountInv
  <2>3. ASSUME NEW i
        PROVE  /\ IsFiniteSet(U) /\ Cardinality(U) = Cardinality(S)
               /\ Cardinality(From(U, i)) = Cardinality(From(S, i))
    BY <2>2, Replaced
  <2> QED
    BY <2>1, <2>3
<1>6. /\ slots' = Cardinality(opening') + Cardinality(udp'.sessions)
                  + Cardinality(leaving') + Cardinality(Relaying)
      /\ slots' <= NodeMax /\ Cardinality(udp'.sessions) <= Cardinality(udp.sessions)
  BY <1>5, Counts
<1>7. \A i \in Sources : /\ udp'.perSource[i] = Cardinality(From(udp'.sessions, i))
                         /\ Cardinality(From(udp'.sessions, i)) <= SourceCap
  BY <1>3, <1>5, Counts
<1>8. IsFiniteSet(opening') /\ IsFiniteSet(leaving') /\ tcp'.live = tcp.live
  BY DEF CountInv
<1> QED
  BY <1>5, <1>6, <1>7, <1>8, UdpCounts

\* A session that leaves the table keeps its slot until it returns it.
LEMMA ReplyEndsCounts ==
    ASSUME RelayInv, CountInv, ReplyEnds
    PROVE  CountInv'
<1>1. PICK s \in udp.sessions :
        /\ udp' = [udp EXCEPT !.sessions = @ \ {s},
                              !.perSource[SourceOf[s.client]] = @ - 1]
        /\ leaving' = leaving \cup {s}
  BY DEF ReplyEnds
<1>2. UNCHANGED <<opening, tcp, conns, slots>>
  BY DEF ReplyEnds, tcpVars
<1>3. /\ s \notin leaving /\ udp \in UdpType /\ SourceOf[s.client] \in Sources
  BY DEF RelayInv, NumbersInv, RelayTypeOK, UdpType, Session, Sources
<1>4. /\ udp'.sessions = udp.sessions \ {s}
      /\ udp'.perSource = [udp.perSource EXCEPT ![SourceOf[s.client]] = @ - 1]
  BY <1>1, <1>3 DEF UdpType
<1>5. PICK S, U : S = udp'.sessions /\ U = udp.sessions
  OBVIOUS
<1>6. IsFiniteSet(S) /\ s \notin S /\ U = S \cup {s}
  BY <1>4, <1>5, FS_Subset DEF CountInv
<1>7. ASSUME NEW i
      PROVE  /\ Cardinality(S) \in Nat /\ Cardinality(U) = Cardinality(S) + 1
             /\ Cardinality(From(S, i)) \in Nat
             /\ Cardinality(From(U, i)) = Cardinality(From(S, i)) + One(s, i)
  BY <1>6, OneMore
<1>8. /\ IsFiniteSet(udp'.sessions) /\ Cardinality(udp'.sessions) \in Nat
      /\ Cardinality(udp.sessions) = Cardinality(udp'.sessions) + 1
  BY <1>5, <1>6, <1>7
<1>9. IsFiniteSet(leaving') /\ Cardinality(leaving') = Cardinality(leaving) + 1
  BY <1>1, <1>3, FS_AddElement DEF CountInv
<1>10. ASSUME NEW i \in Sources
       PROVE  /\ udp'.perSource[i] = Cardinality(From(udp'.sessions, i))
              /\ Cardinality(From(udp'.sessions, i)) <= SourceCap
  <2>1. /\ Cardinality(From(udp'.sessions, i)) \in Nat
        /\ Cardinality(From(udp.sessions, i)) =
             Cardinality(From(udp'.sessions, i)) + One(s, i)
    BY <1>5, <1>7
  <2>2. /\ udp.perSource[i] = Cardinality(From(udp.sessions, i))
        /\ Cardinality(From(udp.sessions, i)) <= SourceCap /\ SourceCap \in Nat
    BY Counts
  <2>3. udp'.perSource[i] = udp.perSource[i] - One(s, i)
    <3>1. udp.perSource \in [Sources -> Int] /\ udp.perSource[i] \in Int
      BY <1>3 DEF UdpType
    <3> QED
      BY <1>3, <1>4, <3>1 DEF One
  <2>4. One(s, i) \in {0, 1}
    BY DEF One
  <2> QED
    BY <2>1, <2>2, <2>3, <2>4
<1>11. /\ slots' = Cardinality(opening') + Cardinality(udp'.sessions)
                   + Cardinality(leaving') + Cardinality(Relaying)
       /\ slots' <= NodeMax /\ Cardinality(udp'.sessions) <= Cardinality(udp.sessions)
  <2>1. Cardinality(opening') = Cardinality(opening)
    BY <1>2
  <2> QED
    BY <1>2, <1>8, <1>9, <2>1, Counts
<1>12. IsFiniteSet(opening') /\ tcp'.live = tcp.live
  BY <1>2 DEF CountInv
<1> QED
  BY <1>2, <1>8, <1>9, <1>10, <1>11, <1>12, UdpCounts

LEMMA ReplyReleasesCounts ==
    ASSUME RelayInv, CountInv, ReplyReleases
    PROVE  CountInv'
<1>1. PICK s \in leaving : leaving' = leaving \ {s}
  BY DEF ReplyReleases
<1>2. slots' = slots - 1 /\ UNCHANGED <<udp, opening, tcp, conns>>
  BY DEF ReplyReleases, tcpVars
<1>3. IsFiniteSet(leaving') /\ Cardinality(leaving') = Cardinality(leaving) - 1
  BY <1>1, FS_RemoveElement DEF CountInv
<1>4. /\ Cardinality(opening') = Cardinality(opening)
      /\ Cardinality(udp'.sessions) = Cardinality(udp.sessions)
  BY <1>2
<1>5. /\ slots' = Cardinality(opening') + Cardinality(udp'.sessions)
                  + Cardinality(leaving') + Cardinality(Relaying)
      /\ slots' <= NodeMax /\ Cardinality(udp'.sessions) <= Cardinality(udp.sessions)
  BY <1>2, <1>3, <1>4, Counts
<1>6. \A i \in Sources : /\ udp'.perSource[i] = Cardinality(From(udp'.sessions, i))
                         /\ Cardinality(From(udp'.sessions, i)) <= SourceCap
  BY <1>2, Counts
<1>7. IsFiniteSet(opening') /\ IsFiniteSet(udp'.sessions) /\ tcp'.live = tcp.live
  BY <1>2 DEF CountInv
<1> QED
  BY <1>2, <1>3, <1>5, <1>6, <1>7, UdpCounts

\* A step that leaves the sessions alone, and accounts for the connections.
LEMMA TcpCounts ==
    ASSUME RelayInv, CountInv, UNCHANGED <<opening, leaving>>,
           udp'.sessions = udp.sessions, udp'.perSource = udp.perSource,
           IsFiniteSet(tcp'.live),
           slots' = slots + (Cardinality(Relaying') - Cardinality(Relaying)),
           Cardinality(Relaying') \in Nat, slots' <= NodeMax,
           \/ Cardinality(tcp'.live) <= Cardinality(tcp.live)
           \/ \E limit \in PortLimits : Cardinality(tcp'.live) <= limit
    PROVE  CountInv'
<1>1. /\ Cardinality(opening') = Cardinality(opening)
      /\ Cardinality(udp'.sessions) = Cardinality(udp.sessions)
      /\ Cardinality(leaving') = Cardinality(leaving)
  OBVIOUS
<1>2. slots' = Cardinality(opening') + Cardinality(udp'.sessions)
               + Cardinality(leaving') + Cardinality(Relaying')
  BY <1>1, Counts
<1>3. \A i \in Sources : /\ udp'.perSource[i] = Cardinality(From(udp'.sessions, i))
                         /\ Cardinality(From(udp'.sessions, i)) <= SourceCap
  BY Counts
<1>4. \E limit \in PortLimits : Cardinality(udp'.sessions) <= limit
                                /\ Cardinality(tcp'.live) <= limit
  <2>1. PICK limit \in PortLimits : Cardinality(udp.sessions) <= limit
                                    /\ Cardinality(tcp.live) <= limit
    BY Counts
  <2>2. /\ Cardinality(udp.sessions) \in Nat /\ Cardinality(tcp.live) \in Nat
        /\ Cardinality(tcp'.live) \in Nat /\ PortLimits \subseteq Nat /\ limit \in Nat
    BY Counts, FS_CardinalityType
  <2>3. CASE Cardinality(tcp'.live) <= Cardinality(tcp.live)
    BY <1>1, <2>1, <2>2, <2>3
  <2>4. CASE \E l \in PortLimits : Cardinality(tcp'.live) <= l
    <3>1. PICK l \in PortLimits : Cardinality(tcp'.live) <= l
      BY <2>4
    <3>2. l \in Nat
      BY <2>2
    <3>3. CASE l <= limit
      BY <1>1, <2>1, <2>2, <3>1, <3>2, <3>3
    <3>4. CASE limit <= l
      BY <1>1, <2>1, <2>2, <3>1, <3>2, <3>4
    <3> QED
      BY <2>2, <3>2, <3>3, <3>4
  <2> QED
    BY <2>3, <2>4
<1>5. SlotsParts'
  BY <1>2, <1>3, <1>4, Zenon DEF SlotsParts
<1>6. IsFiniteSet(opening') /\ IsFiniteSet(udp'.sessions) /\ IsFiniteSet(leaving')
  BY DEF CountInv
<1> QED
  BY <1>5, <1>6, PartsCounted DEF CountInv

\* A step that neither opens nor ends anything.
LEMMA QuietCounts ==
    ASSUME RelayInv, CountInv, UNCHANGED <<opening, leaving, slots>>,
           udp'.sessions = udp.sessions, udp'.perSource = udp.perSource,
           tcp'.live = tcp.live, Relaying' = Relaying
    PROVE  CountInv'
<1>1. /\ Cardinality(tcp'.live) = Cardinality(tcp.live)
      /\ Cardinality(Relaying') = Cardinality(Relaying)
  OBVIOUS
<1>2. /\ IsFiniteSet(tcp'.live) /\ Cardinality(Relaying') \in Nat /\ slots' <= NodeMax
      /\ Cardinality(tcp'.live) <= Cardinality(tcp.live)
      /\ slots' = slots + (Cardinality(Relaying') - Cardinality(Relaying))
  BY <1>1, Counts DEF CountInv
<1> QED
  BY <1>2, TcpCounts

LEMMA QuietSteps ==
    ASSUME RelayInv, CountInv,
           \/ ExpireIdle \/ UpdateUDP \/ WithdrawUDP \/ UpdateTCP \/ WithdrawTCP
           \/ UNCHANGED relayVars
    PROVE  CountInv'
<1>1. UNCHANGED <<opening, leaving, slots, conns>>
  BY DEF ExpireIdle, UpdateUDP, WithdrawUDP, UpdateTCP, WithdrawTCP, udpVars, tcpVars, relayVars
<1>2. udp'.sessions = udp.sessions /\ udp'.perSource = udp.perSource
  <2>1. udp \in UdpType
    BY DEF RelayInv, RelayTypeOK
  <2>2. CASE UNCHANGED udp
    BY <2>2
  <2>3. CASE UpdateUDP \/ WithdrawUDP
    BY <2>1, <2>3 DEF UpdateUDP, WithdrawUDP, UdpType
  <2> QED
    BY <2>2, <2>3 DEF ExpireIdle, UpdateTCP, WithdrawTCP, udpVars, relayVars
<1>3. tcp'.live = tcp.live
  <2>1. tcp \in [limit : PortLimits, live : SUBSET Conns, closed : BOOLEAN]
    BY DEF RelayInv, RelayTypeOK
  <2>2. CASE UNCHANGED tcp
    BY <2>2
  <2>3. CASE UpdateTCP \/ WithdrawTCP
    BY <2>1, <2>3 DEF UpdateTCP, WithdrawTCP
  <2> QED
    BY <2>2, <2>3 DEF ExpireIdle, UpdateUDP, WithdrawUDP, tcpVars, relayVars
<1>4. Relaying' = Relaying
  BY <1>1 DEF Relaying, At
<1> QED
  BY <1>1, <1>2, <1>3, <1>4, QuietCounts

LEMMA CloseSessionCounts ==
    ASSUME RelayInv, CountInv,
           SendFails \/ \E by \in {"apply", "janitor"} : CloseSession(by)
    PROVE  CountInv'
<1>1. UNCHANGED <<opening, leaving, tcp, conns, slots>>
  BY DEF SendFails, CloseSession, tcpVars
<1>2. (\E s \in udp.sessions : Cut(s)) \/ UNCHANGED udp
  BY DEF SendFails, CloseSession
<1>3. CASE \E s \in udp.sessions : Cut(s)
  BY <1>1, <1>3, CutCounts
<1>4. CASE UNCHANGED udp
  <2>1. Relaying' = Relaying
    BY <1>1 DEF Relaying, At
  <2> QED
    BY <1>1, <1>4, <2>1, QuietCounts
<1> QED
  BY <1>2, <1>3, <1>4

LEMMA CloseConnCounts ==
    ASSUME RelayInv, CountInv, CloseConn
    PROVE  CountInv'
<1>1. PICK k \in collected.conns :
        \/ ~At(k, "gone") /\ conns' = [conns EXCEPT ![k].cut = TRUE]
        \/ UNCHANGED conns
  BY DEF CloseConn
<1>2. UNCHANGED <<udp, opening, leaving, tcp, slots>>
  BY DEF CloseConn, udpVars
<1>3. conns \in [Conns -> ConnState] /\ k \in Conns
  BY DEF RelayInv, RelayTypeOK, CollectedType
<1>4. \A j \in Conns : conns'[j].at = conns[j].at
  <2>1. CASE ~At(k, "gone") /\ conns' = [conns EXCEPT ![k].cut = TRUE]
    <3>1. [conns[k] EXCEPT !.cut = TRUE].at = conns[k].at
      <4>1. conns[k] \in ConnState /\ conns[k].at # "gone" /\ "taken" \in Slotted
        BY <1>3, <2>1 DEF At, Slotted
      <4> QED
        BY <4>1, ConnMoves
    <3> QED
      BY <1>3, <2>1, <3>1
  <2>2. CASE UNCHANGED conns
    BY <2>2
  <2> QED
    BY <1>1, <2>1, <2>2
<1>5. Relaying' = Relaying
  BY <1>4 DEF Relaying, At
<1> QED
  BY <1>2, <1>5, QuietCounts

\* One connection's goroutine moves: who else holds a slot does not change.
LEMMA ConnStepCounts ==
    ASSUME RelayInv, CountInv, NEW k \in Conns,
           Accept(k) \/ Take(k) \/ Acquire(k) \/ RelayEnds(k) \/ Done(k)
    PROVE  CountInv'
<1>0. /\ tcp \in [limit : PortLimits, live : SUBSET Conns, closed : BOOLEAN]
      /\ conns \in [Conns -> ConnState] /\ conns[k] \in ConnState
      /\ k \in tcp.live <=> conns[k].at \in Slotted
      /\ IsFiniteSet(tcp.live) /\ Cardinality(tcp.live) \in Nat
      /\ IsFiniteSet(Relaying) /\ Cardinality(Relaying) \in Nat
      /\ slots \in Int /\ slots <= NodeMax /\ NodeMax \in Nat
  BY Counts DEF RelayInv, RelayTypeOK, LiveInv, CountInv
<1>1. /\ UNCHANGED <<opening, leaving>>
      /\ udp'.sessions = udp.sessions /\ udp'.perSource = udp.perSource
  BY DEF Accept, Take, Acquire, RelayEnds, Done, udpVars
<1>2. \A j \in Conns \ {k} : conns'[j] = conns[j]
  BY <1>0 DEF Accept, Take, Acquire, RelayEnds, Done, Moves
<1>3. ASSUME conns[k].at # "relaying", conns'[k].at # "relaying", UNCHANGED slots,
             IsFiniteSet(tcp'.live),
             \/ Cardinality(tcp'.live) <= Cardinality(tcp.live)
             \/ \E limit \in PortLimits : Cardinality(tcp'.live) <= limit
      PROVE  CountInv'
  <2>1. Relaying' = Relaying
    BY <1>2, <1>3 DEF Relaying, At
  <2>2. Cardinality(Relaying') = Cardinality(Relaying)
    BY <2>1
  <2>3. /\ slots' = slots + (Cardinality(Relaying') - Cardinality(Relaying))
        /\ Cardinality(Relaying') \in Nat /\ slots' <= NodeMax
    BY <2>2, <1>0, <1>3
  <2> QED
    BY <2>3, <1>1, <1>3, TcpCounts
<1>4. ASSUME UNCHANGED tcp
      PROVE  /\ IsFiniteSet(tcp'.live)
             /\ Cardinality(tcp'.live) <= Cardinality(tcp.live)
  <2>1. Cardinality(tcp'.live) = Cardinality(tcp.live)
    BY <1>4
  <2> QED
    BY <2>1, <1>0, <1>4
<1>5. CASE Accept(k)
  BY <1>0, <1>3, <1>4, <1>5 DEF Accept, At
<1>6. CASE Take(k)
  <2>1. conns[k].at = "accepted" /\ UNCHANGED slots
    BY <1>6 DEF Take, At
  <2>2. CASE conns' = [conns EXCEPT ![k] = Gone] /\ UNCHANGED tcp
    <3>1. conns'[k].at = "gone"
      BY <2>2, <1>0 DEF Gone
    <3> QED
      BY <2>1, <2>2, <3>1, <1>3, <1>4
  <2>3. CASE /\ Cardinality(tcp.live) < conns[k].limit
             /\ tcp' = [tcp EXCEPT !.live = @ \cup {k}] /\ Moves(k, "taken")
    <3>1. conns'[k].at = "taken"
      <4>1. conns[k].at # "gone" /\ "taken" \in Slotted
        BY <2>1 DEF Slotted
      <4>2. [conns[k] EXCEPT !.at = "taken"].at = "taken"
        BY <4>1, <1>0, ConnMoves
      <4> QED
        BY <4>2, <2>3, <1>0 DEF Moves
    <3>2. conns[k].limit \in PortLimits
      BY <2>1, <1>0 DEF ConnState, Gone
    <3>3. tcp'.live = tcp.live \cup {k} /\ k \notin tcp.live
      BY <2>1, <2>3, <1>0 DEF Slotted
    <3>4. IsFiniteSet(tcp'.live) /\ Cardinality(tcp'.live) = Cardinality(tcp.live) + 1
      BY <3>3, <1>0, FS_AddElement
    <3>5. PICK l : l = conns[k].limit /\ l \in PortLimits /\ l \in Nat
      BY <3>2, RelayAssumption
    <3>6. Cardinality(tcp'.live) <= l
      BY <3>4, <3>5, <2>3, <1>0
    <3> QED
      BY <2>1, <3>1, <3>4, <3>5, <3>6, <1>3
  <2> QED
    BY <2>2, <2>3, <1>6 DEF Take
<1>7. ASSUME conns[k].at # "gone", NEW where \in Slotted, Moves(k, where)
      PROVE  conns'[k].at = where
  <2>1. [conns[k] EXCEPT !.at = where].at = where
    BY <1>7, <1>0, ConnMoves
  <2> QED
    BY <2>1, <1>7, <1>0 DEF Moves
<1>8. CASE Acquire(k)
  <2>1. conns[k].at = "taken" /\ UNCHANGED tcp
    BY <1>8 DEF Acquire, At
  <2>2. CASE slots < NodeMax /\ slots' = slots + 1 /\ Moves(k, "relaying")
    <3>1. conns'[k].at = "relaying"
      BY <2>1, <2>2, <1>7 DEF Slotted
    <3>2. Relaying' = Relaying \cup {k} /\ k \notin Relaying
      BY <2>1, <3>1, <1>2 DEF Relaying, At
    <3>3. Cardinality(Relaying') = Cardinality(Relaying) + 1
      BY <3>2, <1>0, FS_AddElement
    <3>4. /\ slots' = slots + (Cardinality(Relaying') - Cardinality(Relaying))
          /\ Cardinality(Relaying') \in Nat /\ slots' <= NodeMax
      BY <3>3, <2>2, <1>0
    <3> QED
      BY <3>4, <2>1, <1>1, <1>4, TcpCounts
  <2>3. CASE UNCHANGED slots /\ Moves(k, "leaving")
    <3>1. conns'[k].at = "leaving"
      BY <2>1, <2>3, <1>7 DEF Slotted
    <3> QED
      BY <2>1, <2>3, <3>1, <1>3, <1>4
  <2> QED
    BY <2>2, <2>3, <1>8 DEF Acquire
<1>9. CASE RelayEnds(k)
  <2>1. /\ conns[k].at = "relaying" /\ UNCHANGED tcp /\ slots' = slots - 1
        /\ Moves(k, "leaving")
    BY <1>9 DEF RelayEnds, At
  <2>2. conns'[k].at = "leaving"
    BY <2>1, <1>7 DEF Slotted
  <2>3. Relaying' = Relaying \ {k} /\ k \in Relaying
    BY <2>1, <2>2, <1>2 DEF Relaying, At
  <2>4. Cardinality(Relaying') = Cardinality(Relaying) - 1 /\ Cardinality(Relaying') \in Nat
    BY <2>3, <1>0, FS_RemoveElement, FS_CardinalityType
  <2>5. /\ slots' = slots + (Cardinality(Relaying') - Cardinality(Relaying))
        /\ slots' <= NodeMax
    BY <2>1, <2>4, <1>0
  <2> QED
    BY <2>1, <2>4, <2>5, <1>1, <1>4, TcpCounts
<1>10. CASE Done(k)
  <2>1. /\ conns[k].at = "leaving" /\ conns' = [conns EXCEPT ![k] = Gone] /\ UNCHANGED slots
        /\ tcp'.live = tcp.live \ {k}
    BY <1>10, <1>0 DEF Done, At
  <2>2. conns'[k].at = "gone"
    BY <2>1, <1>0 DEF Gone
  <2>3. IsFiniteSet(tcp'.live) /\ Cardinality(tcp'.live) <= Cardinality(tcp.live)
    BY <2>1, <1>0, FS_Subset
  <2> QED
    BY <2>1, <2>2, <2>3, <1>3
<1> QED
  BY <1>5, <1>6, <1>8, <1>9, <1>10

\* Every slot of the node's limit is held by one session or connection, and no
\* limit is exceeded, in whatever order readers, reply loops, the janitor, new
\* configurations and withdrawals come (udp.go, tcp.go, listeners.go).
THEOREM SlotsAreHeld == RelaySpec => []SlotsCounted
<1>1. RelayInit => RelayInv /\ CountInv
  BY RelayInitInv, CountInit
<1>2. RelayInv /\ CountInv /\ [RelayNext]_relayVars => RelayInv' /\ CountInv'
  <2> SUFFICES ASSUME RelayInv, CountInv, [RelayNext]_relayVars PROVE CountInv'
    BY RelayStepInv
  <2>1. CASE \E c \in Clients : OpenSession(c)
    BY <2>1, OpenSessionCounts
  <2>2. CASE Register
    BY <2>2, RegisterCounts
  <2>3. CASE SendFails \/ \E by \in {"apply", "janitor"} : CloseSession(by)
    BY <2>3, CloseSessionCounts
  <2>4. CASE ReplyEnds
    BY <2>4, ReplyEndsCounts
  <2>5. CASE ReplyReleases
    BY <2>5, ReplyReleasesCounts
  <2>6. CASE CloseConn
    BY <2>6, CloseConnCounts
  <2>7. CASE \E k \in Conns : Accept(k) \/ Take(k) \/ Acquire(k) \/ RelayEnds(k) \/ Done(k)
    BY <2>7, ConnStepCounts
  <2>8. CASE \/ ExpireIdle \/ UpdateUDP \/ WithdrawUDP \/ UpdateTCP \/ WithdrawTCP
             \/ UNCHANGED relayVars
    BY <2>8, QuietSteps
  <2> QED
    BY <2>1, <2>2, <2>3, <2>4, <2>5, <2>6, <2>7, <2>8 DEF RelayNext
<1>3. CountInv => SlotsCounted
  BY DEF CountInv
<1> QED
  BY <1>1, <1>2, <1>3, PTL DEF RelaySpec

-----------------------------------------------------------------------------
(* Places in a finite set of numbers.                                      *)

Upto(x, S) == {y \in S : y <= x}

\* A set of numbers that is not empty has a lowest.
LEMMA Lowest ==
  ASSUME NEW S, S \subseteq Nat, S # {}
  PROVE  \E x \in S : \A y \in S : x <= y
<1>1. PICK x \in S : \A y \in S : ~ (<<y, x>> \in OpToRel(<, Nat))
  BY NatLessThanWellFounded, WFMin, Zenon
<1>2. \A y \in S : ~ (y < x)
  BY <1>1 DEF OpToRel
<1> QED
  BY <1>2

\* A finite set of numbers has a bound.
LEMMA FiniteIsBounded ==
  ASSUME NEW S, S \subseteq Nat, IsFiniteSet(S)
  PROVE  \E n \in Nat : \A x \in S : x <= n
<1> DEFINE sets == {s \in SUBSET Nat : \E n \in Nat : \A x \in s : x <= n}
<1>1. {} \in sets
  OBVIOUS
<1>2. ASSUME NEW s, NEW e \in S, s \in sets
      PROVE  s \cup {e} \in sets
  <2>1. PICK n \in Nat : \A x \in s : x <= n
    BY <1>2
  <2>2. e \in Nat /\ s \subseteq Nat
    BY <1>2
  <2>3. CASE e <= n
    BY <2>1, <2>2, <2>3
  <2>4. CASE n < e
    <3>1. \A x \in s \cup {e} : x <= e
      BY <2>1, <2>2, <2>4
    <3> QED
      BY <2>2, <3>1
  <2> QED
    BY <2>2, <2>3, <2>4
<1> HIDE DEF sets
<1>3. S \in sets
  <2>1. PICK f \in [1..Cardinality(S) -> S] : \A y \in S : \E i \in 1..Cardinality(S) : f[i] = y
    BY FS_CardinalityType, Zenon DEF ExistsBijection, Bijection, Surjection
  <2>2. Cardinality(S) \in Nat
    BY FS_CardinalityType
  <2> DEFINE bad == {i \in Nat : i <= Cardinality(S) /\ {f[j] : j \in 1..i} \notin sets}
  <2>3. bad = {}
    <3> SUFFICES ASSUME bad # {}
                 PROVE  FALSE
      OBVIOUS
    <3>1. PICK b \in bad : \A y \in bad : b <= y
      <4>1. bad \subseteq Nat
        OBVIOUS
      <4> HIDE DEF bad
      <4> QED
        BY <4>1, Lowest
    <3>2. b \in Nat /\ b <= Cardinality(S) /\ {f[j] : j \in 1..b} \notin sets
      BY <3>1
    <3>3. CASE b = 0
      <4>1. {f[j] : j \in 1..b} = {}
        BY <3>3
      <4> QED
        BY <1>1, <3>2, <4>1
    <3>4. CASE b # 0
      <4>1. b - 1 \in Nat /\ b - 1 <= Cardinality(S) /\ b - 1 \notin bad
        BY <2>2, <3>1, <3>2, <3>4
      <4>2. {f[j] : j \in 1..(b - 1)} \in sets
        BY <4>1
      <4>3. f[b] \in S
        BY <2>2, <3>2, <3>4
      <4>4. {f[j] : j \in 1..b} = {f[j] : j \in 1..(b - 1)} \cup {f[b]}
        <5>1. 1..b = 1..(b - 1) \cup {b}
          BY <3>2, <3>4
        <5> QED
          BY <5>1
      <4>5. {f[j] : j \in 1..(b - 1)} \cup {f[b]} \in sets
        BY <1>2, <4>2, <4>3
      <4> QED
        BY <3>2, <4>4, <4>5
    <3> QED
      BY <3>3, <3>4
  <2>4. {f[j] : j \in 1..Cardinality(S)} \in sets
    BY <2>2, <2>3
  <2>5. S = {f[j] : j \in 1..Cardinality(S)}
    BY <2>1
  <2> QED
    BY <2>4, <2>5
<1> QED
  BY <1>3 DEF sets

\* Two members of a set have different places in it.
LEMMA PlacesDiffer ==
  ASSUME NEW S, S \subseteq Nat, IsFiniteSet(S), NEW x \in S, NEW y \in S, x < y
  PROVE  Place(x, S) < Place(y, S)
<1>0. x \in Nat /\ y \in Nat /\ \A z \in S : z \in Nat
  OBVIOUS
<1>1. Upto(x, S) \subseteq S /\ Upto(y, S) \subseteq S /\ Upto(x, S) \cup {y} \subseteq Upto(y, S)
  <2>1. \A z \in S : z <= x => z <= y
    BY <1>0
  <2>2. y <= y
    BY <1>0
  <2> QED
    BY <2>1, <2>2 DEF Upto
<1>2. IsFiniteSet(Upto(x, S)) /\ IsFiniteSet(Upto(y, S))
  BY <1>1, FS_Subset
<1>3. Cardinality(Upto(x, S)) \in Nat /\ Cardinality(Upto(y, S)) \in Nat
  BY <1>2, FS_CardinalityType
<1>4. y \notin Upto(x, S)
  BY <1>0 DEF Upto
<1>5. Cardinality(Upto(x, S) \cup {y}) = Cardinality(Upto(x, S)) + 1
  BY <1>2, <1>4, FS_AddElement
<1>6. Cardinality(Upto(x, S) \cup {y}) <= Cardinality(Upto(y, S))
  BY <1>1, <1>2, FS_Subset
<1>7. Place(x, S) = Cardinality(Upto(x, S)) /\ Place(y, S) = Cardinality(Upto(y, S))
  BY DEF Place, Upto
<1> QED
  BY <1>3, <1>5, <1>6, <1>7

\* Every place up to the size of a set is somebody's.
LEMMA PlacesFilled ==
  ASSUME NEW S, S \subseteq Nat, IsFiniteSet(S), NEW k \in Nat, 1 <= k, k <= Cardinality(S)
  PROVE  \E x \in S : Place(x, S) = k
<1>0. \A x : /\ Upto(x, S) \subseteq S /\ IsFiniteSet(Upto(x, S))
             /\ Place(x, S) = Cardinality(Upto(x, S)) /\ Place(x, S) \in Nat
  <2> SUFFICES ASSUME NEW x
               PROVE  /\ Upto(x, S) \subseteq S /\ IsFiniteSet(Upto(x, S))
                      /\ Place(x, S) = Cardinality(Upto(x, S)) /\ Place(x, S) \in Nat
    OBVIOUS
  <2>1. Upto(x, S) \subseteq S /\ Place(x, S) = Cardinality(Upto(x, S))
    BY DEF Upto, Place
  <2>2. IsFiniteSet(Upto(x, S))
    BY <2>1, FS_Subset
  <2> QED
    BY <2>1, <2>2, FS_CardinalityType
<1>a. \A z \in S : z \in Nat
  OBVIOUS
<1> DEFINE T == {x \in Nat : Place(x, S) >= k}
<1>1. T # {}
  <2>2. PICK n \in Nat : \A x \in S : x <= n
    BY FiniteIsBounded
  <2>3. Upto(n, S) = S
    BY <2>2 DEF Upto
  <2>4. Place(n, S) >= k
    BY <1>0, <2>3
  <2> QED
    BY <2>4
<1> HIDE DEF T
<1>2. PICK b \in T : \A y \in T : b <= y
  BY <1>1, Lowest DEF T
<1>3. b \in Nat /\ Place(b, S) >= k /\ \A y \in Nat : y < b => Place(y, S) < k
  BY <1>0, <1>2 DEF T
<1>4. b \in S
  <2> SUFFICES ASSUME b \notin S
               PROVE  FALSE
    OBVIOUS
  <2>1. CASE b = 0
    <3>1. Upto(b, S) = {}
      <4>1. \A z \in S : ~(z <= b)
        BY <1>a, <2>1
      <4> QED
        BY <4>1 DEF Upto
    <3>2. Place(b, S) = 0
      BY <1>0, <3>1, FS_EmptySet
    <3> QED
      BY <1>3, <3>2
  <2>2. CASE b # 0
    <3>1. Upto(b, S) = Upto(b - 1, S)
      <4>1. \A z \in S : z <= b <=> z <= b - 1
        BY <1>3, <1>a
      <4> QED
        BY <4>1 DEF Upto
    <3>2. Place(b - 1, S) < k
      BY <1>3, <2>2
    <3> QED
      BY <1>0, <1>3, <3>1, <3>2
  <2> QED
    BY <2>1, <2>2
<1>5. Place(b, S) = k
  <2>1. CASE b = 0
    <3>1. Upto(b, S) = {0}
      <4>1. \A z \in S : z <= b <=> z = 0
        BY <1>a, <2>1
      <4> QED
        BY <1>4, <2>1, <4>1 DEF Upto
    <3>2. Cardinality({0}) = 1
      BY FS_Singleton
    <3>3. Place(b, S) = 1
      BY <1>0, <3>1, <3>2
    <3> QED
      BY <1>3, <3>3
  <2>2. CASE b # 0
    <3>1. Upto(b, S) = Upto(b - 1, S) \cup {b} /\ b \notin Upto(b - 1, S)
      <4>1. /\ \A z \in S : z <= b <=> (z <= b - 1 \/ z = b)
            /\ ~(b <= b - 1)
        BY <1>3, <1>a
      <4> QED
        BY <1>4, <4>1 DEF Upto
    <3>2. Cardinality(Upto(b - 1, S) \cup {b}) = Cardinality(Upto(b - 1, S)) + 1
      BY <1>0, <3>1, FS_AddElement
    <3>3. Place(b - 1, S) < k
      BY <1>3, <2>2
    <3>4. Place(b, S) = Place(b - 1, S) + 1 /\ Place(b - 1, S) \in Nat
      BY <1>0, <3>1, <3>2
    <3> QED
      BY <1>3, <3>3, <3>4
  <2> QED
    BY <2>1, <2>2
<1> QED
  BY <1>4, <1>5

-----------------------------------------------------------------------------
(* The addresses of services.                                              *)

\* No two services have the same address.
Apart(v) == \A s, u \in Services : s # u /\ v[s] = v[u] => v[s] = NoVIP

\* A pass gives every fresh service an address that nobody else has.
LEMMA AssignedApart ==
  ASSUME NEW v \in [Services -> Nat], Apart(v), NEW wanted \in SUBSET Services,
         NEW pool, pool \subseteq Nat \ {0}, IsFiniteSet(pool), ~Exhausted(v, pool, wanted)
  PROVE  Assigned(v, pool, wanted) \in [Services -> Nat] /\ Apart(Assigned(v, pool, wanted))
<1> DEFINE free == Free(v, pool, wanted)
           fresh == Fresh(v, wanted)
           w == Assigned(v, pool, wanted)
           Given(s) == CHOOSE ip \in free : Place(ip, free) = Place(s, fresh)
<1>1. /\ free \subseteq Nat /\ 0 \notin free /\ IsFiniteSet(free)
      /\ \A s \in wanted : v[s] \notin free
  <2>1. free \subseteq pool
    BY DEF Free
  <2>2. IsFiniteSet(free)
    BY <2>1, FS_Subset
  <2> QED
    BY <2>1, <2>2 DEF Free
<1>2. fresh \subseteq Nat /\ IsFiniteSet(fresh) /\ fresh \subseteq Services
  <2>1. fresh \subseteq Services
    BY DEF Fresh
  <2>2. IsFiniteSet(fresh)
    BY <2>1, FS_Subset, FrontendsAssumption DEF FrontendsAssumption
  <2> QED
    BY <2>1, <2>2, FrontendsAssumption DEF FrontendsAssumption
<1>3. /\ Cardinality(fresh) <= Cardinality(free)
      /\ Cardinality(fresh) \in Nat /\ Cardinality(free) \in Nat
  <2>1. Cardinality(fresh) \in Nat /\ Cardinality(free) \in Nat
    BY <1>1, <1>2, FS_CardinalityType
  <2>2. ~(Cardinality(fresh) > Cardinality(free))
    BY DEF Exhausted
  <2> QED
    BY <2>1, <2>2
<1> HIDE DEF free, fresh
<1>4. ASSUME NEW s \in fresh
      PROVE  Given(s) \in free /\ Place(Given(s), free) = Place(s, fresh)
  <2>1. Place(s, fresh) \in Nat /\ 1 <= Place(s, fresh) /\ Place(s, fresh) <= Cardinality(fresh)
    <3>1. Upto(s, fresh) \subseteq fresh /\ s \in Upto(s, fresh) /\ Place(s, fresh) = Cardinality(Upto(s, fresh))
      <4>1. s <= s
        BY <1>2
      <4> QED
        BY <4>1 DEF Upto, Place
    <3>2. /\ IsFiniteSet(Upto(s, fresh)) /\ Cardinality(Upto(s, fresh)) <= Cardinality(fresh)
      BY <1>2, <3>1, FS_Subset
    <3>3. Cardinality(Upto(s, fresh)) \in Nat
      BY <3>2, FS_CardinalityType
    <3>4. Cardinality(Upto(s, fresh)) # 0
      BY <3>1, <3>2, FS_EmptySet
    <3> QED
      BY <3>1, <3>2, <3>3, <3>4
  <2>2. Place(s, fresh) <= Cardinality(free)
    BY <1>3, <2>1
  <2>3. \E ip \in free : Place(ip, free) = Place(s, fresh)
    BY <1>1, <2>1, <2>2, PlacesFilled
  <2> QED
    BY <2>3
<1>5. \A s \in Services :
        w[s] = IF s \notin wanted THEN NoVIP ELSE IF v[s] # NoVIP THEN v[s] ELSE Given(s)
  BY DEF Assigned, free, fresh
<1>6. w = [s \in Services |-> w[s]]
  BY DEF Assigned
<1>7. \A s \in Services : s \in fresh <=> s \in wanted /\ v[s] = NoVIP
  BY DEF Fresh, fresh
<1> HIDE DEF w, Given
<1>8. \A s \in Services : \/ w[s] = NoVIP
                          \/ s \in wanted /\ v[s] # NoVIP /\ w[s] = v[s]
                          \/ s \in fresh /\ w[s] = Given(s)
  BY <1>5, <1>7
<1>9. \A s \in Services : w[s] \in Nat
  <2>1. \A s \in fresh : Given(s) \in Nat
    BY <1>1, <1>4
  <2>2. NoVIP \in Nat
    BY DEF NoVIP
  <2> QED
    BY <1>8, <2>1, <2>2
<1>10. Apart(w)
  <2> SUFFICES ASSUME NEW s \in Services, NEW u \in Services, s # u, w[s] = w[u], w[s] # NoVIP
               PROVE  FALSE
    BY DEF Apart
  <2>1. CASE s \in fresh /\ w[s] = Given(s) /\ u \in fresh /\ w[u] = Given(u)
    <3>1. Place(s, fresh) = Place(u, fresh)
      BY <1>4, <2>1
    <3>2. s \in Nat /\ u \in Nat
      BY <1>2, <2>1
    <3>3. s < u \/ u < s
      BY <3>2
    <3>4. s < u => Place(s, fresh) < Place(u, fresh)
      BY <1>2, <2>1, PlacesDiffer
    <3>5. u < s => Place(u, fresh) < Place(s, fresh)
      BY <1>2, <2>1, PlacesDiffer
    <3>6. Place(s, fresh) \in Nat
      <4>1. Upto(s, fresh) \subseteq fresh /\ Place(s, fresh) = Cardinality(Upto(s, fresh))
        BY DEF Upto, Place
      <4>2. IsFiniteSet(Upto(s, fresh))
        BY <1>2, <4>1, FS_Subset
      <4> QED
        BY <4>1, <4>2, FS_CardinalityType
    <3> QED
      BY <3>1, <3>3, <3>4, <3>5, <3>6
  <2>2. CASE s \in wanted /\ w[s] = v[s] /\ u \in fresh /\ w[u] = Given(u)
    BY <1>1, <1>4, <2>2
  <2>3. CASE u \in wanted /\ w[u] = v[u] /\ s \in fresh /\ w[s] = Given(s)
    BY <1>1, <1>4, <2>3
  <2>4. CASE w[s] = v[s] /\ w[u] = v[u]
    BY <2>4 DEF Apart
  <2> QED
    BY <1>8, <2>1, <2>2, <2>3, <2>4
<1> QED
  BY <1>6, <1>9, <1>10 DEF w

VipInv ==
  /\ vips \in [Services -> Nat] /\ vips6 \in [Services -> Nat]
  /\ Apart(vips) /\ Apart(vips6)

\* No two services share an address of either family, through every sequence
\* of passes, releases, refused batches and restarts with and without IPv6, for
\* every set of services and every pool (vip.go Sync, nextFree).
THEOREM AddressesAreApart == VipSpec => []VipsUnique
<1> DEFINE N == (\E wanted \in SUBSET Services : Sync(wanted)) \/ Reconfigure
<1>1. VipInit => VipInv
  BY DEF VipInit, VipInv, Apart, NoVIP
<1>2. VipInv /\ [N]_vipVars => VipInv'
  <2> SUFFICES ASSUME VipInv, [N]_vipVars
               PROVE  VipInv'
    OBVIOUS
  <2>1. CASE vips' = vips /\ vips6' = vips6
    BY <2>1 DEF VipInv, Apart
  <2>2. ASSUME NEW wanted \in SUBSET Services, ~Exhausted(vips, Pool, wanted),
               ipv6 => ~Exhausted(vips6, Pool6, wanted),
               vips' = Assigned(vips, Pool, wanted),
               vips6' = IF ipv6 THEN Assigned(vips6, Pool6, wanted) ELSE vips6
        PROVE  VipInv'
    <3>1. vips' \in [Services -> Nat] /\ Apart(vips')
      BY <2>2, AssignedApart, FrontendsAssumption DEF FrontendsAssumption, VipInv
    <3>2. vips6' \in [Services -> Nat] /\ Apart(vips6')
      <4>1. CASE ipv6
        BY <2>2, <4>1, AssignedApart, FrontendsAssumption DEF FrontendsAssumption, VipInv
      <4>2. CASE ~ipv6
        BY <2>2, <4>2 DEF VipInv
      <4> QED
        BY <4>1, <4>2
    <3> QED
      BY <3>1, <3>2 DEF VipInv, Apart
  <2> QED
    BY <2>1, <2>2 DEF Sync, Reconfigure, vipVars
<1>3. VipInv => VipsUnique
  BY DEF VipInv, VipsUnique, Apart
<1> QED
  BY <1>1, <1>2, <1>3, PTL DEF VipSpec

\* A service that keeps existing keeps its addresses: a pass only gives an
\* address to a service without one, or ends it with its service, also while
\* the node runs without IPv6 (vip.go Sync).
THEOREM AddressesStay == VipSpec => VipsStay
<1> DEFINE N == (\E wanted \in SUBSET Services : Sync(wanted)) \/ Reconfigure
           Stay == \A s \in Services :
                     /\ vips[s] # NoVIP => vips'[s] \in {vips[s], NoVIP}
                     /\ vips6[s] # NoVIP => vips6'[s] \in {vips6[s], NoVIP}
<1>1. [N]_vipVars => [Stay]_vipVars
  BY DEF Sync, Reconfigure, Assigned, vipVars
<1> QED
  BY <1>1, PTL DEF VipSpec, VipsStay

-----------------------------------------------------------------------------
(* The notifications.                                                      *)

Filed == [id : Nat, project : Projects, kind : Kinds \cup {FunctionKind}]
Sending == [at : Routes, batch : Seq(Filed), attempt : Nat]
Passes == [at : {"route", "flush"}, events : Seq(Filed), todo : SUBSET Routes,
           force : BOOLEAN, then : {"none", "apply", "stop"}, set : SUBSET Routes,
           lag : Nat, sending : {NoSend} \cup Sending]

DispTypeOK ==
    /\ queue \in Seq(Filed) /\ reload \in Seq(SUBSET Routes)
    /\ active \in SUBSET Routes
    /\ pending \in [Routes -> Seq(Filed)]
    /\ work \in {Idle} \cup Passes
    /\ copies \in [taken : SUBSET Nat, filed : SUBSET (Nat \X Routes),
                   ended : SUBSET (Nat \X Routes)]
    /\ dropped \in Nat /\ published \in Nat

\* The copies a sequence of events makes with r, and that no two are the same.
CopiesOf(s, r) == {Copy(s[i], r) : i \in DOMAIN s}
Distinct(s) == \A i, j \in DOMAIN s : s[i].id = s[j].id => i = j

SendingCopies ==
    IF work = Idle \/ work.sending = NoSend THEN {}
    ELSE CopiesOf(work.sending.batch, work.sending.at)
Kept == (UNION {CopiesOf(pending[r], r) : r \in Routes}) \cup SendingCopies

Queued == {queue[i].id : i \in DOMAIN queue}
Refused == (1..published) \ (copies.taken \cup Queued)
GoneCopies == copies.filed \ (copies.ended \cup Kept)

\* An event is in the queue once, and before it is taken.
QueueInv ==
    /\ copies.taken \subseteq 1..published
    /\ Queued \subseteq (1..published) \ copies.taken
    /\ Distinct(queue)

\* What a route still has was filed, has not ended, and is there once.
CopyInv ==
    /\ IsFiniteSet(copies.filed)
    /\ \A c \in copies.filed : c[1] \in copies.taken
    /\ copies.ended \subseteq copies.filed
    /\ Kept \subseteq copies.filed \ copies.ended
    /\ \A r \in Routes : Distinct(pending[r])

\* Only active routes hold events; a digest on its way has left its route; a
\* reload and the end visit all that holds any; the event being filed is filed
\* with the routes that are still to come.
PassInv ==
    /\ \A r \in Routes : Pending(r) => r \in active
    /\ work # Idle =>
         /\ work.todo \subseteq active
         /\ work.sending # NoSend => ~Pending(work.sending.at)
         /\ work.then = "apply" => work.force /\ \A r \in Routes : Pending(r) => r \in work.todo
         /\ work.at = "route" =>
              /\ ~work.force
              /\ Len(work.events) = 1 /\ work.events[1].id \in copies.taken
              /\ \A r \in work.todo : Copy(work.events[1], r) \notin copies.filed

Counted == dropped = Cardinality(Refused) + Cardinality(GoneCopies)

DispInv == DispTypeOK /\ QueueInv /\ CopyInv /\ PassInv /\ Counted

\* Counted says what Accounted says.
LEMMA CountedIsAccounted ==
    ASSUME DispTypeOK
    PROVE  Counted <=> Accounted
<1>1. UNION {Held(r) : r \in Routes} = Kept
  <2>1. CASE work = Idle \/ work.sending = NoSend
    <3>1. \A r \in Routes : Held(r) = CopiesOf(pending[r], r)
      BY <2>1 DEF Held, CopiesOf
    <3>2. SendingCopies = {}
      BY <2>1 DEF SendingCopies
    <3> QED BY <3>1, <3>2 DEF Kept
  <2>2. CASE ~(work = Idle \/ work.sending = NoSend)
    <3>1. work.sending.at \in Routes
      BY <2>2 DEF DispTypeOK, Passes, Sending
    <3>2. SendingCopies = CopiesOf(work.sending.batch, work.sending.at)
      BY <2>2 DEF SendingCopies
    <3>3. \A r \in Routes : /\ CopiesOf(pending[r], r) \subseteq Held(r)
                            /\ Held(r) \subseteq CopiesOf(pending[r], r) \cup SendingCopies
      BY <2>2, <3>2 DEF Held, CopiesOf
    <3>4. SendingCopies \subseteq Held(work.sending.at)
      BY <2>2, <3>2 DEF Held, CopiesOf
    <3> HIDE DEF SendingCopies
    <3>5. ASSUME NEW c \in Kept PROVE \E r \in Routes : c \in Held(r)
      BY <3>1, <3>3, <3>4, <3>5 DEF Kept
    <3>6. ASSUME NEW r \in Routes, NEW c \in Held(r) PROVE c \in Kept
      BY <3>3, <3>6 DEF Kept
    <3> QED BY <3>5, <3>6
  <2> QED BY <2>1, <2>2
<1> QED BY <1>1 DEF Counted, Accounted, Refused, Queued, GoneCopies

\* Nothing pending and no digest under way: what is empty holds no copy.
LEMMA EmptyCopies ==
    ASSUME NEW r
    PROVE  CopiesOf(<<>>, r) = {} /\ Distinct(<<>>)
BY DEF CopiesOf, Distinct

\* What an append to a route's events adds.
LEMMA AppendCopies ==
    ASSUME NEW s \in Seq(Filed), NEW e \in Filed, NEW r
    PROVE  /\ CopiesOf(Append(s, e), r) = CopiesOf(s, r) \cup {Copy(e, r)}
           /\ Append(s, e) \in Seq(Filed)
           /\ Distinct(s) /\ Copy(e, r) \notin CopiesOf(s, r) => Distinct(Append(s, e))
<1> DEFINE t == Append(s, e)
<1>1. /\ t \in Seq(Filed) /\ Len(t) = Len(s) + 1 /\ Len(s) \in Nat
      /\ DOMAIN t = 1..(Len(s) + 1) /\ DOMAIN s = 1..Len(s)
      /\ t[Len(s) + 1] = e
      /\ \A i \in 1..Len(s) : t[i] = s[i]
  OBVIOUS
<1> HIDE DEF t
<1>2. CopiesOf(t, r) = CopiesOf(s, r) \cup {Copy(e, r)}
  <2>1. ASSUME NEW c \in CopiesOf(t, r) PROVE c \in CopiesOf(s, r) \cup {Copy(e, r)}
    BY <1>1, <2>1 DEF CopiesOf
  <2>2. ASSUME NEW c \in CopiesOf(s, r) PROVE c \in CopiesOf(t, r)
    BY <1>1, <2>2 DEF CopiesOf
  <2>3. Copy(e, r) \in CopiesOf(t, r)
    BY <1>1 DEF CopiesOf
  <2> QED BY <2>1, <2>2, <2>3
<1>3. ASSUME Distinct(s), Copy(e, r) \notin CopiesOf(s, r) PROVE Distinct(t)
  <2>1. \A i \in 1..Len(s) : s[i].id # e.id
    BY <1>1, <1>3 DEF CopiesOf, Copy
  <2> QED BY <1>1, <1>3, <2>1 DEF Distinct
<1> QED BY <1>1, <1>2, <1>3 DEF t

\* What Hold keeps of a digest, and what it lets go: as many copies as it
\* counts, none of which it keeps.
Newest(s, over) == SubSeq(s, over + 1, Len(s))
Oldest(s, over, r) == {Copy(s[i], r) : i \in 1..over}

LEMMA RestLength ==
    ASSUME NEW n \in Nat, NEW over \in Nat, over <= n
    PROVE  (IF over + 1 <= n THEN n - (over + 1) + 1 ELSE 0) = n - over
OBVIOUS

LEMMA HeldCopies ==
    ASSUME NEW s \in Seq(Filed), NEW r, NEW over \in 1..Len(s), Distinct(s)
    PROVE  /\ Newest(s, over) \in Seq(Filed) /\ Distinct(Newest(s, over))
           /\ CopiesOf(s, r) = CopiesOf(Newest(s, over), r) \cup Oldest(s, over, r)
           /\ CopiesOf(Newest(s, over), r) \cap Oldest(s, over, r) = {}
           /\ IsFiniteSet(Oldest(s, over, r)) /\ Cardinality(Oldest(s, over, r)) = over
<1> DEFINE t == SubSeq(s, over + 1, Len(s))
           D == {Copy(s[i], r) : i \in 1..over}
<1> SUFFICES /\ t \in Seq(Filed) /\ Distinct(t)
             /\ CopiesOf(s, r) = CopiesOf(t, r) \cup D
             /\ CopiesOf(t, r) \cap D = {}
             /\ IsFiniteSet(D) /\ Cardinality(D) = over
  BY DEF Newest, Oldest
<1>1. /\ Len(s) \in Nat /\ DOMAIN s = 1..Len(s) /\ over \in Nat /\ over <= Len(s)
      /\ \A i \in 1..Len(s) : s[i] \in Filed
  OBVIOUS
<1>2. /\ t \in Seq(Filed) /\ DOMAIN t = 1..(Len(s) - over)
      /\ \A i \in 1..(Len(s) - over) : t[i] = s[i + over]
  <2>1. \A i \in (over + 1)..Len(s) : s[i] \in Filed
    BY <1>1
  <2>2. /\ t \in Seq(Filed)
        /\ \A i \in 1..(Len(s) - (over + 1) + 1) : t[i] = s[(over + 1) + i - 1]
    BY <1>1, <2>1, SubSeqProperties
  <2>6. Len(t) = IF over + 1 <= Len(s) THEN Len(s) - (over + 1) + 1 ELSE 0
    BY <1>1, <2>1, SubSeqProperties
  <2> HIDE DEF t
  <2>3. Len(t) = Len(s) - over
    <3>1. Len(s) \in Nat /\ over \in Nat /\ over <= Len(s)
      BY <1>1
    <3> QED BY <2>6, <3>1, RestLength
  <2>5. DOMAIN t = 1..Len(t)
    BY <2>2
  <2>4. \A i \in 1..(Len(s) - over) : t[i] = s[i + over]
    <3> SUFFICES ASSUME NEW i \in 1..(Len(s) - over) PROVE t[i] = s[i + over]
      OBVIOUS
    <3>1. i \in 1..(Len(s) - (over + 1) + 1) /\ (over + 1) + i - 1 = i + over
      BY <1>1
    <3> QED BY <2>2, <3>1
  <2> QED BY <2>2, <2>3, <2>4, <2>5
<1> HIDE DEF t
<1>3. Distinct(t)
  <2> SUFFICES ASSUME NEW i \in 1..(Len(s) - over), NEW j \in 1..(Len(s) - over),
                      t[i].id = t[j].id
               PROVE  i = j
    BY <1>2 DEF Distinct
  <2>1. i + over \in DOMAIN s /\ j + over \in DOMAIN s
    BY <1>1
  <2>2. s[i + over].id = s[j + over].id
    BY <1>2
  <2>3. i + over = j + over
    BY <2>1, <2>2 DEF Distinct
  <2> QED BY <1>1, <2>3
<1>4. CopiesOf(s, r) = CopiesOf(t, r) \cup D
  <2>1. ASSUME NEW i \in DOMAIN s PROVE Copy(s[i], r) \in CopiesOf(t, r) \cup D
    <3>1. CASE i <= over
      BY <1>1, <3>1
    <3>2. CASE i > over
      <4>1. i - over \in 1..(Len(s) - over) /\ (i - over) + over = i
        BY <1>1, <3>2
      <4>2. t[i - over] = s[i]
        BY <1>2, <4>1
      <4> QED BY <1>2, <4>1, <4>2 DEF CopiesOf
    <3> QED BY <1>1, <3>1, <3>2
  <2>2. ASSUME NEW i \in DOMAIN t PROVE Copy(t[i], r) \in CopiesOf(s, r)
    <3>1. i + over \in DOMAIN s /\ t[i] = s[i + over]
      BY <1>1, <1>2
    <3> QED BY <3>1 DEF CopiesOf
  <2>3. ASSUME NEW i \in 1..over PROVE Copy(s[i], r) \in CopiesOf(s, r)
    BY <1>1 DEF CopiesOf
  <2> QED BY <2>1, <2>2, <2>3 DEF CopiesOf
<1>5. CopiesOf(t, r) \cap D = {}
  <2> SUFFICES ASSUME NEW i \in 1..(Len(s) - over), NEW j \in 1..over,
                      Copy(t[i], r) = Copy(s[j], r)
               PROVE  FALSE
    BY <1>2 DEF CopiesOf
  <2>1. i + over \in DOMAIN s /\ j \in DOMAIN s
    BY <1>1
  <2>2. s[i + over].id = s[j].id
    BY <1>2 DEF Copy
  <2>3. i + over = j
    BY <2>1, <2>2 DEF Distinct
  <2> QED BY <1>1, <2>3
<1>6. IsFiniteSet(D) /\ Cardinality(D) = over
  <2> DEFINE f == [i \in 1..over |-> Copy(s[i], r)]
  <2>1. f \in [1..over -> D]
    OBVIOUS
  <2>2. \A i, j \in 1..over : f[i] = f[j] => i = j
    BY <1>1 DEF Copy, Distinct
  <2>3. \A d \in D : \E i \in 1..over : f[i] = d
    OBVIOUS
  <2>4. f \in Bijection(1..over, D)
    BY <2>1, <2>2, <2>3 DEF Bijection, Injection, Surjection, IsInjective
  <2>5. IsFiniteSet(1..over) /\ Cardinality(1..over) = over
    BY <1>1, FS_Interval
  <2> QED BY <2>4, <2>5, FS_Bijection DEF ExistsBijection
<1> QED BY <1>2, <1>3, <1>4, <1>5, <1>6

\* The shape of what Run is in the middle of.
LEMMA Shapes ==
    ASSUME DispTypeOK
    PROVE  /\ \A p \in Passes : p # Idle
           /\ \A s \in Sending : s # NoSend
           /\ work # Idle => work \in Passes
           /\ work # Idle /\ work.sending # NoSend => work.sending \in Sending
<1>1. ASSUME NEW p \in Passes PROVE p # Idle
  <2>1. p.at \in {"route", "flush"}
    BY DEF Passes
  <2> QED BY <2>1 DEF Idle
<1>2. ASSUME NEW s \in Sending PROVE s # NoSend
  <2>1. "batch" \in DOMAIN s
    BY DEF Sending
  <2>2. "batch" \notin DOMAIN NoSend
    BY DEF NoSend
  <2> QED BY <2>1, <2>2
<1>3. work # Idle => work \in Passes
  BY DEF DispTypeOK
<1>4. work # Idle /\ work.sending # NoSend => work.sending \in Sending
  BY <1>3 DEF Passes
<1> QED BY <1>1, <1>2, <1>3, <1>4

\* Kept, member by member.
LEMMA KeptMembers ==
    ASSUME NEW c
    PROVE  c \in Kept <=> \/ \E r \in Routes : c \in CopiesOf(pending[r], r)
                          \/ c \in SendingCopies
BY DEF Kept

\* The counted sets are finite.
LEMMA CountedSets ==
    ASSUME DispInv
    PROVE  IsFiniteSet(Refused) /\ IsFiniteSet(GoneCopies)
<1>1. IsFiniteSet(1..published)
  BY FS_Interval DEF DispInv, DispTypeOK
<1>2. IsFiniteSet(Refused)
  BY <1>1, FS_Subset DEF Refused
<1>3. IsFiniteSet(GoneCopies)
  BY FS_Subset DEF GoneCopies, DispInv, CopyInv
<1> QED BY <1>2, <1>3

\* Steps that leave the queue and the copies where they are.
LEMMA DispFrame ==
    ASSUME DispInv, UNCHANGED <<queue, pending, copies, dropped, published>>,
           SendingCopies' = SendingCopies
    PROVE  QueueInv' /\ CopyInv' /\ Counted'
<1>1. Kept' = Kept
  BY DEF Kept, CopiesOf, Copy
<1>2. Queued' = Queued
  BY DEF Queued
<1>3. Refused' = Refused /\ GoneCopies' = GoneCopies
  BY <1>1, <1>2 DEF Refused, GoneCopies
<1>4. QueueInv'
  BY <1>2 DEF DispInv, QueueInv, Distinct
<1>5. CopyInv'
  BY <1>1 DEF DispInv, CopyInv, Distinct
<1>6. Counted'
  BY <1>3 DEF DispInv, Counted
<1> QED BY <1>4, <1>5, <1>6

\* A publisher's event is in the queue or counted.
LEMMA PublishKeeps ==
    ASSUME DispInv, NEW project \in Projects, NEW kind \in Kinds \cup {FunctionKind},
           Publish(project, kind)
    PROVE  DispInv'
<1> DEFINE e == [id |-> published + 1, project |-> project, kind |-> kind]
<1>1. /\ published \in Nat /\ dropped \in Nat /\ published' = published + 1
      /\ UNCHANGED <<reload, active, pending, work, copies>>
      /\ queue \in Seq(Filed)
  BY DEF DispInv, DispTypeOK, Publish
<1>2. e \in Filed /\ e.id = published + 1
  BY <1>1 DEF Filed
<1> HIDE DEF e
<1>3. PassInv'
  BY <1>1 DEF DispInv, PassInv, Pending, Copy
<1>4. CopyInv' /\ GoneCopies' = GoneCopies
  <2>1. Kept' = Kept
    BY <1>1 DEF Kept, SendingCopies, CopiesOf, Copy
  <2> QED BY <1>1, <2>1 DEF DispInv, CopyInv, Distinct, GoneCopies
<1>5. copies.taken \subseteq 1..published /\ copies.taken' \subseteq 1..published'
  <2>1. copies.taken \subseteq 1..published
    BY DEF DispInv, QueueInv
  <2> QED BY <1>1, <2>1
<1>6. CASE queue' = Append(queue, e) /\ dropped' = dropped
  <2>1. /\ queue' \in Seq(Filed) /\ Len(queue) \in Nat
        /\ DOMAIN queue' = 1..(Len(queue) + 1) /\ DOMAIN queue = 1..Len(queue)
        /\ queue'[Len(queue) + 1] = e
        /\ \A i \in 1..Len(queue) : queue'[i] = queue[i]
    BY <1>1, <1>2, <1>6
  <2>2. Queued' = Queued \cup {published + 1}
    <3>1. ASSUME NEW x \in Queued' PROVE x \in Queued \cup {published + 1}
      BY <1>2, <2>1, <3>1 DEF Queued
    <3>2. ASSUME NEW x \in Queued PROVE x \in Queued'
      BY <2>1, <3>2 DEF Queued
    <3>3. published + 1 \in Queued'
      BY <1>2, <2>1 DEF Queued
    <3> QED BY <3>1, <3>2, <3>3
  <2>3. Queued \subseteq (1..published) \ copies.taken
    BY DEF DispInv, QueueInv
  <2>4. Distinct(queue)'
    <3>1. Distinct(queue)
      BY DEF DispInv, QueueInv
    <3>2. \A i \in 1..Len(queue) : queue[i].id # published + 1
      BY <1>1, <2>1, <2>3 DEF Queued
    <3> QED BY <1>2, <2>1, <3>1, <3>2 DEF Distinct
  <2>5. QueueInv'
    <3>1. Queued' \subseteq (1..published') \ copies.taken'
      BY <1>1, <1>5, <2>2, <2>3
    <3> QED BY <1>5, <2>4, <3>1 DEF QueueInv
  <2>6. Refused' = Refused
    <3>1. Refused' = (1..(published + 1)) \ (copies.taken \cup (Queued \cup {published + 1}))
      BY <1>1, <2>2 DEF Refused
    <3> QED BY <1>1, <3>1 DEF Refused
  <2>7. Counted'
    BY <1>4, <1>6, <2>6 DEF DispInv, Counted
  <2>8. DispTypeOK'
    BY <1>1, <1>6, <2>1 DEF DispInv, DispTypeOK
  <2> QED BY <1>3, <1>4, <2>5, <2>7, <2>8 DEF DispInv
<1>7. CASE queue' = queue /\ dropped' = dropped + 1
  <2>1. Queued' = Queued
    BY <1>7 DEF Queued
  <2>2. QueueInv'
    <3>1. Queued \subseteq (1..published) \ copies.taken
      BY DEF DispInv, QueueInv
    <3>2. Queued' \subseteq (1..published') \ copies.taken'
      BY <1>1, <2>1, <3>1
    <3> QED BY <1>5, <1>7, <3>2 DEF DispInv, QueueInv, Distinct
  <2>3. Refused' = Refused \cup {published + 1} /\ published + 1 \notin Refused
    <3>1. Refused' = (1..(published + 1)) \ (copies.taken \cup Queued)
      BY <1>1, <2>1 DEF Refused
    <3>2. published + 1 \notin copies.taken \cup Queued
      BY <1>1, <1>5 DEF DispInv, QueueInv
    <3> QED BY <1>1, <3>1, <3>2 DEF Refused
  <2>4. Cardinality(Refused') = Cardinality(Refused) + 1
    BY <2>3, CountedSets, FS_AddElement
  <2>5. Cardinality(Refused) \in Nat /\ Cardinality(GoneCopies) \in Nat
    BY CountedSets, FS_CardinalityType
  <2>6. Counted'
    BY <1>4, <1>7, <2>4, <2>5 DEF DispInv, Counted
  <2>7. DispTypeOK'
    BY <1>1, <1>7 DEF DispInv, DispTypeOK
  <2> QED BY <1>3, <1>4, <2>2, <2>6, <2>7 DEF DispInv
<1> QED BY <1>6, <1>7 DEF Publish, e

\* A reload, a tick and the end begin a pass over what is pending.
LEMMA SweepsKeep ==
    ASSUME DispInv, TakeReload \/ TakeTick \/ TakeDone
    PROVE  DispInv'
<1>1. /\ work = Idle /\ UNCHANGED <<queue, active, pending, dropped, published, copies>>
      /\ active \in SUBSET Routes /\ reload \in Seq(SUBSET Routes)
  BY DEF DispInv, DispTypeOK, TakeReload, TakeTick, TakeDone
<1> DEFINE todo == {r \in active : Pending(r)}
<1>2. todo \in SUBSET Routes
  BY <1>1
<1>4. /\ work' \in Passes /\ work'.sending = NoSend /\ work'.at = "flush"
      /\ work'.todo = todo /\ (work'.then = "apply" => work'.force)
  <2>1. CASE TakeReload
    <3>1. reload[1] \in SUBSET Routes
      BY <1>1, <2>1 DEF TakeReload
    <3>2. work' = Pass("flush", <<>>, todo, TRUE, "apply", reload[1])
      BY <2>1 DEF TakeReload
    <3> HIDE DEF todo
    <3> QED BY <1>2, <3>1, <3>2 DEF Pass, Passes
  <2>2. CASE TakeTick
    <3>1. work' = Pass("flush", <<>>, todo, FALSE, "none", {})
      BY <2>2 DEF TakeTick
    <3> HIDE DEF todo
    <3> QED BY <1>2, <3>1 DEF Pass, Passes
  <2>3. CASE TakeDone
    <3>1. work' = Pass("flush", <<>>, todo, TRUE, "stop", {})
      BY <2>3 DEF TakeDone
    <3> HIDE DEF todo
    <3> QED BY <1>2, <3>1 DEF Pass, Passes
  <2> QED BY <2>1, <2>2, <2>3
<1> HIDE DEF todo
<1>5. work' # Idle
  BY <1>4, Shapes DEF DispInv
<1>6. QueueInv' /\ CopyInv' /\ Counted'
  <2>1. SendingCopies' = SendingCopies
    BY <1>1, <1>4 DEF SendingCopies
  <2> QED BY <1>1, <2>1, DispFrame
<1>7. PassInv'
  <2>1. \A r \in Routes : Pending(r)' <=> Pending(r)
    BY <1>1 DEF Pending
  <2>2. \A r \in Routes : Pending(r) => r \in active
    BY DEF DispInv, PassInv
  <2>3. \A r \in Routes : Pending(r) => r \in todo
    BY <2>2 DEF todo
  <2>4. todo \subseteq active
    BY DEF todo
  <2> QED BY <1>1, <1>4, <2>1, <2>2, <2>3, <2>4 DEF PassInv
<1>8. reload' \in Seq(SUBSET Routes)
  <2>1. reload' = reload \/ reload' = <<>>
    BY DEF TakeReload, TakeTick, TakeDone
  <2>2. <<>> \in Seq(SUBSET Routes)
    OBVIOUS
  <2> QED BY <1>1, <2>1, <2>2
<1>9. DispTypeOK'
  BY <1>1, <1>4, <1>8 DEF DispInv, DispTypeOK
<1> QED BY <1>6, <1>7, <1>9 DEF DispInv

\* A new set of routes, the end of the context and the clock touch no event.
LEMMA CallersKeep ==
    ASSUME DispInv, (\E set \in RouteSets : SetRoutes(set)) \/ Cancel \/ Tick
    PROVE  DispInv'
<1>1. /\ UNCHANGED <<queue, active, pending, dropped, published, copies>>
      /\ active \in SUBSET Routes /\ reload \in Seq(SUBSET Routes)
  BY DEF DispInv, DispTypeOK, SetRoutes, Cancel, Tick
<1>2. reload' \in Seq(SUBSET Routes)
  <2>1. CASE \E set \in RouteSets : SetRoutes(set)
    BY <2>1, DispatcherAssumption DEF SetRoutes
  <2>2. CASE Cancel \/ Tick
    BY <1>1, <2>2 DEF Cancel, Tick
  <2> QED BY <2>1, <2>2
<1>3. CASE work' = work
  <2>1. SendingCopies' = SendingCopies
    BY <1>1, <1>3 DEF SendingCopies, CopiesOf, Copy
  <2>2. QueueInv' /\ CopyInv' /\ Counted'
    BY <1>1, <2>1, DispFrame
  <2>3. PassInv'
    BY <1>1, <1>3 DEF DispInv, PassInv, Pending, Copy
  <2> QED BY <1>1, <1>2, <1>3, <2>2, <2>3 DEF DispInv, DispTypeOK
<1>4. CASE work # Idle /\ work' = [work EXCEPT !.lag = @ + 1]
  <2>1. work \in Passes
    BY <1>4, Shapes DEF DispInv
  <2>2. /\ work' \in Passes /\ work'.at = work.at /\ work'.events = work.events
        /\ work'.todo = work.todo /\ work'.force = work.force /\ work'.then = work.then
        /\ work'.sending = work.sending
    BY <1>4, <2>1 DEF Passes
  <2>3. work' # Idle
    BY <2>2, Shapes DEF DispInv
  <2>4. SendingCopies' = SendingCopies
    BY <1>4, <2>2, <2>3 DEF SendingCopies, CopiesOf, Copy
  <2>5. QueueInv' /\ CopyInv' /\ Counted'
    BY <1>1, <2>4, DispFrame
  <2>6. PassInv'
    BY <1>1, <1>4, <2>2, <2>3 DEF DispInv, PassInv, Pending, Copy
  <2> QED BY <1>1, <1>2, <2>2, <2>5, <2>6 DEF DispInv, DispTypeOK
<1>5. work' = work \/ (work # Idle /\ work' = [work EXCEPT !.lag = @ + 1])
  BY DEF SetRoutes, Cancel, Tick
<1> QED BY <1>3, <1>4, <1>5

\* Run takes the oldest event: it passes from the queue to the routes.
LEMMA TakeEventKeeps ==
    ASSUME DispInv, TakeEvent
    PROVE  DispInv'
<1> DEFINE e == Head(queue)
           todo == {r \in active : Matches(r, e)}
<1>1. /\ work = Idle /\ queue # <<>> /\ queue' = Tail(queue)
      /\ copies' = [copies EXCEPT !.taken = @ \cup {e.id}]
      /\ work' = Pass("route", <<e>>, todo, FALSE, "none", {})
      /\ UNCHANGED <<reload, active, pending, dropped, published>>
      /\ queue \in Seq(Filed) /\ active \in SUBSET Routes /\ published \in Nat
      /\ copies \in [taken : SUBSET Nat, filed : SUBSET (Nat \X Routes),
                     ended : SUBSET (Nat \X Routes)]
  BY DEF DispInv, DispTypeOK, TakeEvent
<1>2. /\ e = queue[1] /\ e \in Filed /\ e.id \in Nat /\ <<e>> \in Seq(Filed) /\ Len(<<e>>) = 1
      /\ <<e>>[1] = e
      /\ Len(queue) \in Nat /\ Len(queue) >= 1 /\ DOMAIN queue = 1..Len(queue)
  <2>1. /\ Len(queue) \in Nat /\ Len(queue) >= 1 /\ DOMAIN queue = 1..Len(queue)
        /\ e = queue[1] /\ e \in Filed
    BY <1>1
  <2> HIDE DEF e
  <2>2. e.id \in Nat
    BY <2>1 DEF Filed
  <2>3. <<e>> \in Seq(Filed) /\ Len(<<e>>) = 1 /\ <<e>>[1] = e
    BY <2>1
  <2> QED BY <2>1, <2>2, <2>3
<1>3. /\ queue' \in Seq(Filed) /\ DOMAIN queue' = 1..(Len(queue) - 1)
      /\ \A i \in 1..(Len(queue) - 1) : queue'[i] = queue[i + 1]
  BY <1>1, <1>2
<1>4. todo \in SUBSET Routes /\ todo \subseteq active
  BY <1>1
<1> HIDE DEF e, todo
<1>5. /\ work' \in Passes /\ work' # Idle /\ work'.sending = NoSend /\ work'.at = "route"
      /\ work'.todo = todo /\ work'.force = FALSE /\ work'.then = "none" /\ work'.events = <<e>>
  <2>1. work' = Pass("route", <<e>>, todo, FALSE, "none", {})
    BY <1>1
  <2>2. /\ work' \in Passes /\ work'.sending = NoSend /\ work'.at = "route"
        /\ work'.todo = todo /\ work'.force = FALSE /\ work'.then = "none" /\ work'.events = <<e>>
    BY <1>2, <1>4, <2>1 DEF Pass, Passes
  <2> QED BY <2>2, Shapes DEF DispInv
<1>6. /\ copies'.taken = copies.taken \cup {e.id}
      /\ copies'.filed = copies.filed /\ copies'.ended = copies.ended
      /\ copies' \in [taken : SUBSET Nat, filed : SUBSET (Nat \X Routes),
                      ended : SUBSET (Nat \X Routes)]
  BY <1>1, <1>2
<1>7. Distinct(queue) /\ Queued \subseteq (1..published) \ copies.taken
      /\ copies.taken \subseteq 1..published
  BY DEF DispInv, QueueInv
<1>8. Queued = Queued' \cup {e.id} /\ e.id \notin Queued'
  <2>1. e.id \in Queued
    BY <1>2 DEF Queued
  <2>2. ASSUME NEW x \in Queued' PROVE x \in Queued /\ x # e.id
    <3>1. PICK i \in 1..(Len(queue) - 1) : x = queue'[i].id
      BY <1>3, <2>2 DEF Queued
    <3>2. i + 1 \in DOMAIN queue /\ 1 \in DOMAIN queue /\ i + 1 # 1 /\ x = queue[i + 1].id
      BY <1>2, <1>3, <3>1
    <3> QED BY <1>2, <1>7, <3>2 DEF Queued, Distinct
  <2>3. ASSUME NEW x \in Queued, x # e.id PROVE x \in Queued'
    <3>1. PICK i \in 1..Len(queue) : x = queue[i].id
      BY <1>2, <2>3 DEF Queued
    <3>2. i # 1
      BY <1>2, <2>3, <3>1
    <3>3. i - 1 \in 1..(Len(queue) - 1) /\ (i - 1) + 1 = i
      BY <1>2, <3>2
    <3>4. queue'[i - 1] = queue[i]
      BY <1>3, <3>3
    <3> QED BY <1>3, <3>1, <3>3, <3>4 DEF Queued
  <2> QED BY <2>1, <2>2, <2>3
<1>9. QueueInv'
  <2>1. Distinct(queue)'
    <3> SUFFICES ASSUME NEW i \in 1..(Len(queue) - 1), NEW j \in 1..(Len(queue) - 1),
                        queue'[i].id = queue'[j].id
                 PROVE  i = j
      BY <1>3 DEF Distinct
    <3>1. i + 1 \in DOMAIN queue /\ j + 1 \in DOMAIN queue
      BY <1>2
    <3>2. queue[i + 1].id = queue[j + 1].id
      BY <1>3
    <3>3. i + 1 = j + 1
      BY <1>7, <3>1, <3>2 DEF Distinct
    <3> QED BY <1>2, <3>3
  <2> QED BY <1>1, <1>6, <1>7, <1>8, <2>1 DEF QueueInv
<1>10. Kept' = Kept
  BY <1>1, <1>5 DEF Kept, SendingCopies, CopiesOf, Copy
<1>11. CopyInv'
  BY <1>1, <1>6, <1>10 DEF DispInv, CopyInv, Distinct
<1>12. Counted'
  <2>1. Refused' = Refused
    BY <1>1, <1>6, <1>8 DEF Refused
  <2>2. GoneCopies' = GoneCopies
    BY <1>6, <1>10 DEF GoneCopies
  <2> QED BY <1>1, <2>1, <2>2 DEF DispInv, Counted
<1>13. PassInv'
  <2>1. e.id \notin copies.taken
    BY <1>7, <1>8
  <2>2. \A r \in todo : Copy(e, r) \notin copies.filed
    BY <2>1 DEF DispInv, CopyInv, Copy
  <2>3. \A r \in Routes : Pending(r)' => r \in active'
    BY <1>1 DEF DispInv, PassInv, Pending
  <2>4. \A r \in work'.todo : Copy(work'.events[1], r) \notin copies'.filed
    BY <1>2, <1>5, <1>6, <2>2
  <2> QED BY <1>1, <1>2, <1>4, <1>5, <1>6, <2>3, <2>4 DEF PassInv, Copy
<1>14. DispTypeOK'
  BY <1>1, <1>3, <1>5, <1>6 DEF DispInv, DispTypeOK
<1> QED BY <1>9, <1>11, <1>12, <1>13, <1>14 DEF DispInv

\* What a visit of r does with a batch of events for it: the rest stays pending,
\* D is let go, and what is not in either leaves in a digest.
Splits(r, batch, rest, D) ==
    /\ pending' = [pending EXCEPT ![r] = rest]
    /\ rest \in Seq(Filed) /\ Distinct(rest)
    /\ CopiesOf(batch, r) = CopiesOf(rest, r) \cup SendingCopies' \cup D
    /\ D \cap (CopiesOf(rest, r) \cup SendingCopies') = {}
    /\ IsFiniteSet(D) /\ dropped' = dropped + Cardinality(D)
    /\ work' \in Passes /\ work'.todo = work.todo \ {r} /\ work'.at = work.at
    /\ work'.force = work.force /\ work'.then = work.then /\ work'.events = work.events
    /\ work'.sending # NoSend => rest = <<>> /\ work'.sending.at = r
    /\ work.force => rest = <<>>

\* A digest is held back, its oldest events counted, or begins to leave.
LEMMA FlushSplits ==
    ASSUME DispInv, work # Idle, work.sending = NoSend, NEW r \in work.todo,
           NEW batch \in Seq(Filed), Distinct(batch),
           NEW final \in BOOLEAN, final <=> work.force, flush(r, batch, final)
    PROVE  \E rest, D : Splits(r, batch, rest, D)
<1>a. /\ work \in Passes /\ r \in Routes /\ dropped \in Nat
  BY Shapes DEF DispInv, DispTypeOK, Passes
<1>1. CASE final \/ allow(r)
  <2>1. /\ pending' = [pending EXCEPT ![r] = <<>>] /\ dropped' = dropped
        /\ work' = [work EXCEPT !.todo = @ \ {r},
                                !.sending = [at |-> r, batch |-> batch, attempt |-> 1]]
    BY <1>1 DEF flush
  <2>2. [at |-> r, batch |-> batch, attempt |-> 1] \in Sending
    BY <1>a DEF Sending
  <2>3. /\ work' \in Passes /\ work'.todo = work.todo \ {r} /\ work'.at = work.at
        /\ work'.force = work.force /\ work'.then = work.then /\ work'.events = work.events
        /\ work'.sending = [at |-> r, batch |-> batch, attempt |-> 1]
    BY <1>a, <2>1, <2>2 DEF Passes
  <2>4. work' # Idle /\ work'.sending # NoSend
    BY <2>2, <2>3, Shapes DEF DispInv
  <2>5. SendingCopies' = CopiesOf(batch, r)
    BY <2>3, <2>4 DEF SendingCopies, CopiesOf, Copy
  <2>6. IsFiniteSet({}) /\ Cardinality({}) = 0
    BY FS_EmptySet
  <2>7. <<>> \in Seq(Filed) /\ CopiesOf(<<>>, r) = {} /\ Distinct(<<>>)
    BY EmptyCopies
  <2>8. dropped' = dropped + Cardinality({})
    BY <1>a, <2>1, <2>6
  <2>9. /\ CopiesOf(batch, r) = CopiesOf(<<>>, r) \cup SendingCopies' \cup {}
        /\ {} \cap (CopiesOf(<<>>, r) \cup SendingCopies') = {}
    BY <2>5, <2>7
  <2>10. work'.sending.at = r
    BY <2>3
  <2> QED BY <2>1, <2>3, <2>6, <2>7, <2>8, <2>9, <2>10 DEF Splits
<1>2. CASE ~(final \/ allow(r))
  <2>1. Hold(r, batch)
    BY <1>2 DEF flush
  <2> DEFINE over == Len(batch) - MaxBatch
  <2>2. work' = [work EXCEPT !.todo = @ \ {r}]
    BY <2>1 DEF Hold
  <2>3. /\ work' \in Passes /\ work'.todo = work.todo \ {r} /\ work'.at = work.at
        /\ work'.force = work.force /\ work'.then = work.then /\ work'.events = work.events
        /\ work'.sending = NoSend /\ ~work.force
    BY <1>a, <1>2, <2>2 DEF Passes
  <2>4. SendingCopies' = {}
    BY <2>3 DEF SendingCopies
  <2>5. MaxBatch \in Nat \ {0} /\ Len(batch) \in Nat
    BY DispatcherAssumption
  <2>6. CASE over > 0
    <3> DEFINE rest == Newest(batch, over)
               D == Oldest(batch, over, r)
    <3>1. over \in 1..Len(batch)
      BY <2>5, <2>6
    <3>2. pending' = [pending EXCEPT ![r] = rest] /\ dropped' = dropped + over
      BY <2>1, <2>6 DEF Hold, Newest
    <3> HIDE DEF over
    <3>3. /\ rest \in Seq(Filed) /\ Distinct(rest)
          /\ CopiesOf(batch, r) = CopiesOf(rest, r) \cup D
          /\ CopiesOf(rest, r) \cap D = {}
          /\ IsFiniteSet(D) /\ Cardinality(D) = over
      BY <3>1, HeldCopies
    <3> HIDE DEF rest, D
    <3>4. /\ CopiesOf(batch, r) = CopiesOf(rest, r) \cup SendingCopies' \cup D
          /\ D \cap (CopiesOf(rest, r) \cup SendingCopies') = {}
          /\ dropped' = dropped + Cardinality(D)
      BY <2>4, <3>2, <3>3
    <3> QED BY <2>3, <3>2, <3>3, <3>4 DEF Splits
  <2>7. CASE ~(over > 0)
    <3>1. pending' = [pending EXCEPT ![r] = batch] /\ dropped' = dropped
      BY <2>1, <2>7 DEF Hold
    <3>2. IsFiniteSet({}) /\ Cardinality({}) = 0
      BY FS_EmptySet
    <3>3. dropped' = dropped + Cardinality({})
      BY <1>a, <3>1, <3>2
    <3>4. /\ CopiesOf(batch, r) = CopiesOf(batch, r) \cup SendingCopies' \cup {}
          /\ {} \cap (CopiesOf(batch, r) \cup SendingCopies') = {}
      BY <2>4
    <3> QED BY <2>3, <3>1, <3>2, <3>3, <3>4 DEF Splits
  <2> QED BY <2>6, <2>7
<1> QED BY <1>1, <1>2

\* Whatever a visit does, every copy is somewhere or counted.
LEMMA VisitKeeps ==
    ASSUME DispInv, work # Idle, work.sending = NoSend, NEW r \in work.todo,
           NEW batch \in Seq(Filed), NEW rest, NEW D, Splits(r, batch, rest, D),
           UNCHANGED <<queue, reload, active, published>>,
           copies'.filed = copies.filed \cup CopiesOf(batch, r),
           copies'.ended = copies.ended, copies'.taken = copies.taken,
           IsFiniteSet(copies'.filed),
           copies' \in [taken : SUBSET Nat, filed : SUBSET (Nat \X Routes),
                        ended : SUBSET (Nat \X Routes)],
           \A c \in CopiesOf(batch, r) : c[1] \in copies.taken /\ c \notin copies.ended,
           CopiesOf(pending[r], r) \subseteq CopiesOf(batch, r),
           \A c \in CopiesOf(batch, r) : c \in copies.filed => c \in CopiesOf(pending[r], r),
           work.at = "route" => \A q \in work.todo \ {r} :
                                    Copy(work.events[1], q) \notin copies'.filed
    PROVE  DispInv'
<1>1. /\ work \in Passes /\ work.todo \subseteq active /\ r \in Routes /\ r \in active
      /\ pending \in [Routes -> Seq(Filed)] /\ dropped \in Nat
      /\ active \in SUBSET Routes
  BY Shapes DEF DispInv, DispTypeOK, PassInv
<1>2. IsFiniteSet(copies.filed) /\ IsFiniteSet(GoneCopies) /\ IsFiniteSet(Refused)
  BY CountedSets DEF DispInv, CopyInv
<1>3. Refused' = Refused /\ QueueInv'
  BY DEF DispInv, QueueInv, Refused, Queued, Distinct
<1>4. SendingCopies = {}
  BY DEF SendingCopies
<1>5. Splits(r, batch, rest, D)
  OBVIOUS
<1>6. /\ pending' \in [Routes -> Seq(Filed)] /\ pending'[r] = rest
      /\ \A q \in Routes \ {r} : pending'[q] = pending[q]
      /\ \A q \in Routes : Distinct(pending'[q])
  BY <1>1, <1>5 DEF DispInv, CopyInv, Splits
<1>7. \A c : c \in Kept' <=> \/ \E q \in Routes \ {r} : c \in CopiesOf(pending[q], q)
                             \/ c \in CopiesOf(rest, r) \cup SendingCopies'
  <2>1. \A c : c \in Kept' <=> \/ \E q \in Routes : c \in CopiesOf(pending'[q], q)
                               \/ c \in SendingCopies'
    BY DEF Kept, CopiesOf, Copy
  <2> QED BY <1>1, <1>6, <2>1
<1>8. \A c : c \in Kept <=> \/ \E q \in Routes \ {r} : c \in CopiesOf(pending[q], q)
                            \/ c \in CopiesOf(pending[r], r)
  BY <1>1, <1>4, KeptMembers
<1>9. \A q \in Routes \ {r} : CopiesOf(pending[q], q) \cap CopiesOf(batch, r) = {}
  BY DEF CopiesOf, Copy
<1>10. Kept \subseteq copies.filed \ copies.ended
  BY DEF DispInv, CopyInv
<1>11. GoneCopies' = GoneCopies \cup D /\ GoneCopies \cap D = {}
  <2>1. ASSUME NEW c \in D PROVE c \in GoneCopies' /\ c \notin GoneCopies
    <3>1. c \in CopiesOf(batch, r) /\ c \notin Kept'
      BY <1>5, <1>7, <1>9, <2>1 DEF Splits
    <3>2. c \in copies.filed => c \in Kept
      BY <1>8, <3>1
    <3> QED BY <3>1, <3>2 DEF GoneCopies
  <2>2. ASSUME NEW c \in GoneCopies PROVE c \in GoneCopies'
    <3>1. c \notin CopiesOf(batch, r)
      BY <1>8, <2>2 DEF GoneCopies
    <3>2. c \notin Kept'
      BY <1>5, <1>7, <1>8, <2>2, <3>1 DEF GoneCopies, Splits
    <3> QED BY <2>2, <3>2 DEF GoneCopies
  <2>3. ASSUME NEW c \in GoneCopies' PROVE c \in GoneCopies \cup D
    <3>1. CASE c \in CopiesOf(batch, r)
      BY <1>5, <1>7, <2>3, <3>1 DEF GoneCopies, Splits
    <3>2. CASE c \notin CopiesOf(batch, r)
      BY <1>7, <1>8, <2>3, <3>2 DEF GoneCopies
    <3> QED BY <3>1, <3>2
  <2> QED BY <2>1, <2>2, <2>3
<1>12. Counted'
  <2>1. Cardinality(GoneCopies') = Cardinality(GoneCopies) + Cardinality(D)
    <3>1. Cardinality(GoneCopies \cap D) = 0
      BY <1>11, FS_EmptySet
    <3>2. /\ Cardinality(GoneCopies) \in Nat /\ Cardinality(D) \in Nat
          /\ Cardinality(GoneCopies \cup D) =
                Cardinality(GoneCopies) + Cardinality(D) - Cardinality(GoneCopies \cap D)
      BY <1>2, <1>5, FS_Union, FS_CardinalityType DEF Splits
    <3> QED BY <1>11, <3>1, <3>2
  <2>2. /\ Cardinality(GoneCopies) \in Nat /\ Cardinality(D) \in Nat /\ Cardinality(Refused) \in Nat
    BY <1>2, <1>5, FS_CardinalityType DEF Splits
  <2> QED BY <1>1, <1>3, <1>5, <2>1, <2>2 DEF DispInv, Counted, Splits
<1>13. CopyInv'
  <2>1. CopiesOf(rest, r) \cup SendingCopies' \subseteq CopiesOf(batch, r)
    BY <1>5 DEF Splits
  <2>2. Kept' \subseteq copies'.filed \ copies'.ended
    BY <1>7, <1>8, <1>10, <2>1
  <2>3. \A c \in copies'.filed : c[1] \in copies'.taken
    BY DEF DispInv, CopyInv
  <2>4. copies'.ended \subseteq copies'.filed
    BY DEF DispInv, CopyInv
  <2> QED BY <1>6, <2>2, <2>3, <2>4 DEF CopyInv, Distinct
<1>14. PassInv'
  <2>1. \A q \in Routes : Pending(q)' => q \in active'
    BY <1>1, <1>6 DEF DispInv, PassInv, Pending
  <2>2. work'.sending # NoSend => pending'[work'.sending.at] = <<>>
    BY <1>5, <1>6 DEF Splits
  <2>3. work'.then = "apply" => work'.force /\ \A q \in Routes : Pending(q)' => q \in work'.todo
    BY <1>1, <1>5, <1>6 DEF DispInv, PassInv, Pending, Splits
  <2>4. work'.at = "route" =>
              /\ ~work'.force
              /\ Len(work'.events) = 1 /\ work'.events[1].id \in copies'.taken
              /\ \A q \in work'.todo : Copy(work'.events[1], q) \notin copies'.filed
    BY <1>5 DEF DispInv, PassInv, Splits
  <2>5. work'.todo \subseteq active'
    BY <1>1, <1>5 DEF Splits
  <2> QED BY <2>1, <2>2, <2>3, <2>4, <2>5 DEF PassInv, Pending, Copy
<1>15. DispTypeOK'
  <2>1. dropped' \in Nat
    BY <1>1, <1>5, FS_CardinalityType DEF Splits
  <2> QED BY <1>5, <1>6, <2>1 DEF DispInv, DispTypeOK, Splits
<1> QED BY <1>3, <1>12, <1>13, <1>14, <1>15 DEF DispInv

\* route: the event joins a route's pending ones, which may leave with it.
LEMMA RouteKeeps ==
    ASSUME DispInv, work # Idle, work.sending = NoSend, work.at = "route",
           NEW r \in work.todo, RouteTo(r),
           UNCHANGED <<queue, reload, active, published>>
    PROVE  DispInv'
<1> DEFINE e == work.events[1]
           batch == Append(pending[r], e)
<1>1. /\ work \in Passes /\ r \in Routes /\ pending \in [Routes -> Seq(Filed)]
      /\ dropped \in Nat /\ pending[r] \in Seq(Filed)
      /\ copies \in [taken : SUBSET Nat, filed : SUBSET (Nat \X Routes),
                     ended : SUBSET (Nat \X Routes)]
  BY Shapes DEF DispInv, DispTypeOK, Passes
<1>2. /\ ~work.force /\ e.id \in copies.taken /\ work.events \in Seq(Filed)
      /\ Len(work.events) = 1
      /\ \A q \in work.todo : Copy(e, q) \notin copies.filed
  BY <1>1 DEF DispInv, PassInv, Passes
<1>3. e \in Filed
  BY <1>2
<1>4. copies' = [copies EXCEPT !.filed = @ \cup {Copy(e, r)}]
  BY DEF RouteTo
<1>5. \/ Len(batch) >= MaxBatch /\ flush(r, batch, FALSE)
      \/ /\ Len(batch) < MaxBatch
         /\ pending' = [pending EXCEPT ![r] = batch]
         /\ work' = [work EXCEPT !.todo = @ \ {r}]
         /\ dropped' = dropped
  BY DEF RouteTo
<1> HIDE DEF e
<1>6. CopiesOf(pending[r], r) \subseteq copies.filed /\ Distinct(pending[r])
      /\ copies.ended \subseteq copies.filed /\ IsFiniteSet(copies.filed)
      /\ CopiesOf(pending[r], r) \cap copies.ended = {}
  BY <1>1, KeptMembers DEF DispInv, CopyInv
<1>7. Copy(e, r) \notin copies.filed /\ Copy(e, r) \notin CopiesOf(pending[r], r)
  BY <1>2, <1>6
<1>8. /\ batch \in Seq(Filed) /\ Distinct(batch)
      /\ CopiesOf(batch, r) = CopiesOf(pending[r], r) \cup {Copy(e, r)}
  BY <1>1, <1>3, <1>6, <1>7, AppendCopies
<1> HIDE DEF batch
<1>9. Copy(e, r) \in Nat \X Routes /\ Copy(e, r)[1] = e.id
  BY <1>1, <1>3 DEF Copy, Filed
<1>10. /\ copies'.filed = copies.filed \cup {Copy(e, r)} /\ copies'.ended = copies.ended
       /\ copies'.taken = copies.taken
       /\ copies' \in [taken : SUBSET Nat, filed : SUBSET (Nat \X Routes),
                       ended : SUBSET (Nat \X Routes)]
  BY <1>1, <1>4, <1>9
<1>11. \E rest, D : Splits(r, batch, rest, D)
  <2>1. CASE flush(r, batch, FALSE)
    BY <1>2, <1>8, <2>1, FlushSplits
  <2>2. CASE /\ pending' = [pending EXCEPT ![r] = batch]
             /\ work' = [work EXCEPT !.todo = @ \ {r}]
             /\ dropped' = dropped
    <3>1. /\ work' \in Passes /\ work'.todo = work.todo \ {r} /\ work'.at = work.at
          /\ work'.force = work.force /\ work'.then = work.then /\ work'.events = work.events
          /\ work'.sending = NoSend
      BY <1>1, <2>2 DEF Passes
    <3>2. SendingCopies' = {}
      BY <3>1 DEF SendingCopies
    <3>3. IsFiniteSet({}) /\ dropped' = dropped + Cardinality({})
      BY <1>1, <2>2, FS_EmptySet
    <3>4. /\ CopiesOf(batch, r) = CopiesOf(batch, r) \cup SendingCopies' \cup {}
          /\ {} \cap (CopiesOf(batch, r) \cup SendingCopies') = {}
      BY <3>2
    <3>5. Splits(r, batch, batch, {})
      BY <1>2, <1>8, <2>2, <3>1, <3>3, <3>4 DEF Splits
    <3> QED BY <1>8, <3>5
  <2> QED BY <1>5, <2>1, <2>2
<1>12. PICK rest, D : Splits(r, batch, rest, D)
  BY <1>11
<1>13. /\ copies'.filed = copies.filed \cup CopiesOf(batch, r)
       /\ IsFiniteSet(copies'.filed)
       /\ \A c \in CopiesOf(batch, r) : c[1] \in copies.taken /\ c \notin copies.ended
       /\ CopiesOf(pending[r], r) \subseteq CopiesOf(batch, r)
       /\ \A c \in CopiesOf(batch, r) : c \in copies.filed => c \in CopiesOf(pending[r], r)
  <2>1. copies'.filed = copies.filed \cup CopiesOf(batch, r)
    BY <1>6, <1>8, <1>10
  <2>2. IsFiniteSet(copies'.filed)
    <3>1. IsFiniteSet(copies.filed)
      BY <1>6
    <3>2. IsFiniteSet(copies.filed \cup {Copy(e, r)})
      BY <3>1, FS_AddElement
    <3> QED BY <1>10, <3>2
  <2>3. \A c \in CopiesOf(batch, r) : c[1] \in copies.taken
    <3>1. \A c \in copies.filed : c[1] \in copies.taken
      BY DEF DispInv, CopyInv
    <3> QED BY <1>2, <1>6, <1>8, <1>9, <3>1
  <2>4. \A c \in CopiesOf(batch, r) : c \notin copies.ended
    BY <1>6, <1>7, <1>8
  <2> QED BY <1>7, <1>8, <2>1, <2>2, <2>3, <2>4
<1>14. \A q \in work.todo \ {r} : Copy(work.events[1], q) \notin copies'.filed
  BY <1>2, <1>10 DEF Copy, e
<1> QED BY <1>1, <1>8, <1>10, <1>12, <1>13, <1>14, VisitKeeps

\* flushAll: a digest that is due leaves or is held; others stay.
LEMMA FlushToKeeps ==
    ASSUME DispInv, work # Idle, work.sending = NoSend, work.at = "flush",
           NEW r \in work.todo, FlushTo(r),
           UNCHANGED <<queue, reload, active, published>>
    PROVE  DispInv'
<1>1. /\ work \in Passes /\ r \in Routes /\ pending \in [Routes -> Seq(Filed)]
      /\ dropped \in Nat /\ pending[r] \in Seq(Filed) /\ work.force \in BOOLEAN
      /\ copies \in [taken : SUBSET Nat, filed : SUBSET (Nat \X Routes),
                     ended : SUBSET (Nat \X Routes)]
  BY Shapes DEF DispInv, DispTypeOK, Passes
<1> DEFINE batch == pending[r]
<1>2. /\ CopiesOf(batch, r) \subseteq copies.filed /\ Distinct(batch)
      /\ IsFiniteSet(copies.filed) /\ CopiesOf(batch, r) \cap copies.ended = {}
  BY <1>1, KeptMembers DEF DispInv, CopyInv
<1>3. copies' = copies
  BY DEF FlushTo
<1>4. \E rest, D : Splits(r, batch, rest, D)
  <2>1. CASE flush(r, batch, work.force)
    BY <1>1, <1>2, <2>1, FlushSplits
  <2>2. CASE ~work.force /\ pending' = pending /\ dropped' = dropped
             /\ work' = [work EXCEPT !.todo = @ \ {r}]
    <3>1. /\ work' \in Passes /\ work'.todo = work.todo \ {r} /\ work'.at = work.at
          /\ work'.force = work.force /\ work'.then = work.then /\ work'.events = work.events
          /\ work'.sending = NoSend
      BY <1>1, <2>2 DEF Passes
    <3>2. SendingCopies' = {}
      BY <3>1 DEF SendingCopies
    <3>3. IsFiniteSet({}) /\ dropped' = dropped + Cardinality({})
      BY <1>1, <2>2, FS_EmptySet
    <3>4. /\ CopiesOf(batch, r) = CopiesOf(batch, r) \cup SendingCopies' \cup {}
          /\ {} \cap (CopiesOf(batch, r) \cup SendingCopies') = {}
      BY <3>2
    <3>5. pending' = [pending EXCEPT ![r] = batch]
      BY <1>1, <2>2
    <3>6. Splits(r, batch, batch, {})
      BY <1>1, <1>2, <2>2, <3>1, <3>3, <3>4, <3>5 DEF Splits
    <3> QED BY <1>1, <3>6
  <2> QED BY <2>1, <2>2 DEF FlushTo
<1>5. PICK rest, D : Splits(r, batch, rest, D)
  BY <1>4
<1>6. /\ copies'.filed = copies.filed \cup CopiesOf(batch, r)
      /\ \A c \in CopiesOf(batch, r) : c[1] \in copies.taken /\ c \notin copies.ended
  BY <1>2, <1>3 DEF DispInv, CopyInv
<1> QED BY <1>1, <1>2, <1>3, <1>5, <1>6, VisitKeeps

LEMMA VisitStep ==
    ASSUME DispInv, Visit
    PROVE  DispInv'
BY RouteKeeps, FlushToKeeps DEF Visit

\* An attempt repeats, or ends and its digest's copies with it.
LEMMA AttemptKeeps ==
    ASSUME DispInv, Attempt
    PROVE  DispInv'
<1> DEFINE sent == work.sending
<1>1. /\ work \in Passes /\ work # Idle /\ sent \in Sending /\ sent # NoSend
      /\ UNCHANGED <<queue, reload, active, pending, dropped, published>>
      /\ copies \in [taken : SUBSET Nat, filed : SUBSET (Nat \X Routes),
                     ended : SUBSET (Nat \X Routes)]
  BY Shapes DEF DispInv, DispTypeOK, Attempt
<1>2. ~Pending(sent.at) /\ sent.at \in Routes
  BY <1>1 DEF DispInv, PassInv, Sending
<1>3. SendingCopies = CopiesOf(sent.batch, sent.at)
  BY <1>1 DEF SendingCopies
<1>4. CASE Ends
  <2>1. /\ copies' = [copies EXCEPT !.ended = @ \cup CopiesOf(sent.batch, sent.at)]
        /\ work' = [work EXCEPT !.sending = NoSend]
    BY <1>4 DEF Ends, CopiesOf
  <2>2. /\ work' \in Passes /\ work'.todo = work.todo /\ work'.at = work.at
        /\ work'.force = work.force /\ work'.then = work.then /\ work'.events = work.events
        /\ work'.sending = NoSend
    BY <1>1, <2>1 DEF Passes
  <2>3. work' # Idle
    BY <2>2, Shapes DEF DispInv
  <2>4. SendingCopies \subseteq copies.filed /\ Kept \subseteq copies.filed \ copies.ended
    BY KeptMembers DEF DispInv, CopyInv
  <2>5. /\ copies'.ended = copies.ended \cup SendingCopies /\ copies'.filed = copies.filed
        /\ copies'.taken = copies.taken
        /\ copies' \in [taken : SUBSET Nat, filed : SUBSET (Nat \X Routes),
                        ended : SUBSET (Nat \X Routes)]
    BY <1>1, <1>3, <2>1, <2>4
  <2>6. SendingCopies' = {}
    BY <2>2 DEF SendingCopies
  <2>7. \A c : c \in Kept' <=> \E q \in Routes : c \in CopiesOf(pending[q], q)
    <3>1. \A c : c \in Kept' <=> \/ \E q \in Routes : c \in CopiesOf(pending'[q], q)
                                 \/ c \in SendingCopies'
      BY DEF Kept, CopiesOf, Copy
    <3> QED BY <1>1, <2>6, <3>1
  <2>8. \A c \in Kept' : c \notin SendingCopies
    <3>1. ASSUME NEW q \in Routes, NEW c \in CopiesOf(pending[q], q) PROVE c \notin SendingCopies
      <4>1. pending[sent.at] = <<>>
        BY <1>2 DEF Pending
      <4>2. q # sent.at
        BY <3>1, <4>1, EmptyCopies
      <4> QED BY <1>3, <3>1, <4>2 DEF CopiesOf, Copy
    <3> QED BY <2>7, <3>1
  <2>9. Kept = Kept' \cup SendingCopies
    BY <2>7, KeptMembers
  <2>10. CopyInv'
    <3>1. Kept' \subseteq copies'.filed \ copies'.ended
      BY <2>4, <2>5, <2>8, <2>9
    <3> QED BY <1>1, <2>4, <2>5, <3>1 DEF DispInv, CopyInv, Distinct
  <2>11. QueueInv' /\ Refused' = Refused
    BY <1>1, <2>5 DEF DispInv, QueueInv, Queued, Distinct, Refused
  <2>12. Counted'
    <3>1. GoneCopies' = GoneCopies
      BY <2>5, <2>9 DEF GoneCopies
    <3> QED BY <1>1, <2>11, <3>1 DEF DispInv, Counted
  <2>13. PassInv'
    BY <1>1, <2>2, <2>3, <2>5 DEF DispInv, PassInv, Pending, Copy
  <2>14. DispTypeOK'
    BY <1>1, <2>2, <2>5 DEF DispInv, DispTypeOK
  <2> QED BY <2>10, <2>11, <2>12, <2>13, <2>14 DEF DispInv
<1>5. CASE work' = [work EXCEPT !.sending.attempt = @ + 1] /\ copies' = copies
  <2>1. sent.attempt + 1 \in Nat
    BY <1>1 DEF Sending
  <2>2. /\ work'.sending \in Sending /\ work'.sending.at = sent.at
        /\ work'.sending.batch = sent.batch
    BY <1>1, <1>5, <2>1 DEF Sending, Passes
  <2>3. /\ work' \in Passes /\ work'.todo = work.todo /\ work'.at = work.at
        /\ work'.force = work.force /\ work'.then = work.then /\ work'.events = work.events
    BY <1>1, <1>5, <2>2 DEF Passes
  <2>4. work' # Idle /\ work'.sending # NoSend
    BY <2>2, <2>3, Shapes DEF DispInv
  <2>5. SendingCopies' = SendingCopies
    BY <1>3, <2>2, <2>4 DEF SendingCopies, CopiesOf, Copy
  <2>6. QueueInv' /\ CopyInv' /\ Counted'
    BY <1>1, <1>5, <2>5, DispFrame
  <2>7. PassInv'
    BY <1>1, <1>5, <2>2, <2>3, <2>4 DEF DispInv, PassInv, Pending, Copy
  <2>8. DispTypeOK'
    BY <1>1, <1>5, <2>3 DEF DispInv, DispTypeOK
  <2> QED BY <2>6, <2>7, <2>8 DEF DispInv
<1> QED BY <1>4, <1>5 DEF Attempt

\* A pass ends; a reload gives the routes new state, when none has any left.
LEMMA FinishKeeps ==
    ASSUME DispInv, Finish
    PROVE  DispInv'
<1>1. /\ work \in Passes /\ work # Idle /\ work.sending = NoSend /\ work.todo = {} /\ work' = Idle
      /\ UNCHANGED <<queue, reload, dropped, published, copies>>
      /\ pending \in [Routes -> Seq(Filed)]
  BY Shapes DEF DispInv, DispTypeOK, Finish
<1>2. pending' = pending /\ active' \in SUBSET Routes
      /\ \A r \in Routes : Pending(r) => r \in active'
  <2>1. CASE work.then # "apply"
    BY <1>1, <2>1 DEF DispInv, DispTypeOK, PassInv, Finish
  <2>2. CASE work.then = "apply"
    <3>1. \A r \in Routes : pending[r] = <<>>
      BY <1>1, <2>2 DEF DispInv, PassInv, Pending
    <3>2. pending' = [r \in Routes |-> <<>>] /\ active' = work.set
      BY <2>2 DEF Finish, applyRoutes
    <3>3. pending' = pending
      BY <1>1, <3>1, <3>2
    <3>4. work.set \in SUBSET Routes
      BY <1>1 DEF Passes
    <3> QED BY <3>1, <3>2, <3>3, <3>4 DEF Pending
  <2> QED BY <2>1, <2>2
<1>3. SendingCopies' = SendingCopies
  BY <1>1 DEF SendingCopies
<1>4. QueueInv' /\ CopyInv' /\ Counted'
  BY <1>1, <1>2, <1>3, DispFrame
<1>5. PassInv'
  BY <1>1, <1>2 DEF PassInv, Pending
<1>6. DispTypeOK'
  BY <1>1, <1>2 DEF DispInv, DispTypeOK
<1> QED BY <1>4, <1>5, <1>6 DEF DispInv

LEMMA DispInitHolds == DispInit => DispInv
<1> SUFFICES ASSUME DispInit PROVE DispInv
  OBVIOUS
<1>1. DispTypeOK
  <2>1. active \in SUBSET Routes
    BY DispatcherAssumption DEF DispInit
  <2>2. copies \in [taken : SUBSET Nat, filed : SUBSET (Nat \X Routes),
                    ended : SUBSET (Nat \X Routes)]
    BY DEF DispInit
  <2>3. queue \in Seq(Filed) /\ reload \in Seq(SUBSET Routes) /\ pending \in [Routes -> Seq(Filed)]
    BY DEF DispInit
  <2> QED BY <2>1, <2>2, <2>3 DEF DispInit, DispTypeOK
<1>2. Kept = {} /\ Queued = {} /\ GoneCopies = {} /\ Refused = {}
  <2>1. \A r \in Routes : CopiesOf(pending[r], r) = {}
    BY EmptyCopies DEF DispInit
  <2>2. SendingCopies = {}
    BY DEF DispInit, SendingCopies
  <2>3. Kept = {}
    BY <2>1, <2>2, KeptMembers
  <2>4. Queued = {} /\ 1..published = {}
    BY DEF DispInit, Queued
  <2> QED BY <2>3, <2>4 DEF DispInit, GoneCopies, Refused
<1>3. Counted
  <2>1. Cardinality({}) = 0
    BY FS_EmptySet
  <2> QED BY <1>2, <2>1 DEF DispInit, Counted
<1>4. QueueInv
  BY <1>2 DEF DispInit, QueueInv, Distinct
<1>5. CopyInv
  BY <1>2, FS_EmptySet DEF DispInit, CopyInv, Distinct
<1>6. PassInv
  BY DEF DispInit, PassInv, Pending
<1> QED BY <1>1, <1>3, <1>4, <1>5, <1>6 DEF DispInv

\* Publish, route, flush, deliver and applyRoutes lose no event without a trace:
\* dropped counts exactly the published events that were refused and the copies
\* that the limits let go, whatever the order of publishers, reloads, ticks, sends
\* and the end, for any routes, limits, batches, queue and number of attempts.
THEOREM EventsAreAccounted == DispSpec => []Accounted
<1>1. DispInv /\ [DispNext]_dispVars => DispInv'
  <2> SUFFICES ASSUME DispInv, [DispNext]_dispVars PROVE DispInv'
    OBVIOUS
  <2>1. CASE UNCHANGED dispVars
    <3>1. UNCHANGED <<queue, reload, active, pending, work, copies, dropped, published>>
      BY <2>1 DEF dispVars
    <3>2. SendingCopies' = SendingCopies
      BY <3>1 DEF SendingCopies, CopiesOf, Copy
    <3>3. QueueInv' /\ CopyInv' /\ Counted'
      BY <3>1, <3>2, DispFrame
    <3>4. PassInv' /\ DispTypeOK'
      BY <3>1 DEF DispInv, PassInv, DispTypeOK, Pending, Copy
    <3> QED BY <3>3, <3>4 DEF DispInv
  <2>2. CASE Callers
    BY <2>2, PublishKeeps, CallersKeep DEF Callers
  <2>3. CASE \E p \in Projects : Publish(p, FunctionKind)
    BY <2>3, PublishKeeps
  <2>4. CASE TakeEvent
    BY <2>4, TakeEventKeeps
  <2>5. CASE RunStep
    BY <2>5, SweepsKeep, VisitStep, AttemptKeeps, FinishKeeps DEF RunStep
  <2> QED BY <2>1, <2>2, <2>3, <2>4, <2>5 DEF DispNext
<1>2. DispInv => Accounted
  BY CountedIsAccounted DEF DispInv
<1> QED BY <1>1, <1>2, DispInitHolds, PTL DEF DispSpec
=============================================================================
