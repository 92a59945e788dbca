------------------------------ MODULE EdgeFeed ------------------------------
(***************************************************************************)
(* How the edge proxy, a process of its own, learns what to serve: every   *)
(* reconciler pass projects the declared services into a file              *)
(* (internal/reconciler/routes.go), which the edge polls and swaps into    *)
(* its route table and its published ports (internal/edge watch.go,        *)
(* server.go, listeners.go).                                               *)
(*                                                                         *)
(* A service declares at most one domain and one port of the node.  What a *)
(* listener forwards to is its service's frontend, or, for udp, the        *)
(* addresses of its running allocs; "to" is either.                         *)
(***************************************************************************)
EXTENDS Integers, FiniteSets, FiniteSetsExt

CONSTANTS
    EdgeServices,    \* numbers: their order is the order of their names
    Domains, Ports,  \* what services may claim
    Modes,           \* kinds of listener, of {"http", "tcp", "udp"}
    BackendSets,     \* what a udp service's running allocs may be
    Untrusts,        \* whether the file may get permissions the edge refuses
    MaxEdgeEdits,    \* bound: changes of what is declared or runs
    MaxEdgeFaults    \* bound: damaged files, blind passes, restarts, lost ports

ASSUME EdgeFeedAssumption ==
    /\ EdgeServices \subseteq Nat /\ Modes \subseteq {"http", "tcp", "udp"}
    /\ Untrusts \in BOOLEAN
    /\ MaxEdgeEdits \in Nat /\ MaxEdgeFaults \in Nat

VARIABLES
    declared,   \* service -> what it declares and where it runs
    file,       \* the published file and its permissions
    edge,       \* what the edge holds in memory
    foreign,    \* keys other programs of the node hold
    edgeEdits, edgeFaults

edgeFeedVars == <<declared, file, edge, foreign, edgeEdits, edgeFaults>>

\* A port is bound within one family: a stream and a datagram socket on one
\* number do not contend.
Keys == [udp : BOOLEAN, port : Ports]
keyFor(port, mode) == [udp |-> mode = "udp", port |-> port]

Undeclared == [on |-> FALSE]
Declarations ==
    [on : {TRUE}, domain : Domains, port : Ports, mode : Modes, backends : BackendSets]

-----------------------------------------------------------------------------
(* The projection.                                                         *)

\* Of the services S that claim one thing the first gets it, by name.
Winner(S) == IF S = {} THEN {} ELSE {Min(S)}

\* vips is FALSE for a pass that got no frontend addresses.
buildRoutes(d, vips) ==
    UNION {{[domain |-> m, service |-> s] :
               s \in Winner({u \in EdgeServices : vips /\ d[u].on /\ d[u].domain = m})} :
           m \in Domains}

\* attached is FALSE for a pass that could not read the attachments: a udp
\* listener is then published without backends, a stream listener not at all.
ListenerOf(d, s, attached) ==
    [key |-> keyFor(d[s].port, d[s].mode), service |-> s, mode |-> d[s].mode,
     to |-> CASE d[s].mode # "udp" -> {s}
              [] attached          -> d[s].backends
              [] OTHER             -> {}]

buildListeners(d, vips, attached) ==
    LET claims(k) == {s \in EdgeServices : /\ d[s].on
                                           /\ vips \/ d[s].mode = "udp"
                                           /\ keyFor(d[s].port, d[s].mode) = k}
    IN  UNION {{ListenerOf(d, s, attached) : s \in Winner(claims(k))} : k \in Keys}

Projection(d, vips, attached) ==
    [routes |-> buildRoutes(d, vips), listeners |-> buildListeners(d, vips, attached)]

EmptySnap == [routes |-> {}, listeners |-> {}]
ByHand == 2

\* (a bug: only the routes are compared)
sameRoutes(snap) == file.kind = "snapshot" /\ file.snap.routes = snap.routes

\* Missing, unreadable or another one: the file has to be written again.
snapshotIsPublished(snap) == file.kind = "snapshot" /\ file.snap = snap

\* The file is replaced whole and gets its permissions anew; stamp is the
\* store's index, which makes two files with one projection differ.
syncEdgeRoutes(vips, attached) ==
    LET snap == Projection(declared, vips, attached) IN
    /\ ~snapshotIsPublished(snap)
    /\ \E n \in 0..1 :
         file' = [kind |-> "snapshot", snap |-> snap, stamp |-> n, trusted |-> TRUE]
    /\ UNCHANGED <<declared, edge, foreign, edgeEdits>>

\* A pass that sees everything.
EdgePass == syncEdgeRoutes(TRUE, TRUE) /\ UNCHANGED edgeFaults

Fault == edgeFaults < MaxEdgeFaults /\ edgeFaults' = edgeFaults + 1

\* A pass that cannot read the attachments (syncServices returns no addresses),
\* or whose frontends could not be assigned.  A publish that fails leaves
\* everything as it is.
BlindPass == Fault /\ \E attached \in BOOLEAN : syncEdgeRoutes(FALSE, attached)

-----------------------------------------------------------------------------
(* The edge.                                                               *)

NoFile == [kind |-> "absent"]

\* One listener of a new table.  A bound port is reconfigured behind its
\* socket, except that another kind of stream listener needs the socket anew.
\* What an http listener serves is fixed when it is bound: "serving".
Bound(l, old) ==
    IF l.key \in DOMAIN old /\ old[l.key].cfg.mode = l.mode
    THEN [cfg |-> l, serving |-> IF l.mode = "http" THEN old[l.key].serving ELSE l]
    ELSE [cfg |-> l, serving |-> l]

\* listenerSet.Apply: the withdrawn first, then each wanted one in turn; a port
\* that cannot be bound is recorded and the others go on.
ApplyListeners(want, old) ==
    LET free == {l \in want : l.key \in DOMAIN old \/ l.key \notin foreign}
    IN  [entries |-> [k \in {l.key : l \in free} |->
                        Bound(CHOOSE l \in free : l.key = k, old)],
         failed  |-> want \ free]

\* What the watcher compares: the bytes of the file.
Content == IF file.kind = "snapshot"
           THEN [kind |-> "snapshot", snap |-> file.snap, stamp |-> file.stamp]
           ELSE [kind |-> file.kind]

\* reload: a file that is untrusted, absent, unchanged or cannot be parsed
\* leaves what is loaded.
Poll ==
    /\ file.trusted /\ file.kind = "snapshot" /\ Content # edge.last
    /\ LET applied == ApplyListeners(file.snap.listeners, edge.entries)
       IN  edge' = [last |-> Content, table |-> file.snap.routes,
                    entries |-> applied.entries, failed |-> applied.failed]
    /\ UNCHANGED <<declared, file, foreign, edgeEdits, edgeFaults>>

FreshEdge == [last |-> NoFile, table |-> {}, entries |-> <<>>, failed |-> {}]

\* The edge restarts with nothing and reads the file at once.
EdgeRestarts ==
    /\ Fault /\ edge # FreshEdge /\ edge' = FreshEdge
    /\ UNCHANGED <<declared, file, foreign, edgeEdits>>

-----------------------------------------------------------------------------
(* The rest of the node (external).                                        *)

\* An operator declares, changes or removes a service, or its allocs change.
DeclareEdge(s) ==
    /\ edgeEdits < MaxEdgeEdits /\ edgeEdits' = edgeEdits + 1
    /\ \E d \in Declarations \cup {Undeclared} :
         d # declared[s] /\ declared' = [declared EXCEPT ![s] = d]
    /\ UNCHANGED <<file, edge, foreign, edgeFaults>>

\* The file is deleted, truncated, edited by hand, or made unacceptable.
Damage ==
    /\ Fault
    /\ \/ \E k \in {"absent", "bad"} : file' = [kind |-> k, trusted |-> TRUE]
       \/ file' = [kind |-> "snapshot", snap |-> EmptySnap, stamp |-> ByHand, trusted |-> TRUE]
       \/ Untrusts /\ file' = [file EXCEPT !.trusted = FALSE]
    /\ UNCHANGED <<declared, edge, foreign, edgeEdits>>

\* Another program takes a port the edge does not hold, or lets go of it.
PortTaken(k) ==
    /\ Fault /\ k \notin foreign \cup DOMAIN edge.entries
    /\ foreign' = foreign \cup {k}
    /\ UNCHANGED <<declared, file, edge, edgeEdits>>

PortFreed(k) ==
    /\ k \in foreign /\ foreign' = foreign \ {k}
    /\ UNCHANGED <<declared, file, edge, edgeEdits, edgeFaults>>

EdgeFeedInit ==
    /\ declared = [s \in EdgeServices |-> Undeclared]
    /\ file = [kind |-> "absent", trusted |-> TRUE]
    /\ edge = FreshEdge /\ foreign = {}
    /\ edgeEdits = 0 /\ edgeFaults = 0

EdgeFeedNext ==
    \/ EdgePass \/ BlindPass \/ Poll \/ EdgeRestarts \/ Damage
    \/ \E s \in EdgeServices : DeclareEdge(s)
    \/ \E k \in Keys : PortTaken(k) \/ PortFreed(k)

-----------------------------------------------------------------------------
(* Properties.                                                             *)

\* The edge serves what is declared: every route, and every port that it was
\* able to bind when it loaded the file.
Follows ==
    LET want == buildListeners(declared, TRUE, TRUE)
        bound == {edge.entries[k].cfg : k \in DOMAIN edge.entries}
    IN  edge.table = buildRoutes(declared, TRUE) /\ bound \cup edge.failed = want

\* Whatever happens to the file, the daemon or the edge, the edge comes to
\* serve what is declared, routes and ports alike: the file "is rebuilt rather
\* than remembered" (snapshotIsPublished, reload, Apply).
EdgeFollows == <>[]Follows

\* A pass withdraws no route and no published port that its services still
\* declare: withholding addresses "would drop every edge route over one
\* transient error" (syncServices).
RoutesKept ==
    [][(file.kind = "snapshot" /\ file'.kind = "snapshot" /\ file'.stamp # ByHand)
        => file.snap.routes \cap buildRoutes(declared, TRUE) \subseteq file'.snap.routes]_edgeFeedVars

\* A bound port serves what the configuration behind its socket says:
\* "settings and upstreams are swapped under the listener so established
\* connections keep their sockets" (reconfigure).
ServesConfig ==
    \A k \in DOMAIN edge.entries : edge.entries[k].serving = edge.entries[k].cfg

\* A port that another program lets go of comes to be bound, while it is
\* wanted: Apply leaves a failed port to "the next poll".
BindRetried ==
    \A k \in Keys :
        (k \in {l.key : l \in edge.failed} /\ k \notin foreign) ~>
            \/ k \in DOMAIN edge.entries \/ k \in foreign
            \/ k \notin {l.key : l \in buildListeners(declared, TRUE, TRUE)}
=============================================================================
