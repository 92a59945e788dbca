--------------------------- MODULE AllocLifecycle ---------------------------
(***************************************************************************)
(* What the reconciler promises of its allocs' records, without passes,    *)
(* containers, plans or daemons that die: the ledger of their restarts.    *)
(* While an alloc keeps its record and its spec, the attempts it has spent *)
(* only grow, one at a time; it is given up only when they are used up,    *)
(* and then for good, unless a call failed or a daemon died and left a     *)
(* container nobody recorded; and while the service is declared nothing    *)
(* but another spec gives attempts back to an alloc that has none left.    *)
(* Reconciler implements this specification (Reconciler!KeepsLedger).      *)
(***************************************************************************)
EXTENDS Naturals

CONSTANTS Allocs,       \* the allocs of a service
          Specs,        \* the specs it may run
          Unknown,      \* the spec of a record that does not say which
          Budget        \* the attempts an alloc has for one spec

VARIABLES declared,     \* is the service declared?
          disturbed,    \* history: has a call failed or a daemon died?
          alloc         \* what is recorded of each alloc

vars == <<declared, disturbed, alloc>>

Absent == [phase |-> "absent", spec |-> Unknown, spent |-> 0]

\* Not given up yet.
Alive == {"starting", "up", "down"}

Init ==
  /\ declared \in BOOLEAN /\ ~disturbed
  /\ alloc = [i \in Allocs |-> Absent]

\* The spec stays, or becomes known.
SameSpec(a, b) == a.spec = b.spec \/ (a.spec = Unknown /\ b.spec \in Specs)

\* A record is made, or made anew for another spec.
Begins(a, b) ==
  /\ a = Absent \/ (a.spec \notin {Unknown, b.spec} /\ b.spec # Unknown)
  /\ b.phase \in {"starting", "up"} /\ b.spent = 0
  /\ b.spec \in Specs \cup {Unknown}

\* It starts or comes up, at the cost of an attempt or of none.
GoesOn(a, b) ==
  /\ a.phase \in Alive /\ b.phase \in {"starting", "up"}
  /\ SameSpec(a, b) /\ b.spent \in {a.spent, a.spent + 1}

GoesDown(a, b) ==
  /\ a.phase \in {"starting", "up"}
  /\ b = [a EXCEPT !.phase = "down"]

\* The attempts are used up.
IsGivenUp(a, b) ==
  /\ a.phase \in Alive /\ a.spent >= Budget
  /\ b = [a EXCEPT !.phase = "failed"]

\* It was given up, and runs after all: what it has spent stays spent.
IsFound(a, b) ==
  /\ disturbed
  /\ a.phase = "failed" /\ b.phase = "up"
  /\ SameSpec(a, b) /\ b.spent = a.spent

\* Forgotten: the service is gone, or the alloc still had attempts.
IsForgotten(a, b) ==
  /\ declared => a.phase # "failed" /\ a.spent < Budget
  /\ b = Absent

Move(a, b) ==
  \/ Begins(a, b) \/ GoesOn(a, b) \/ GoesDown(a, b)
  \/ IsGivenUp(a, b) \/ IsFound(a, b) \/ IsForgotten(a, b)

\* One pass may move any number of allocs at once.
Record ==
  /\ UNCHANGED declared
  /\ disturbed' \in {disturbed, TRUE}
  /\ alloc' = [i \in Allocs |-> alloc'[i]]
  /\ \A i \in Allocs : alloc'[i] = alloc[i] \/ Move(alloc[i], alloc'[i])

\* An operator declares or deletes the service.
Declare ==
  /\ declared' \in BOOLEAN
  /\ UNCHANGED <<disturbed, alloc>>

Next == Record \/ Declare

Spec == Init /\ [][Next]_vars
=============================================================================
