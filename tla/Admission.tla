----------------------------- MODULE Admission -----------------------------
(***************************************************************************)
(* What the admission lock of one served model promises, without slots,    *)
(* clocks, condition variables or the dispatch loop: requests share the    *)
(* model up to its capacity, a manager has it alone, and everybody who     *)
(* has to wait is served strictly in arrival order.  It states the         *)
(* contract of docs/maintainers/parallel_server_behavior_contract.md       *)
(* ("Requests and management share one admission queue. A manager is a     *)
(* barrier for callers behind it, never for older requests") as a state    *)
(* machine; ModelSlots is shown to implement it.                           *)
(***************************************************************************)
EXTENDS Integers, Sequences, FiniteSets

CONSTANTS Callers, Capacities

VARIABLES
  capacity,   \* how many requests may share the model
  line,       \* everybody waiting, in arrival order
  running,    \* the requests that share the model now
  managing    \* the manager that has it alone (at most one)

vars == <<capacity, line, running, managing>>

Place == [caller : Callers, management : BOOLEAN]

Present == running \cup managing \cup {line[i].caller : i \in DOMAIN line}

RoomForRequest == managing = {} /\ Cardinality(running) < capacity
RoomForManager == managing = {} /\ running = {}

Init ==
  /\ capacity \in Capacities
  /\ line = <<>>
  /\ running = {}
  /\ managing = {}

\* Only a newcomer that finds nobody waiting may enter directly.
Enter(c) ==
  /\ c \notin Present
  /\ line = <<>>
  /\ \/ RoomForRequest /\ running' = running \cup {c} /\ UNCHANGED managing
     \/ RoomForManager /\ managing' = {c} /\ UNCHANGED running
  /\ UNCHANGED <<capacity, line>>

LineUp(c, management) ==
  /\ c \notin Present
  /\ line' = Append(line, [caller |-> c, management |-> management])
  /\ UNCHANGED <<capacity, running, managing>>

\* Only the oldest waiter is ever admitted.
AdmitFirst ==
  /\ line # <<>>
  /\ LET first == Head(line) IN
       \/ /\ ~first.management /\ RoomForRequest
          /\ running' = running \cup {first.caller}
          /\ UNCHANGED managing
       \/ /\ first.management /\ RoomForManager
          /\ managing' = {first.caller}
          /\ UNCHANGED running
  /\ line' = Tail(line)
  /\ UNCHANGED capacity

\* A waiter may give up wherever it stands.
GiveUp(i) ==
  /\ line' = SubSeq(line, 1, i - 1) \o SubSeq(line, i + 1, Len(line))
  /\ UNCHANGED <<capacity, running, managing>>

Leave(c) ==
  /\ c \in running \cup managing
  /\ running' = running \ {c}
  /\ managing' = managing \ {c}
  /\ UNCHANGED <<capacity, line>>

\* Only the manager that has the model alone may change its capacity.
Resize(n) ==
  /\ managing # {}
  /\ capacity' = n
  /\ UNCHANGED <<line, running, managing>>

Next ==
  \/ \E c \in Callers : Enter(c) \/ Leave(c) \/ \E m \in BOOLEAN : LineUp(c, m)
  \/ AdmitFirst
  \/ \E i \in DOMAIN line : GiveUp(i)
  \/ \E n \in Capacities : Resize(n)

Spec == Init /\ [][Next]_vars
============================================================================
