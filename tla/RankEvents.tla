------------------------------ MODULE RankEvents ------------------------------
(***************************************************************************)
(* What the ranks of the two parallel simulators have in common: the       *)
(* channels between them and the event list of each.  A list holds events   *)
(* in the order they will be processed, by time and then by uid, which is   *)
(* the order in which they were inserted.                                  *)
(***************************************************************************)
EXTENDS Naturals, Sequences, FiniteSetsExt, SequencesExt, Functions

CONSTANTS
  Ranks,            \* MPI tasks
  Links,            \* Links[r][n]: delays of the point-to-point channels from r to n
  Delays,           \* delays of the events a handler schedules
  TxTimes,          \* times a packet takes to leave its device
  MaxTime,          \* bound: time stamps
  MaxCalls          \* MaxCalls[r], bound: Schedule and SendPacket calls of rank r

ASSUME RankAssumption ==
  /\ IsFiniteSet(Ranks) /\ Ranks # {}
  /\ Links \in [Ranks -> [Ranks -> SUBSET (Nat \ {0})]]
  /\ \A r, n \in Ranks : Links[r][n] = Links[n][r] /\ Links[r][r] = {}
  /\ Delays \subseteq Nat /\ TxTimes \subseteq Nat
  /\ MaxTime \in Nat /\ MaxCalls \in [Ranks -> Nat]

Times == 0 .. MaxTime
Infinity == MaxTime + 1      \* GetMaximumSimulationTime

Neighbours(r) == {n \in Ranks : Links[r][n] # {}}

\* Scheduler::Insert, behind all events of the same time.
InsertEvent(list, event) ==
  LET n == Cardinality({i \in DOMAIN list : list[i].ts <= event.ts})
  IN InsertAt(list, n + 1, event)

\* The number of events of a list at each time.
CountAt(list, t) == Cardinality({i \in DOMAIN list : list[i].ts = t})

==============================================================================
