---------------------------- MODULE SequentialOrder ----------------------------
(***************************************************************************)
(* What a parallel simulator promises: every rank processes its events, the *)
(* packets other ranks send to it included, in the order of their time     *)
(* stamps, as one sequential simulator would.  A packet that is still on   *)
(* its way counts as an event of the rank it is for.                       *)
(***************************************************************************)
EXTENDS Naturals

CONSTANTS
  Ranks,
  Links,            \* Links[r][n]: delays of the channels between r and n
  MaxTime           \* bound: time stamps

VARIABLES
  clock,            \* m_currentTs of each rank
  pending           \* pending[r][t]: events for rank r at time t

vars == <<clock, pending>>

Times == 0 .. MaxTime

Init ==
  /\ clock = [r \in Ranks |-> 0]
  /\ pending \in [Ranks -> [Times -> Nat]]

\* The clock of r advances to t: nothing earlier is there or on its way.
Advance(r, t) ==
  /\ t >= clock[r]
  /\ clock' = [clock EXCEPT ![r] = t]
  /\ LET p == pending[r] IN \A s \in Times : p[s] > 0 => s >= t
  /\ UNCHANGED pending

\* An event of time t is processed: no earlier one is there or on its way.
Process(r, t) ==
  /\ t >= clock[r]
  /\ clock' = [clock EXCEPT ![r] = t]
  /\ LET p == pending[r]
     IN /\ p[t] > 0
        /\ \A s \in Times : p[s] > 0 => s >= t
  /\ pending' = [pending EXCEPT ![r][t] = @ - 1]

Schedule(r, t) ==
  /\ t >= clock[r]
  /\ UNCHANGED clock
  /\ pending' = [pending EXCEPT ![r][t] = @ + 1]

\* A packet takes at least the delay of a channel, and does not arrive in the
\* past of its receiver.
Send(r, n, t) ==
  /\ \E d \in Links[r][n] : t >= clock[r] + d
  /\ t >= clock[n]
  /\ UNCHANGED clock
  /\ pending' = [pending EXCEPT ![n][t] = @ + 1]

Next ==
  \E r \in Ranks, t \in Times :
    \/ Advance(r, t) \/ Process(r, t) \/ Schedule(r, t)
    \/ \E n \in Ranks : Send(r, n, t)

Spec == Init /\ [][Next]_vars

==============================================================================
