------------------------------ MODULE Watchdog -------------------------------
(***************************************************************************)
(* ns3::Watchdog (core/model/watchdog.cc): a timer that each Ping can only *)
(* put off.  A Ping does not move the event that is pending; Expire, when  *)
(* it comes up too early, schedules itself again.  The simulator is what   *)
(* EventAgenda promises, cut down to the watchdog's own events, which come *)
(* up in the order of their times; the function it triggers may itself     *)
(* Ping.                                                                   *)
(***************************************************************************)
EXTENDS Integers, FiniteSetsExt

CONSTANTS
  Delays,     \* the delays given to Ping
  MaxTime,    \* bound: Ping is called for ends up to this time
  MaxPings    \* bound: number of calls of Ping

VARIABLES
  m_end,
  queue,      \* times of the watchdog's events in the list; m_event is one of them if pending
  pending,    \* m_event.IsPending()
  alive,      \* FALSE once the watchdog is destroyed
  now,        \* Simulator::Now
  ends,       \* history: the ends of the Pings since the function was last triggered
  pings       \* history: number of Pings

vars == <<m_end, queue, pending, alive, now, ends, pings>>

Init ==
  /\ m_end = 0
  /\ queue = {}
  /\ pending = FALSE
  /\ alive = TRUE
  /\ now = 0
  /\ ends = {}
  /\ pings = 0

Ping(delay) ==
  /\ alive
  /\ pings < MaxPings /\ now + delay <= MaxTime
  /\ m_end' = Max({m_end, now + delay})
  /\ IF pending THEN UNCHANGED <<queue, pending>>
                ELSE queue' = queue \cup {m_end'} /\ pending' = TRUE
  /\ ends' = ends \cup {now + delay}
  /\ pings' = pings + 1
  /\ UNCHANGED <<alive, now>>

Triggers == now \in queue /\ m_end = now

\* A slip: an Expire that comes up too early triggers all the same.
MutExpireAlways ==
  /\ now \in queue
  /\ queue' = queue \ {now}
  /\ pending' = FALSE
  /\ ends' = {}
  /\ UNCHANGED <<m_end, alive, now, pings>>

\* A slip: an Expire that comes up too early is forgotten.
MutExpireForgets ==
  /\ now \in queue
  /\ queue' = queue \ {now}
  /\ pending' = FALSE
  /\ ends' = IF Triggers THEN {} ELSE ends
  /\ UNCHANGED <<m_end, alive, now, pings>>

\* The pending event comes up: the function is triggered or the rest waited for.
Expire ==
  /\ now \in queue
  /\ IF Triggers
     THEN queue' = queue \ {now} /\ pending' = FALSE /\ ends' = {}
     ELSE queue' = (queue \ {now}) \cup {m_end} /\ UNCHANGED <<pending, ends>>
  /\ UNCHANGED <<m_end, alive, now, pings>>

\* ~Watchdog cancels the pending event.
Destroy ==
  /\ alive
  /\ alive' = FALSE
  /\ queue' = {}
  /\ pending' = FALSE
  /\ UNCHANGED <<m_end, now, ends, pings>>

\* Time passes when no event is left for the current time.
Advance ==
  /\ now < MaxTime
  /\ now \notin queue
  /\ now' = now + 1
  /\ UNCHANGED <<m_end, queue, pending, alive, ends, pings>>

Next == (\E delay \in Delays : Ping(delay)) \/ Expire \/ Destroy \/ Advance

Spec == Init /\ [][Next]_vars

\* The simulator takes its events and its clock moves on.
FairSpec == Spec /\ WF_vars(Expire \/ Advance)

------------------------------------------------------------------------------

Triggered == ends # {} /\ ends' = {}

\* The function is triggered exactly at the latest of the ends the Pings since
\* its last call asked for: never while one of them still lies ahead, and not
\* late although no Ping moves the pending event.
TriggeredAtLatestEnd == [][Triggered => now = Max(ends)]_vars

\* A watchdog that is not pinged any more triggers, unless it is destroyed.
PingedTriggers == (alive /\ ends # {}) ~> (~alive \/ ends = {})

==============================================================================
