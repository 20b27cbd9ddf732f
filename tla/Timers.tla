-------------------------------- MODULE Timers --------------------------------
(***************************************************************************)
(* The two clients of Simulator::Schedule in core/model side by side: a    *)
(* behaviour is that of a Timer or that of a Watchdog, on the clock of one *)
(* simulator.  They share nothing but that clock and are never mixed, so   *)
(* that one run of TLC looks at both without their product.                *)
(***************************************************************************)
EXTENDS Timer

CONSTANTS
  PingDelays,   \* delays given to Watchdog::Ping
  MaxPings,     \* bound: number of Pings
  MaxEnd        \* bound: Ping is called for ends up to this time

ASSUME PingAssumption == PingDelays \subseteq Nat /\ MaxPings \in Nat /\ MaxEnd \in Nat

VARIABLES
  client,                           \* "Timer" or "Watchdog"
  m_end, wQueue, wPending, wAlive,  \* the watchdog, as in module Watchdog
  ends, pings

watchdogVars == <<m_end, wQueue, wPending, wAlive, ends, pings>>
allVars == <<client, timerState, watchdogVars>>

W == INSTANCE Watchdog WITH
       Delays <- PingDelays, MaxTime <- MaxEnd,
       queue <- wQueue, pending <- wPending, alive <- wAlive

TimersInit == client \in {"Timer", "Watchdog"} /\ TimerInit /\ W!Init

TimerStep == client = "Timer" /\ TimerNext /\ UNCHANGED <<client, watchdogVars>>

\* A step of the watchdog leaves of the timer everything but the clock alone.
WatchdogStep ==
  /\ client = "Watchdog"
  /\ W!Next
  /\ UNCHANGED <<client, timerVars, queue, cancelled, count, asked, ran, calls, leftInList>>

TimersNext == TimerStep \/ WatchdogStep

\* The simulator takes its events and its clock moves on.
TimersSpec ==
  /\ TimersInit
  /\ [][TimersNext]_allVars
  /\ WF_allVars(client = "Watchdog" /\ (W!Expire \/ W!Advance)
                /\ UNCHANGED <<client, timerVars, queue, cancelled, count, asked, ran, calls,
                               leftInList>>)

------------------------------------------------------------------------------

\* Watchdog::Expire: the function is triggered exactly at the latest end that
\* the Pings since its last call asked for.
TriggeredAtLatestEnd == W!TriggeredAtLatestEnd

\* Watchdog::Ping: a watchdog that is not pinged any more triggers in the end,
\* unless it is destroyed.
PingedTriggers == W!PingedTriggers

==============================================================================
