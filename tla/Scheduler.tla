------------------------------ MODULE Scheduler ------------------------------
(***************************************************************************)
(* What ns3::Scheduler promises its only client, the simulator: an ordered *)
(* set of events.  It is also ns3::MapScheduler, the default event list,   *)
(* whose std::map keyed by EventKey is exactly that set.                   *)
(*                                                                         *)
(* The client side is the contract the simulators keep: a new event gets   *)
(* the next uid and a time stamp that is not before the event removed      *)
(* last (m_currentTs), and only an event that is in the list is removed.   *)
(***************************************************************************)
EXTENDS EventKeys, FiniteSets

CONSTANTS
  Times,      \* time stamps a client may use: a finite set of naturals
  MaxUid      \* bound: the client inserts events with uids 1..MaxUid

VARIABLES
  events,     \* MapScheduler::m_list, as a set of keys
  now,        \* the simulator's m_currentTs
  uid,        \* the uid the next inserted event will get
  out         \* the key of the event RemoveNext returned last

vars == <<events, now, uid, out>>

Key == [ts : Times, uid : 1 .. MaxUid]

Init ==
  /\ events = {}
  /\ now = 0
  /\ uid = 1
  /\ out = [ts |-> 0, uid |-> 0]

Insert(ts) ==
  /\ uid <= MaxUid
  /\ ts >= now
  /\ events' = events \cup {[ts |-> ts, uid |-> uid]}
  /\ uid' = uid + 1
  /\ UNCHANGED <<now, out>>

RemoveNext ==
  /\ events # {}
  /\ LET next == Earliest(events) IN
       /\ events' = events \ {next}
       /\ now' = next.ts
       /\ out' = next
  /\ UNCHANGED uid

Remove(e) ==
  /\ e \in events
  /\ events' = events \ {e}
  /\ UNCHANGED <<now, uid, out>>

Next ==
  \/ \E ts \in Times : Insert(ts)
  \/ RemoveNext
  \/ \E e \in events : Remove(e)

Spec == Init /\ [][Next]_vars

==============================================================================
