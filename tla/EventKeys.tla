------------------------------ MODULE EventKeys ------------------------------
(***************************************************************************)
(* The order of events in ns-3's event list (core/model/scheduler.h).      *)
(*                                                                         *)
(* An event carries a key with a time stamp, ts, and a unique id, uid.     *)
(* Every event-list implementation and both simulator implementations      *)
(* compare events only through operator< on these keys.                    *)
(***************************************************************************)
EXTENDS Integers

\* operator< on Scheduler::EventKey (and, through it, on Scheduler::Event).
Less(a, b) == a.ts < b.ts \/ (a.ts = b.ts /\ a.uid < b.uid)

\* operator> on Scheduler::EventKey, which the code writes out separately.
Greater(a, b) == a.ts > b.ts \/ (a.ts = b.ts /\ a.uid > b.uid)

\* e is an element of S that no element of S precedes.
IsEarliest(e, S) == e \in S /\ \A f \in S : ~Less(f, e)

\* The event the std::map of MapScheduler has at begin().
Earliest(S) == CHOOSE e \in S : \A f \in S : ~Less(f, e)

==============================================================================
