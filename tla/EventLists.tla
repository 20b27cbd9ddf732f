----------------------------- MODULE EventLists ------------------------------
(***************************************************************************)
(* The event lists of ns-3 behind the interface of ns3::Scheduler, as the  *)
(* simulators use them: one list is in use, and SetScheduler               *)
(* (default-simulator-impl.cc) replaces it by an empty one of another type *)
(* into which the pending events are moved.  The operations of the lists   *)
(* are those of the modules named after their classes.                     *)
(***************************************************************************)
EXTENDS EventKeys, Sequences, FiniteSets

CONSTANTS
  SchedulerTypes,  \* values of the attribute SchedulerType
  Times,           \* time stamps a client may use
  MaxUid           \* bound: number of events a client inserts

ASSUME EventListsAssumption ==
  /\ SchedulerTypes \subseteq {"Heap", "List", "Calendar", "ReverseCalendar"}
  /\ Times \subseteq Nat /\ MaxUid \in Nat

VARIABLES
  type,            \* the type of the list in use
  list,            \* the list in use
  now, uid, out,   \* the client's view; see Scheduler
  sifted           \* history: an event was removed from the middle of this heap

vars == <<type, list, now, uid, out, sifted>>

Heap == INSTANCE HeapScheduler
Sorted == INSTANCE ListScheduler
Calendar == INSTANCE CalendarScheduler

EmptyList(t) ==
  CASE t = "Heap" -> Heap!Empty
    [] t = "List" -> Sorted!Empty
    [] t = "Calendar" -> Calendar!Empty(FALSE)
    [] t = "ReverseCalendar" -> Calendar!Empty(TRUE)

InsertInto(t, l, ev) ==
  CASE t = "Heap" -> Heap!Insert(l, ev)
    [] t = "List" -> Sorted!Insert(l, ev)
    [] OTHER -> Calendar!Insert(l, ev)

NextOf(t, l) ==
  CASE t = "Heap" -> Heap!PeekNext(l)
    [] t = "List" -> Sorted!PeekNext(l)
    [] OTHER -> Calendar!PeekNext(l)

TakeNext(t, l) ==
  CASE t = "Heap" -> Heap!RemoveNext(l)
    [] t = "List" -> Sorted!RemoveNext(l)
    [] OTHER -> Calendar!RemoveNext(l)

RemoveFrom(t, l, ev) ==
  CASE t = "Heap" -> Heap!Remove(l, ev)
    [] t = "List" -> Sorted!Remove(l, ev)
    [] OTHER -> Calendar!Remove(l, ev)

SizeOf(t, l) ==
  CASE t = "Heap" -> Heap!Size(l)
    [] t = "List" -> Sorted!Size(l)
    [] OTHER -> Calendar!Size(l)

ContentsOf(t, l) ==
  CASE t = "Heap" -> Heap!Contents(l)
    [] t = "List" -> Sorted!Contents(l)
    [] OTHER -> Calendar!Contents(l)

Contents == ContentsOf(type, list)
IsEmpty == SizeOf(type, list) = 0

------------------------------------------------------------------------------

Init ==
  /\ type \in SchedulerTypes
  /\ list = EmptyList(type)
  /\ now = 0
  /\ uid = 1
  /\ out = [ts |-> 0, uid |-> 0]
  /\ sifted = FALSE

Insert(ts) ==
  /\ uid <= MaxUid
  /\ ts >= now
  /\ list' = InsertInto(type, list, [ts |-> ts, uid |-> uid])
  /\ uid' = uid + 1
  /\ UNCHANGED <<type, now, out, sifted>>

RemoveNext ==
  /\ ~IsEmpty
  /\ LET next == TakeNext(type, list) IN
       /\ list' = next.list
       /\ now' = next.ev.ts
       /\ out' = next.ev
  /\ UNCHANGED <<type, uid, sifted>>

Remove(ev) ==
  /\ ev \in Contents
  /\ list' = RemoveFrom(type, list, ev)
  /\ sifted' = (sifted \/ type = "Heap")
  /\ UNCHANGED <<type, now, uid, out>>

\* The loop of SetScheduler: until the old list is empty, its next event goes
\* into the new one.
RECURSIVE Moved(_, _, _, _)
Moved(t, l, newType, new) ==
  IF SizeOf(t, l) = 0
  THEN new
  ELSE LET next == TakeNext(t, l)
       IN Moved(t, next.list, newType, InsertInto(newType, new, next.ev))

SetScheduler(newType) ==
  /\ type' = newType
  /\ list' = Moved(type, list, newType, EmptyList(newType))
  /\ sifted' = FALSE
  /\ UNCHANGED <<now, uid, out>>

Next ==
  \/ \E ts \in Times : Insert(ts)
  \/ RemoveNext
  \/ \E ev \in Contents : Remove(ev)
  \/ \E newType \in SchedulerTypes : SetScheduler(newType)

Spec == Init /\ [][Next]_vars

------------------------------------------------------------------------------

Abs == INSTANCE Scheduler WITH events <- Contents

\* Every list is the ordered set of Scheduler: through each growth, shrinkage
\* and change of bucket width of the calendar, in both its bucket orders,
\* RemoveNext returns the earliest of all events inserted and not yet taken
\* out, and a change of list moves all of them.  The heap is held to it until
\* an event is removed from its middle.
ImplementsScheduler ==
  Abs!Init /\ [][~sifted => Abs!Next]_<<Contents, now, uid, out>>

\* PeekNext, which is code of its own in the calendar, returns the earliest of
\* all events; the simulators read the time of the next event from it.
PeekIsEarliest == ~IsEmpty /\ ~sifted => IsEarliest(NextOf(type, list), Contents)

\* No sequence of calls loses or duplicates an event, even when Remove has left
\* the heap out of order: each call changes the contents as the call on a set
\* would.  Remove takes out its argument and nothing else, which Scheduler does
\* not tie to the call; RemoveNext takes out what it returns; SetScheduler keeps
\* everything, also when the new list is of the same type; and the size each
\* list keeps or computes is that of its contents.
ContentsFollowCalls ==
  [][ /\ type' = type =>
           /\ \A ts \in Times : Insert(ts) => Contents' = Contents \cup {[ts |-> ts, uid |-> uid]}
           /\ RemoveNext => out' \in Contents /\ Contents' = Contents \ {out'}
           /\ \A ev \in Contents : Remove(ev) => Contents' = Contents \ {ev}
      /\ \A newType \in SchedulerTypes : SetScheduler(newType) => Contents' = Contents
      /\ SizeOf(type, list)' = Cardinality(Contents') ]_vars

------------------------------------------------------------------------------
(* Documented behaviour the code does not keep. *)

\* scheduler.h:214 documents RemoveNext as "Remove the earliest event from the
\* event list".  The heap's Remove sifts the element it moves only downwards,
\* so after a Remove that took it from another subtree this fails.
RemoveNextIsEarliest == [][out' # out => IsEarliest(out', Contents)]_vars

==============================================================================
