----------------------------- MODULE EventAgenda -----------------------------
(***************************************************************************)
(* What the Simulator facade promises the models built on it               *)
(* (core/model/simulator.h): an agenda of events on a clock that never     *)
(* runs backwards.  Events fire in the order of their times, those for the *)
(* same time in the order they were entered; an event that was cancelled   *)
(* or withdrawn never fires; the events for Destroy fire in the order they *)
(* were entered.  There is no thread, flag, uid or event list here.        *)
(*                                                                         *)
(* An entry is a record of its time, ts, and its place in the order of     *)
(* entry, ord.  A call on the simulation's own thread makes one entry.     *)
(* What other threads hand over are delays; they become entries when they  *)
(* are taken in, all at once, each counted from the time then and placed   *)
(* in the order in which they were handed over.                            *)
(***************************************************************************)
EXTENDS Integers, Sequences

VARIABLES
  clock,       \* the current simulation time
  agenda,      \* the entries still to fire or to be dropped
  handed,      \* the delays handed over and not yet taken in, oldest first
  last,        \* the ords of the entries for Destroy, oldest first
  entered,     \* every entry made so far has a smaller ord
  cancelled,   \* ords of the entries that must not fire
  fired,       \* ords of the entries that fired
  closed       \* TRUE once the simulator is destroyed

vars == <<clock, agenda, handed, last, entered, cancelled, fired, closed>>

Before(a, b) == a.ts < b.ts \/ (a.ts = b.ts /\ a.ord < b.ord)

Init ==
  /\ clock = 0
  /\ agenda = {}
  /\ handed = << >>
  /\ last = << >>
  /\ entered \in Nat
  /\ cancelled = {}
  /\ fired = {}
  /\ closed = FALSE

\* One new entry, not in the past and after all earlier ones.
Enter ==
  /\ ~closed
  /\ \E e \in agenda' :
       /\ e.ord = entered
       /\ e.ts >= clock
       /\ agenda' = agenda \cup {e}
  /\ entered' = entered + 1
  /\ UNCHANGED <<clock, handed, last, cancelled, fired, closed>>

\* Another thread asks for an event after a delay.
HandOver ==
  /\ ~closed
  /\ \E i \in 1 .. Len(handed') : handed'[i] >= 0 /\ handed' = Append(handed, handed'[i])
  /\ UNCHANGED <<clock, agenda, last, entered, cancelled, fired, closed>>

\* Everything handed over is entered, and nothing else.
TakeIn ==
  /\ ~closed
  /\ agenda' = agenda \cup
       {[ts |-> clock + handed[i], ord |-> entered + (i - 1)] : i \in 1 .. Len(handed)}
  /\ entered' = entered + Len(handed)
  /\ handed' = << >>
  /\ UNCHANGED <<clock, last, cancelled, fired, closed>>

EnterLast ==
  /\ ~closed
  /\ last' = Append(last, entered)
  /\ entered' = entered + 1
  /\ UNCHANGED <<clock, agenda, handed, cancelled, fired, closed>>

\* An entry fires when no other entry comes before it, unless it is cancelled.
Fire ==
  /\ ~closed
  /\ \E e \in agenda :
       /\ \A f \in agenda : f # e => Before(e, f)
       /\ agenda' = agenda \ {e}
       /\ clock' = e.ts
       /\ fired' = IF e.ord \in cancelled THEN fired ELSE fired \cup {e.ord}
  /\ UNCHANGED <<handed, last, entered, cancelled, closed>>

FireLast ==
  /\ ~closed
  /\ last # << >>
  /\ last' = Tail(last)
  /\ fired' = IF Head(last) \in cancelled THEN fired ELSE fired \cup {Head(last)}
  /\ UNCHANGED <<clock, agenda, handed, entered, cancelled, closed>>

\* Only an entry that can still fire is cancelled or withdrawn.
Outstanding(o) ==
  /\ o \notin cancelled
  /\ (\E e \in agenda : e.ord = o) \/ (\E i \in 1 .. Len(last) : last[i] = o)

CancelEntry ==
  /\ ~closed
  /\ \E o \in cancelled' : Outstanding(o) /\ cancelled' = cancelled \cup {o}
  /\ UNCHANGED <<clock, agenda, handed, last, entered, fired, closed>>

Withdraw ==
  /\ ~closed
  /\ \E e \in agenda :
       /\ Outstanding(e.ord)
       /\ agenda' = agenda \ {e}
       /\ cancelled' = cancelled \cup {e.ord}
  /\ UNCHANGED <<clock, handed, last, entered, fired, closed>>

WithdrawLast ==
  /\ ~closed
  /\ \E i \in 1 .. Len(last) :
       last' = SubSeq(last, 1, i - 1) \o SubSeq(last, i + 1, Len(last))
  /\ UNCHANGED <<clock, agenda, handed, entered, cancelled, fired, closed>>

\* Destroy drops what is left, only after every entry for Destroy was dealt
\* with; what was handed over is taken in first or is never looked at again.
Close ==
  /\ ~closed
  /\ last = << >>
  /\ closed' = TRUE
  /\ agenda' = {}
  /\ \/ UNCHANGED <<handed, entered>>
     \/ handed' = << >> /\ entered' = entered + Len(handed)
  /\ UNCHANGED <<clock, last, cancelled, fired>>

Next ==
  \/ Enter \/ HandOver \/ TakeIn \/ EnterLast \/ Fire \/ FireLast
  \/ CancelEntry \/ Withdraw \/ WithdrawLast \/ Close

Spec == Init /\ [][Next]_vars

==============================================================================
