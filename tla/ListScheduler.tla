---------------------------- MODULE ListScheduler ----------------------------
(***************************************************************************)
(* ns3::ListScheduler (core/model/list-scheduler.cc): the event list as a  *)
(* std::list, m_events, kept sorted by insertion.  Module EventLists calls *)
(* these operations.                                                       *)
(***************************************************************************)
EXTENDS EventKeys, Sequences

\* Before the first element that is greater, at the end if there is none.
Insert(list, ev) ==
  LET after == {i \in 1 .. Len(list) : Less(ev, list[i])}
      at == IF after = {} THEN Len(list) + 1
            ELSE CHOOSE i \in after : \A j \in after : i <= j
  IN SubSeq(list, 1, at - 1) \o <<ev>> \o SubSeq(list, at, Len(list))

Empty == << >>

PeekNext(list) == Head(list)

RemoveNext(list) == [ev |-> Head(list), list |-> Tail(list)]

\* A slip: the first element with the time stamp of ev.
MutRemoveByTs(list, ev) ==
  LET same == {i \in 1 .. Len(list) : list[i].ts = ev.ts}
      at == CHOOSE i \in same : \A j \in same : i <= j
  IN SubSeq(list, 1, at - 1) \o SubSeq(list, at + 1, Len(list))

\* The first element with the uid of ev.
Remove(list, ev) == SelectSeq(list, LAMBDA e : e.uid # ev.uid)

Contents(list) == {list[i] : i \in 1 .. Len(list)}
Size(list) == Len(list)

==============================================================================
