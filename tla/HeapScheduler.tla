---------------------------- MODULE HeapScheduler ----------------------------
(***************************************************************************)
(* ns3::HeapScheduler (core/model/heap-scheduler.cc): the event list as a  *)
(* binary heap in a std::vector, m_heap.  m_heap[0] of the vector is an    *)
(* unused dummy, so the heap is a sequence indexed from 1 as in TLA+.      *)
(* Module EventLists calls these operations.                               *)
(***************************************************************************)
EXTENDS EventKeys, Sequences

Parent(id) == id \div 2
LeftChild(id) == id * 2
RightChild(id) == id * 2 + 1
Root == 1

Exch(heap, a, b) == [heap EXCEPT ![a] = heap[b], ![b] = heap[a]]

IsLessStrictly(heap, a, b) == Less(heap[a], heap[b])

Smallest(heap, a, b) == IF IsLessStrictly(heap, a, b) THEN a ELSE b

RECURSIVE BottomUpFrom(_, _)
BottomUpFrom(heap, index) ==
  IF index # Root /\ IsLessStrictly(heap, index, Parent(index))
  THEN BottomUpFrom(Exch(heap, index, Parent(index)), Parent(index))
  ELSE heap

BottomUp(heap) == BottomUpFrom(heap, Len(heap))

\* The loop of TopDown needs both children; a lone left child is looked at
\* after it.  A start beyond the bottom has no children and changes nothing.
RECURSIVE TopDown(_, _)
TopDown(heap, index) ==
  IF RightChild(index) <= Len(heap)
  THEN LET tmp == Smallest(heap, LeftChild(index), RightChild(index)) IN
       IF IsLessStrictly(heap, index, tmp)
       THEN heap
       ELSE TopDown(Exch(heap, index, tmp), tmp)
  ELSE IF LeftChild(index) <= Len(heap)
          /\ ~IsLessStrictly(heap, index, LeftChild(index))
       THEN Exch(heap, index, LeftChild(index))
       ELSE heap

PopBack(heap) == SubSeq(heap, 1, Len(heap) - 1)

\* A slip: the removed slot is filled by the last element, which stays in place.
MutRemoveAtKeepsLast(heap, i) ==
  TopDown([heap EXCEPT ![i] = heap[Len(heap)]], i)

\* Exch(i, Last()); pop_back(); TopDown(i): shared by RemoveNext and Remove.
RemoveAt(heap, i) == TopDown(PopBack(Exch(heap, i, Len(heap))), i)

Empty == << >>

Insert(heap, ev) == BottomUp(Append(heap, ev))

PeekNext(heap) == heap[Root]

\* The event at the root and the heap without it.
RemoveNext(heap) == [ev |-> heap[Root], list |-> RemoveAt(heap, Root)]

\* Remove finds the event by its uid, from the front of the vector.
Remove(heap, ev) ==
  RemoveAt(heap, CHOOSE i \in 1 .. Len(heap) : heap[i].uid = ev.uid)

Contents(heap) == {heap[i] : i \in 1 .. Len(heap)}
Size(heap) == Len(heap)

==============================================================================
