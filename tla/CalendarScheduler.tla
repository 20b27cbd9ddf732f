-------------------------- MODULE CalendarScheduler --------------------------
(***************************************************************************)
(* ns3::CalendarScheduler (core/model/calendar-scheduler.cc): the event    *)
(* list as a calendar queue, an array of sorted buckets ("days") of equal  *)
(* width that covers one "year"; later years wrap around.  The number of   *)
(* buckets doubles and halves with the number of events, and every resize  *)
(* recomputes the width from a sample of the next events.  A calendar is   *)
(* the record of the class's members.  Module EventLists calls these       *)
(* operations.                                                             *)
(***************************************************************************)
EXTENDS EventKeys, Sequences

SX == INSTANCE SequencesExt

\* What the attribute "Reverse" selects: buckets hold later events first.
Order(c, a, b) == IF c.reverse THEN Greater(a, b) ELSE Less(a, b)
NextEvent(c, bucket) == IF c.reverse THEN SX!Last(bucket) ELSE Head(bucket)
Pop(c, bucket) == IF c.reverse THEN SX!Front(bucket) ELSE Tail(bucket)

Hash(c, ts) == (ts \div c.width) % c.nBuckets

\* CalendarScheduler::Init: empty buckets, positioned on startPrio's day.
Calendar(reverse, nBuckets, width, startPrio, qSize) ==
  [ reverse |-> reverse,
    buckets |-> [i \in 0 .. nBuckets - 1 |-> << >>],
    nBuckets |-> nBuckets,
    width |-> width,
    lastPrio |-> startPrio,
    lastBucket |-> (startPrio \div width) % nBuckets,
    bucketTop |-> (startPrio \div width + 1) * width,
    qSize |-> qSize ]

\* Before the first element ev is ordered before, at the end if there is none.
DoInsert(c, ev) ==
  LET b == Hash(c, ev.ts)
      bucket == c.buckets[b]
      i == SX!SelectInSeq(bucket, LAMBDA x : Order(c, ev, x))
      at == IF i = 0 THEN Len(bucket) + 1 ELSE i
  IN [c EXCEPT !.buckets[b] = SX!InsertAt(bucket, at, ev)]

\* The bucket and the top of the k-th day of the scan, k = 0 .. nBuckets - 1.
DayBucket(c, k) == (c.lastBucket + k) % c.nBuckets
DayTop(c, k) == c.bucketTop + k * c.width

\* Days of the scan whose bucket has an event that falls on that very day.
DueDays(c) ==
  {k \in 0 .. c.nBuckets - 1 :
     LET bucket == c.buckets[DayBucket(c, k)]
     IN bucket # << >> /\ NextEvent(c, bucket).ts < DayTop(c, k)}

\* The first event of each non-empty bucket: what the scan compares with
\* minKey (minEvent in PeekNext) when no day has an event due.
BucketHeads(c) ==
  {NextEvent(c, c.buckets[i]) : i \in {j \in 0 .. c.nBuckets - 1 : c.buckets[j] # << >>}}

FirstDay(days) == CHOOSE k \in days : \A l \in days : k <= l

\* A slip: with no event due, the first non-empty bucket of the scan is taken.
MutPeekNextFirstBucket(c) ==
  LET used == {k \in 0 .. c.nBuckets - 1 : c.buckets[DayBucket(c, k)] # << >>}
      days == IF DueDays(c) # {} THEN DueDays(c) ELSE used
  IN NextEvent(c, c.buckets[DayBucket(c, FirstDay(days))])

PeekNext(c) ==
  IF DueDays(c) # {}
  THEN NextEvent(c, c.buckets[DayBucket(c, FirstDay(DueDays(c)))])
  ELSE Earliest(BucketHeads(c))

\* DoRemoveNext removes the event its scan finds and moves the calendar to
\* that event's day; result is the pair of the event and the new calendar.
DoRemoveNext(c) ==
  IF DueDays(c) # {}
  THEN LET k == FirstDay(DueDays(c))
           b == DayBucket(c, k)
           next == NextEvent(c, c.buckets[b])
       IN [ev |-> next,
           cal |-> [c EXCEPT !.lastBucket = b,
                             !.lastPrio = next.ts,
                             !.bucketTop = DayTop(c, k),
                             !.buckets[b] = Pop(c, c.buckets[b])]]
  ELSE LET next == Earliest(BucketHeads(c))
           b == Hash(c, next.ts)
       IN [ev |-> next,
           cal |-> [c EXCEPT !.lastPrio = next.ts,
                             !.lastBucket = b,
                             !.bucketTop = (next.ts \div c.width + 1) * c.width,
                             !.buckets[b] = Pop(c, c.buckets[b])]]

\* How many of the next events CalculateNewWidth looks at.
NSamples(qSize) ==
  LET n == IF qSize <= 5 THEN qSize ELSE 5 + qSize \div 10
  IN IF n > 25 THEN 25 ELSE n

\* The first nSamples events, taken with DoRemoveNext, and what is left.
Gather(c, nSamples) ==
  SX!FoldLeft(LAMBDA acc, k : LET r == DoRemoveNext(acc.cal)
                           IN [samples |-> Append(acc.samples, r.ev), cal |-> r.cal],
           [samples |-> << >>, cal |-> c],
           [k \in 1 .. nSamples |-> k])

\* Three times the summed gaps between samples, gaps above twice the average
\* left out, and at least 1.  Division is C++ integer division.
WidthOf(samples) ==
  LET n == Len(samples)
      gaps == [i \in 1 .. n - 1 |-> samples[i + 1].ts - samples[i].ts]
      Sum(s) == SX!FoldLeft(LAMBDA a, b : a + b, 0, s)
      twiceAvg == (Sum(gaps) \div (n - 1)) * 2
      total == 3 * Sum(SelectSeq(gaps, LAMBDA g : g <= twiceAvg))
  IN IF total > 1 THEN total ELSE 1

\* DoResize: a fresh calendar of newSize buckets, positioned on lastPrio, into
\* which the old buckets are emptied one after the other.
DoResize(c, newSize, newWidth) ==
  SX!FoldLeft(LAMBDA acc, ev : DoInsert(acc, ev),
           Calendar(c.reverse, newSize, newWidth, c.lastPrio, c.qSize),
           SX!FoldLeft(LAMBDA acc, b : acc \o b, << >>,
                    [i \in 1 .. c.nBuckets |-> c.buckets[i - 1]]))

\* Resize: CalculateNewWidth takes the samples out, puts them back and
\* restores the position, then DoResize rebuilds the calendar.
Resize(c, newSize) ==
  IF c.qSize < 2
  THEN DoResize(c, newSize, 1)
  ELSE LET g == Gather(c, NSamples(c.qSize))
           back == SX!FoldLeft(DoInsert, g.cal, g.samples)
           restored == [back EXCEPT !.lastBucket = c.lastBucket,
                                    !.bucketTop = c.bucketTop,
                                    !.lastPrio = c.lastPrio]
       IN DoResize(restored, newSize, WidthOf(g.samples))

MaxBuckets == 32768

ResizeUp(c) ==
  IF c.qSize > c.nBuckets * 2 /\ c.nBuckets < MaxBuckets THEN Resize(c, c.nBuckets * 2) ELSE c

ResizeDown(c) ==
  IF c.qSize < c.nBuckets \div 2 THEN Resize(c, c.nBuckets \div 2) ELSE c

Empty(reverse) == Calendar(reverse, 2, 1, 0, 0)

Insert(c, ev) == ResizeUp([DoInsert(c, ev) EXCEPT !.qSize = @ + 1])

RemoveNext(c) ==
  LET r == DoRemoveNext(c)
  IN [ev |-> r.ev, list |-> ResizeDown([r.cal EXCEPT !.qSize = @ - 1])]

\* Remove looks for the uid in the bucket the time stamp hashes to; not to
\* find it there is an assertion failure.
Remove(c, ev) ==
  LET b == Hash(c, ev.ts)
      i == SX!SelectInSeq(c.buckets[b], LAMBDA x : x.uid = ev.uid)
  IN IF i = 0 THEN c
     ELSE ResizeDown([c EXCEPT !.buckets[b] = SX!RemoveAt(@, i), !.qSize = @ - 1])

Contents(c) == UNION {SX!ToSet(c.buckets[i]) : i \in DOMAIN c.buckets}
Size(c) == c.qSize

==============================================================================
