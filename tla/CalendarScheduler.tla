--------------------------- MODULE CalendarScheduler ---------------------------
(***************************************************************************)
(* CalendarScheduler: the event list as a calendar queue.  Events hash by  *)
(* time into buckets, a pointer walks the buckets of the current "year",   *)
(* and the number and width of the buckets follow the number of events.    *)
(* The client is a simulator: uids grow and no event is inserted before    *)
(* the time of the last event removed.                                     *)
(***************************************************************************)
EXTENDS EventKey, SequencesExt

CONSTANTS
  Delays,    \* distances of a new event from the last one removed
  MaxEvents  \* bound: events inserted

\* The 32768 buckets the code never doubles lie beyond the bound.
ASSUME CalendarAssumption ==
  Delays \subseteq Nat /\ MaxEvents \in 1..32768

VARIABLES
  reversed,  \* attribute Reverse, set at construction: latest event first
  cal,    \* the calendar: [buckets, n, width, lastBucket, top, lastPrio]
  qSize,  \* m_qSize
  next,   \* what the last RemoveNext returned
  uid,    \* events inserted so far
  held    \* history: events inserted and not yet handed back or removed

vars == <<reversed, cal, qSize, next, uid, held>>

NoEvent == [ts |-> 0, uid |-> 0]

-----------------------------------------------------------------------------
(* Buckets.                                                                *)

Order(a, b) == IF reversed THEN Less(b, a) ELSE Less(a, b)
NextEvent(bucket) == IF reversed THEN Last(bucket) ELSE Head(bucket)
Pop(bucket) == IF reversed THEN Front(bucket) ELSE Tail(bucket)

Hash(c, ts) == (ts \div c.width) % c.n

Empty(n, width, startPrio) ==
  [ buckets    |-> [b \in 0..n - 1 |-> <<>>],
    n          |-> n,
    width      |-> width,
    lastBucket |-> (startPrio \div width) % n,
    top        |-> (startPrio \div width + 1) * width,
    lastPrio   |-> startPrio ]

\* Before the first event of the bucket that comes later, else at the end.
DoInsert(c, e) ==
  LET b  == Hash(c, e.ts)
      at == SelectInSeq(c.buckets[b], LAMBDA x : Order(e, x))
  IN  [c EXCEPT !.buckets[b] = IF at = 0 THEN Append(@, e) ELSE InsertAt(@, at, e)]

\* DoInsert of one event after the other.
InsertAll(c, events) ==
  LET filled[k \in 0..Len(events)] == IF k = 0 THEN c
                                      ELSE DoInsert(filled[k - 1], events[k])
  IN  filled[Len(events)]

\* Mutant: the events of later years are not told from those of this one.
MutDoRemoveNext(c) ==
  LET bucket(k) == (c.lastBucket + k) % c.n
      hits == { k \in 0..c.n - 1 : c.buckets[bucket(k)] # <<>> }
      k == Min(hits)
      b == bucket(k)
  IN  [ event |-> NextEvent(c.buckets[b]),
        cal   |-> [c EXCEPT !.buckets[b] = Pop(@), !.lastBucket = b,
                            !.lastPrio = NextEvent(c.buckets[b]).ts,
                            !.top = c.top + k * c.width] ]

\* The event removed and the calendar left: the first bucket from the pointer
\* whose next event lies in this year, else the earliest event of all.
DoRemoveNext(c) ==
  LET bucket(k) == (c.lastBucket + k) % c.n
      full == { k \in 0..c.n - 1 : c.buckets[bucket(k)] # <<>> }
      first(k) == NextEvent(c.buckets[bucket(k)])
      hits == { k \in full : first(k).ts < c.top + k * c.width }
      k == IF hits # {} THEN Min(hits)
           ELSE CHOOSE x \in full : IsEarliest(first(x), { first(y) : y \in full })
      e == first(k)
  IN  [ event |-> e,
        cal   |-> [c EXCEPT !.buckets[bucket(k)] = Pop(@),
                            !.lastPrio = e.ts,
                            !.lastBucket = IF hits # {} THEN bucket(k) ELSE Hash(c, e.ts),
                            !.top = IF hits # {} THEN c.top + k * c.width
                                    ELSE (e.ts \div c.width + 1) * c.width] ]

-----------------------------------------------------------------------------
(* Resizing.                                                               *)

\* The first events, drawn and put back: [samples, cal].
Sample(c, size) ==
  LET n == IF size <= 5 THEN size ELSE Min({25, 5 + size \div 10})
      drawn[k \in 0..n] == IF k = 0 THEN [event |-> NoEvent, cal |-> c]
                           ELSE DoRemoveNext(drawn[k - 1].cal)
      samples == [k \in 1..n |-> drawn[k].event]
  IN  [ samples |-> samples,
        cal |-> [InsertAll(drawn[n].cal, samples) EXCEPT
                   !.lastBucket = c.lastBucket, !.top = c.top, !.lastPrio = c.lastPrio] ]

Total(gaps) ==
  LET sum[i \in 0..Len(gaps)] == IF i = 0 THEN 0 ELSE sum[i - 1] + gaps[i]
  IN  sum[Len(gaps)]

\* Three times the separation of the samples, without the outliers.
Width(samples) ==
  LET gaps == [i \in 1..Len(samples) - 1 |-> samples[i + 1].ts - samples[i].ts]
      twiceAvg == (Total(gaps) \div Len(gaps)) * 2
      kept == Total([i \in DOMAIN gaps |-> IF gaps[i] <= twiceAvg THEN gaps[i] ELSE 0])
  IN  IF kept = 0 THEN 1 ELSE 3 * kept

\* Init with the new geometry, then reinsert every old bucket.
DoResize(c, n, width) ==
  LET moved[b \in 0..c.n] == IF b = 0 THEN Empty(n, width, c.lastPrio)
                             ELSE InsertAll(moved[b - 1], c.buckets[b - 1])
  IN  moved[c.n]

\* CalculateNewWidth, then DoResize.
Resize(c, size, n) ==
  IF size < 2 THEN DoResize(c, n, 1)
  ELSE LET s == Sample(c, size) IN DoResize(s.cal, n, Width(s.samples))

\* Mutant: the calendar grows as soon as there are as many events as buckets.
MutResizeUp(c, size) == IF size >= c.n THEN Resize(c, size, c.n * 2) ELSE c

ResizeUp(c, size) == IF size > c.n * 2 THEN Resize(c, size, c.n * 2) ELSE c

ResizeDown(c, size) ==
  IF size < c.n \div 2 THEN Resize(c, size, c.n \div 2) ELSE c

-----------------------------------------------------------------------------
Init ==
  /\ reversed \in BOOLEAN
  /\ cal = Empty(2, 1, 0) /\ qSize = 0
  /\ next = NoEvent /\ uid = 0 /\ held = {}

Insert(d) ==
  LET e == [ts |-> next.ts + d, uid |-> uid + 1] IN
  /\ uid < MaxEvents
  /\ cal' = ResizeUp(DoInsert(cal, e), qSize + 1)
  /\ qSize' = qSize + 1
  /\ uid' = uid + 1
  /\ held' = held \cup {e}
  /\ UNCHANGED <<next, reversed>>

RemoveNext ==
  /\ qSize > 0
  /\ LET r == DoRemoveNext(cal) IN
       /\ next' = r.event
       /\ cal' = ResizeDown(r.cal, qSize - 1)
       /\ held' = held \ {r.event}
  /\ qSize' = qSize - 1
  /\ UNCHANGED <<uid, reversed>>

RemoveEvent(e) ==
  /\ cal' = ResizeDown([cal EXCEPT !.buckets[Hash(cal, e.ts)] =
                          RemoveAt(@, SelectInSeq(@, LAMBDA x : x.uid = e.uid))], qSize - 1)
  /\ qSize' = qSize - 1
  /\ held' = held \ {e}
  /\ UNCHANGED <<next, uid, reversed>>

Next ==
  \/ \E d \in Delays : Insert(d)
  \/ RemoveNext
  \/ \E e \in held : RemoveEvent(e)

Spec == Init /\ [][Next]_vars

-----------------------------------------------------------------------------

TypeOK ==
  LET Ev == [ts : Nat, uid : 1..MaxEvents] IN
  /\ reversed \in BOOLEAN
  /\ cal.n \in 1..MaxEvents + 1 /\ cal.width \in Nat \ {0}
  /\ cal.buckets \in [0..cal.n - 1 -> Seq(Ev)]
  /\ cal.lastBucket \in 0..cal.n - 1
  /\ cal.top \in Nat /\ cal.lastPrio \in Nat
  /\ qSize \in 0..MaxEvents /\ uid \in 0..MaxEvents
  /\ next \in Ev \cup {NoEvent} /\ held \subseteq Ev

\* The calendar is an event list: RemoveNext hands back the earliest event
\* held, across years, resizes and removals.
List == INSTANCE EventList WITH list <- held, next <- next
ImplementsList == List!ListSpec

=============================================================================
