----------------------------- MODULE HeapScheduler -----------------------------
(***************************************************************************)
(* HeapScheduler: the event list as a binary heap in an array.  The array  *)
(* of the code wastes its item 0, so that positions start at 1 as they do  *)
(* in a sequence.  The client is a simulator: uids grow and no event is    *)
(* inserted before the time of the last event removed.                     *)
(***************************************************************************)
EXTENDS EventKey, Sequences, FiniteSets

CONSTANTS
  Delays,    \* distances of a new event from the last one removed
  MaxEvents  \* bound: events inserted

ASSUME HeapAssumption == Delays \subseteq Nat /\ MaxEvents \in Nat

VARIABLES
  heap,  \* m_heap without its item 0
  next,  \* what the last RemoveNext returned
  uid,   \* events inserted so far
  held,  \* history: events inserted and not yet handed back or removed
  misplaced  \* history: a Remove put an item below a parent it precedes

vars == <<heap, next, uid, held, misplaced>>

NoEvent == [ts |-> 0, uid |-> 0]

-----------------------------------------------------------------------------
Exch(h, a, b) == [h EXCEPT ![a] = h[b], ![b] = h[a]]

Smallest(h, a, b) == IF Less(h[a], h[b]) THEN a ELSE b

\* One iteration of a loop: the item at position s.at of s.heap moves up
UpStep(s) ==
  LET parent == s.at \div 2 IN
  IF s.at # 1 /\ Less(s.heap[s.at], s.heap[parent])
  THEN [heap |-> Exch(s.heap, s.at, parent), at |-> parent]
  ELSE s

\* Mutant: a last parent with a left child only is left alone.
MutDownStep(s) ==
  LET h == s.heap   left == 2 * s.at   right == 2 * s.at + 1
      child == IF right > Len(h) THEN left ELSE Smallest(h, left, right)
  IN  IF right > Len(h) \/ Less(h[s.at], h[child]) THEN s
      ELSE [heap |-> Exch(h, s.at, child), at |-> child]

\* or down, a last parent with a left child only like the others.
DownStep(s) ==
  LET h == s.heap   left == 2 * s.at   right == 2 * s.at + 1
      child == IF right > Len(h) THEN left ELSE Smallest(h, left, right)
  IN  IF left > Len(h) \/ Less(h[s.at], h[child]) THEN s
      ELSE [heap |-> Exch(h, s.at, child), at |-> child]

\* The loops from position i of h; no item moves more often than h is long.
\* BottomUp, which the code starts at Last(), and TopDown.
BottomUp(h, i) ==
  LET up[n \in 0..Len(h)] ==
        IF n = 0 THEN [heap |-> h, at |-> i] ELSE UpStep(up[n - 1])
  IN  up[Len(h)].heap

TopDown(h, i) ==
  LET down[n \in 0..Len(h)] ==
        IF n = 0 THEN [heap |-> h, at |-> i] ELSE DownStep(down[n - 1])
  IN  down[Len(h)].heap

\* Mutant: nothing is swapped into the place.
MutExtract(h, i) == [k \in 1..Len(h) - 1 |-> IF k = i THEN NoEvent ELSE h[k]]

\* The swap with the last item and the pop_back.
Extract(h, i) == SubSeq(Exch(h, i, Len(h)), 1, Len(h) - 1)

-----------------------------------------------------------------------------
Init ==
  /\ heap = <<>> /\ next = NoEvent /\ uid = 0
  /\ held = {} /\ misplaced = FALSE

Insert(d) ==
  LET e == [ts |-> next.ts + d, uid |-> uid + 1] IN
  /\ uid < MaxEvents
  /\ heap' = BottomUp(Append(heap, e), Len(heap) + 1)
  /\ uid' = uid + 1
  /\ held' = held \cup {e}
  /\ UNCHANGED <<next, misplaced>>

RemoveNext ==
  /\ heap # <<>>
  /\ next' = heap[1]
  /\ heap' = TopDown(Extract(heap, 1), 1)
  /\ held' = held \ {heap[1]}
  /\ UNCHANGED <<uid, misplaced>>

\* Mutant: the last item is dropped instead of the one asked for.
MutRemove(i) ==
  /\ heap' = TopDown(SubSeq(heap, 1, Len(heap) - 1), i)
  /\ held' = held \ {heap[i]}
  /\ UNCHANGED <<next, uid, misplaced>>

\* Remove the event at position i, which the code finds by its uid.
Remove(i) ==
  /\ heap' = TopDown(Extract(heap, i), i)
  /\ held' = held \ {heap[i]}
  /\ misplaced' = (misplaced \/ (i > 1 /\ Less(heap[Len(heap)], heap[i \div 2])))
  /\ UNCHANGED <<next, uid>>

Next ==
  \/ \E d \in Delays : Insert(d)
  \/ RemoveNext
  \/ \E i \in 1..Len(heap) : Remove(i)

Spec == Init /\ [][Next]_vars

-----------------------------------------------------------------------------
Items == { heap[i] : i \in 1..Len(heap) }

TypeOK ==
  /\ heap \in Seq([ts : Nat, uid : 1..MaxEvents])
  /\ next \in [ts : Nat, uid : 0..MaxEvents]
  /\ uid \in 0..MaxEvents
  /\ held \subseteq [ts : Nat, uid : 1..MaxEvents]
  /\ misplaced \in BOOLEAN

\* No sequence of insertions, extractions and removals loses or duplicates an
\* event of the list (HeapScheduler::Exch, pop_back and the sifts).
HoldsExactly == Items = held /\ Len(heap) = Cardinality(held)

\* RemoveNext returns the earliest event held, as the abstract event list does,
\* until a Remove moves the last item below a parent that it precedes: that is
\* the one step that breaks the heap order.
EarliestUnlessMisplaced ==
  [][next' # next /\ ~misplaced => IsEarliest(next', held)]_vars

\* scheduler.h on RemoveNext, "Remove the earliest event from the event list":
\* what it returns precedes everything still held.
EarliestFirst ==
  [][next' # next => IsEarliest(next', held)]_vars

=============================================================================
