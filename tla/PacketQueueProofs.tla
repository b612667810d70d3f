-------------------------- MODULE PacketQueueProofs --------------------------
(* The queue of queue.c for every size, every set of producers and every    *)
(* set of contents.  SlotOwnership and NoLostWakeup are not inductive alone: *)
(* a queue that is created again must find no slot reserved and nobody       *)
(* blocked, so the invariant also says what queue_free left behind.  With it *)
(* the ring implements BoundedFifo.                                          *)
EXTENDS PacketQueue, SequenceTheorems, TLAPS

\* after queue_free no producer still holds a slot
FreedUnused == ~live => \A p \in Producers : to_write[p] = NoSlot

IndInv == TypeOK /\ SlotOwnership /\ NoLostWakeup /\ FreedUnused

\* queue_get_next stays inside tab and wraps exactly at the last slot.
\* (queue.c:47-49)
LEMMA GetNext ==
  ASSUME NEW v \in Slots
  PROVE  /\ queue_get_next(v) = IF v + 1 = Size THEN 0 ELSE v + 1
         /\ queue_get_next(v) \in Slots
<1>1. CASE v + 1 = Size
  <2>1. Size % Size = 0
    BY SizeAssumption
  <2> QED BY <1>1, <2>1, SizeAssumption DEF queue_get_next, Slots
<1>2. CASE v + 1 # Size
  <2>1. v + 1 \in 0 .. Size - 1
    BY <1>2, SizeAssumption DEF Slots
  <2>2. (v + 1) % Size = v + 1
    BY <2>1, SizeAssumption
  <2> QED BY <2>1, <2>2, <1>2, SizeAssumption DEF queue_get_next, Slots
<1> QED BY <1>1, <1>2

\* what malloc leaves in the elements is among the contents
LEMMA FreshElements == \A f \in [Slots -> Fresh] : f \in [Slots -> Values]
<1> TAKE f \in [Slots -> Fresh]
<1>1. \A s \in Slots : f[s] \in Values
  BY FreshAssumption
<1> QED BY <1>1

LEMMA InitIndInv == Init => IndInv
<1> SUFFICES ASSUME Init PROVE IndInv
  OBVIOUS
<1> USE SizeAssumption DEF Init
<1>1. TypeOK
  <2>1. 0 \in Slots
    BY DEF Slots
  <2> QED BY <2>1, FreshElements DEF TypeOK
<1>2. SlotOwnership
  BY DEF SlotOwnership, ExclusiveWrite, ReadsComplete
<1>3. NoLostWakeup /\ FreedUnused
  BY DEF NoLostWakeup, FreedUnused
<1> QED BY <1>1, <1>2, <1>3 DEF IndInv

\* every action keeps the variables in their types
LEMMA TypeStep == TypeOK /\ [Next]_vars => TypeOK'
<1> SUFFICES ASSUME TypeOK, [Next]_vars PROVE TypeOK'
  OBVIOUS
<1> USE SizeAssumption DEF TypeOK
<1>1. CASE QueueInit
  <2>1. 0 \in Slots
    BY DEF Slots
  <2> QED BY <1>1, <2>1, FreshElements DEF QueueInit
<1>2. ASSUME NEW p \in Producers, PushStart(p) PROVE TypeOK'
  BY <1>2, GetNext DEF PushStart, CanPush, Broadcast
<1>3. ASSUME NEW p \in Producers, PushWait(p) PROVE TypeOK'
  BY <1>3 DEF PushWait, Block, ring, Threads
<1>4. ASSUME NEW p \in Producers, PushFinish(p) PROVE TypeOK'
  BY <1>4 DEF PushFinish, Pushing, Broadcast
<1>5. ASSUME NEW p \in Producers, PushAbandon(p) PROVE TypeOK'
  BY <1>5 DEF PushAbandon, ring
<1>6. ASSUME NEW p \in Producers, NEW v \in Values, Fill(p, v) PROVE TypeOK'
  BY <1>6 DEF Fill
<1>7. CASE PopStart
  BY <1>7 DEF PopStart
<1>8. CASE PopWait
  BY <1>8 DEF PopWait, Block, ring, Threads
<1>9. CASE PopFinish
  BY <1>9, GetNext DEF PopFinish, Broadcast
<1>10. CASE PopRollBack
  BY <1>10 DEF PopRollBack, Broadcast
<1>11. ASSUME NEW v \in Values, Use(v) PROVE TypeOK'
  BY <1>11 DEF Use
<1>12. CASE FreeWait
  BY <1>12 DEF FreeWait, Block, ring, Threads
<1>13. CASE Free
  BY <1>13 DEF Free
<1>14. CASE Wake
  BY <1>14 DEF Wake, ring
<1>15. CASE UNCHANGED vars
  BY <1>15 DEF vars, ring
<1> QED
  BY <1>1, <1>2, <1>3, <1>4, <1>5, <1>6, <1>7, <1>8, <1>9, <1>10, <1>11,
     <1>12, <1>13, <1>14, <1>15 DEF Next

\* what the wake-up of one thread may be waiting for, action by action
LEMMA WakeupStep ==
  TypeOK /\ NoLostWakeup /\ [Next]_vars => NoLostWakeup'
<1> SUFFICES ASSUME TypeOK, NoLostWakeup, [Next]_vars PROVE NoLostWakeup'
  OBVIOUS
<1> USE ThreadAssumption DEF NoLostWakeup, Full, Readable, TypeOK
<1>1. CASE QueueInit
  <2>1. waiting = {}
    BY <1>1 DEF QueueInit, Threads
  <2> QED BY <1>1, <2>1 DEF QueueInit
<1>2. ASSUME NEW p \in Producers, PushStart(p) PROVE NoLostWakeup'
  BY <1>2 DEF PushStart, Broadcast
<1>3. ASSUME NEW p \in Producers, PushWait(p) PROVE NoLostWakeup'
  BY <1>3 DEF PushWait, CanPush, Runs, Block, ring
<1>4. ASSUME NEW p \in Producers, PushFinish(p) PROVE NoLostWakeup'
  BY <1>4 DEF PushFinish, Broadcast
<1>5. ASSUME NEW p \in Producers, PushAbandon(p) PROVE NoLostWakeup'
  BY <1>5 DEF PushAbandon, Pushing, Runs, ring
<1>6. ASSUME NEW p \in Producers, NEW v \in Values, Fill(p, v) PROVE NoLostWakeup'
  BY <1>6 DEF Fill
<1>7. CASE PopStart
  BY <1>7 DEF PopStart, CanPop, Runs
<1>8. CASE PopWait
  BY <1>8 DEF PopWait, CanPop, Runs, Block, ring
<1>9. CASE PopFinish
  BY <1>9 DEF PopFinish, Broadcast
<1>10. CASE PopRollBack
  BY <1>10 DEF PopRollBack, Broadcast
<1>11. ASSUME NEW v \in Values, Use(v) PROVE NoLostWakeup'
  BY <1>11 DEF Use
<1>12. CASE FreeWait
  BY <1>12 DEF FreeWait, Runs, Block, ring
<1>13. CASE Quiescent /\ Free
  <2>1. waiting = {}
    BY <1>13 DEF Free, Runs, Quiescent
  <2> QED BY <1>13, <2>1 DEF Free
<1>14. CASE Wake
  BY <1>14 DEF Wake, ring
<1>15. CASE UNCHANGED vars
  BY <1>15 DEF vars, ring
<1> QED
  BY <1>1, <1>2, <1>3, <1>4, <1>5, <1>6, <1>7, <1>8, <1>9, <1>10, <1>11,
     <1>12, <1>13, <1>14, <1>15 DEF Next

LEMMA FreedStep == TypeOK /\ FreedUnused /\ [Next]_vars => FreedUnused'
<1> SUFFICES ASSUME TypeOK, FreedUnused, [Next]_vars PROVE FreedUnused'
  OBVIOUS
<1> USE DEF FreedUnused, TypeOK
<1>1. CASE QueueInit
  BY <1>1 DEF QueueInit
<1>2. ASSUME NEW p \in Producers, PushStart(p) PROVE FreedUnused'
  BY <1>2 DEF PushStart, CanPush, Runs
<1>3. ASSUME NEW p \in Producers, PushFinish(p) \/ PushAbandon(p)
      PROVE  FreedUnused'
  BY <1>3 DEF PushFinish, PushAbandon, Pushing, Runs, ring
<1>4. CASE Quiescent /\ Free
  BY <1>4 DEF Free, Quiescent
<1>5. ASSUME UNCHANGED <<live, to_write>> PROVE FreedUnused'
  BY <1>5
<1> QED
  BY <1>1, <1>2, <1>3, <1>4, <1>5
  DEF Next, PushWait, Fill, PopStart, PopWait, PopFinish, PopRollBack, Use,
      FreeWait, Wake, ring, vars

\* Moving next_to_write on adds its slot to the used part of the ring, and
\* moving next_to_read on removes only the slot it leaves.  (queue.c:121-153,
\* 253-259)
LEMMA RangeGrows ==
  ASSUME TypeOK, ~Full, next_to_read' = next_to_read,
         next_to_write' = queue_get_next(next_to_write), NEW s \in Slots
  PROVE  /\ InRange(s)' <=> (InRange(s) \/ s = next_to_write)
         /\ ~InRange(next_to_write)
<1>1. queue_get_next(next_to_write)
        = IF next_to_write + 1 = Size THEN 0 ELSE next_to_write + 1
  BY GetNext DEF TypeOK
<1> QED
  BY <1>1, SizeAssumption DEF TypeOK, Full, InRange, Slots

LEMMA RangeShrinks ==
  ASSUME TypeOK, InRange(next_to_read), next_to_write' = next_to_write,
         next_to_read' = queue_get_next(next_to_read), NEW s \in Slots,
         InRange(s), s # next_to_read
  PROVE  InRange(s)'
<1>1. queue_get_next(next_to_read)
        = IF next_to_read + 1 = Size THEN 0 ELSE next_to_read + 1
  BY GetNext DEF TypeOK
<1> QED
  BY <1>1, SizeAssumption DEF TypeOK, InRange, Slots

LEMMA OwnershipStep ==
  TypeOK /\ SlotOwnership /\ FreedUnused /\ [Next]_vars => SlotOwnership'
<1> SUFFICES ASSUME TypeOK, SlotOwnership, FreedUnused, [Next]_vars
             PROVE  SlotOwnership'
  OBVIOUS
<1> USE DEF SlotOwnership
<1>1. CASE QueueInit
  BY <1>1 DEF QueueInit, FreedUnused, ExclusiveWrite, ReadsComplete
<1>2. ASSUME NEW p \in Producers, PushStart(p) PROVE SlotOwnership'
  <2>1. /\ ~Full /\ next_to_read' = next_to_read /\ in_read' = in_read
        /\ next_to_write' = queue_get_next(next_to_write)
        /\ to_write' = [to_write EXCEPT ![p] = next_to_write]
        /\ ready' = [ready EXCEPT ![next_to_write] = FALSE]
    BY <1>2 DEF PushStart
  <2>2. ~InRange(next_to_write)
    BY <2>1, RangeGrows DEF TypeOK
  <2>3. \A s \in Slots : InRange(s)' <=> (InRange(s) \/ s = next_to_write)
    BY <2>1, RangeGrows
  <2>4. ASSUME NEW q \in Producers, to_write'[q] # NoSlot
        PROVE  /\ InRange(to_write[q])' /\ ~ready'[to_write'[q]]
               /\ \A r \in Producers \ {q} : to_write'[r] # to_write'[q]
    <3>1. CASE q = p
      <4>1. to_write'[q] = next_to_write
        BY <2>1, <3>1 DEF TypeOK
      <4>2. \A r \in Producers \ {q} : to_write'[r] # next_to_write
        BY <2>1, <2>2, <3>1 DEF TypeOK, ExclusiveWrite, NoSlot, Slots
      <4> QED BY <2>1, <2>3, <4>1, <4>2 DEF TypeOK, InRange
    <3>2. CASE q # p
      <4>1. to_write'[q] = to_write[q] /\ to_write[q] \in Slots
        BY <2>1, <2>4, <3>2 DEF TypeOK
      <4>2. InRange(to_write[q]) /\ ~ready[to_write[q]]
        BY <2>4, <4>1 DEF ExclusiveWrite
      <4>3. to_write[q] # next_to_write
        BY <2>2, <4>2
      <4>4. \A r \in Producers \ {q} : to_write'[r] # to_write[q]
        BY <2>1, <2>4, <4>1, <4>3 DEF TypeOK, ExclusiveWrite
      <4> QED BY <2>1, <2>3, <4>1, <4>2, <4>3, <4>4 DEF TypeOK, InRange
    <3> QED BY <3>1, <3>2
  <2>5. ReadsComplete'
    BY <2>1, <2>2, <2>3 DEF ReadsComplete, TypeOK
  <2> QED BY <2>4, <2>5 DEF ExclusiveWrite, NoSlot
<1>3. ASSUME NEW p \in Producers, PushFinish(p) PROVE SlotOwnership'
  BY <1>3 DEF PushFinish, Pushing, TypeOK, ExclusiveWrite, ReadsComplete, InRange, NoSlot
<1>4. ASSUME NEW p \in Producers, PushAbandon(p) PROVE SlotOwnership'
  BY <1>4 DEF PushAbandon, ring, TypeOK, ExclusiveWrite, ReadsComplete, InRange
<1>5. CASE PopStart
  <2>1. InRange(next_to_read)
    BY <1>5, SizeAssumption DEF PopStart, Readable, InRange, TypeOK, Slots
  <2> QED BY <1>5, <2>1 DEF PopStart, Readable, ExclusiveWrite, ReadsComplete, InRange
<1>6. CASE PopFinish
  <2>1. /\ in_read /\ ~in_read' /\ next_to_write' = next_to_write
        /\ next_to_read' = queue_get_next(next_to_read)
        /\ UNCHANGED <<ready, to_write>>
    BY <1>6 DEF PopFinish
  <2>2. InRange(next_to_read) /\ ready[next_to_read]
    BY <2>1 DEF ReadsComplete
  <2>3. ASSUME NEW p \in Producers, to_write[p] # NoSlot
        PROVE  InRange(to_write[p])'
    <3>1. InRange(to_write[p]) /\ to_write[p] # next_to_read /\ to_write[p] \in Slots
      BY <2>2, <2>3 DEF ExclusiveWrite, TypeOK
    <3> QED BY <2>1, <2>2, <3>1, RangeShrinks
  <2> QED BY <2>1, <2>3 DEF ExclusiveWrite, ReadsComplete
<1>7. CASE PopRollBack
  BY <1>7 DEF PopRollBack, ExclusiveWrite, ReadsComplete, InRange
<1>8. ASSUME UNCHANGED <<next_to_write, next_to_read, ready, in_read, to_write>>
      PROVE  SlotOwnership'
  BY <1>8 DEF ExclusiveWrite, ReadsComplete, InRange
<1> QED
  BY <1>1, <1>2, <1>3, <1>4, <1>5, <1>6, <1>7, <1>8
  DEF Next, PushWait, Fill, PopWait, Use, FreeWait, Free, Wake, ring, vars

\* The inductive invariant of the queue.
LEMMA Inductive == Spec => []IndInv
<1>1. IndInv /\ [Next]_vars => IndInv'
  BY TypeStep, OwnershipStep, WakeupStep, FreedStep DEF IndInv
<1> QED BY InitIndInv, <1>1, PTL DEF Spec

\* The indices never leave tab, for any size of the ring and any number of
\* producers.  (queue.c:33-45)
THEOREM TypeCorrect == Spec => []TypeOK
<1>1. IndInv => TypeOK
  BY DEF IndInv
<1> QED BY Inductive, <1>1, PTL

\* An element is never written and read, or written by two threads, at the
\* same time, although its contents are touched outside the mutex.
\* (queue.c:121-267, decode.c:775-783)
THEOREM Ownership == Spec => []SlotOwnership
<1>1. IndInv => SlotOwnership
  BY DEF IndInv
<1> QED BY Inductive, <1>1, PTL

\* No thread blocks on cond_queue, or stays blocked, once what it waits for
\* has happened.  (queue.c:146, 214, 105)
THEOREM Wakeups == Spec => []NoLostWakeup
<1>1. IndInv => NoLostWakeup
  BY DEF IndInv
<1> QED BY Inductive, <1>1, PTL

-----------------------------------------------------------------------------
(* PacketQueue implements BoundedFifo.  First the arithmetic of the ring.    *)

\* An index that has gone round tab at most once is brought back by Size.
LEMMA Wrap ==
  ASSUME NEW x \in 0 .. 2 * Size - 1
  PROVE  x % Size = IF x < Size THEN x ELSE x - Size
<1>1. CASE x < Size
  BY <1>1, SizeAssumption
<1>2. CASE x >= Size
  <2>1. x - Size \in 0 .. Size - 1
    BY <1>2, SizeAssumption
  <2>2. (x - Size) % Size = x - Size
    BY <2>1, SizeAssumption
  <2>3. ((x - Size) + Size) % Size = (x - Size) % Size
    BY <2>1, SizeAssumption
  <2> QED
    BY <1>2, <2>2, <2>3, SizeAssumption
<1> QED
  BY <1>1, <1>2, SizeAssumption

\* the slot of the i-th entry
SlotOf(i) == (next_to_read + i - 1) % Size

\* How many slots are used, without the modulo.
LEMMA CountIs ==
  ASSUME TypeOK
  PROVE  /\ Count = IF next_to_read <= next_to_write
                    THEN next_to_write - next_to_read
                    ELSE next_to_write + Size - next_to_read
         /\ Count \in 0 .. Size - 1
<1>1. next_to_write + Size - next_to_read \in 0 .. 2 * Size - 1
  BY SizeAssumption DEF TypeOK, Slots
<1>2. \A x \in 0 .. 2 * Size - 1 : x % Size = IF x < Size THEN x ELSE x - Size
  BY Wrap
<1>3. Count = IF next_to_write + Size - next_to_read < Size
              THEN next_to_write + Size - next_to_read
              ELSE (next_to_write + Size - next_to_read) - Size
  BY <1>1, <1>2, Zenon DEF Count
<1> QED
  BY <1>1, <1>3, SizeAssumption DEF TypeOK, Slots

\* Which slot lies i - 1 behind slot r, without the modulo.
LEMMA SlotAfter ==
  ASSUME NEW r \in Slots, NEW i \in 1 .. Size
  PROVE  (r + i - 1) % Size = IF r + i - 1 < Size THEN r + i - 1
                              ELSE r + i - 1 - Size
<1>1. r + i - 1 \in 0 .. 2 * Size - 1
  BY SizeAssumption DEF Slots
<1>2. (r + i - 1) % Size = IF r + i - 1 < Size THEN r + i - 1
                           ELSE (r + i - 1) - Size
  BY <1>1, Wrap
<1> QED
  BY <1>2, SizeAssumption DEF Slots

\* The slot of an entry.
LEMMA SlotIs ==
  ASSUME TypeOK, NEW i \in 1 .. Size
  PROVE  SlotOf(i) = IF next_to_read + i - 1 < Size THEN next_to_read + i - 1
                     ELSE next_to_read + i - 1 - Size
BY SlotAfter DEF TypeOK, SlotOf

\* The slots of the entries are the used part of the ring, each once, from
\* next_to_read on; the slot behind the last one is the next to be written.
\* (queue.c:121-153, 179-225)
LEMMA SlotsInRange ==
  ASSUME TypeOK
  PROVE  /\ \A i \in 1 .. Count : SlotOf(i) \in Slots /\ InRange(SlotOf(i))
         /\ \A i, j \in 1 .. Count : SlotOf(i) = SlotOf(j) => i = j
         /\ \A s \in Slots : InRange(s) => \E i \in 1 .. Count : SlotOf(i) = s
         /\ Count > 0 => SlotOf(1) = next_to_read
         /\ ~Full => SlotOf(Count + 1) = next_to_write /\ Count < Size - 1
<1> USE SizeAssumption DEF TypeOK, Slots
<1>1. \A i \in 1 .. Count : SlotOf(i) \in Slots /\ InRange(SlotOf(i))
  BY CountIs, SlotIs DEF InRange
<1>2. \A i, j \in 1 .. Count : SlotOf(i) = SlotOf(j) => i = j
  BY CountIs, SlotIs
<1>3. ASSUME NEW s \in Slots, InRange(s) PROVE \E i \in 1 .. Count : SlotOf(i) = s
  <2>1. CASE next_to_read <= s
    <3>1. s - next_to_read + 1 \in 1 .. Count
      BY <1>3, <2>1, CountIs DEF InRange
    <3>2. s - next_to_read + 1 \in 1 .. Size
      BY <3>1, CountIs
    <3>3. SlotOf(s - next_to_read + 1) = s
      BY <2>1, <3>2, SlotIs
    <3> QED
      BY <3>1, <3>3
  <2>2. CASE s < next_to_read
    <3>1. s + Size - next_to_read + 1 \in 1 .. Count
      BY <1>3, <2>2, CountIs DEF InRange
    <3> QED
      BY <2>2, <3>1, SlotIs, CountIs
  <2> QED
    BY <2>1, <2>2
<1>4. Count > 0 => SlotOf(1) = next_to_read
  BY SlotIs, CountIs
<1>5. ASSUME ~Full PROVE SlotOf(Count + 1) = next_to_write /\ Count < Size - 1
  <2>1. queue_get_next(next_to_write)
          = IF next_to_write + 1 = Size THEN 0 ELSE next_to_write + 1
    BY GetNext
  <2>2. Count < Size - 1 /\ Count + 1 \in 1 .. Size
    BY <1>5, <2>1, CountIs DEF Full
  <2> QED
    BY <2>2, SlotIs, CountIs
<1> QED
  BY <1>1, <1>2, <1>3, <1>4, <1>5

\* The state of an entry: its producer, or whether it was pushed completely.
LEMMA StateIs ==
  ASSUME TypeOK, SlotOwnership, NEW s \in Slots
  PROVE  /\ \A p \in Producers : StateOf(s) = p <=> to_write[p] = s
         /\ (\A p \in Producers : to_write[p] # s) =>
              StateOf(s) = IF ready[s] THEN "ready" ELSE "lost"
<1>1. ASSUME NEW p \in Producers, to_write[p] = s PROVE StateOf(s) = p
  <2>1. s # NoSlot
    BY DEF Slots, NoSlot
  <2>2. \A q \in Producers : to_write[q] = s => q = p
    BY <1>1, <2>1 DEF SlotOwnership, ExclusiveWrite
  <2> QED
    BY <1>1, <2>2 DEF StateOf
<1>2. ASSUME \A p \in Producers : to_write[p] # s
      PROVE  StateOf(s) = IF ready[s] THEN "ready" ELSE "lost"
  BY <1>2 DEF StateOf
<1>3. \A p \in Producers : p # "ready" /\ p # "lost"
  BY ThreadAssumption
<1> QED
  BY <1>1, <1>2, <1>3

-----------------------------------------------------------------------------
(* The ring seen as the sequence Entries.                                   *)

StateOK(s) ==
  /\ \A p \in Producers : StateOf(s) = p <=> to_write[p] = s
  /\ (\A p \in Producers : to_write[p] # s) =>
       StateOf(s) = IF ready[s] THEN "ready" ELSE "lost"

SlotsOK ==
  /\ Count \in 0 .. Size - 1
  /\ \A i \in 1 .. Count : SlotOf(i) \in Slots /\ InRange(SlotOf(i))
  /\ \A i, j \in 1 .. Count : SlotOf(i) = SlotOf(j) => i = j
  /\ \A s \in Slots : InRange(s) => \E i \in 1 .. Count : SlotOf(i) = s

\* the i-th entry, and the sequence of all of them
View(i) == [by |-> StateOf(SlotOf(i)), val |-> elem[SlotOf(i)]]
EntriesOK ==
  /\ Entries \in Seq(Fifo!Entry) /\ Len(Entries) = Count
  /\ \A i \in 1 .. Count : Entries[i] = View(i)

ViewOK ==
  /\ SlotsOK /\ \A s \in Slots : StateOK(s)
  /\ Count = IF next_to_read <= next_to_write THEN next_to_write - next_to_read
             ELSE next_to_write + Size - next_to_read
  /\ live => EntriesOK

\* In every state that the invariant allows the ring is such a sequence.
LEMMA Viewed == TypeOK /\ SlotOwnership => ViewOK
<1> SUFFICES ASSUME TypeOK, SlotOwnership PROVE ViewOK
  OBVIOUS
<1>1. SlotsOK
  BY SlotsInRange, CountIs DEF SlotsOK
<1>2. \A s \in Slots : StateOK(s)
  BY StateIs DEF StateOK
<1>3. ASSUME live PROVE EntriesOK
  <2>1. Entries = [i \in 1 .. Count |-> View(i)]
    BY <1>3 DEF Entries, EntryAt, SlotOf, View
  <2>2. Count \in Nat
    BY CountIs, SizeAssumption
  <2>3. ASSUME NEW i \in 1 .. Count PROVE View(i) \in Fifo!Entry
    <3>1. SlotOf(i) \in Slots
      BY <1>1 DEF SlotsOK
    <3>2. StateOf(SlotOf(i)) \in Producers \cup {"ready", "lost"}
      <4>1. CASE \E p \in Producers : to_write[p] = SlotOf(i)
        BY <4>1, <3>1, <1>2 DEF StateOK
      <4>2. CASE \A p \in Producers : to_write[p] # SlotOf(i)
        BY <4>2, <3>1, <1>2 DEF StateOK
      <4> QED
        BY <4>1, <4>2
    <3> QED
      BY <3>1, <3>2 DEF View, Fifo!Entry, Fifo!Ready, Fifo!Lost, TypeOK
  <2> QED
    BY <2>1, <2>2, <2>3 DEF EntriesOK
<1> QED
  BY <1>1, <1>2, <1>3, CountIs DEF ViewOK

\* The same of the next state.
LEMMA ViewedNext == TypeOK' /\ SlotOwnership' => ViewOK'
BY Viewed, PTL

\* The state of an entry changes only with its slot.
LEMMA SameState ==
  ASSUME ViewOK, ViewOK', NEW s \in Slots, ready'[s] = ready[s],
         \A q \in Producers : to_write'[q] = s <=> to_write[q] = s
  PROVE  StateOf(s)' = StateOf(s)
<1>1. StateOK(s) /\ StateOK(s)'
  BY DEF ViewOK
<1> QED
  BY <1>1 DEF StateOK

\* The functions that only wait or wake change no entry.
LEMMA Rests ==
  ASSUME UNCHANGED <<ring, to_write>>
  PROVE  UNCHANGED Fifo!vars
BY DEF ring, Fifo!vars, Entries, Count, EntryAt, StateOf

\* queue_push_start appends an entry.  (queue.c:121-153)
LEMMA PushStartFifo ==
  ASSUME TypeOK, TypeOK', SlotOwnership, ViewOK, ViewOK',
         NEW p \in Producers, PushStart(p)
  PROVE  Fifo!Reserve(p)
<1> PICK n \in 0 .. Size - 1 : n = Count
  BY DEF ViewOK, SlotsOK
<1> PICK w \in Slots : w = next_to_write
  BY DEF TypeOK
<1>1. /\ ~Full /\ live /\ live' /\ to_write[p] = NoSlot
      /\ next_to_read' = next_to_read
      /\ to_write' = [to_write EXCEPT ![p] = w]
      /\ ready' = [ready EXCEPT ![w] = FALSE]
      /\ next_to_write' = queue_get_next(w) /\ elem' = elem /\ in_read' = in_read
  BY DEF PushStart, CanPush, Runs
<1>2. Count' = n + 1 /\ n < Size - 1 /\ SlotOf(n + 1) = w
  <2>1. queue_get_next(w) = IF w + 1 = Size THEN 0 ELSE w + 1
    BY GetNext
  <2>2. n < Size - 1 /\ SlotOf(n + 1) = w
    BY <1>1, SlotsInRange
  <2> QED
    BY <1>1, <2>1, <2>2, SizeAssumption DEF ViewOK, TypeOK, Slots, Full
<1>3. \A i : SlotOf(i)' = SlotOf(i)
  BY <1>1 DEF SlotOf
<1>4. ASSUME NEW i \in 1 .. n PROVE View(i)' = View(i)
  <2> PICK s \in Slots : s = SlotOf(i)
    BY DEF ViewOK, SlotsOK
  <2>1. s # w /\ s # NoSlot
    BY <1>1, RangeGrows DEF ViewOK, SlotsOK, NoSlot, Slots
  <2>2. ready'[s] = ready[s]
    BY <1>1, <2>1 DEF TypeOK
  <2>3. \A q \in Producers : to_write'[q] = s <=> to_write[q] = s
    BY <1>1, <2>1 DEF TypeOK
  <2>4. StateOf(s)' = StateOf(s)
    BY <2>2, <2>3, SameState
  <2> QED
    BY <1>1, <1>3, <2>4 DEF View
<1> DEFINE e == [by |-> p, val |-> elem[w]]
<1>5. View(n + 1)' = e
  <2>1. StateOK(w)'
    BY <1>1 DEF ViewOK
  <2>2. StateOf(w)' = p
    BY <1>1, <2>1 DEF StateOK, TypeOK
  <2> QED
    BY <1>1, <1>2, <1>3, <2>2 DEF View
<1>6. e \in Fifo!Entry
  BY DEF Fifo!Entry, TypeOK
<1> HIDE DEF e
<1>7. /\ Append(Entries, e) \in Seq(Fifo!Entry) /\ Len(Append(Entries, e)) = n + 1
      /\ \A i \in 1 .. n : Append(Entries, e)[i] = View(i)
      /\ Append(Entries, e)[n + 1] = e
  BY <1>1, <1>6, AppendProperties DEF ViewOK, EntriesOK
<1>8. /\ Entries' \in Seq(Fifo!Entry) /\ Len(Entries') = n + 1
      /\ \A i \in 1 .. n : Entries'[i] = View(i)
      /\ Entries'[n + 1] = e
  <2>1. \A i \in 1 .. n + 1 : Entries'[i] = View(i)'
    BY <1>1, <1>2 DEF ViewOK, EntriesOK
  <2>2. Entries' \in Seq(Fifo!Entry) /\ Len(Entries') = n + 1
    BY <1>1, <1>2 DEF ViewOK, EntriesOK
  <2> QED
    BY <1>4, <1>5, <2>1, <2>2
<1>9. Entries' = Append(Entries, e)
  <2>1. \A i \in 1 .. n + 1 : Entries'[i] = Append(Entries, e)[i]
    BY <1>7, <1>8
  <2> QED
    BY <1>7, <1>8, <2>1, SeqEqual
<1>10. ~Fifo!Holds(p)
  <2> SUFFICES ASSUME NEW i \in 1 .. n PROVE Entries[i].by # p
    BY <1>1 DEF Fifo!Holds, ViewOK, EntriesOK
  <2> PICK s \in Slots : s = SlotOf(i)
    BY DEF ViewOK, SlotsOK
  <2>1. StateOf(s) # p
    BY <1>1 DEF ViewOK, StateOK, NoSlot, Slots
  <2>2. Entries[i] = View(i)
    BY <1>1 DEF ViewOK, EntriesOK
  <2> QED
    BY <2>1, <2>2 DEF View
<1>11. elem[w] \in Values
  BY DEF TypeOK
<1> QED
  BY <1>1, <1>2, <1>9, <1>10, <1>11 DEF Fifo!Reserve, e, ViewOK, EntriesOK

\* A step that moves no index and touches one slot changes one entry.
LEMMA OneChanges ==
  ASSUME TypeOK, TypeOK', ViewOK, ViewOK', live, live',
         UNCHANGED <<next_to_read, next_to_write>>,
         NEW k \in 1 .. Count, NEW s \in Slots, SlotOf(k) = s,
         \A u \in Slots \ {s} :
           /\ ready'[u] = ready[u] /\ elem'[u] = elem[u]
           /\ \A q \in Producers : to_write'[q] = u <=> to_write[q] = u
  PROVE  /\ k \in DOMAIN Entries
         /\ Entries[k] = [by |-> StateOf(s), val |-> elem[s]]
         /\ Entries' = [Entries EXCEPT ![k] = [by |-> StateOf(s)', val |-> elem'[s]]]
<1> PICK n \in 0 .. Size - 1 : n = Count
  BY DEF ViewOK, SlotsOK
<1>1. Count' = n /\ \A i : SlotOf(i)' = SlotOf(i)
  BY DEF SlotOf, Count
<1>2. ASSUME NEW i \in 1 .. n, i # k PROVE View(i)' = View(i)
  <2> PICK u \in Slots : u = SlotOf(i)
    BY DEF ViewOK, SlotsOK
  <2>1. u # s
    BY <1>2 DEF ViewOK, SlotsOK
  <2>2. StateOf(u)' = StateOf(u)
    BY <2>1, SameState
  <2> QED
    BY <1>1, <2>1, <2>2 DEF View
<1> DEFINE e == [by |-> StateOf(s)', val |-> elem'[s]]
<1>3. View(k)' = e
  BY <1>1 DEF View
<1>4. /\ Entries \in Seq(Fifo!Entry) /\ Len(Entries) = n
      /\ \A i \in 1 .. n : Entries[i] = View(i)
  BY DEF ViewOK, EntriesOK
<1>5. /\ Entries' \in Seq(Fifo!Entry) /\ Len(Entries') = n
      /\ \A i \in 1 .. n : Entries'[i] = View(i)'
  BY <1>1 DEF ViewOK, EntriesOK
<1>6. e \in Fifo!Entry
  BY <1>3, <1>5
<1> HIDE DEF e
<1>7. Entries' = [Entries EXCEPT ![k] = e]
  <2>1. /\ [Entries EXCEPT ![k] = e] \in Seq(Fifo!Entry)
        /\ Len([Entries EXCEPT ![k] = e]) = n
        /\ \A i \in 1 .. n :
             [Entries EXCEPT ![k] = e][i] = IF i = k THEN e ELSE Entries[i]
    BY <1>4, <1>6, ExceptSeq
  <2>2. \A i \in 1 .. n : Entries'[i] = [Entries EXCEPT ![k] = e][i]
    BY <1>2, <1>3, <1>4, <1>5, <2>1
  <2> QED
    BY <1>5, <2>1, <2>2, SeqEqual
<1> QED
  BY <1>4, <1>7 DEF e, View

\* The slot a producer has reserved is an entry, and its alone.
LEMMA HeldEntry ==
  ASSUME TypeOK, SlotOwnership, ViewOK, NEW p \in Producers, to_write[p] # NoSlot
  PROVE  \E k \in 1 .. Count, s \in Slots :
           /\ SlotOf(k) = s /\ to_write[p] = s /\ StateOf(s) = p /\ ~ready[s]
           /\ \A q \in Producers \ {p} : to_write[q] # s
<1>1. to_write[p] \in Slots /\ InRange(to_write[p]) /\ ~ready[to_write[p]]
  BY DEF TypeOK, SlotOwnership, ExclusiveWrite
<1>2. \A q \in Producers \ {p} : to_write[q] # to_write[p]
  BY DEF SlotOwnership, ExclusiveWrite
<1>3. StateOf(to_write[p]) = p
  BY <1>1 DEF ViewOK, StateOK
<1>4. \E k \in 1 .. Count : SlotOf(k) = to_write[p]
  BY <1>1 DEF ViewOK, SlotsOK
<1> QED
  BY <1>1, <1>2, <1>3, <1>4

\* The slot to be read is the first entry.
LEMMA ReadEntry ==
  ASSUME TypeOK, ViewOK, InRange(next_to_read)
  PROVE  1 \in 1 .. Count /\ SlotOf(1) = next_to_read /\ (live => Entries # <<>>)
<1>1. \E i \in 1 .. Count : TRUE
  BY DEF ViewOK, SlotsOK, TypeOK
<1>2. Count \in Nat /\ Count > 0
  BY <1>1, SizeAssumption DEF ViewOK, SlotsOK
<1>3. live => Len(Entries) > 0
  BY <1>2 DEF ViewOK, EntriesOK
<1>4. live => Entries # <<>>
  BY <1>3
<1> QED
  BY <1>2, <1>4, SlotsInRange

\* Filling, finishing or abandoning a push changes the producer's entry.
\* (queue.c:155-177; decode.c:775-783)
LEMMA PushEnds ==
  ASSUME TypeOK, TypeOK', SlotOwnership, ViewOK, ViewOK', NEW p \in Producers
  PROVE  /\ PushFinish(p) => Fifo!Commit(p)
         /\ PushAbandon(p) => Fifo!GiveUp(p)
         /\ \A v \in Values : Fill(p, v) => Fifo!Write(p, v)
<1> SUFFICES ASSUME Pushing(p)
             PROVE  /\ PushFinish(p) => Fifo!Commit(p)
                    /\ PushAbandon(p) => Fifo!GiveUp(p)
                    /\ \A v \in Values : Fill(p, v) => Fifo!Write(p, v)
  BY DEF PushFinish, PushAbandon, Fill
<1> live /\ to_write[p] # NoSlot
  BY DEF Pushing, Runs
<1> PICK k \in 1 .. Count, s \in Slots :
      /\ SlotOf(k) = s /\ to_write[p] = s /\ StateOf(s) = p /\ ~ready[s]
      /\ \A q \in Producers \ {p} : to_write[q] # s
  BY HeldEntry
<1>0. s # NoSlot
  BY DEF Slots, NoSlot
<1>1. ASSUME PushFinish(p) PROVE Fifo!Commit(p)
  <2>1. /\ live' /\ UNCHANGED <<next_to_read, next_to_write, elem, in_read, live>>
        /\ ready' = [ready EXCEPT ![s] = TRUE]
        /\ to_write' = [to_write EXCEPT ![p] = NoSlot]
    BY <1>1 DEF PushFinish
  <2>2. \A u \in Slots \ {s} :
           /\ ready'[u] = ready[u] /\ elem'[u] = elem[u]
           /\ \A q \in Producers : to_write'[q] = u <=> to_write[q] = u
    BY <2>1 DEF TypeOK, Slots, NoSlot
  <2>3. StateOf(s)' = "ready"
    <3>1. StateOK(s)'
      BY DEF ViewOK
    <3>2. ready'[s] /\ \A q \in Producers : to_write'[q] # s
      BY <1>0, <2>1 DEF TypeOK
    <3> QED
      BY <3>1, <3>2 DEF StateOK
  <2>4. /\ k \in DOMAIN Entries /\ Entries[k] = [by |-> p, val |-> elem[s]]
        /\ Entries' = [Entries EXCEPT ![k] = [by |-> "ready", val |-> elem[s]]]
    <3>1. /\ k \in DOMAIN Entries /\ Entries[k] = [by |-> StateOf(s), val |-> elem[s]]
          /\ Entries' = [Entries EXCEPT ![k] = [by |-> StateOf(s)', val |-> elem'[s]]]
      <4>1. live' /\ UNCHANGED <<next_to_read, next_to_write>>
        BY <2>1
      <4> QED
        BY <2>2, <4>1, OneChanges
    <3> QED
      BY <2>1, <2>3, <3>1
  <2>5. Entries' = [Entries EXCEPT ![k].by = "ready"]
    <3>1. [Entries[k] EXCEPT !.by = "ready"] = [by |-> "ready", val |-> elem[s]]
      BY <2>4
    <3>2. [Entries EXCEPT ![k].by = "ready"]
            = [Entries EXCEPT ![k] = [Entries[k] EXCEPT !.by = "ready"]]
      OBVIOUS
    <3> QED
      BY <2>4, <3>1, <3>2, Zenon
  <2>6. Entries[k].by = p /\ UNCHANGED <<live, in_read>>
    BY <2>1, <2>4
  <2> QED
    BY <2>4, <2>5, <2>6, Zenon DEF Fifo!Commit, Fifo!Mark, Fifo!Ready
<1>2. ASSUME PushAbandon(p) PROVE Fifo!GiveUp(p)
  <2>1. /\ live'
        /\ UNCHANGED <<next_to_read, next_to_write, elem, in_read, live, ready>>
        /\ to_write' = [to_write EXCEPT ![p] = NoSlot]
    BY <1>2 DEF PushAbandon, ring
  <2>2. \A u \in Slots \ {s} :
           /\ ready'[u] = ready[u] /\ elem'[u] = elem[u]
           /\ \A q \in Producers : to_write'[q] = u <=> to_write[q] = u
    BY <2>1 DEF TypeOK, Slots, NoSlot
  <2>3. StateOf(s)' = "lost"
    <3>1. StateOK(s)'
      BY DEF ViewOK
    <3>2. ~ready'[s] /\ \A q \in Producers : to_write'[q] # s
      BY <1>0, <2>1 DEF TypeOK
    <3> QED
      BY <3>1, <3>2 DEF StateOK
  <2>4. /\ k \in DOMAIN Entries /\ Entries[k] = [by |-> p, val |-> elem[s]]
        /\ Entries' = [Entries EXCEPT ![k] = [by |-> "lost", val |-> elem[s]]]
    BY <2>1, <2>2, <2>3, OneChanges
  <2>5. Entries' = [Entries EXCEPT ![k].by = "lost"]
    <3>1. [Entries[k] EXCEPT !.by = "lost"] = [by |-> "lost", val |-> elem[s]]
      BY <2>4
    <3>2. [Entries EXCEPT ![k].by = "lost"]
            = [Entries EXCEPT ![k] = [Entries[k] EXCEPT !.by = "lost"]]
      OBVIOUS
    <3> QED
      BY <2>4, <3>1, <3>2, Zenon
  <2>6. Entries[k].by = p /\ UNCHANGED <<live, in_read>>
    BY <2>1, <2>4
  <2> QED
    BY <2>4, <2>5, <2>6, Zenon DEF Fifo!GiveUp, Fifo!Mark, Fifo!Lost
<1>3. ASSUME NEW v \in Values, Fill(p, v) PROVE Fifo!Write(p, v)
  <2>1. /\ live'
        /\ UNCHANGED <<next_to_read, next_to_write, to_write, in_read, live, ready>>
        /\ elem' = [elem EXCEPT ![s] = v]
    BY <1>3 DEF Fill
  <2>2. \A u \in Slots \ {s} :
           /\ ready'[u] = ready[u] /\ elem'[u] = elem[u]
           /\ \A q \in Producers : to_write'[q] = u <=> to_write[q] = u
    BY <2>1 DEF TypeOK
  <2>3. StateOf(s)' = p /\ elem'[s] = v
    BY <2>1, SameState DEF TypeOK
  <2>4. /\ k \in DOMAIN Entries /\ Entries[k] = [by |-> p, val |-> elem[s]]
        /\ Entries' = [Entries EXCEPT ![k] = [by |-> p, val |-> v]]
    BY <2>1, <2>2, <2>3, OneChanges
  <2>5. Entries' = [Entries EXCEPT ![k].val = v]
    <3>1. [Entries[k] EXCEPT !.val = v] = [by |-> p, val |-> v]
      BY <2>4
    <3>2. [Entries EXCEPT ![k].val = v]
            = [Entries EXCEPT ![k] = [Entries[k] EXCEPT !.val = v]]
      OBVIOUS
    <3> QED
      BY <2>4, <3>1, <3>2, Zenon
  <2>6. Entries[k].by = p /\ UNCHANGED <<live, in_read>>
    BY <2>1, <2>4
  <2> QED
    BY <2>4, <2>5, <2>6, Zenon DEF Fifo!Write
<1> QED
  BY <1>1, <1>2, <1>3

\* The consumer takes, changes, drops and puts back the first entry.
\* (queue.c:179-267)
LEMMA Pops ==
  ASSUME TypeOK, TypeOK', SlotOwnership, SlotOwnership', ViewOK, ViewOK'
  PROVE  /\ PopStart => Fifo!Take
         /\ PopFinish => Fifo!Drop
         /\ PopRollBack => Fifo!PutBack
         /\ \A v \in Values : Use(v) => Fifo!Use(v)
<1>0. ASSUME in_read
      PROVE  InRange(next_to_read) /\ ready[next_to_read]
  BY <1>0 DEF SlotOwnership, ReadsComplete
<1>1. ASSUME PopStart PROVE Fifo!Take
  <2>1. /\ live /\ live' /\ ~in_read /\ in_read' /\ Readable
        /\ UNCHANGED <<live, next_to_read, next_to_write, ready, elem, to_write>>
    BY <1>1 DEF PopStart, CanPop, Runs
  <2>2. Entries' = Entries
    BY <2>1 DEF Entries, Count, EntryAt, StateOf
  <2>3. InRange(next_to_read)
    BY <2>1, SizeAssumption DEF Readable, InRange, TypeOK, Slots
  <2>4. 1 \in 1 .. Count /\ SlotOf(1) = next_to_read /\ Entries # <<>>
    BY <2>1, <2>3, ReadEntry
  <2>5. StateOf(next_to_read) = "ready"
    <3>1. \A p \in Producers : to_write[p] # next_to_read
      BY <2>1 DEF SlotOwnership, ExclusiveWrite, Readable, TypeOK, NoSlot, Slots
    <3> QED
      BY <3>1, <2>1 DEF ViewOK, StateOK, TypeOK, Readable
  <2>6. Head(Entries) = [by |-> "ready", val |-> elem[next_to_read]]
    <3>1. Entries[1] = View(1)
      BY <2>1, <2>4 DEF ViewOK, EntriesOK
    <3>2. Head(Entries) = Entries[1]
      BY <2>1, <2>4 DEF ViewOK, EntriesOK
    <3> QED
      BY <2>4, <2>5, <3>1, <3>2 DEF View
  <2> QED
    BY <2>1, <2>2, <2>4, <2>6 DEF Fifo!Take, Fifo!Ready
<1>2. ASSUME PopFinish PROVE Fifo!Drop
  <2>1. /\ live /\ live' /\ in_read /\ in_read' = FALSE
        /\ next_to_read' = queue_get_next(next_to_read)
        /\ UNCHANGED <<live, next_to_write, ready, elem, to_write>>
    BY <1>2 DEF PopFinish, Runs
  <2> PICK n \in 0 .. Size - 1 : n = Count
    BY DEF ViewOK, SlotsOK
  <2>2. queue_get_next(next_to_read)
          = IF next_to_read + 1 = Size THEN 0 ELSE next_to_read + 1
    BY GetNext DEF TypeOK
  <2>3. n > 0 /\ Entries # <<>>
    BY <1>0, <2>1, ReadEntry
  <2>4. Count' = n - 1
    BY <2>1, <2>2, <2>3, SizeAssumption DEF ViewOK, TypeOK, Slots
  <2>5. ASSUME NEW i \in 1 .. n - 1 PROVE View(i)' = View(i + 1)
    <3>1. SlotOf(i)' = SlotOf(i + 1)
      <4>1. SlotOf(i + 1) = IF next_to_read + i < Size THEN next_to_read + i
                            ELSE next_to_read + i - Size
        <5> PICK j \in 1 .. Size : j = i + 1
          BY SizeAssumption
        <5>1. SlotOf(j) = IF next_to_read + j - 1 < Size THEN next_to_read + j - 1
                          ELSE next_to_read + j - 1 - Size
          BY SlotIs
        <5> QED
          BY <5>1, SizeAssumption DEF TypeOK, Slots
      <4>2. SlotOf(i)' = IF next_to_read' + i - 1 < Size THEN next_to_read' + i - 1
                         ELSE next_to_read' + i - 1 - Size
        <5>1. i \in 1 .. Size /\ next_to_read' \in Slots
          BY SizeAssumption DEF TypeOK
        <5> QED
          BY <5>1, SlotAfter DEF SlotOf
      <4> QED
        BY <4>1, <4>2, <2>1, <2>2, SizeAssumption DEF TypeOK, Slots
    <3> PICK s \in Slots : s = SlotOf(i + 1)
      BY DEF ViewOK, SlotsOK
    <3>2. StateOf(s)' = StateOf(s)
      BY <2>1, SameState
    <3> QED
      BY <3>1, <3>2, <2>1 DEF View
  <2>6. /\ Entries \in Seq(Fifo!Entry) /\ Len(Entries) = n
        /\ \A i \in 1 .. n : Entries[i] = View(i)
    BY <2>1 DEF ViewOK, EntriesOK
  <2>7. /\ Entries' \in Seq(Fifo!Entry) /\ Len(Entries') = n - 1
        /\ \A i \in 1 .. n - 1 : Entries'[i] = View(i)'
    BY <2>1, <2>4 DEF ViewOK, EntriesOK
  <2>8. /\ Tail(Entries) \in Seq(Fifo!Entry) /\ Len(Tail(Entries)) = n - 1
        /\ \A i \in 1 .. n - 1 : Tail(Entries)[i] = Entries[i + 1]
    BY <2>3, <2>6, HeadTailProperties
  <2>9. \A i \in 1 .. n - 1 : Entries'[i] = Tail(Entries)[i]
    BY <2>5, <2>6, <2>7, <2>8
  <2>10. Entries' = Tail(Entries)
    BY <2>7, <2>8, <2>9, SeqEqual
  <2> QED
    BY <2>1, <2>10 DEF Fifo!Drop
<1>3. ASSUME PopRollBack PROVE Fifo!PutBack
  BY <1>3 DEF PopRollBack, Runs, Fifo!PutBack, Entries, Count, EntryAt, StateOf
<1>4. ASSUME NEW v \in Values, Use(v) PROVE Fifo!Use(v)
  <2> PICK s \in Slots : s = next_to_read
    BY DEF TypeOK
  <2>1. /\ live /\ live' /\ in_read
        /\ UNCHANGED <<next_to_read, next_to_write, to_write, in_read, live, ready>>
        /\ elem' = [elem EXCEPT ![s] = v]
    BY <1>4 DEF Use, Runs
  <2>2. \A u \in Slots \ {s} :
           /\ ready'[u] = ready[u] /\ elem'[u] = elem[u]
           /\ \A q \in Producers : to_write'[q] = u <=> to_write[q] = u
    BY <2>1 DEF TypeOK
  <2>3. StateOf(s)' = StateOf(s) /\ elem'[s] = v
    BY <2>1, SameState DEF TypeOK
  <2>4. 1 \in 1 .. Count /\ SlotOf(1) = s
    BY <1>0, <2>1, ReadEntry
  <2>5. /\ Entries[1] = [by |-> StateOf(s), val |-> elem[s]]
        /\ Entries' = [Entries EXCEPT ![1] = [by |-> StateOf(s), val |-> v]]
    BY <2>1, <2>2, <2>3, <2>4, OneChanges
  <2>6. Entries' = [Entries EXCEPT ![1].val = v]
    <3>1. [Entries[1] EXCEPT !.val = v] = [by |-> StateOf(s), val |-> v]
      BY <2>5
    <3>2. [Entries EXCEPT ![1].val = v]
            = [Entries EXCEPT ![1] = [Entries[1] EXCEPT !.val = v]]
      OBVIOUS
    <3> QED
      BY <2>5, <3>1, <3>2, Zenon
  <2> QED
    BY <2>1, <2>6 DEF Fifo!Use
<1> QED
  BY <1>1, <1>2, <1>3, <1>4

\* Every step of the queue is one of the FIFO, or changes nothing there.
LEMMA FifoStep == IndInv /\ IndInv' /\ [Next]_vars => [Fifo!Next]_Fifo!vars
<1> SUFFICES ASSUME IndInv, IndInv', [Next]_vars PROVE [Fifo!Next]_Fifo!vars
  OBVIOUS
<1>0. TypeOK /\ TypeOK' /\ SlotOwnership /\ SlotOwnership' /\ ViewOK /\ ViewOK'
  BY Viewed, ViewedNext DEF IndInv
<1>1. CASE QueueInit
  <2>1. Count' = 0
    BY <1>0, <1>1, SizeAssumption DEF QueueInit, ViewOK
  <2>2. Entries' = <<>>
    BY <1>0, <1>1, <2>1, EmptySeq DEF QueueInit, ViewOK, EntriesOK
  <2>3. Fifo!Open
    BY <1>1, <2>2 DEF QueueInit, Fifo!Open
  <2> QED
    BY <2>3 DEF Fifo!Next
<1>2. ASSUME NEW p \in Producers,
             \/ PushStart(p) \/ PushFinish(p) \/ PushAbandon(p)
             \/ \E v \in Values : Fill(p, v)
      PROVE  Fifo!Next
  BY <1>0, <1>2, PushStartFifo, PushEnds DEF Fifo!Next
<1>3. CASE PopStart \/ PopFinish \/ PopRollBack \/ \E v \in Values : Use(v)
  BY <1>0, <1>3, Pops DEF Fifo!Next
<1>4. CASE Quiescent /\ Free
  <2>1. \A p \in Producers : ~Fifo!Holds(p)
    <3> SUFFICES ASSUME NEW p \in Producers, NEW i \in 1 .. Count
                 PROVE  Entries[i].by # p
      BY <1>0, <1>4 DEF Fifo!Holds, ViewOK, EntriesOK, Free, Runs
    <3> PICK s \in Slots : s = SlotOf(i)
      BY <1>0 DEF ViewOK, SlotsOK
    <3>1. to_write[p] # s
      BY <1>4 DEF Quiescent, Slots, NoSlot
    <3>2. StateOf(s) # p
      BY <1>0, <3>1 DEF ViewOK, StateOK
    <3>3. Entries[i] = View(i)
      BY <1>0, <1>4 DEF ViewOK, EntriesOK, Free, Runs
    <3> QED
      BY <3>2, <3>3 DEF View
  <2>2. Fifo!Close
    BY <1>4, <2>1 DEF Free, Runs, Fifo!Close, Entries
  <2> QED
    BY <2>2 DEF Fifo!Next
<1>5. ASSUME UNCHANGED <<ring, to_write>> PROVE UNCHANGED Fifo!vars
  BY <1>5, Rests
<1> QED
  BY <1>1, <1>2, <1>3, <1>4, <1>5 DEF Next, PushWait, PopWait, FreeWait, Wake, vars

\* The ring is a bounded FIFO for any size and any number of producers: at
\* most Size - 1 entries, taken in the order of reservation and only complete.
\* (queue.c:47-267)
THEOREM Refinement == Spec => ImplementsFifo
<1>1. Init => Fifo!Init
  BY DEF Init, Fifo!Init, Entries
<1>2. Spec => [][Fifo!Next]_Fifo!vars
  BY Inductive, FifoStep, PTL DEF Spec
<1> QED
  BY <1>1, <1>2, PTL DEF ImplementsFifo, Fifo!Spec, Spec
=============================================================================
