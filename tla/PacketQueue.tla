---------------------------- MODULE PacketQueue ----------------------------
(* queue.c: the ring of preallocated packets between the thread that reads  *)
(* the stream and the thread that decodes it.  Every function runs under    *)
(* the caller's mutex_queue, so a critical section is one action; the       *)
(* contents of an element are written and read outside the mutex and have   *)
(* actions of their own.  cond_queue is one condition variable for every    *)
(* reason to wait: a thread that tests a condition and finds it false joins *)
(* "waiting", a broadcast empties it, and the thread tests again.           *)
EXTENDS Integers

CONSTANTS Size,        \* elements of tab; one of them always stays free
          Producers,   \* threads that call queue_push_start / _finish
          Consumer,    \* the thread that calls queue_pop_start / _finish
          Owner,       \* the thread that calls queue_init and queue_free
          Values,      \* what an element may hold
          Fresh        \* the values malloc may leave in a new element

ASSUME SizeAssumption == Size \in Nat \ {0}
ASSUME ThreadAssumption ==
  /\ Consumer \notin Producers /\ Owner \notin Producers /\ Owner # Consumer
  /\ Producers \cap {"ready", "lost"} = {}      \* states of an entry, see Entries
ASSUME FreshAssumption == Fresh \subseteq Values

VARIABLES
  live,           \* the queue is allocated
  next_to_write, next_to_read,
  ready,          \* ready[s]: the element of slot s was pushed completely
  in_read,        \* the consumer works on the element of next_to_read
  elem,           \* elem[s]: contents of the element tab[s] points to
  to_write,       \* to_write[p]: the slot p has reserved, or NoSlot
  waiting         \* threads blocked in pthread_cond_wait on cond_queue

ring == <<live, next_to_write, next_to_read, ready, in_read, elem>>
vars == <<ring, to_write, waiting>>

Slots   == 0 .. Size - 1
NoSlot  == -1
Threads == Producers \cup {Consumer, Owner}

Broadcast == waiting' = {}
Block(t)  == waiting' = waiting \cup {t}
Runs(t)   == live /\ t \notin waiting

MutGetNext(v) == v + 1
queue_get_next(v) == (v + 1) % Size

\* the tests the two loops make before they wait
MutFull == next_to_write + 1 = next_to_read
Full == queue_get_next(next_to_write) = next_to_read
Readable == next_to_read # next_to_write /\ ready[next_to_read]

Init ==
  /\ live = FALSE /\ next_to_write = 0 /\ next_to_read = 0 /\ in_read = FALSE
  /\ ready = [s \in Slots |-> FALSE]
  /\ elem \in [Slots -> Fresh]
  /\ to_write = [p \in Producers |-> NoSlot]
  /\ waiting = {}

\* queue_init_with_custom_lock: "ready" comes from malloc and is not cleared
MutQueueInit ==
  /\ ~live
  /\ live' = TRUE /\ in_read' = FALSE
  /\ ready' \in [Slots -> BOOLEAN]
  /\ elem' \in [Slots -> Fresh]
  /\ UNCHANGED <<next_to_write, next_to_read, to_write, waiting>>
QueueInit ==
  /\ ~live
  /\ live' = TRUE /\ next_to_write' = 0 /\ next_to_read' = 0
  /\ in_read' = FALSE
  /\ ready' \in [Slots -> BOOLEAN]
  /\ elem' \in [Slots -> Fresh]
  /\ UNCHANGED <<to_write, waiting>>

(***************************************************************************)
(* Push.  A thread pushes one element at a time.                           *)
(***************************************************************************)
CanPush(p) == Runs(p) /\ to_write[p] = NoSlot

PushStart(p) ==
  /\ CanPush(p) /\ ~Full
  /\ to_write' = [to_write EXCEPT ![p] = next_to_write]
  /\ ready' = [ready EXCEPT ![next_to_write] = FALSE]
  /\ next_to_write' = queue_get_next(next_to_write)
  /\ Broadcast
  /\ UNCHANGED <<live, next_to_read, in_read, elem>>

PushWait(p) == CanPush(p) /\ Full /\ Block(p) /\ UNCHANGED <<ring, to_write>>

Pushing(p) == Runs(p) /\ to_write[p] # NoSlot

\* the producer writes the element it reserved, without the mutex
Fill(p, v) ==
  /\ Pushing(p)
  /\ elem' = [elem EXCEPT ![to_write[p]] = v]
  /\ UNCHANGED <<live, next_to_write, next_to_read, ready, in_read,
                 to_write, waiting>>

MutPushFinish(p) ==
  /\ Pushing(p)
  /\ ready' = [ready EXCEPT ![to_write[p]] = TRUE]
  /\ to_write' = [to_write EXCEPT ![p] = NoSlot]
  /\ UNCHANGED <<live, next_to_write, next_to_read, in_read, elem, waiting>>
PushFinish(p) ==
  /\ Pushing(p)
  /\ ready' = [ready EXCEPT ![to_write[p]] = TRUE]
  /\ to_write' = [to_write EXCEPT ![p] = NoSlot]
  /\ Broadcast
  /\ UNCHANGED <<live, next_to_write, next_to_read, in_read, elem>>

\* the producer jumps to its exit between start and finish: the slot stays
\* reserved, never ready, and blocks everything behind it
PushAbandon(p) ==
  /\ Pushing(p)
  /\ to_write' = [to_write EXCEPT ![p] = NoSlot]
  /\ UNCHANGED <<ring, waiting>>

(***************************************************************************)
(* Pop.  The consumer starts a pop only when no other is under way, which  *)
(* is what the functions assert.                                           *)
(***************************************************************************)
CanPop == Runs(Consumer) /\ ~in_read

PopStart ==
  /\ CanPop /\ Readable
  /\ in_read' = TRUE
  /\ UNCHANGED <<live, next_to_write, next_to_read, ready, elem,
                 to_write, waiting>>

PopWait ==
  CanPop /\ ~Readable /\ Block(Consumer) /\ UNCHANGED <<ring, to_write>>

\* the consumer changes the element it is working on, without the mutex
Use(v) ==
  /\ Runs(Consumer) /\ in_read
  /\ elem' = [elem EXCEPT ![next_to_read] = v]
  /\ UNCHANGED <<live, next_to_write, next_to_read, ready, in_read,
                 to_write, waiting>>

MutPopFinish ==
  /\ Runs(Consumer) /\ in_read
  /\ in_read' = FALSE
  /\ next_to_read' = queue_get_next(next_to_read)
  /\ UNCHANGED <<live, next_to_write, ready, elem, to_write, waiting>>
PopFinish ==
  /\ Runs(Consumer) /\ in_read
  /\ in_read' = FALSE
  /\ next_to_read' = queue_get_next(next_to_read)
  /\ Broadcast
  /\ UNCHANGED <<live, next_to_write, ready, elem, to_write>>

PopRollBack ==
  /\ Runs(Consumer) /\ in_read
  /\ in_read' = FALSE
  /\ Broadcast
  /\ UNCHANGED <<live, next_to_write, next_to_read, ready, elem, to_write>>

(***************************************************************************)
(* queue_free waits for the consumer and for nobody else: that no producer *)
(* holds a slot and that nobody is blocked is the caller's contract.       *)
(***************************************************************************)
Quiescent == waiting \subseteq {Owner} /\ \A p \in Producers : to_write[p] = NoSlot

FreeWait ==
  Runs(Owner) /\ in_read /\ Block(Owner) /\ UNCHANGED <<ring, to_write>>

Free ==
  /\ Runs(Owner) /\ ~in_read
  /\ live' = FALSE
  /\ UNCHANGED <<next_to_write, next_to_read, ready, in_read, elem,
                 to_write, waiting>>

\* a spurious wake-up, a timeout, or a broadcast about something else
Wake ==
  /\ waiting' \in SUBSET waiting /\ waiting' # waiting
  /\ UNCHANGED <<ring, to_write>>

Next ==
  \/ QueueInit \/ Wake
  \/ Quiescent /\ (FreeWait \/ Free)
  \/ \E p \in Producers :
       \/ PushStart(p) \/ PushWait(p) \/ PushFinish(p) \/ PushAbandon(p)
       \/ \E v \in Values : Fill(p, v)
  \/ PopStart \/ PopWait \/ PopFinish \/ PopRollBack \/ \E v \in Values : Use(v)

Spec == Init /\ [][Next]_vars

(***************************************************************************)
(* A thread that holds an element ends its work on it, and a consumer that *)
(* could take an element does: both threads are loops without other waits. *)
(* A blocked thread is not helped: it depends on being woken.              *)
(***************************************************************************)
Fairness ==
  /\ WF_vars(PopStart) /\ WF_vars(PopFinish \/ PopRollBack)
  /\ \A p \in Producers : WF_vars(PushFinish(p) \/ PushAbandon(p))

FairSpec == Spec /\ Fairness

-----------------------------------------------------------------------------
\* The variables keep their types: indices stay inside tab.  (queue.c:33-45)
TypeOK ==
  /\ live \in BOOLEAN /\ in_read \in BOOLEAN
  /\ next_to_write \in Slots /\ next_to_read \in Slots
  /\ ready \in [Slots -> BOOLEAN]
  /\ elem \in [Slots -> Values]
  /\ to_write \in [Producers -> Slots \cup {NoSlot}]
  /\ waiting \subseteq Threads

\* s lies in the part of the ring that was reserved and not yet given back
InRange(s) ==
  IF next_to_read <= next_to_write
    THEN next_to_read <= s /\ s < next_to_write
    ELSE next_to_read <= s \/ s < next_to_write

\* Two producers never write the same slot, a slot being written is inside
\* the used part of the ring and not ready.  (queue.c:121-153)
ExclusiveWrite ==
  \A p \in Producers :
    to_write[p] # NoSlot =>
      /\ InRange(to_write[p]) /\ ~ready[to_write[p]]
      /\ \A q \in Producers \ {p} : to_write[q] # to_write[p]

\* The consumer only works on a slot that was completely pushed and that no
\* producer can be given again meanwhile.  (queue.c:179-225)
ReadsComplete ==
  in_read => InRange(next_to_read) /\ ready[next_to_read]

\* So an element written and read outside the mutex has one user at a time.
\* (decode.c:775-783 against decode.c:121-171)
SlotOwnership == ExclusiveWrite /\ ReadsComplete

\* Nobody sleeps through the event it waits for, although one condition
\* variable serves every reason to wait: a blocked thread's test, made
\* before it blocked, is still false.  (the broadcasts of queue.c)
NoLostWakeup ==
  /\ \A p \in Producers \cap waiting : live /\ Full /\ to_write[p] = NoSlot
  /\ Consumer \in waiting => live /\ ~Readable /\ ~in_read
  /\ Owner \in waiting => live /\ in_read

-----------------------------------------------------------------------------
\* The ring seen as a sequence of entries, from next_to_read to next_to_write.
Count == (next_to_write + Size - next_to_read) % Size

StateOf(s) ==
  IF \E p \in Producers : to_write[p] = s
    THEN CHOOSE p \in Producers : to_write[p] = s
    ELSE IF ready[s] THEN "ready" ELSE "lost"

EntryAt(s) == [by |-> StateOf(s), val |-> elem[s]]

Entries ==
  IF live THEN [i \in 1 .. Count |-> EntryAt((next_to_read + i - 1) % Size)] ELSE <<>>

Fifo == INSTANCE BoundedFifo
          WITH Capacity <- Size - 1, Contents <- Values,
               open <- live, items <- Entries, taken <- in_read

\* The ring implements the bounded FIFO: at most Size-1 entries, taken in the
\* order of reservation, each only after its producer committed it.
ImplementsFifo == Fifo!Spec

\* A producer blocked on a full ring is released, unless a slot was abandoned
\* and blocks the ring for good.  (queue.c:146, 253-259)
Blocked == \E s \in Slots : InRange(s) /\ StateOf(s) = "lost"
PushersReleased ==
  \A p \in Producers : (p \in waiting) ~> (p \notin waiting \/ Blocked)

\* A complete oldest element is taken.  (queue.c:191-225)
CommittedTaken == (live /\ Readable) ~> (in_read \/ ~live)
=============================================================================
