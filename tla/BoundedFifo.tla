---------------------------- MODULE BoundedFifo ----------------------------
(* What the packet queue of queue.c promises its callers, without slots,    *)
(* indices, locks or condition variables: a FIFO of at most Capacity        *)
(* entries, ordered by reservation.  A producer reserves an entry, writes   *)
(* it at leisure and commits it; one consumer takes the oldest entry once   *)
(* it is committed, works on it in place, and drops it or puts it back.     *)
EXTENDS Sequences, Integers

CONSTANTS Capacity,   \* entries the queue may hold
          Producers,  \* the threads that push
          Contents    \* what an entry may hold

VARIABLES open,       \* the queue exists
          items,      \* entries, oldest first
          taken       \* the consumer is working on the oldest entry

vars == <<open, items, taken>>

Ready == "ready"      \* state of an entry that was committed
Lost  == "lost"       \* state of an entry whose producer gave up

Entry == [by: Producers \cup {Ready, Lost}, val: Contents]

Init == open = FALSE /\ items = <<>> /\ taken = FALSE

Open == ~open /\ open' = TRUE /\ items' = <<>> /\ taken' = FALSE

Holds(p) == \E i \in DOMAIN items : items[i].by = p

\* the new entry still holds what an earlier use of its memory left there
Reserve(p) ==
  /\ open /\ Len(items) < Capacity /\ ~Holds(p)
  /\ \E junk \in Contents : items' = Append(items, [by |-> p, val |-> junk])
  /\ UNCHANGED <<open, taken>>

\* a producer changes the contents or the state of its own entry
Write(p, v) ==
  /\ \E i \in DOMAIN items : items[i].by = p /\ items' = [items EXCEPT ![i].val = v]
  /\ UNCHANGED <<open, taken>>

Mark(p, state) ==
  /\ \E i \in DOMAIN items : items[i].by = p /\ items' = [items EXCEPT ![i].by = state]
  /\ UNCHANGED <<open, taken>>

Commit(p) == Mark(p, Ready)
GiveUp(p) == Mark(p, Lost)

Take ==
  /\ open /\ ~taken /\ items # <<>> /\ Head(items).by = Ready
  /\ taken' = TRUE /\ UNCHANGED <<open, items>>

Use(v) ==
  /\ taken
  /\ items' = [items EXCEPT ![1].val = v] /\ UNCHANGED <<open, taken>>

Drop    == taken /\ taken' = FALSE /\ items' = Tail(items) /\ UNCHANGED open
PutBack == taken /\ taken' = FALSE /\ UNCHANGED <<open, items>>

Close ==
  /\ open /\ ~taken /\ \A p \in Producers : ~Holds(p)
  /\ open' = FALSE /\ items' = <<>> /\ UNCHANGED taken

Next ==
  \/ Open \/ Close \/ Take \/ Drop \/ PutBack
  \/ \E v \in Contents : Use(v)
  \/ \E p \in Producers :
       Reserve(p) \/ Commit(p) \/ GiveUp(p) \/ \E v \in Contents : Write(p, v)

Spec == Init /\ [][Next]_vars
=============================================================================
