------------------------------ MODULE AqQueue ------------------------------
(***************************************************************************)
(* The fixed-array queue of bcaster/queue.c (aq_type), as operators on its *)
(* bookkeeping record [head, tail, full, empty].  Every aq_* function runs *)
(* under the queue's own mutex, so each operator is one atomic step of the *)
(* caller.  The slot storage itself is not touched by these functions: the *)
(* callers read and write it outside the lock, through the slot index the  *)
(* get functions return.                                                   *)
(***************************************************************************)
EXTENDS Naturals

CONSTANTS
    NumItems,   \* num_items passed to aq_new (QUEUE_SIZE in ci_queues.h)
    NoSlot      \* the NULL pointer returned by aq_get_head / aq_get_tail

ASSUME NumItems \in Nat \ {0}

Slots == 0 .. NumItems - 1

\* Seeded faults, each a plausible slip in queue.c, used to confirm that
\* the properties of the models that use this module can detect it.
AqNextOffByOne(i) == IF i + 1 > NumItems THEN 0 ELSE i + 1
AqGetTailIgnoringFull(q) == q.tail
AqPutTailNoFull(q) ==
    [q EXCEPT !.tail = IF q.tail + 1 = NumItems THEN 0 ELSE q.tail + 1,
              !.empty = FALSE]
AqPutTailKeepsEmpty(q) ==
    LET t == IF q.tail + 1 = NumItems THEN 0 ELSE q.tail + 1
    IN  [q EXCEPT !.tail = t, !.full = IF t = q.head THEN TRUE ELSE @]

AqRecords ==
    [head : Slots, tail : Slots, full : BOOLEAN, empty : BOOLEAN]

\* aq_new: head = tail = 0, not full, empty.
AqNew == [head |-> 0, tail |-> 0, full |-> FALSE, empty |-> TRUE]

\* The cyclic increment "if (++x == num_items) x = 0".
AqNext(i) == IF i + 1 = NumItems THEN 0 ELSE i + 1

\* aq_get_head: the head slot unless the queue is empty.
AqGetHead(q) == IF ~q.empty THEN q.head ELSE NoSlot

\* aq_get_tail: the tail slot unless the queue is full.
AqGetTail(q) == IF ~q.full THEN q.tail ELSE NoSlot

\* aq_used_head: advance head; empty when it meets tail; never full.
AqUsedHead(q) ==
    LET h == AqNext(q.head)
    IN  [q EXCEPT !.head  = h,
                  !.empty = IF h = q.tail THEN TRUE ELSE @,
                  !.full  = FALSE]

\* aq_put_tail: advance tail; full when it meets head; never empty.
AqPutTail(q) ==
    LET t == AqNext(q.tail)
    IN  [q EXCEPT !.tail  = t,
                  !.full  = IF t = q.head THEN TRUE ELSE @,
                  !.empty = FALSE]

\* Number of committed, unconsumed slots the bookkeeping describes.
AqCount(q) ==
    IF q.full THEN NumItems
    ELSE IF q.tail >= q.head THEN q.tail - q.head
    ELSE q.tail + NumItems - q.head

\* The slots from head onwards holding committed data, in FIFO order.
AqContents(q, slots) ==
    [i \in 1 .. AqCount(q) |-> slots[(q.head + i - 1) % NumItems]]

=============================================================================
