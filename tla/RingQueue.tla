----------------------------- MODULE RingQueue -----------------------------
(***************************************************************************)
(* One aq_type queue (bcaster/queue.c) used the way queue.h prescribes: a  *)
(* producer thread loops get_tail / fill / put_tail and a consumer thread  *)
(* loops get_head / read / used_head.  The aq_* calls are atomic (queue    *)
(* mutex); filling and reading the slot happen outside the lock, so they   *)
(* are steps of their own that the other thread can interleave with.      *)
(* The producer writes the values 1, 2, 3, ... so that order is visible.   *)
(***************************************************************************)
EXTENDS Naturals, Sequences, SequencesExt, AqQueue

CONSTANTS
    MaxPut      \* number of items the producer commits in a behaviour

VARIABLES
    q,          \* the aq_type bookkeeping: head, tail, full, empty
    slots,      \* the data array, one value per slot
    ppc,        \* producer: "get" (no slot), "fill" (holds tail), "put"
    prodSlot,   \* slot pointer returned to the producer by aq_get_tail
    cpc,        \* consumer: "get" (no slot), "read" (holds head), "used"
    consSlot,   \* slot pointer returned to the consumer by aq_get_head
    consVal,    \* what the consumer read from its slot
    produced,   \* history: values the producer committed with aq_put_tail
    consumed    \* history: values the consumer released with aq_used_head

vars == <<q, slots, ppc, prodSlot, cpc, consSlot, consVal, produced, consumed>>

Values == 0 .. MaxPut     \* 0 is the content of a slot never written

Init ==
    /\ q = AqNew
    /\ slots = [s \in Slots |-> 0]
    /\ ppc = "get" /\ prodSlot = NoSlot
    /\ cpc = "get" /\ consSlot = NoSlot /\ consVal = 0
    /\ produced = <<>> /\ consumed = <<>>

\* Producer: aq_get_tail; a NULL (queue full) leaves it where it was.
ProducerGetTail ==
    /\ ppc = "get"
    /\ Len(produced) < MaxPut
    /\ prodSlot' = AqGetTail(q)
    /\ ppc' = IF prodSlot' = NoSlot THEN "get" ELSE "fill"
    /\ UNCHANGED <<q, slots, cpc, consSlot, consVal, produced, consumed>>

\* Producer: write the next value into the slot it holds (outside the lock).
ProducerFill ==
    /\ ppc = "fill"
    /\ slots' = [slots EXCEPT ![prodSlot] = Len(produced) + 1]
    /\ ppc' = "put"
    /\ UNCHANGED <<q, prodSlot, cpc, consSlot, consVal, produced, consumed>>

\* Producer: aq_put_tail commits the slot.
ProducerPutTail ==
    /\ ppc = "put"
    /\ q' = AqPutTail(q)
    /\ produced' = Append(produced, slots[prodSlot])
    /\ ppc' = "get" /\ prodSlot' = NoSlot
    /\ UNCHANGED <<slots, cpc, consSlot, consVal, consumed>>

\* Consumer: aq_get_head; a NULL (queue empty) leaves it where it was.
ConsumerGetHead ==
    /\ cpc = "get"
    /\ consSlot' = AqGetHead(q)
    /\ cpc' = IF consSlot' = NoSlot THEN "get" ELSE "read"
    /\ UNCHANGED <<q, slots, ppc, prodSlot, consVal, produced, consumed>>

\* Consumer: read the slot it holds (outside the lock).
ConsumerRead ==
    /\ cpc = "read"
    /\ consVal' = slots[consSlot]
    /\ cpc' = "used"
    /\ UNCHANGED <<q, slots, ppc, prodSlot, consSlot, produced, consumed>>

\* Consumer: aq_used_head releases the slot.
ConsumerUsedHead ==
    /\ cpc = "used"
    /\ q' = AqUsedHead(q)
    /\ consumed' = Append(consumed, consVal)
    /\ cpc' = "get" /\ consSlot' = NoSlot
    /\ UNCHANGED <<slots, ppc, prodSlot, consVal, produced>>

Next ==
    \/ ProducerGetTail \/ ProducerFill \/ ProducerPutTail
    \/ ConsumerGetHead \/ ConsumerRead \/ ConsumerUsedHead

\* Both threads are loopers that call their step again and again.
Fairness ==
    /\ WF_vars(ProducerGetTail) /\ WF_vars(ProducerFill)
    /\ WF_vars(ProducerPutTail)
    /\ WF_vars(ConsumerGetHead) /\ WF_vars(ConsumerRead)
    /\ WF_vars(ConsumerUsedHead)

Spec == Init /\ [][Next]_vars /\ Fairness

-----------------------------------------------------------------------------
TypeOK ==
    /\ q \in AqRecords
    /\ slots \in [Slots -> Values]
    /\ ppc \in {"get", "fill", "put"} /\ prodSlot \in Slots \cup {NoSlot}
    /\ cpc \in {"get", "read", "used"} /\ consSlot \in Slots \cup {NoSlot}
    /\ consVal \in Values
    /\ produced \in Seq(Values) /\ consumed \in Seq(Values)

\* The slot the producer is filling is never the slot the consumer is
\* reading: get_tail refuses the tail while the queue is full and get_head
\* refuses the head while it is empty, so the unlocked memcpy of one thread
\* never races the other on the same item.
NoSharedSlot ==
    (ppc # "get" /\ cpc # "get") => prodSlot # consSlot

\* The queue is a bounded FIFO: head, tail and the full/empty flags, read
\* from head onwards, hold exactly the committed and unconsumed values, and
\* every value the consumer releases is the oldest one committed.
Fifo == INSTANCE BoundedFifo
            WITH Cap <- NumItems, Values <- Values,
                 buf <- AqContents(q, slots), in <- produced, out <- consumed

FifoSpec == Fifo!Spec

\* Everything the producer commits is eventually released by the consumer:
\* neither thread can be left polling a NULL forever while the other one
\* has something for it.
AllConsumed ==
    \A n \in 1 .. MaxPut : Len(produced) >= n ~> Len(consumed) >= n

=============================================================================
