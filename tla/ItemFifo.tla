------------------------------- MODULE ItemFifo -------------------------------
(***************************************************************************)
(* What cross_injector's list queue (src/queue.h) promises its caller: a   *)
(* FIFO of items.  q_put_item appends, q_get_item removes and returns the  *)
(* oldest item or NULL when there is none, q_clear empties the queue.      *)
(* ret is what the last q_get_item returned (NoValue for NULL).            *)
(***************************************************************************)
EXTENDS Sequences

CONSTANTS Values, NoValue

VARIABLES buf, ret

itemFifoVars == <<buf, ret>>

Init == buf = <<>> /\ ret = NoValue

Put(v) == buf' = Append(buf, v) /\ UNCHANGED ret

Get ==
    /\ buf # <<>>
    /\ ret' = Head(buf)
    /\ buf' = Tail(buf)

GetEmpty == buf = <<>> /\ ret' = NoValue /\ UNCHANGED buf

Clear == buf' = <<>> /\ UNCHANGED ret

Next == (\E v \in Values : Put(v)) \/ Get \/ GetEmpty \/ Clear

Spec == Init /\ [][Next]_itemFifoVars

=============================================================================
