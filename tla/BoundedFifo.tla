----------------------------- MODULE BoundedFifo -----------------------------
(***************************************************************************)
(* What a single-producer single-consumer queue promises its callers: a    *)
(* FIFO of at most Cap elements, with the history of what went in and what *)
(* came out.  Put refuses when the queue holds Cap elements, Get when it   *)
(* holds none.                                                             *)
(***************************************************************************)
EXTENDS Naturals, Sequences

CONSTANTS Cap, Values

VARIABLES buf, in, out

fifoVars == <<buf, in, out>>

Init == buf = <<>> /\ in = <<>> /\ out = <<>>

Put(v) ==
    /\ Len(buf) < Cap
    /\ buf' = Append(buf, v)
    /\ in'  = Append(in, v)
    /\ UNCHANGED out

Get ==
    /\ buf # <<>>
    /\ out' = Append(out, Head(buf))
    /\ buf' = Tail(buf)
    /\ UNCHANGED in

Next == (\E v \in Values : Put(v)) \/ Get

Spec == Init /\ [][Next]_fifoVars

=============================================================================
