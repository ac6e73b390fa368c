------------------------------- MODULE Relay -------------------------------
(***************************************************************************)
(* One direction of the cross_injector relay (ci_queues.c): on the sending *)
(* VM the capture looper fills capture_send_q and the send looper frames   *)
(* each item as [4-byte length][16-byte timestamp][payload] onto the TCP   *)
(* connection; on the receiving VM the receive looper reassembles frames   *)
(* from whatever chunks recv returns into receive_inject_q, which the     *)
(* inject looper drains.  The TCP stream (through the bcaster relay, which *)
(* forwards whole frames) is the byte sequence `wire`, read up to `rpos`.  *)
(* Bytes are modelled as numbers 0..255 and the big-endian conversions by  *)
(* what they compute.                                                      *)
(***************************************************************************)
EXTENDS Integers, Sequences, SequencesExt, AqQueue, LisaStates

CONSTANTS
    MaxFrames,      \* frames the capture adapter delivers in a behaviour
    BufferSize,     \* BUFFER_SIZE, the payload capacity of a q_item_t
    CapLens,        \* caplen values pcap_next_ex may report
    Clock,          \* timestamps clock_gettime may return, as [sec, nsec]
    SendErrors,     \* TRUE: send() may fail for good part-way through
    PcapFaults,     \* TRUE: pcap_open_live may fail
    SelectFd        \* what fd 0, on which the client's recv selects, is:
                    \* "stdin_ready" (e.g. /dev/null), "stdin_idle" (a tty)
                    \* or "stdin_any" (ready at times the relay does not
                    \* control: a pipe, or a descriptor opened earlier)

VARIABLES
    cq, cslots,     \* capture_send_q bookkeeping and its q_item_t slots
    rq, rslots,     \* receive_inject_q bookkeeping and its q_item_t slots
    sdItem,         \* sending_data_t.item of the send looper
    rd,             \* receiving_data_t of the receive looper
    rsec,           \* where the receive looper is in repeat_receiving_function
    stateA,         \* lisa state of the sending VM's connection
    stateB,         \* lisa state of the receiving VM's connection
    wire,           \* bytes the sender has written to the stream
    rpos,           \* bytes of the stream the receiver has read
    captured,       \* history: items the capture looper committed
    released,       \* history: items the send looper committed as sent
    received,       \* history: items the receive looper committed
    delivered,      \* history: items handed to pcap_inject
    pcapA,          \* pcap_capture_handle of the sending VM: "open"/"null"
    pcapB,          \* pcap_capture_handle of the receiving VM
    crashed         \* the receiving VM's process ended in pcap_inject

vars == <<cq, cslots, rq, rslots, sdItem, rd, rsec, stateA, stateB,
          wire, rpos, captured, released, received, delivered,
          pcapA, pcapB, crashed>>

PcapVars == <<pcapA, pcapB, crashed>>

NoItem == [size |-> 0, ts |-> [sec |-> 0, nsec |-> 0], buf |-> <<>>]

-----------------------------------------------------------------------------
(* Conversions of the wire format.                                         *)

\* The shift-and-mask loops of set_length / set_timestamp: the w low bytes
\* of n, most significant first.
RECURSIVE ToBE(_, _)
ToBE(n, w) == IF w = 0 THEN <<>> ELSE ToBE(n \div 256, w - 1) \o <<n % 256>>

\* The shift-and-add loops of get_length / get_timestamp.
FromBE(s) == FoldLeft(LAMBDA acc, b : acc * 256 + b, 0, s)

\* Seeded faults for the conversions below (see PROJECT.json, mutants).
set_timestampSwapped(ts) == ToBE(ts.nsec, 8) \o ToBE(ts.sec, 8)

set_length(size) == ToBE(size, 4)

set_timestamp(ts) == ToBE(ts.sec, 8) \o ToBE(ts.nsec, 8)

get_length(len) == FromBE(len)

get_timestamp(t) ==
    [sec |-> FromBE(SubSeq(t, 1, 8)), nsec |-> FromBE(SubSeq(t, 9, 16))]

\* The bytes the three lisa_cast calls of one frame put on the stream.
Encode(item) == set_length(item.size) \o set_timestamp(item.ts) \o item.buf

\* Where frame n+1 starts in the stream, given the frames before it.
StreamOffset(items) ==
    FoldLeft(LAMBDA acc, it : acc + 20 + it.size, 0, items)

\* Writing data into a byte array at offset off (memcpy / recv into buf+off).
WriteAt(arr, off, data) ==
    [i \in DOMAIN arr |->
        IF off < i /\ i <= off + Len(data) THEN data[i - off] ELSE arr[i]]

\* init_sending_function: no item, nothing in process.
InitSending == sdItem = NoSlot

\* init_receiving_function: all counters zero and no item; the header
\* buffers are zero-initialised statics.
InitReceiving ==
    rd = [len |-> <<0, 0, 0, 0>>, timestamp |-> [i \in 1 .. 16 |-> 0],
          lenReceived |-> 0, bytesToReceive |-> 0, bytesReceived |-> 0,
          item |-> NoSlot]

\* What pcap_open_live returns: a handle, or NULL when it fails.
PcapOpens == IF PcapFaults THEN {"open", "null"} ELSE {"open"}

\* init_capturing_function and init_injecting_function: each opens the
\* shared pcap_capture_handle if it is still NULL (ci_main.c:89-90 pass
\* both loopers its address).
init_capturing_function(h) == IF h = "null" THEN PcapOpens ELSE {h}
init_injecting_function(h) == IF h = "null" THEN PcapOpens ELSE {h}

\* The handle once start_client has started the capture looper and then
\* the inject looper.
PcapStart == UNION {init_injecting_function(h) : h \in init_capturing_function("null")}

Init ==
    /\ cq = AqNew /\ cslots = [s \in Slots |-> NoItem]
    /\ rq = AqNew /\ rslots = [s \in Slots |-> NoItem]
    /\ InitSending
    /\ InitReceiving
    /\ rsec = "len"
    /\ stateA = LISA_CONNECTED /\ stateB = LISA_CONNECTED
    /\ wire = <<>> /\ rpos = 0
    /\ captured = <<>> /\ released = <<>>
    /\ received = <<>> /\ delivered = <<>>
    /\ pcapA \in PcapStart /\ pcapB \in PcapStart /\ crashed = FALSE

-----------------------------------------------------------------------------
(* Capture looper: repeat_capturing_function.  A full queue leaves the     *)
(* packet in pcap; pcap_next_ex may report nothing.  The build defines     *)
(* SKIP_ACKS (debug.h): an ACK frame is read, its timestamp written into   *)
(* the tail slot, and the tick returns without aq_put_tail.  Without a     *)
(* handle the tick only prints an error.                                  *)
CaptureTick ==
    LET slot == AqGetTail(cq) IN
    /\ pcapA = "open"
    /\ slot # NoSlot
    /\ Len(captured) < MaxFrames
    /\ \E caplen \in CapLens, now \in Clock :
         LET size == IF caplen < BufferSize THEN caplen ELSE BufferSize
             item == [size |-> size, ts |-> now,
                      buf |-> [i \in 1 .. size |-> Len(captured) + 1]]
         IN  \/ /\ cslots' = [cslots EXCEPT ![slot] = item]
                /\ cq' = AqPutTail(cq)
                /\ captured' = Append(captured, item)
             \/ /\ cslots' = [cslots EXCEPT ![slot].ts = now]   \* is_ack
                /\ UNCHANGED <<cq, captured>>
    /\ UNCHANGED <<rq, rslots, sdItem, rd, rsec, stateA, stateB, wire, rpos,
                   released, received, delivered, PcapVars>>

SendItem(st, q, cur) == IF st >= LISA_CONNECTED THEN AqGetHead(q) ELSE cur

SendTick ==
    LET item == SendItem(stateA, cq, sdItem)
        bytes == Encode(cslots[item])
    IN  /\ item # NoSlot
        /\ sdItem' = item
        /\ cq' = AqUsedHead(cq)
        /\ released' = Append(released, cslots[item])
        /\ IF stateA >= LISA_CONNECTED
             THEN \/ wire' = wire \o bytes /\ stateA' = LISA_SENT_DATA
                  \/ /\ SendErrors
                     /\ \E p \in 0 .. Len(bytes) - 1 :
                          wire' = wire \o SubSeq(bytes, 1, p)
                     /\ stateA' = LISA_ERROR
             ELSE UNCHANGED <<wire, stateA>>
        /\ UNCHANGED <<cslots, rq, rslots, rd, rsec, stateB, rpos, captured,
                       received, delivered, PcapVars>>

\* The idle send tick: nothing to send, only the item pointer is refreshed.
SendIdle ==
    /\ stateA >= LISA_CONNECTED
    /\ AqGetHead(cq) = NoSlot
    /\ sdItem' = NoSlot
    /\ UNCHANGED <<cq, cslots, rq, rslots, rd, rsec, stateA, stateB, wire,
                   rpos, captured, released, received, delivered, PcapVars>>

(* Inject looper: repeat_injecting_function.  The head is released whether *)
(* pcap_inject succeeds or not.  The guard of line 498 tests the address   *)
(* of the handle, never NULL, so a NULL handle reaches pcap_inject, which  *)
(* dereferences it: the process ends.                                      *)
InjectTick ==
    LET slot == AqGetHead(rq) IN
    /\ rsec # "aborted" /\ ~crashed
    /\ slot # NoSlot
    /\ IF pcapB = "open"
         THEN /\ delivered' = Append(delivered, rslots[slot])
              /\ rq' = AqUsedHead(rq)
              /\ UNCHANGED crashed
         ELSE crashed' = TRUE /\ UNCHANGED <<delivered, rq>>
    /\ UNCHANGED <<cq, cslots, rslots, sdItem, rd, rsec, stateA, stateB, wire,
                   rpos, captured, released, received, pcapA, pcapB>>

-----------------------------------------------------------------------------
(* Receive looper: repeat_receiving_function, one action per section of   *)
(* the function body, so that `rsec` is the looper's place in it.          *)

\* What lisa_recv (lisa_recv_with_part, part 12) on the client returns when
\* asked for n bytes, with the state it leaves.  The client selects on fd 0
\* (line 818) and then recv()s from the non-blocking socket (line 883):
\* when fd 0 is ready, recv returns data, or fails with EAGAIN (-1, ERROR)
\* when nothing is there; when it is not, select times out after
\* wait_time.  The socket is not fd 0: the capture looper's init opens
\* the pcap handle first (ci_main.c:89-96); and were it fd 0, the test
\* if (this_fd) (line 880) would skip the recv.
\* recv() asked for 0 bytes returns 0, read as CLOSED.
RecvResults(n) ==
    LET avail   == Len(wire) - rpos
        got     == {[rc |-> k, st |-> LISA_GOT_DATA, data |-> SubSeq(wire, rpos + 1, rpos + k)]
                      : k \in 1 .. Min({n, avail})}
        zero    == {[rc |-> 0, st |-> LISA_CLOSED, data |-> <<>>]}
        timeout == {[rc |-> -1, st |-> LISA_TIMEOUT, data |-> <<>>]}
        eagain  == {[rc |-> -1, st |-> LISA_ERROR, data |-> <<>>]}
    IN
    IF stateB < 0 THEN {[rc |-> -1, st |-> stateB, data |-> <<>>]}
    ELSE IF stateB < LISA_CONNECTED THEN {[rc |-> 0, st |-> stateB, data |-> <<>>]}
    ELSE LET ready == got \cup (IF n = 0 THEN zero ELSE IF avail = 0 THEN eagain ELSE {})
         IN  CASE SelectFd = "stdin_ready" -> ready
               [] SelectFd = "stdin_idle"  -> timeout
               [] OTHER                    -> ready \cup timeout

\* The effect of one lisa_recv on the connection and the stream.
ApplyRecv(r) == stateB' = r.st /\ rpos' = rpos + Len(r.data)

\* Seeded fault: bytes_received is not cleared.
RecvResetKeepsBytes(d) ==
    [d EXCEPT !.lenReceived = 0, !.bytesToReceive = 0, !.item = NoSlot]

\* Lines 418-420: the counters are cleared once a frame is committed.
RecvReset(d) ==
    [d EXCEPT !.lenReceived = 0, !.bytesReceived = 0, !.bytesToReceive = 0,
              !.item = NoSlot]

RecvOthers == <<cq, cslots, sdItem, stateA, wire, captured, released, delivered,
               PcapVars>>

\* Lines 385-392: the tick runs only while the connection is at least
\* CONNECTED; read the 4 length bytes, and decode them once all are in.
RecvLen ==
    /\ rsec = "len"
    /\ stateB >= LISA_CONNECTED
    /\ IF rd.lenReceived < 4
         THEN \E r \in RecvResults(4 - rd.lenReceived) :
                LET len == WriteAt(rd.len, rd.lenReceived, r.data)
                    lr  == rd.lenReceived + r.rc
                IN  /\ rd' = [rd EXCEPT !.len = len, !.lenReceived = lr,
                                 !.bytesToReceive = IF lr = 4 THEN get_length(len) ELSE @]
                    /\ ApplyRecv(r)
         ELSE /\ rd' = [rd EXCEPT !.bytesToReceive =
                          IF rd.lenReceived = 4 THEN get_length(rd.len) ELSE @]
              /\ UNCHANGED <<stateB, rpos>>
    /\ rsec' = "ts"
    /\ UNCHANGED <<rq, rslots, received>>
    /\ UNCHANGED RecvOthers

\* Lines 393-396: read the 16 timestamp bytes.
RecvTs ==
    /\ rsec = "ts"
    /\ IF 4 <= rd.lenReceived /\ rd.lenReceived < 20
         THEN \E r \in RecvResults(20 - rd.lenReceived) :
                /\ rd' = [rd EXCEPT
                            !.timestamp = WriteAt(@, rd.lenReceived - 4, r.data),
                            !.lenReceived = @ + r.rc]
                /\ ApplyRecv(r)
         ELSE UNCHANGED <<rd, stateB, rpos>>
    /\ rsec' = "slot"
    /\ UNCHANGED <<rq, rslots, received>>
    /\ UNCHANGED RecvOthers

\* Lines 397-404: with the header complete, take the tail slot and decode
\* the timestamp into it; a full queue ends the tick (line 401).
RecvSlot ==
    /\ rsec = "slot"
    /\ IF rd.lenReceived = 20
         THEN LET slot == AqGetTail(rq) IN
              /\ rd' = [rd EXCEPT !.item = slot]
              /\ IF slot = NoSlot
                   THEN rsec' = "len" /\ UNCHANGED rslots
                   ELSE /\ rslots' = [rslots EXCEPT ![slot].ts =
                                        get_timestamp(rd.timestamp)]
                        /\ rsec' = "payload"
         ELSE rsec' = "payload" /\ UNCHANGED <<rd, rslots>>
    /\ UNCHANGED <<rq, stateB, rpos, received>>
    /\ UNCHANGED RecvOthers

\* Lines 405-422: read payload bytes into the slot; commit the slot and
\* clear the counters once bytes_to_receive bytes are in.  The asserts of
\* lines 408 and 411 abort the process; bytes_received is a uint32, so a
\* -1 added to 0 wraps past bytes_to_receive.
RecvPayload ==
    /\ rsec = "payload"
    /\ IF rd.lenReceived >= 20 /\ rd.item # NoSlot
         THEN IF rd.bytesToReceive > BufferSize
                THEN rsec' = "aborted" /\ UNCHANGED <<rq, rslots, rd, stateB, rpos, received>>
                ELSE \E r \in RecvResults(rd.bytesToReceive - rd.bytesReceived) :
                  LET br   == rd.bytesReceived + r.rc
                      item == [rslots[rd.item] EXCEPT
                                 !.size = rd.bytesToReceive,
                                 !.buf = SubSeq(@, 1, rd.bytesReceived) \o r.data]
                  IN  /\ ApplyRecv(r)
                      /\ rslots' = [rslots EXCEPT ![rd.item] = item]
                      /\ CASE br < 0 \/ br > rd.bytesToReceive ->
                                /\ rsec' = "aborted"
                                /\ UNCHANGED <<rq, rd, received>>
                           [] br = rd.bytesToReceive ->
                                /\ rq' = AqPutTail(rq)
                                /\ received' = Append(received, item)
                                /\ rd' = RecvReset(rd)
                                /\ rsec' = "len"
                           [] OTHER ->
                                /\ rd' = [rd EXCEPT !.bytesReceived = br]
                                /\ rsec' = "len"
                                /\ UNCHANGED <<rq, received>>
         ELSE rsec' = "len" /\ UNCHANGED <<rq, rslots, rd, stateB, rpos, received>>
    /\ UNCHANGED RecvOthers

RecvStep == ~crashed /\ (RecvLen \/ RecvTs \/ RecvSlot \/ RecvPayload)

-----------------------------------------------------------------------------
Next ==
    \/ CaptureTick
    \/ SendTick \/ SendIdle
    \/ RecvStep
    \/ InjectTick

\* Send, receive and inject are looper threads that tick for as long as
\* the relay runs; the capture adapter is the environment and may stay
\* silent.
Fairness ==
    /\ WF_vars(SendTick \/ SendIdle)
    /\ WF_vars(RecvStep)
    /\ WF_vars(InjectTick)

Spec == Init /\ [][Next]_vars /\ Fairness

-----------------------------------------------------------------------------
Bytes == 0 .. 255
Items == [size : 0 .. BufferSize, ts : Clock \cup {NoItem.ts}, buf : Seq(Bytes)]

TypeOK ==
    /\ cq \in AqRecords /\ rq \in AqRecords
    /\ cslots \in [Slots -> Items] /\ rslots \in [Slots -> Items]
    /\ sdItem \in Slots \cup {NoSlot}
    /\ rd.len \in [1 .. 4 -> Bytes] /\ rd.timestamp \in [1 .. 16 -> Bytes]
    /\ rd.lenReceived \in Int /\ rd.bytesToReceive \in Nat
    /\ rd.bytesReceived \in Nat /\ rd.item \in Slots \cup {NoSlot}
    /\ rsec \in {"len", "ts", "slot", "payload", "aborted"}
    /\ wire \in Seq(Bytes) /\ rpos \in 0 .. Len(wire)
    /\ {pcapA, pcapB} \subseteq {"open", "null"} /\ crashed \in BOOLEAN

\* The send looper releases each captured item exactly once and in capture
\* order, and capture_send_q still holds exactly the captured items it has
\* not released: the item pointer kept in sending_data_t between frames
\* never makes it send or release a slot a second time.
SendAccounting ==
    /\ IsPrefix(released, captured)
    /\ AqContents(cq, cslots) = SubSeq(captured, Len(released) + 1, Len(captured))

\* Whatever chunk sizes recv returns, the receive looper commits to
\* receive_inject_q exactly the items the send looper framed, with the same
\* length, timestamp and payload, in the same order; and the inject looper
\* hands pcap_inject exactly those, in that order.
RoundTrip ==
    /\ IsPrefix(received, released)
    /\ IsPrefix(delivered, received)

\* While the connection is usable (at least CONNECTED, so the looper goes
\* on reading), the receive looper's counters account for every byte it
\* has taken from the stream: the frames it committed, plus len_received
\* header bytes and bytes_received payload bytes of the frame in progress.
\* No byte is read twice, skipped, or counted without being read, and the
\* looper is alive.
ReceiverInSync ==
    /\ rsec # "aborted"
    /\ stateB >= LISA_CONNECTED =>
         rpos = StreamOffset(received) + rd.lenReceived + rd.bytesReceived

\* The receiving relay never hands pcap_inject a NULL handle: the inject
\* looper's check at ci_queues.c:498 is meant to stop it when neither
\* init function could open pcap ("error: no open pcap handle").
InjectChecksHandle == ~crashed

\* Every captured item is eventually handed to pcap_inject on the other VM:
\* backpressure on either queue only delays it.
AllDelivered ==
    \A n \in 1 .. MaxFrames : Len(captured) >= n ~> Len(delivered) >= n

=============================================================================
