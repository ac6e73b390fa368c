----------------------------- MODULE WireFormat -----------------------------
(***************************************************************************)
(* The byte-level formats the two programs share.                          *)
(*                                                                         *)
(* The relay header: before every frame the cross_injector send worker     *)
(* writes a 4-byte length (set_length) and a 16-byte timestamp             *)
(* (set_timestamp), both big-endian.  The receive worker of the other      *)
(* cross_injector decodes them with get_length and get_timestamp; bcaster  *)
(* decodes the length with its own copy, pkt_get_length, to find where a   *)
(* frame ends.                                                             *)
(*                                                                         *)
(* The 802.11 frame control: get_frame_control (cross_injector) and        *)
(* pkt_get_frame_control (bcaster) skip the radiotap header, whose length  *)
(* is the little-endian 16-bit word at bytes 2..3, and unpack the frame    *)
(* control byte and the flags byte with getasb / getb.  is_ack decides     *)
(* which captured frames SKIP_ACKS drops; pkt_is_beacon and pkt_is_data    *)
(* decide what the bcaster print worker shows.                             *)
(*                                                                         *)
(* A byte buffer is a function from offsets (from 0, as in C) to 0..255.   *)
(* Values stay below 2^31, the integers TLC represents: a frame length,    *)
(* and a seconds count up to the year 2038.                                *)
(***************************************************************************)
EXTENDS Integers

\* bit_things.h: the b'th bit of x as 0 or 1, and as 0 or 2^p.
getb(x, b) == (x \div 2^b) % 2
getasb(x, b, p) == getb(x, b) * 2^p

\* Byte i (0 = least significant) of v, as repeated >> 8 and & 0xFF
\* find it.
RECURSIVE ByteOf(_, _)
ByteOf(v, i) == IF i = 0 THEN v % 256 ELSE ByteOf(v \div 256, i - 1)

\* The bytes lo..hi of buffer b, renumbered from 0.
Slice(b, lo, hi) == [i \in 0 .. hi - lo |-> b[lo + i]]

(***************************************************************************)
(* The relay header.                                                       *)
(***************************************************************************)

\* set_length: len[3] is the low byte of size, len[0] the high byte.
set_length(size) == [i \in 0 .. 3 |-> ByteOf(size, 3 - i)]

\* get_length (cross_injector receive worker) and pkt_get_length
\* (bcaster): shift the high byte up and add the next, four times.
get_length(len) == ((len[0] * 256 + len[1]) * 256 + len[2]) * 256 + len[3]
pkt_get_length(len) == ((len[0] * 256 + len[1]) * 256 + len[2]) * 256 + len[3]

\* Mutant: nanoseconds marshalled before seconds.
set_timestampNsecFirst(item) ==
    [i \in 0 .. 15 |-> IF i < 8 THEN ByteOf(item.nsec, 7 - i)
                                ELSE ByteOf(item.sec, 15 - i)]

\* set_timestamp: seconds in bytes 0..7 and nanoseconds in bytes 8..15,
\* each big-endian.
set_timestamp(item) ==
    [i \in 0 .. 15 |-> IF i < 8 THEN ByteOf(item.sec, 7 - i)
                                ELSE ByteOf(item.nsec, 15 - i)]

\* get_timestamp: byte8 += byte, then byte8 <<= 8 except after the last
\* byte, for each half; the result is always marked positive.
get_timestamp(timestamp) ==
    LET RECURSIVE Acc(_, _, _)
        Acc(byte8, i, last) == IF i > last THEN byte8
                               ELSE Acc(byte8 * 256 + timestamp[i], i + 1, last)
    IN [positive |-> TRUE, sec |-> Acc(0, 0, 7), nsec |-> Acc(0, 8, 15)]

\* repeat_sending_function sends len, then timestamp, then the frame, so
\* the 20 header bytes on the stream are their concatenation.
Header(size, item) ==
    LET len == set_length(size)
        ts  == set_timestamp(item)
    IN [i \in 0 .. 19 |-> IF i < 4 THEN len[i] ELSE ts[i - 4]]

(***************************************************************************)
(* The 802.11 frame control.                                               *)
(***************************************************************************)

\* utilities.h / pkt.h: the type_subtype codes the programs test.
BEACON == 8
ACK == 29
DataCodes == {32, 33, 34, 35, 40, 41, 42, 43}  \* DATA .. QOS_DATA_CF_ACK_CF_POLL

\* Mutant: the two type bits moved to each other's position.
get_frame_controlTypeSwap(wfpkt) ==
    LET radiotap_len == wfpkt[2] + wfpkt[3] * 256
        fc_field == wfpkt[radiotap_len]
        flags == wfpkt[radiotap_len + 1]
    IN [version |-> getasb(fc_field, 1, 1) + getasb(fc_field, 0, 0),
        type_subtype |-> getasb(fc_field, 3, 4) + getasb(fc_field, 2, 5)
                         + getasb(fc_field, 7, 3) + getasb(fc_field, 6, 2)
                         + getasb(fc_field, 5, 1) + getasb(fc_field, 4, 0),
        toDS |-> getb(flags, 0), FromDS |-> getb(flags, 1),
        morefrag |-> getb(flags, 2), retry |-> getb(flags, 3),
        PS |-> getb(flags, 4), moredata |-> getb(flags, 5),
        protected_MF |-> getb(flags, 6), order |-> getb(flags, 7),
        dest |-> [i \in 0 .. 5 |-> wfpkt[radiotap_len + 4 + i]]]

\* get_frame_control: radiotap_len from bytes 2..3; the frame control byte
\* and the flags byte follow the radiotap header, the destination address
\* starts 4 bytes after it.
get_frame_control(wfpkt) ==
    LET radiotap_len == wfpkt[2] + wfpkt[3] * 256
        fc_field == wfpkt[radiotap_len]
        flags == wfpkt[radiotap_len + 1]
    IN [version      |-> getasb(fc_field, 1, 1) + getasb(fc_field, 0, 0),
        type_subtype |-> getasb(fc_field, 3, 5) + getasb(fc_field, 2, 4)
                         + getasb(fc_field, 7, 3) + getasb(fc_field, 6, 2)
                         + getasb(fc_field, 5, 1) + getasb(fc_field, 4, 0),
        toDS         |-> getb(flags, 0),
        FromDS       |-> getb(flags, 1),
        morefrag     |-> getb(flags, 2),
        retry        |-> getb(flags, 3),
        PS           |-> getb(flags, 4),
        moredata     |-> getb(flags, 5),
        protected_MF |-> getb(flags, 6),
        order        |-> getb(flags, 7),
        dest         |-> [i \in 0 .. 5 |-> wfpkt[radiotap_len + 4 + i]]]

is_ack(data) == get_frame_control(data).type_subtype = ACK
is_beacon(data) == get_frame_control(data).type_subtype = BEACON

\* bcaster's copy of the same decoder.
pkt_get_frame_control(wfpkt) ==
    LET radiotap_len == wfpkt[2] + wfpkt[3] * 256
        fc_field == wfpkt[radiotap_len]
        flags == wfpkt[radiotap_len + 1]
    IN [version      |-> getasb(fc_field, 1, 1) + getasb(fc_field, 0, 0),
        type_subtype |-> getasb(fc_field, 3, 5) + getasb(fc_field, 2, 4)
                         + getasb(fc_field, 7, 3) + getasb(fc_field, 6, 2)
                         + getasb(fc_field, 5, 1) + getasb(fc_field, 4, 0),
        toDS         |-> getb(flags, 0),
        FromDS       |-> getb(flags, 1),
        morefrag     |-> getb(flags, 2),
        retry        |-> getb(flags, 3),
        PS           |-> getb(flags, 4),
        moredata     |-> getb(flags, 5),
        protected_MF |-> getb(flags, 6),
        order        |-> getb(flags, 7),
        dest         |-> [i \in 0 .. 5 |-> wfpkt[radiotap_len + 4 + i]]]

pkt_is_ack(pkt) == pkt_get_frame_control(pkt).type_subtype = ACK
pkt_is_beacon(pkt) == pkt_get_frame_control(pkt).type_subtype = BEACON
pkt_is_data(pkt) == pkt_get_frame_control(pkt).type_subtype \in DataCodes

=============================================================================
