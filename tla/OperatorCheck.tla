---------------------------- MODULE OperatorCheck ----------------------------
(***************************************************************************)
(* The pure operators of both programs checked against reference          *)
(* definitions.  Each state is one test case, chosen in the initial state  *)
(* and never changed: the bignum_sec arithmetic and lag statistics of      *)
(* SignedDurationCheck (operands x, y, z, k), a relay header (hdr), or a   *)
(* captured frame (frm).  A case of one kind leaves the others at their    *)
(* neutral value.                                                          *)
(***************************************************************************)
EXTENDS SignedDurationCheck, WireFormat

VARIABLES hdr, frm

NoCase == [none |-> TRUE]

\* Frame lengths and capture times at the byte boundaries, a full
\* Ethernet-sized frame, and the largest values below 2^31.
Sizes == {0, 1, 255, 256, 1500, 65535, 65536, 16777216, 2147483647}
Stamps == [positive : {TRUE}, sec : {0, 255, 256, 65536, 1700000000, 2147483647},
           nsec : {0, 1, 999999999}]
HeaderCases == [size : Sizes, item : Stamps]

\* Radiotap headers of 8 bytes (the minimum), 26 bytes (as hwsim monitor
\* interfaces produce), and 264 bytes (the high length byte in use); every
\* frame control byte; flags with no bit, one bit, or all bits set.
FlagBytes == {0, 255} \cup {2^b : b \in 0 .. 7}
FrameCases == [rl : {8, 26, 264}, fc : 0 .. 255, flags : FlagBytes]

\* The captured buffer of a case: the radiotap length at bytes 2..3, the
\* frame control and flags bytes after the header, every other byte its
\* offset mod 256.
Frame(c) ==
    [i \in 0 .. c.rl + 9 |-> CASE i = 2 -> c.rl % 256
                               [] i = 3 -> c.rl \div 256
                               [] i = c.rl -> c.fc
                               [] i = c.rl + 1 -> c.flags
                               [] OTHER -> i % 256]

Zero == [positive |-> TRUE, sec |-> 0, nsec |-> 0]

CheckInit ==
    \/ Init /\ hdr = NoCase /\ frm = NoCase
    \/ /\ x = Zero /\ y = Zero /\ z = Zero /\ k = 1
       /\ \/ hdr \in HeaderCases /\ frm = NoCase
          \/ frm \in FrameCases /\ hdr = NoCase

CheckSpec == CheckInit /\ [][UNCHANGED <<x, y, z, k, hdr, frm>>]_<<x, y, z, k, hdr, frm>>

\* The frame control layout of IEEE 802.11, as the comment above
\* get_frame_control states it: version in bits 1..0, type in bits 3..2,
\* subtype in bits 7..4; flags toDS (bit 0) up to order (bit 7).
FcType(b) == (b \div 4) % 4
FcSubtype(b) == b \div 16
FlagNames == <<"toDS", "FromDS", "morefrag", "retry", "PS", "moredata",
               "protected_MF", "order">>

\* The 20 header bytes repeat_sending_function puts before a frame decode,
\* in the receiving cross_injector (get_length, get_timestamp) and in
\* bcaster (pkt_get_length), to the frame's size and capture time.
HeaderRoundTrip ==
    hdr # NoCase =>
        LET h == Header(hdr.size, hdr.item) IN
        /\ get_length(Slice(h, 0, 3)) = hdr.size
        /\ pkt_get_length(Slice(h, 0, 3)) = hdr.size
        /\ get_timestamp(Slice(h, 4, 19)) = hdr.item

\* get_frame_control and bcaster's pkt_get_frame_control agree, unpack
\* the frame control and flags bytes after a radiotap header of any length
\* as 802.11 lays them out, into the type_subtype codes of utilities.h
\* (type * 16 + subtype); so is_ack, which SKIP_ACKS uses to drop captured
\* acks, holds exactly for control frames of subtype 13, and the beacon and
\* data tests of the bcaster print worker for management subtype 8 and the
\* eight data subtypes that carry data.
FrameControlDecode ==
    frm # NoCase =>
        LET p == Frame(frm)
            fc == get_frame_control(p)
            t == FcType(frm.fc)
            st == FcSubtype(frm.fc)
        IN /\ pkt_get_frame_control(p) = fc
           /\ fc.version = frm.fc % 4
           /\ fc.type_subtype = t * 16 + st
           /\ \A b \in 1 .. 8 : fc[FlagNames[b]] = (frm.flags \div 2^(b - 1)) % 2
           /\ fc.dest = [i \in 0 .. 5 |-> (frm.rl + 4 + i) % 256]
           /\ is_ack(p) <=> t = 1 /\ st = 13
           /\ pkt_is_ack(p) <=> is_ack(p)
           /\ is_beacon(p) <=> t = 0 /\ st = 8
           /\ pkt_is_beacon(p) <=> is_beacon(p)
           /\ pkt_is_data(p) <=> t = 2 /\ st \in {0, 1, 2, 3, 8, 9, 10, 11}

=============================================================================
