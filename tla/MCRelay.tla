------------------------------ MODULE MCRelay ------------------------------
EXTENDS Relay

\* Two clock readings: one whose seconds and nanoseconds each take several
\* bytes, and the 0/0 that repeat_capturing_function stores when
\* clock_gettime fails.  Every byte of the stream stays below 128, so any
\* four of them decoded as a length fit in TLC's integers.
MCClock == {[sec |-> 258, nsec |-> 16909060], [sec |-> 0, nsec |-> 0]}
=============================================================================
