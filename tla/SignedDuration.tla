--------------------------- MODULE SignedDuration ---------------------------
(***************************************************************************)
(* bignum_sec_t arithmetic of bignum_sec_profiling.c: a sign flag and a    *)
(* magnitude of seconds and nanoseconds.  Base stands for one_billion; the *)
(* code uses it only as "the nanosecond count of one second", so a small   *)
(* Base exercises every carry and borrow the real constant does.  A failed *)
(* assert() in bignum_sec_sub_unsigned is the value Abort when the build   *)
(* keeps asserts (AssertsOn); without them the subtraction goes ahead.     *)
(***************************************************************************)
EXTENDS Integers

CONSTANTS Base, AssertsOn

Abort == [aborted |-> TRUE]

Durations(maxSec) ==
    [positive : BOOLEAN, sec : 0 .. maxSec, nsec : 0 .. Base - 1]

\* The value a bignum_sec_t stands for, in nanoseconds.
Real(a) == (IF a.positive THEN 1 ELSE -1) * (a.sec * Base + a.nsec)

Magnitude(a) == a.sec * Base + a.nsec

\* Set the sign of a result whose magnitude an unsigned helper computed.
Signed(p, m) ==
    IF m = Abort THEN Abort ELSE [positive |-> p, sec |-> m.sec, nsec |-> m.nsec]

-----------------------------------------------------------------------------
\* Seeded faults (see PROJECT.json, mutants).
add_unsignedNoCarry(a, b) ==
    LET n == a.nsec + b.nsec
    IN  IF n > Base THEN [sec |-> a.sec + b.sec, nsec |-> n - Base]
                    ELSE [sec |-> a.sec + b.sec, nsec |-> n]
divs_unsignedNoRemainder(a, b) ==
    [sec |-> a.sec \div b, nsec |-> a.nsec \div b]

\* bignum_sec_add_unsigned: add nanoseconds, carry one second when they
\* exceed one_billion.
add_unsigned(a, b) ==
    LET n == a.nsec + b.nsec
    IN  IF n > Base THEN [sec |-> a.sec + b.sec + 1, nsec |-> n - Base]
                    ELSE [sec |-> a.sec + b.sec, nsec |-> n]

\* bignum_sec_greater_than_unsigned / bignum_sec_less_than_unsigned.
greater_unsigned(a, b) ==
    a.sec > b.sec \/ (a.sec = b.sec /\ a.nsec > b.nsec)

less_unsigned(a, b) ==
    a.sec < b.sec \/ (a.sec = b.sec /\ a.nsec < b.nsec)

\* bignum_sec_sub_unsigned: asserts a > b strictly, then borrows a second
\* when a's nanoseconds are the smaller.
sub_unsigned(a, b) ==
    IF AssertsOn /\ ~greater_unsigned(a, b) THEN Abort
    ELSE IF a.nsec < b.nsec
         THEN [sec |-> (a.sec - 1) - b.sec, nsec |-> (a.nsec + Base) - b.nsec]
         ELSE [sec |-> a.sec - b.sec, nsec |-> a.nsec - b.nsec]

\* bignum_sec_divs_unsigned: whole seconds, then the remainder folded into
\* the nanoseconds, and any carry moved back into the seconds.
divs_unsigned(a, b) ==
    LET s     == a.sec \div b
        r     == a.sec % b
        ns    == (r * Base + a.nsec) \div b
        carry == ns \div Base
    IN  [sec |-> s + carry, nsec |-> ns - carry * Base]

\* bignum_sec_equal: sign, seconds and nanoseconds all equal.
equal(a, b) ==
    a.positive = b.positive /\ a.sec = b.sec /\ a.nsec = b.nsec

\* bignum_sec_add.
add(a, b) ==
    CASE a.positive = b.positive -> Signed(a.positive, add_unsigned(a, b))
      [] a.positive /\ ~b.positive ->
            IF greater_unsigned(a, b) THEN Signed(TRUE, sub_unsigned(a, b))
                                      ELSE Signed(FALSE, sub_unsigned(b, a))
      [] OTHER ->
            IF greater_unsigned(b, a) THEN Signed(TRUE, sub_unsigned(b, a))
                                      ELSE Signed(FALSE, sub_unsigned(a, b))

\* bignum_sec_sub.  Lines 145-149 store +0 when a equals b but do not
\* return, and every path after them assigns all three fields again, so
\* they have no effect on the result.
sub(a, b) ==
    CASE a.positive /\ b.positive ->
            IF greater_unsigned(a, b) THEN Signed(TRUE, sub_unsigned(a, b))
                                      ELSE Signed(FALSE, sub_unsigned(b, a))
      [] a.positive /\ ~b.positive -> Signed(TRUE, add_unsigned(a, b))
      [] ~a.positive /\ b.positive -> Signed(FALSE, add_unsigned(a, b))
      [] OTHER ->
            IF greater_unsigned(b, a) THEN Signed(TRUE, sub_unsigned(b, a))
                                      ELSE Signed(FALSE, sub_unsigned(a, b))

\* bignum_sec_divs: the sign of a, the magnitude divided.
divs(a, b) == Signed(a.positive, divs_unsigned(a, b))

\* Seeded fault: two negatives compared by magnitude the wrong way round.
greater_thanNegFlip(a, b) ==
    CASE equal(a, b) -> FALSE
      [] a.positive /\ b.positive -> greater_unsigned(a, b)
      [] a.positive /\ ~b.positive -> TRUE
      [] ~a.positive /\ b.positive -> FALSE
      [] OTHER -> greater_unsigned(a, b)

\* bignum_sec_greater_than / bignum_sec_less_than.
greater_than(a, b) ==
    CASE equal(a, b) -> FALSE
      [] a.positive /\ b.positive -> greater_unsigned(a, b)
      [] a.positive /\ ~b.positive -> TRUE
      [] ~a.positive /\ b.positive -> FALSE
      [] OTHER -> less_unsigned(a, b)

less_than(a, b) ==
    CASE equal(a, b) -> FALSE
      [] a.positive /\ b.positive -> less_unsigned(a, b)
      [] a.positive /\ ~b.positive -> FALSE
      [] ~a.positive /\ b.positive -> TRUE
      [] OTHER -> greater_unsigned(a, b)

\* bignum_sec_is_zero: the magnitude only, whatever the sign.
is_zero(a) == a.sec = 0 /\ a.nsec = 0

=============================================================================
