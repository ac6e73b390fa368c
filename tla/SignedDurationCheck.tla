------------------------- MODULE SignedDurationCheck -------------------------
(***************************************************************************)
(* The bignum_sec_t operators checked against integer arithmetic on the    *)
(* values they stand for, for every pair of operands x, y with at most     *)
(* MaxSec seconds (either sign, normalised nanoseconds) and every divisor  *)
(* k in 1..MaxDiv.  The operands are chosen in the initial state and never *)
(* change: each state is one test case.  The lag statistics are checked  *)
(* on the three frame timestamps x, y, z injected at the clock reading     *)
(* LagNow, which gives lags of both signs, as skewed clocks of two VMs do. *)
(***************************************************************************)
EXTENDS LagStats

CONSTANTS MaxSec, MaxDiv

VARIABLES x, y, z, k

Init ==
    /\ x \in Durations(MaxSec)
    /\ y \in Durations(MaxSec)
    /\ z \in Durations(MaxSec)
    /\ k \in 1 .. MaxDiv

Next == UNCHANGED <<x, y, z, k>>

Spec == Init /\ [][Next]_<<x, y, z, k>>

TypeOK ==
    /\ {x, y, z} \subseteq Durations(MaxSec)
    /\ k \in 1 .. MaxDiv

LagNow == [positive |-> TRUE, sec |-> 1, nsec |-> 0]
LagTs == <<x, y, z>>
LagStatsNow == LagAfter(LagTs, [i \in 1 .. 3 |-> LagNow])
\* The lags in nanoseconds, computed with integers.
Lags == {Real(LagNow) - Real(LagTs[i]) : i \in 1 .. 3}
LagTotal == Real(LagNow) * 3 - (Real(x) + Real(y) + Real(z))
Least(S) == CHOOSE m \in S : \A v \in S : m <= v
Greatest(S) == CHOOSE m \in S : \A v \in S : m >= v

\* Whenever bignum_sec_add and bignum_sec_sub return, the value they return
\* is the sum / difference of the values of their operands, across every
\* mix of signs and every nanosecond carry and borrow.
AddSubExact ==
    /\ add(x, y) # Abort => Real(add(x, y)) = Real(x) + Real(y)
    /\ sub(x, y) # Abort => Real(sub(x, y)) = Real(x) - Real(y)

\* bignum_sec_divs truncates the nanosecond count of x divided by k, keeps
\* the sign, and leaves the nanoseconds normalised (the example of the
\* comment above bignum_sec_divs_unsigned, 5.5 / 2 = 2.75, is one case).
DivsExact ==
    LET q == divs(x, k) IN
    /\ Magnitude(q) = Magnitude(x) \div k
    /\ q.positive = x.positive
    /\ q.nsec < Base

\* bignum_sec_greater_than and bignum_sec_less_than order the values the
\* way the numbers they stand for are ordered, for operands that are not
\* both zero.
CompareOffZero ==
    ~(is_zero(x) /\ is_zero(y)) =>
        /\ greater_than(x, y) <=> Real(x) > Real(y)
        /\ less_than(x, y) <=> Real(x) < Real(y)

\* After three frames are injected without an abort, the statistics that
\* profiling_get_lag_time_min/max report are the least and the greatest
\* lag, whatever their signs and order (the lazy first assignment of the
\* zero-initialised, negatively signed minimum and maximum included).
LagMinMax ==
    LagStatsNow # Abort =>
        /\ Real(profiling_get_lag_time_min(LagStatsNow)) = Least(Lags)
        /\ Real(profiling_get_lag_time_max(LagStatsNow)) = Greatest(Lags)

\* After three frames are injected without an abort, lag_time_sum is the
\* sum of the lags and profiling_get_lag_time_avg(&avg, 3), as
\* ciqs_print_stats calls it with packets_injected, is that sum divided
\* by 3, truncated.
LagSumAvg ==
    LagStatsNow # Abort =>
        /\ Real(LagStatsNow.sum) = LagTotal
        /\ Magnitude(profiling_get_lag_time_avg(LagStatsNow, LagInit.sum, 3))
             = (IF LagTotal < 0 THEN -LagTotal ELSE LagTotal) \div 3

\* Specification, section 4.4: after every add the nanoseconds are below
\* one_billion.
AddNormalised ==
    add(x, y) # Abort => add(x, y).nsec < Base

\* Specification, section 8: a + b - b == a.
AddSubInverse ==
    LET s == add(x, y) IN s # Abort /\ sub(s, y) # Abort /\ equal(sub(s, y), x)

\* Specification, section 8: a - a is the zero value with positive sign.
SubSelfPositiveZero ==
    sub(x, x) # Abort /\ equal(sub(x, x), [positive |-> TRUE, sec |-> 0, nsec |-> 0])

\* Specification, section 4.4: +0 == -0, and comparison is consistent with
\* the numbers the values stand for.
CompareConsistent ==
    /\ greater_than(x, y) <=> Real(x) > Real(y)
    /\ less_than(x, y) <=> Real(x) < Real(y)

=============================================================================
