------------------------------- MODULE LagStats -------------------------------
(***************************************************************************)
(* The lag statistics of bignum_sec_profiling.c: a running sum, minimum    *)
(* and maximum of (now - timestamp) over the frames the inject stage has   *)
(* injected.  profiling_update_lag_time reads the clock and subtracts      *)
(* before it takes lag_time_lock and then updates all three under it, so   *)
(* concurrent injectors apply whole updates one after another and the      *)
(* statistics are a fold of the update over the samples in lock order.     *)
(* Sum, minimum and maximum commute, so any order gives the same result.   *)
(***************************************************************************)
EXTENDS SignedDuration, Sequences

LOCAL INSTANCE SequencesExt

\* clock_gettime(CLOCK_REALTIME) failed.
ClockFail == [clockFailed |-> TRUE]

\* The static lag_time_sum/min/max.  profiling_init_lag_time_sum is never
\* called, so they keep their zero initialisation: positive = false.
LagInit ==
    LET zero == [positive |-> FALSE, sec |-> 0, nsec |-> 0]
    IN  [sum |-> zero, min |-> zero, max |-> zero]

\* Seeded faults (see PROJECT.json, mutants).
LagMinNoLazy(st, delta) ==
    IF less_than(delta, st.min) THEN delta ELSE st.min
LagSumOverwrite(st, delta) == delta

\* lag_time_sum = current_sum + delta (a copy of the sum, then add).
LagSum(st, delta) == add(st.sum, delta)

\* The minimum is replaced while it is still zero or when delta is below
\* it; the maximum likewise.  A zero delta counts as "not yet set".
LagMin(st, delta) ==
    IF is_zero(st.min) \/ less_than(delta, st.min) THEN delta ELSE st.min
LagMax(st, delta) ==
    IF is_zero(st.max) \/ greater_than(delta, st.max) THEN delta ELSE st.max

\* profiling_update_lag_time(a) with the clock reading now: a failed clock
\* leaves the statistics alone; otherwise delta = now - a, computed before
\* the lock, updates sum, minimum and maximum under it.  A failed assert
\* in sub or add is Abort, and ends the process.
profiling_update_lag_time(st, a, now) ==
    IF now = ClockFail \/ st = Abort THEN st
    ELSE LET delta == sub(now, a)
             s == IF delta = Abort THEN Abort ELSE LagSum(st, delta)
         IN  IF s = Abort THEN Abort
             ELSE [sum |-> s, min |-> LagMin(st, delta), max |-> LagMax(st, delta)]

\* The statistics after the injector has updated them with the timestamps
\* ts[1], ts[2], ... read against the clock readings now[1], now[2], ...
RECURSIVE LagAfter(_, _)
LagAfter(ts, now) ==
    IF ts = <<>> THEN LagInit
    ELSE profiling_update_lag_time(LagAfter(Front(ts), Front(now)),
                                   Last(ts), Last(now))

\* profiling_get_lag_time_avg(avg, num): a zero sum sets avg's seconds and
\* nanoseconds to 0 and leaves its sign as the caller's variable had it;
\* otherwise the sum divided by num.
profiling_get_lag_time_avg(st, avg, num) ==
    IF st.sum.sec = 0 /\ st.sum.nsec = 0
    THEN [avg EXCEPT !.sec = 0, !.nsec = 0]
    ELSE divs(st.sum, num)

\* profiling_get_lag_time_min / profiling_get_lag_time_max.
profiling_get_lag_time_min(st) == st.min
profiling_get_lag_time_max(st) == st.max

=============================================================================
