------------------------------- MODULE Looper -------------------------------
(***************************************************************************)
(* bcaster/looper.c: a worker thread repeating a step function, driven by  *)
(* a controller thread through looper_start / pause / resume / stop.  The  *)
(* shared desired_state and actual_state are read and written under the    *)
(* looper's mutex, which the worker also holds while the step runs; the    *)
(* worker keeps its own copies (desired_state, actual_state locals of      *)
(* looper_function), refreshed by looper_update_state once per iteration.  *)
(* The step function is the counter of ci_tests.c test_looper; instead of  *)
(* the counter the model keeps how many steps ran since the controller's   *)
(* last call and since that call returned, capped at 2.                    *)
(***************************************************************************)
EXTENDS Naturals

CONSTANTS
    MaxCalls,   \* pause / resume calls the controller makes before stopping
    Nowait      \* looper_nowait was called: the calls do not wait

States == {"not_running", "running", "paused", "stopped"}

VARIABLES
    desired,    \* l->desired_state
    actual,     \* l->actual_state
    wpc,        \* worker: "none" (no thread), "loop", "update", "exited"
    lDesired,   \* the worker's local desired_state
    lActual,    \* the worker's local actual_state
    cpc,        \* controller: "init", "starting", "ready", "pausing",
                \*   "resuming", "joining", "done"
    calls,      \* pause / resume calls made so far
    lastCall,   \* the controller's last call
    callActual, \* actual_state when that call was made
    sinceCall,  \* steps since that call was made (capped at 2)
    sinceReturn,\* steps since that call returned (capped at 2)
    finalRan,   \* function_to_run_last has run
    afterFinal  \* a step ran after function_to_run_last

vars == <<desired, actual, wpc, lDesired, lActual, cpc, calls, lastCall,
          callActual, sinceCall, sinceReturn, finalRan, afterFinal>>

Bump(n) == IF n < 2 THEN n + 1 ELSE 2

Init ==
    /\ desired = "not_running" /\ actual = "not_running"     \* looper_init
    /\ wpc = "none" /\ lDesired = "running" /\ lActual = "not_running"
    /\ cpc = "init" /\ calls = 0 /\ lastCall = "none"
    /\ callActual = "not_running"
    /\ sinceCall = 0 /\ sinceReturn = 0
    /\ finalRan = FALSE /\ afterFinal = FALSE

-----------------------------------------------------------------------------
(* Worker: looper_function.                                                 *)

\* Seeded fault (see PROJECT.json, mutants): the paused branch forgets to
\* set actual_state.
WorkerLoopNoPaused ==
    /\ wpc = "loop"
    /\ lDesired # "stopped"
    /\ IF lDesired # "paused"
         THEN /\ lActual' = "running"
              /\ sinceCall' = Bump(sinceCall) /\ sinceReturn' = Bump(sinceReturn)
              /\ afterFinal' = (afterFinal \/ finalRan)
         ELSE UNCHANGED <<lActual, sinceCall, sinceReturn, afterFinal>>
    /\ wpc' = "update"
    /\ UNCHANGED <<callActual, desired, actual, lDesired, cpc, calls, lastCall, finalRan>>

\* Loop head: leave on stopped; otherwise run the step under the lock, or
\* note that the looper is paused.
WorkerLoop ==
    /\ wpc = "loop"
    /\ lDesired # "stopped"
    /\ IF lDesired # "paused"
         THEN /\ lActual' = "running"
              /\ sinceCall' = Bump(sinceCall) /\ sinceReturn' = Bump(sinceReturn)
              /\ afterFinal' = (afterFinal \/ finalRan)
         ELSE /\ lActual' = "paused"
              /\ UNCHANGED <<sinceCall, sinceReturn, afterFinal>>
    /\ wpc' = "update"
    /\ UNCHANGED <<callActual, desired, actual, lDesired, cpc, calls, lastCall, finalRan>>

\* looper_update_state, then the usleep.
WorkerUpdate ==
    /\ wpc = "update"
    /\ lDesired' = desired
    /\ actual' = lActual
    /\ wpc' = "loop"
    /\ UNCHANGED <<callActual, desired, lActual, cpc, calls, lastCall, sinceCall,
                   sinceReturn, finalRan, afterFinal>>

\* Loop exit: publish stopped and return.
WorkerExit ==
    /\ wpc = "loop"
    /\ lDesired = "stopped"
    /\ lActual' = "stopped"
    /\ lDesired' = desired
    /\ actual' = "stopped"
    /\ wpc' = "exited"
    /\ UNCHANGED <<callActual, desired, cpc, calls, lastCall, sinceCall, sinceReturn,
                   finalRan, afterFinal>>

-----------------------------------------------------------------------------
(* Controller.  A call sets desired_state, then (unless nowait) polls      *)
(* actual_state until it shows the state asked for.                       *)

Call(name, wait) ==
    /\ lastCall' = name /\ callActual' = actual /\ sinceCall' = 0 /\ sinceReturn' = 0
    /\ cpc' = IF Nowait THEN "ready" ELSE wait

\* Seeded faults: looper_start marks the looper running itself;
\* looper_pause does not wait; looper_stop runs the last hook without
\* pthread_join.
StartSetsActual ==
    /\ cpc = "init"
    /\ desired' = "running" /\ actual' = "running"
    /\ wpc' = "loop"
    /\ Call("start", "starting")
    /\ UNCHANGED <<lDesired, lActual, calls, finalRan, afterFinal>>

PauseNoWait ==
    /\ cpc = "ready" /\ calls < MaxCalls
    /\ desired' = "paused"
    /\ calls' = calls + 1
    /\ Call("pause", "ready")
    /\ UNCHANGED <<actual, wpc, lDesired, lActual, finalRan, afterFinal>>

JoinNoWait ==
    /\ cpc = "joining"
    /\ finalRan' = TRUE
    /\ cpc' = "done"
    /\ UNCHANGED <<callActual, desired, actual, wpc, lDesired, lActual, calls, lastCall,
                   sinceCall, sinceReturn, afterFinal>>

\* looper_start: desired = running, the first hook, pthread_create, wait.
Start ==
    /\ cpc = "init"
    /\ desired' = "running"
    /\ wpc' = "loop"
    /\ Call("start", "starting")
    /\ UNCHANGED <<actual, lDesired, lActual, calls, finalRan, afterFinal>>

Pause ==
    /\ cpc = "ready" /\ calls < MaxCalls
    /\ desired' = "paused"
    /\ calls' = calls + 1
    /\ Call("pause", "pausing")
    /\ UNCHANGED <<actual, wpc, lDesired, lActual, finalRan, afterFinal>>

Resume ==
    /\ cpc = "ready" /\ calls < MaxCalls
    /\ desired' = "running"
    /\ calls' = calls + 1
    /\ Call("resume", "resuming")
    /\ UNCHANGED <<actual, wpc, lDesired, lActual, finalRan, afterFinal>>

\* looper_wait_for_actual_state returning.
WaitDone ==
    /\ \/ cpc \in {"starting", "resuming"} /\ actual = "running"
       \/ cpc = "pausing" /\ actual = "paused"
    /\ cpc' = "ready" /\ sinceReturn' = 0
    /\ UNCHANGED <<callActual, desired, actual, wpc, lDesired, lActual, calls, lastCall,
                   sinceCall, finalRan, afterFinal>>

\* looper_stop: desired = stopped, then pthread_join.
Stop ==
    /\ cpc = "ready"
    /\ desired' = "stopped"
    /\ lastCall' = "stop" /\ callActual' = actual /\ sinceCall' = 0 /\ sinceReturn' = 0
    /\ cpc' = "joining"
    /\ UNCHANGED <<actual, wpc, lDesired, lActual, calls, finalRan, afterFinal>>

\* pthread_join returns once the worker has exited; then the last hook.
Join ==
    /\ cpc = "joining" /\ wpc = "exited"
    /\ finalRan' = TRUE
    /\ cpc' = "done"
    /\ UNCHANGED <<callActual, desired, actual, wpc, lDesired, lActual, calls, lastCall,
                   sinceCall, sinceReturn, afterFinal>>

Next ==
    \/ WorkerLoop \/ WorkerUpdate \/ WorkerExit
    \/ Start \/ Pause \/ Resume \/ WaitDone \/ Stop \/ Join

\* The worker is a thread the OS keeps scheduling; the controller's polling
\* loops and pthread_join keep running once they are entered.  Whether the
\* controller makes another call is its own choice.
Fairness ==
    /\ WF_vars(WorkerLoop) /\ WF_vars(WorkerUpdate) /\ WF_vars(WorkerExit)
    /\ WF_vars(WaitDone) /\ WF_vars(Join)

Spec == Init /\ [][Next]_vars /\ Fairness

-----------------------------------------------------------------------------
TypeOK ==
    /\ desired \in States /\ actual \in States
    /\ wpc \in {"none", "loop", "update", "exited"}
    /\ lDesired \in States /\ lActual \in States
    /\ cpc \in {"init", "starting", "ready", "pausing", "resuming", "joining", "done"}
    /\ calls \in 0 .. MaxCalls
    /\ lastCall \in {"none", "start", "pause", "resume", "stop"}
    /\ callActual \in States
    /\ sinceCall \in 0 .. 2 /\ sinceReturn \in 0 .. 2
    /\ finalRan \in BOOLEAN /\ afterFinal \in BOOLEAN

\* looper_pause freezes the step function: from the pause call until the
\* next call at most one step runs (the one the worker may already have
\* begun with its stale local desired_state), and none runs once
\* looper_pause has returned.  This is what test_looper asserts.
PauseFreezes ==
    lastCall = "pause" =>
        /\ sinceCall <= 1
        /\ (cpc = "ready" => sinceReturn = 0)

\* looper_start, and looper_resume of a paused looper, return only after
\* the step function has run since the call: actual_state reads running
\* only once a step of the running branch has completed.
RunningMeansStepped ==
    /\ cpc = "ready"
    /\ \/ lastCall = "start"
       \/ lastCall = "resume" /\ callActual = "paused"
    => sinceCall >= 1

\* function_to_run_last, run by looper_stop after pthread_join, observes
\* the final effect of the step function: no step runs after it.
FinalSeesLast == ~afterFinal

\* Every looper call that waits (start, pause, resume, stop) returns.
CallsReturn ==
    cpc \in {"starting", "pausing", "resuming", "joining"} ~> cpc \in {"ready", "done"}

=============================================================================
