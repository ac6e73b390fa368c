---------------------------- MODULE RunningQueues ----------------------------
(***************************************************************************)
(* The main thread of cross_injector (ci_main.c) and the list of running   *)
(* queues of ci_queues.c: main starts the queue loopers of its mode with   *)
(* ciqs_start, each of which appends the queue to queues_running; on       *)
(* SIGINT the handler calls ciqs_stop_all, which walks queues_running and  *)
(* calls ciqs_stop, whose del_running_queue shifts that same array.  All   *)
(* of it runs on the main thread, one call per step.  A looper is reduced  *)
(* to whether it was started and how often looper_stop joined it.          *)
(*                                                                         *)
(* Queues are the values of enum ciqs_queue (sendq = 0 ... naq = 8).       *)
(* queues_running[NUM_QUEUES] is written when last_queue = NUM_QUEUES: the *)
(* store lands outside the array.  Which object it hits depends on how the *)
(* build lays out the statics, so both outcomes are explored: it is lost,  *)
(* or it overwrites last_queue, defined right after the array.             *)
(***************************************************************************)
EXTENDS Integers, Sequences

sendq == 0
altsendq == 1
receiveq == 2
altreceiveq == 3
captureq == 4
nlcaptureq == 5
injectionq == 6
nlinjectionq == 7
naq == 8
NUM_QUEUES == 4
Queues == sendq .. nlinjectionq

VARIABLES
    mode,       \* static mode_t mode, from argv[1][0]
    mpc,        \* main thread: "start", "loop", "stopall", "exit"
    todo,       \* the ciqs_start calls main has still to make
    qr,         \* queues_running[0 .. NUM_QUEUES-1]
    last,       \* last_queue
    si,         \* ciqs_stop_all's loop index i
    started,    \* the loopers looper_start started
    stops,      \* stops[q]: how often looper_stop joined q's looper
    oob         \* what queues_running[NUM_QUEUES] aliases in this build

vars == <<mode, mpc, todo, qr, last, si, started, stops, oob>>

\* The ciqs_start calls of start_client(use_nl) and start_server, in order.
StartOrder(m) ==
    CASE m = "c" -> <<sendq, receiveq, captureq, injectionq>>
      [] m = "o" -> <<sendq, receiveq, nlcaptureq, injectionq>>
      [] m = "s" -> <<altsendq, altreceiveq, captureq, injectionq>>
      [] m = "n" -> <<nlcaptureq>>
      [] OTHER -> <<>>

\* queues_running[idx] = v, with idx outside the array lost or landing on
\* last_queue.
WriteQr(st, idx, v) ==
    IF idx \in 0 .. NUM_QUEUES - 1 THEN [st EXCEPT !.qr[idx] = v]
    ELSE IF idx = NUM_QUEUES /\ oob = "last_queue" THEN [st EXCEPT !.last = v]
    ELSE st

\* add_running_queue: queues_running[last_queue++] = q.
add_running_queue(st, q) ==
    [WriteQr(st, st.last, q) EXCEPT !.last = @ + 1]

\* del_running_queue: find the first q, shift the entries after it down
\* by one, store naq at queues_running[last_queue], decrement last_queue.
del_running_queue(st, q) ==
    LET F == {i \in 0 .. NUM_QUEUES - 1 : st.qr[i] = q}
        i == CHOOSE x \in F : \A y \in F : x <= y
        sh == [j \in 0 .. NUM_QUEUES - 1 |->
                 IF j >= i /\ j < NUM_QUEUES - 1 THEN st.qr[j + 1] ELSE st.qr[j]]
    IN  IF F = {} THEN st
        ELSE [WriteQr([st EXCEPT !.qr = sh], st.last, naq) EXCEPT !.last = @ - 1]

List == [qr |-> qr, last |-> last]

Init ==
    /\ mode \in {"n", "o", "c", "s"}
    /\ mpc = "start"
    /\ todo = StartOrder(mode)
    \* ciqs_init_queues: every entry naq, last_queue = 0.
    /\ qr = [i \in 0 .. NUM_QUEUES - 1 |-> naq] /\ last = 0
    /\ si = 0
    /\ started = {} /\ stops = [q \in Queues |-> 0]
    /\ oob \in {"lost", "last_queue"}

\* ciqs_start(q): looper_start, then add_running_queue.
ciqs_start ==
    /\ mpc = "start" /\ todo # <<>>
    /\ LET q == Head(todo)
           st == add_running_queue(List, q)
       IN  /\ started' = started \cup {q}
           /\ qr' = st.qr /\ last' = st.last
    /\ todo' = Tail(todo)
    /\ UNCHANGED <<mode, mpc, si, stops, oob>>

\* main: the queues are up, signal(SIGINT, sig_handler) and sleep.
Sleep ==
    /\ mpc = "start" /\ todo = <<>>
    /\ mpc' = "loop"
    /\ UNCHANGED <<mode, todo, qr, last, si, started, stops, oob>>

\* sig_handler: client_server mode stops all queues; nl_test only prints.
sig_handler ==
    /\ mpc = "loop"
    /\ mpc' = IF mode \in {"o", "c", "s"} THEN "stopall" ELSE "exit"
    /\ UNCHANGED <<mode, todo, qr, last, si, started, stops, oob>>

\* One iteration of ciqs_stop_all's loop: ciqs_stop(queues_running[i]) if
\* it is not naq, which is looper_stop and del_running_queue; after the
\* loop, exit(0).
ciqs_stop_all ==
    /\ mpc = "stopall"
    /\ IF si < NUM_QUEUES
       THEN /\ si' = si + 1
            /\ IF qr[si] # naq
               THEN LET st == del_running_queue(List, qr[si]) IN
                    /\ stops' = [stops EXCEPT ![qr[si]] = @ + 1]
                    /\ qr' = st.qr /\ last' = st.last
               ELSE UNCHANGED <<qr, last, stops>>
            /\ UNCHANGED mpc
       ELSE mpc' = "exit" /\ UNCHANGED <<si, qr, last, stops>>
    /\ UNCHANGED <<mode, todo, started, oob>>

Next == ciqs_start \/ Sleep \/ sig_handler \/ ciqs_stop_all

Spec == Init /\ [][Next]_vars

TypeOK ==
    /\ qr \in [0 .. NUM_QUEUES - 1 -> Queues \cup {naq}]
    /\ last \in -NUM_QUEUES .. naq
    /\ stops \in [Queues -> 0 .. NUM_QUEUES]

\* On SIGINT in client or server mode, ciqs_stop_all stops every queue
\* looper main started before the process exits.
StopAllStopsAll ==
    mpc = "exit" /\ mode \in {"o", "c", "s"} =>
        \A q \in started : stops[q] >= 1

\* No looper is stopped twice: looper_stop joins the thread, and joining a
\* joined thread is undefined.
NoDoubleStop == \A q \in Queues : stops[q] <= 1

=============================================================================
