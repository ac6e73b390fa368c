------------------------------- MODULE Lisa -------------------------------
(***************************************************************************)
(* One lisa connection in the client role (lisa.c), shared by the three    *)
(* cross_injector threads that use it: the main thread opens and connects  *)
(* it (ci_start_client), while the send and receive loopers, started       *)
(* before it (ci_main.c start_client), call lisa_cast and lisa_recv on it  *)
(* in a loop.  Every lisa call runs in three phases: a pre-select section  *)
(* under l->lock, the select (and for send the send() loop) without the    *)
(* lock, and a post-select section under the lock that writes l->state.   *)
(* Each locked section is one step.  The peer and the network are the      *)
(* environment: the TCP connection `link`, and the bytes the peer has sent *)
(* and not yet been read, `inbound`.  The client's recv selects on fd 0   *)
(* (line 818), not on the socket: stdin, or whatever descriptor took fd 0. *)
(* A peer reset leaves a pending socket error, which the first send() or   *)
(* recv() returns as -1; after it recv() returns 0 and send() raises       *)
(* SIGPIPE (the flags are 0, line 622), whose default action ends the      *)
(* process.                                                                *)
(***************************************************************************)
EXTENDS Integers, LisaStates

CONSTANTS
    MsgLen,         \* msglength of each lisa_send
    MaxIn,          \* bound on unread bytes the peer has sent
    WordBits,       \* width of the unsigned int bytes_sent (32 in the build)
    SendTimeouts,   \* TRUE: the write select may time out (wait_time 2 s)
    LinkFaults,     \* TRUE: connect may fail and the connection may break
    ServerMode,     \* TRUE: main's 's' mode, start_server and ci_start_server
    SelectFd        \* fd 0: "stdin_ready" (e.g. /dev/null), "stdin_idle" (a
                    \* tty), "stdin_any" (ready at times the process does not
                    \* control, e.g. a pipe or a descriptor opened earlier)

VARIABLES
    state, clsvr,   \* l->state, l->clsvr
    link,           \* the TCP connection: "none", "pending", "up", "broken"
    inbound,        \* bytes the peer has sent that recv has not read
    soErr,          \* the socket has a pending error (sk_err) to report
    mpc,            \* main thread: where it is in open/setup/connect
    spc, sThis,     \* send thread: pc and this_state of lisa_send
    sSent,          \* bytes_sent, an unsigned int of WordBits bits
    sTimedOut,      \* a write select has timed out in this call
    sWrote,         \* history: bytes send() accepted in this call
    sRc,            \* history: what the last lisa_send returned
    rpc, rReady,    \* receive thread: pc and whether its select fired
    connected,      \* history: connect's post-select has run
    ioBeforeConnect,\* history: send()/recv() ran before that
    desired,        \* the send looper's l->desired_state
    lDesired,       \* its worker's local copy (looper_function)
    hpc             \* sig_handler on the main thread: "none", "set",
                    \*   "join", "done" (exit(0) reached); "killed" once
                    \*   SIGPIPE has ended the process

vars == <<state, clsvr, link, inbound, soErr, mpc, spc, sThis, sSent, sTimedOut,
          sWrote, sRc, rpc, rReady, connected, ioBeforeConnect,
          desired, lDesired, hpc>>

Word == 2 ^ WordBits
\* The conversion of unsigned bytes_sent to the int rc (line 627).
ToInt(u) == IF u >= Word \div 2 THEN u - Word ELSE u
NoRc == -Word    \* no lisa_send has returned yet

Init ==
    /\ state = 0 /\ clsvr = LISA_UNKNOWN        \* static lisa l_client
    /\ link = "none" /\ inbound = 0 /\ soErr = FALSE
    /\ mpc = "open"
    /\ spc = "idle" /\ sThis = 0 /\ sSent = 0 /\ sTimedOut = FALSE
    /\ sWrote = 0 /\ sRc = NoRc
    /\ rpc = "idle" /\ rReady = FALSE
    /\ desired = "running" /\ lDesired = "running" /\ hpc = "none"
    /\ connected = FALSE /\ ioBeforeConnect = FALSE

Sender == <<spc, sThis, sSent, sTimedOut, sWrote, sRc, lDesired>>
Stop == <<desired, hpc>>
Receiver == <<rpc, rReady>>

-----------------------------------------------------------------------------
(* Main thread: ci_start_client.                                           *)

\* lisa_open: the state and role are reset (without the lock).
Open ==
    /\ mpc = "open"
    /\ state' = LISA_UNINITIALIZED /\ clsvr' = LISA_UNKNOWN
    /\ mpc' = "setup"
    /\ UNCHANGED <<link, inbound, soErr, connected, ioBeforeConnect>>
    /\ UNCHANGED <<Sender, Receiver, Stop>>

\* lisa_set_nonblocking: a failed fcntl sets ERROR, else the state stays.
lisa_set_nonblocking(st) ==
    {st} \cup (IF LinkFaults THEN {LISA_ERROR} ELSE {})

\* lisa_setup_tcp (a failed socket() sets ERROR; else CREATED and the socket
\* is made non-blocking), then lisa_set_wait_time.  ci_start_server stops
\* here (it sets the port and returns); ci_start_client goes on to connect.
Setup ==
    /\ mpc = "setup"
    /\ IF state < 0 THEN UNCHANGED state
       ELSE \E st \in lisa_set_nonblocking(LISA_CREATED) : state' = st
    /\ mpc' = IF ServerMode THEN "done" ELSE "connect"
    /\ UNCHANGED <<clsvr, link, inbound, soErr, connected, ioBeforeConnect>>
    /\ UNCHANGED <<Sender, Receiver, Stop>>

\* lisa_connect pre-select: the role is set and the non-blocking connect
\* is issued; it is in progress, or fails at once (ERROR).
ConnectPre ==
    /\ mpc = "connect"
    /\ IF state < 0
         THEN mpc' = "done" /\ UNCHANGED <<state, clsvr, link>>
         ELSE /\ clsvr' = LISA_CLIENT
              /\ \/ link' = "pending" /\ mpc' = "select" /\ UNCHANGED state
                 \/ LinkFaults /\ state' = LISA_ERROR /\ mpc' = "done"
                    /\ UNCHANGED link
    /\ UNCHANGED <<inbound, soErr, connected, ioBeforeConnect, Sender, Receiver, Stop>>

\* The two selects for writability (lines 324-331): a refused connection
\* also makes the socket writable, with ECONNREFUSED pending; a timeout
\* sets ERROR.
ConnectSelect ==
    /\ mpc = "select"
    /\ \/ link' = "up" /\ mpc' = "post" /\ UNCHANGED <<state, soErr>>
       \/ LinkFaults /\ link' = "broken" /\ soErr' = TRUE /\ mpc' = "post"
          /\ UNCHANGED state
       \/ LinkFaults /\ state' = LISA_ERROR /\ mpc' = "done"
          /\ UNCHANGED <<link, soErr>>
    /\ UNCHANGED <<clsvr, inbound, connected, ioBeforeConnect, Sender, Receiver, Stop>>

\* Post-select: CONNECTED, whatever the socket's pending error.
ConnectPost ==
    /\ mpc = "post"
    /\ state' = LISA_CONNECTED /\ connected' = TRUE /\ mpc' = "done"
    /\ UNCHANGED <<clsvr, link, inbound, soErr, ioBeforeConnect, Sender, Receiver, Stop>>

-----------------------------------------------------------------------------
(* Send thread: the send looper calling lisa_cast, which on a client calls *)
(* lisa_send and returns msglength.                                        *)

\* Seeded fault: lisa_send does not check that the connection is up.
SendCallNoStateCheck ==
    /\ spc = "idle" /\ lDesired = "running"
    /\ IF clsvr # LISA_CLIENT \/ state < 0
         THEN spc' = "update" /\ UNCHANGED <<sThis, sSent, sTimedOut, sWrote, sRc>>
         ELSE /\ spc' = "loop" /\ sThis' = state /\ sSent' = 0
              /\ sTimedOut' = FALSE /\ sWrote' = 0 /\ UNCHANGED sRc
    /\ UNCHANGED <<state, clsvr, link, inbound, soErr, mpc, connected, ioBeforeConnect,
                   lDesired, Receiver, desired, hpc>>

\* lisa_cast (lines 666-671) and the pre-select section of lisa_send
\* (lines 578-597).  A lisa whose role is not yet CLIENT takes the server
\* branch of lisa_cast, which loops over its zero clients.  The looper
\* worker calls it under l->lock while its local desired state is
\* running (looper.c:13-18).
SendCall ==
    /\ spc = "idle" /\ lDesired = "running"
    /\ CASE clsvr # LISA_CLIENT ->
              /\ spc' = "update"
              /\ UNCHANGED <<sThis, sSent, sTimedOut, sWrote, sRc>>
         [] state < LISA_CONNECTED ->
              /\ sRc' = -1 /\ spc' = "update"
              /\ UNCHANGED <<sThis, sSent, sTimedOut, sWrote>>
         [] OTHER ->
              /\ spc' = "loop" /\ sThis' = state /\ sSent' = 0
              /\ sTimedOut' = FALSE /\ sWrote' = 0 /\ UNCHANGED sRc
    /\ UNCHANGED <<state, clsvr, link, inbound, soErr, mpc, connected, ioBeforeConnect,
                   lDesired, Receiver, desired, hpc>>

\* A tick of the send looper on which repeat_sending_function finds no
\* item in the capture queue and returns without calling lisa_cast
\* (ci_queues.c:288-293).
SendSkip ==
    /\ spc = "idle" /\ lDesired = "running"
    /\ spc' = "update"
    /\ UNCHANGED <<state, clsvr, link, inbound, soErr, mpc, connected, ioBeforeConnect,
                   sThis, sSent, sTimedOut, sWrote, sRc, lDesired, Receiver,
                   desired, hpc>>

\* Seeded fault: bytes_sent kept as a plain signed number.
SentAfterSigned(b, rc) == b + rc

\* bytes_sent += send(...) on an unsigned int (line 622).
SentAfter(b, rc) == (b + rc) % Word

\* One iteration of the loop of lines 606-626.  After a timeout Linux has
\* cleared this_fdset and zeroed the timeval, so every later select
\* returns 0 at once.  send() on a broken connection returns -1 with the
\* pending socket error, if there is one, and otherwise raises SIGPIPE.
SendIter ==
    /\ spc = "loop"
    /\ sSent < MsgLen /\ sThis # LISA_ERROR
    /\ \/ /\ sTimedOut \/ SendTimeouts
          /\ sThis' = LISA_TIMEOUT /\ sTimedOut' = TRUE
          /\ UNCHANGED <<sSent, sWrote, ioBeforeConnect, soErr, hpc>>
       \/ /\ ~sTimedOut
          /\ sThis' = LISA_SENT_DATA
          /\ ioBeforeConnect' = (ioBeforeConnect \/ ~connected)
          /\ CASE link = "up" ->
                    /\ \E k \in 1 .. MsgLen - sSent :
                         sSent' = SentAfter(sSent, k) /\ sWrote' = sWrote + k
                    /\ UNCHANGED <<soErr, hpc>>
               [] soErr ->
                    /\ sSent' = SentAfter(sSent, -1) /\ soErr' = FALSE
                    /\ UNCHANGED <<sWrote, hpc>>
               [] OTHER ->
                    /\ hpc' = "killed" /\ UNCHANGED <<sSent, sWrote, soErr>>
          /\ UNCHANGED sTimedOut
    /\ UNCHANGED <<state, clsvr, link, inbound, mpc, connected, spc, sRc,
                   lDesired, Receiver, desired>>

\* Seeded fault: bytes_sent is returned as an unsigned value.
SendPostUnsigned ==
    /\ spc = "loop"
    /\ ~(sSent < MsgLen /\ sThis # LISA_ERROR)
    /\ sRc' = sSent
    /\ state' = IF sSent < 0 THEN LISA_ERROR ELSE sThis
    /\ spc' = "update"
    /\ UNCHANGED <<clsvr, link, inbound, soErr, mpc, connected, ioBeforeConnect,
                   sThis, sSent, sTimedOut, sWrote, lDesired, Receiver,
                   desired, hpc>>

\* The loop ends; rc is bytes_sent as an int, ERROR if negative, and the
\* post-select section writes this_state into l->state (lines 627-653).
SendPost ==
    /\ spc = "loop"
    /\ ~(sSent < MsgLen /\ sThis # LISA_ERROR)
    /\ sRc' = ToInt(sSent)
    /\ state' = IF ToInt(sSent) < 0 THEN LISA_ERROR ELSE sThis
    /\ spc' = "update"
    /\ UNCHANGED <<clsvr, link, inbound, soErr, mpc, connected, ioBeforeConnect,
                   sThis, sSent, sTimedOut, sWrote, lDesired, Receiver,
                   desired, hpc>>

\* After each tick the worker copies l->desired_state under the lock
\* (looper_update_state) and leaves its loop once it reads stopped
\* (looper.c:13, 21-25).
SendUpdate ==
    /\ spc = "update"
    /\ lDesired' = desired
    /\ spc' = IF desired = "stopped" THEN "exited" ELSE "idle"
    /\ UNCHANGED <<state, clsvr, link, inbound, soErr, mpc, connected, ioBeforeConnect,
                   sThis, sSent, sTimedOut, sWrote, sRc, Receiver, desired, hpc>>

-----------------------------------------------------------------------------
(* Receive thread: the receive looper, which calls lisa_recv while the     *)
(* state is at least CONNECTED (ci_queues.c:385).                          *)

\* Pre-select of lisa_recv_with_part (lines 808-840).
RecvCall ==
    /\ rpc = "idle"
    /\ state >= LISA_CONNECTED /\ clsvr # LISA_UNKNOWN
    /\ rpc' = "select"
    /\ UNCHANGED <<state, clsvr, link, inbound, soErr, mpc, connected, ioBeforeConnect,
                   rReady, Sender, Stop>>

\* The select of line 845 on fd 0 (lines 818, 827): whether it fires, or
\* times out after wait_time, depends on fd 0 and not on the socket.
Fd0Ready ==
    CASE SelectFd = "stdin_ready" -> {TRUE}
      [] SelectFd = "stdin_idle"  -> {FALSE}
      [] OTHER                    -> BOOLEAN

RecvSelect ==
    /\ rpc = "select"
    /\ rReady' \in Fd0Ready
    /\ rpc' = "post"
    /\ UNCHANGED <<state, clsvr, link, inbound, soErr, mpc, connected, ioBeforeConnect, Sender, Stop>>

\* Post-select (lines 850-911): on a timeout TIMEOUT, else recv() on the
\* non-blocking socket: data (GOT_DATA); the pending error, or EAGAIN
\* when nothing is there (-1, ERROR); 0 at the end of a broken
\* connection (CLOSED).  The client writes the result into l->state.
RecvPost ==
    /\ rpc = "post"
    /\ IF ~rReady
       THEN state' = LISA_TIMEOUT /\ UNCHANGED <<inbound, soErr, ioBeforeConnect>>
       ELSE /\ ioBeforeConnect' = (ioBeforeConnect \/ ~connected)
            /\ CASE inbound > 0 ->
                      /\ \E k \in 1 .. inbound : inbound' = inbound - k
                      /\ state' = LISA_GOT_DATA /\ UNCHANGED soErr
                 [] soErr \/ link = "up" ->
                      /\ state' = LISA_ERROR /\ soErr' = FALSE
                      /\ UNCHANGED inbound
                 [] OTHER ->
                      state' = LISA_CLOSED /\ UNCHANGED <<inbound, soErr>>
    /\ rpc' = "idle"
    /\ UNCHANGED <<clsvr, link, mpc, connected, rReady, Sender, Stop>>

-----------------------------------------------------------------------------
(* The peer and the network.                                               *)

PeerSend ==
    /\ link = "up" /\ inbound < MaxIn
    /\ inbound' = inbound + 1
    /\ UNCHANGED <<state, clsvr, link, soErr, mpc, connected, ioBeforeConnect, Sender, Receiver, Stop>>

\* The peer resets the connection (it ends with data unread, or the
\* network drops it): the socket has ECONNRESET pending.
LinkBreak ==
    /\ LinkFaults /\ link = "up"
    /\ link' = "broken" /\ soErr' = TRUE
    /\ UNCHANGED <<state, clsvr, inbound, mpc, connected, ioBeforeConnect, Sender, Receiver, Stop>>

-----------------------------------------------------------------------------
(* Control-C: main() installs sig_handler once ci_start_client has        *)
(* returned (ci_main.c:142) and sleeps; the handler runs on the main       *)
(* thread, where ciqs_stop_all stops the send queue first: looper_stop     *)
(* takes the looper's lock, which the worker holds for a whole tick, and   *)
(* joins the worker.  The queues ciqs_stop_all stops after it do not call  *)
(* lisa (and it skips the receive queue, see RunningQueues).               *)

\* SIGINT arrives; the user's choice, so not fair.
SigInt ==
    /\ mpc = "done" /\ hpc = "none"
    /\ hpc' = "set"
    /\ UNCHANGED <<state, clsvr, link, inbound, soErr, mpc, connected, ioBeforeConnect,
                   Sender, Receiver, desired>>

\* looper_stop: looper_set_desired_state(stopped) once the lock is free,
\* i.e. between two ticks (looper.c:45-49, 89).
SigSet ==
    /\ hpc = "set" /\ spc # "loop"
    /\ desired' = "stopped" /\ hpc' = "join"
    /\ UNCHANGED <<state, clsvr, link, inbound, soErr, mpc, connected, ioBeforeConnect,
                   Sender, Receiver>>

\* pthread_join returns when the worker has left its loop; the rest of
\* the handler runs and exit(0) ends the process (looper.c:90;
\* ci_main.c:58-72).
SigJoin ==
    /\ hpc = "join" /\ spc = "exited"
    /\ hpc' = "done"
    /\ UNCHANGED <<state, clsvr, link, inbound, soErr, mpc, connected, ioBeforeConnect,
                   Sender, Receiver, desired>>

\* After exit(0), or SIGPIPE, no thread of the process runs; the peer and the network
\* may still act.
Alive == hpc \notin {"done", "killed"}

Exited == ~Alive /\ UNCHANGED vars

Main == Open \/ Setup \/ ConnectPre \/ ConnectSelect \/ ConnectPost

Process ==
    \/ Main
    \/ SendCall \/ SendSkip \/ SendIter \/ SendPost \/ SendUpdate
    \/ RecvCall \/ RecvSelect \/ RecvPost

Next ==
    \/ Alive /\ Process
    \/ SigInt \/ SigSet \/ SigJoin \/ Exited
    \/ PeerSend \/ LinkBreak

\* Each thread keeps running its code.  The receive looper calls lisa_recv
\* on every tick while the state is at least CONNECTED (ci_queues.c:385),
\* so its call is weakly fair; the send looper calls lisa_cast only when
\* the capture queue has an item, so its call, and the environment, are
\* not; but it ticks every usleep_time, so a tick without a call and the
\* desired-state read after each tick are.  The handler, once SIGINT has
\* come, runs on the main thread; its lock of l->lock is strongly fair,
\* since the worker sleeps usleep_time with the lock free after every
\* tick (looper.c:22), and the blocked lock takes it then.
Fairness ==
    /\ WF_vars(Alive /\ Main) /\ WF_vars(Alive /\ RecvCall)
    /\ WF_vars(Alive /\ SendIter) /\ WF_vars(Alive /\ SendPost)
    /\ WF_vars(Alive /\ SendSkip) /\ WF_vars(Alive /\ SendUpdate)
    /\ WF_vars(Alive /\ RecvSelect) /\ WF_vars(Alive /\ RecvPost)
    /\ SF_vars(SigSet) /\ WF_vars(SigJoin)

Spec == Init /\ [][Next]_vars /\ Fairness

-----------------------------------------------------------------------------
TypeOK ==
    /\ state \in LisaStateCodes
    /\ clsvr \in {LISA_UNKNOWN, LISA_CLIENT}
    /\ link \in {"none", "pending", "up", "broken"}
    /\ inbound \in 0 .. MaxIn /\ soErr \in BOOLEAN
    /\ sSent \in 0 .. Word - 1 /\ sWrote \in 0 .. MsgLen
    /\ sRc \in {NoRc} \cup (-(Word \div 2) .. Word)
    /\ spc \in {"idle", "loop", "update", "exited"}
    /\ desired \in {"running", "stopped"} /\ lDesired \in {"running", "stopped"}
    /\ hpc \in {"none", "set", "join", "done", "killed"}

\* The send and receive loopers run from before the connection exists, yet
\* no send() or recv() reaches the socket before lisa_connect has set
\* CONNECTED: the state tests in lisa_send and lisa_recv hold them back.
NoIOBeforeConnect == ~ioBeforeConnect

\* lisa_send never reports a short write as success: it returns msglength
\* with every byte accepted by send(), or a negative value, also when
\* send() fails part-way and the unsigned bytes_sent runs below zero.
SendAllOrError ==
    spc # "loop" /\ sRc # NoRc =>
        \/ sRc = MsgLen /\ sWrote = MsgLen
        \/ sRc < 0

\* Every lisa_send call returns, or the process ends: the send loop of
\* lines 606-626 does not spin.
SendReturns == spc = "loop" ~> (spc # "loop" \/ ~Alive)

\* The handle the loopers use is eventually connected: in either mode the
\* relay's send and receive loopers only move frames once its state is
\* at least CONNECTED (ci_queues.c:289, 385), and spec 4.5 gives the
\* server role the accept of the peer's connection.
EventuallyConnected == <>(state >= LISA_CONNECTED)

\* A send() on a connection the peer has reset is a transport fault, which
\* the spec (section 7) surfaces as the sticky ERROR state and an error
\* value to the caller; it does not end the process.  lisa_send passes
\* flags 0 (line 622) and no SIGPIPE handler is installed.
TransportFaultSurfaces == hpc # "killed"

\* Control-C ends the relay: once SIGINT has come, sig_handler's
\* looper_stop of the send queue gets the looper lock and its join
\* returns, so exit(0) is reached, whatever lisa_send was doing when the
\* signal came (ci_main.c:58, looper.c:88-92).
StopReturns == hpc = "set" ~> ~Alive

\* The error state is sticky: once a call has set ERROR, no later call
\* takes the connection out of it (lisa.h, CHECK_ERROR).
ErrorSticky == [][state = LISA_ERROR => state' = LISA_ERROR]_vars

=============================================================================
