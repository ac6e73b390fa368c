--------------------------- MODULE BcasterServer ---------------------------
(***************************************************************************)
(* The bcaster server (tools/bcaster/main.c) and the server side of its    *)
(* lisa handle lp (lisa.c).  Two looper threads share lp and `buffers`:    *)
(*  - the listener (repeat_listening_function) calls lisa_accept and then  *)
(*    records the new client_fd in buffers under buffers.lock;             *)
(*  - the receiver (repeat_receiving_function) calls lisa_recv_part1,      *)
(*    which returns holding l->lock, finds the client's buffer under       *)
(*    buffers.lock, calls lisa_recv_part2, reassembles frames and hands    *)
(*    each to process_pkt, which lisa_cast's it to the other clients.      *)
(* A lisa section under l->lock is one step; a thread is between steps     *)
(* exactly where the code unlocks.  The clients are the environment: each  *)
(* connects once and writes its Script of messages to its socket.         *)
(*                                                                         *)
(* Data abstraction.  A byte is an integer.  The 4-byte length field is    *)
(* one element (LenBytes) and the 20-byte header two (HdrBytes): length    *)
(* and timestamp.  pkt_get_length of a header is its first element.  The   *)
(* raw STOP_MSG "***STOP***NOW***" with its NUL is <<42, 42, 0>>: its      *)
(* first bytes, read as a length, are '*' = 42 and exceed MaxSize as       *)
(* 0x2A2A2A53 exceeds MAX_SIZE.                                            *)
(***************************************************************************)
EXTENDS Integers, Sequences, SequencesExt, FiniteSets, LisaClients

CONSTANTS
    Clients,        \* the cross_injectors, as their socket fds
    NoFd,           \* fd 0 / no client
    Script,         \* Script[c]: the messages client c writes, in order
    InitFds,        \* clients accepted and registered before the run starts
    MaxSize,        \* MAX_SIZE, the size of a client's reassembly buffer
    MAX_CLIENTS,    \* the capacity of lp->client_fds
    ListenFaults    \* TRUE: socket, bind or listen may fail in lisa_listen

ASSUME NoFd \notin Clients

VARIABLES
    state, cstate,  \* lp->state, lp->client_state
    clsvr,          \* lp->clsvr
    fds,            \* lp->client_fds[0 .. num_clients-1]
    cfd,            \* lp->client_fd
    phase,          \* phase[c]: "off", "pending" (in the backlog) or "in"
    sent,           \* sent[c]: how many of Script[c] c has written
    inflight,       \* inflight[c]: bytes c wrote that recv has not read
    lpc, lnum,      \* listener: pc and its copy of lp->num_clients
    breg,           \* buffers.client[0 .. num_clients-1]: [fd, exp, buf]
    rpc,            \* receiver: pc
    rsel,           \* the fds part1 put in its select set
    rfd,            \* the fd part1 returned
    rq,             \* frames the reassembly loop found, to process_pkt
    rlast, ci,      \* lisa_cast: last_client and the loop index i
    sst,            \* lisa_send: this_state after the send loop
    down,           \* history: down[d] the [from, pkt] the server sent d
    procd           \* history: procd[c] the packets of c process_pkt got

vars == <<state, cstate, clsvr, fds, cfd, phase, sent, inflight, lpc, lnum,
          breg, rpc, rsel, rfd, rq, rlast, ci, sst, down, procd>>
env == <<phase, sent, inflight>>
listener == <<lpc, lnum>>
receiver == <<rsel, rfd, rq, rlast, ci, sst>>

LenBytes == 1   \* the length field of the header (4 bytes)
HdrBytes == 2   \* the whole header (20 bytes)
STOP_MSG == <<42, 42, 0>>
STOP_MSG_LEN == Len(STOP_MSG)   \* sizeof, so including the NUL

\* pkt_get_length (pkt.c): the length field at the start of a buffer.
pkt_get_length(buf) == buf[1]

\* strnlen(s, n): the bytes before the first NUL, at most n.
strnlen(s, n) ==
    LET nul == {i \in 1..Min({n, Len(s)}) : s[i] = 0}
    IN  IF nul = {} THEN Min({n, Len(s)}) ELSE Min(nul) - 1

\* match_end (main.c): the packet is the stop marker.
match_end(s) ==
    /\ strnlen(s, STOP_MSG_LEN) = STOP_MSG_LEN
    /\ SubSeq(s, 1, STOP_MSG_LEN) = STOP_MSG

\* client_for_fd: the index of fd in buffers, or -1.
client_for_fd(fd) ==
    IF \E i \in 1..Len(breg) : breg[i].fd = fd
    THEN Min({i \in 1..Len(breg) : breg[i].fd = fd})
    ELSE -1

NewClient(fd) == [fd |-> fd, exp |-> 0, buf |-> <<>>]

Init ==
    /\ state = IF InitFds = <<>> THEN LISA_UNINITIALIZED ELSE LISA_ACCEPTED
    /\ cstate = IF InitFds = <<>> THEN LISA_UNINITIALIZED ELSE LISA_CONNECTED
    /\ clsvr = IF InitFds = <<>> THEN LISA_UNKNOWN ELSE LISA_SERVER
    /\ fds = InitFds
    /\ cfd = IF InitFds = <<>> THEN NoFd ELSE InitFds[Len(InitFds)]
    /\ phase = [c \in Clients |-> IF c \in ToSet(InitFds) THEN "in" ELSE "off"]
    /\ sent = [c \in Clients |-> 0]
    /\ inflight = [c \in Clients |-> <<>>]
    /\ lpc = "accept" /\ lnum = 0
    /\ breg = [i \in 1..Len(InitFds) |-> NewClient(InitFds[i])]
    /\ rpc = "idle" /\ rsel = {} /\ rfd = NoFd /\ rq = <<>>
    /\ rlast = NoFd /\ ci = 1 /\ sst = 0
    /\ down = [c \in Clients |-> <<>>]
    /\ procd = [c \in Clients |-> <<>>]

\* l->lock is held by the receiver from part1's return until part2, and
\* inside lisa_cast's loop; buffers.lock from part2 to the end of its tick.
LockFree == rpc \notin {"part2", "cast"}
BuffersFree == rpc \in {"idle", "select", "part2"}

-----------------------------------------------------------------------------
(* The clients: connect (a pending connection in the listen backlog) and   *)
(* write their next message; TCP buffers it until the server reads it.     *)

ClientConnect(c) ==
    /\ phase[c] = "off"
    /\ phase' = [phase EXCEPT ![c] = "pending"]
    /\ UNCHANGED <<sent, inflight>>

ClientWrite(c) ==
    /\ phase[c] # "off"
    /\ sent[c] < Len(Script[c])
    /\ sent' = [sent EXCEPT ![c] = @ + 1]
    /\ inflight' = [inflight EXCEPT ![c] = @ \o Script[c][sent[c] + 1]]
    /\ UNCHANGED phase

Client(c) ==
    /\ ClientConnect(c) \/ ClientWrite(c)
    /\ UNCHANGED <<state, cstate, clsvr, fds, cfd, listener, breg, rpc,
                   receiver, down, procd>>

-----------------------------------------------------------------------------
(* The listener: repeat_listening_function.                                *)

\* lisa_listen: the role becomes SERVER; a handle not yet created gets its
\* socket (lisa_setup_tcp), one not yet bound is bound, and listen is
\* called.  Each of the three syscalls may fail, which sets LISA_ERROR.
\* The possible states it leaves behind.
lisa_listen(st) ==
    (IF st < LISA_BOUND THEN {LISA_BOUND} ELSE {st})
        \cup (IF ListenFaults THEN {LISA_ERROR} ELSE {})

\* num_clients = lp->num_clients, then lisa_accept's pre-select section;
\* the first call listens, and LISTENING is set unless that failed.
ListenAcceptPre ==
    /\ lpc = "accept" /\ LockFree
    /\ lnum' = Len(fds)
    /\ IF state < 0
       THEN UNCHANGED <<state, clsvr, lpc>>      \* CHECK_ERROR_UNLOCK(0)
       ELSE IF state < LISA_LISTENING
       THEN /\ clsvr' = LISA_SERVER
            /\ \E st \in lisa_listen(state) :
                 IF st < 0 THEN state' = st /\ UNCHANGED lpc
                 ELSE state' = LISA_LISTENING /\ lpc' = "select"
       ELSE /\ lpc' = "select" /\ UNCHANGED <<state, clsvr>>
    /\ UNCHANGED <<cstate, fds, cfd, env, breg, rpc, receiver, down, procd>>

\* lisa_accept's select on the listening fd and its post-select section:
\* a timeout, or the accept of a pending connection, appended to
\* client_fds with no MAX_CLIENTS check.
ListenAcceptPost ==
    /\ lpc = "select" /\ LockFree
    /\ lpc' = "check"
    /\ \/ /\ \A c \in Clients : phase[c] # "pending"
          /\ state' = LISA_TIMEOUT
          /\ UNCHANGED <<cstate, fds, cfd, phase>>
       \/ \E c \in Clients :
            /\ phase[c] = "pending"
            /\ phase' = [phase EXCEPT ![c] = "in"]
            /\ state' = LISA_ACCEPTED /\ cstate' = LISA_CONNECTED
            /\ cfd' = c
            /\ fds' = Append(fds, c)
    /\ UNCHANGED <<clsvr, lnum, sent, inflight, breg, rpc, receiver, down,
                   procd>>

\* If lisa_accept added a client, record lp->client_fd, read without
\* l->lock, as a new entry of buffers under buffers.lock.
ListenRegister ==
    /\ lpc = "check" /\ BuffersFree
    /\ lpc' = "accept"
    /\ breg' = IF Len(fds) > lnum THEN Append(breg, NewClient(cfd)) ELSE breg
    /\ UNCHANGED <<state, cstate, clsvr, fds, cfd, lnum, env, rpc, receiver,
                   down, procd>>

-----------------------------------------------------------------------------
(* The receiver: repeat_receiving_function.                                *)

\* The reassembly loop of repeat_receiving_function on a client's buffer:
\* buf is CLIENT.buffer, nxt the offset of next_pkt, and bytes_received
\* the bytes from nxt on.  The length of a new packet is read at
\* CLIENT.buffer, not at next_pkt.
bytes_expectedNoHdr(buf) == pkt_get_length(buf)
\* The packet length a header announces, header included (main.c:166).
bytes_expected(buf) == pkt_get_length(buf) + HdrBytes

RECURSIVE ReassembleStrict(_, _, _, _)
ReassembleStrict(buf, nxt, exp, pkts) ==
    LET rcv == Len(buf) - nxt
        e   == IF exp = 0 THEN bytes_expected(buf) ELSE exp
    IN  IF rcv >= LenBytes /\ exp <= rcv /\ e < rcv
        THEN ReassembleStrict(buf, nxt + e, 0,
                              Append(pkts, SubSeq(buf, nxt + 1, nxt + e)))
        ELSE [pkts |-> pkts, exp |-> IF rcv >= LenBytes /\ exp <= rcv
                                     THEN e ELSE exp, nxt |-> nxt]

RECURSIVE Reassemble(_, _, _, _)
Reassemble(buf, nxt, exp, pkts) ==
    LET rcv == Len(buf) - nxt
        e   == IF exp = 0 THEN bytes_expected(buf) ELSE exp
    IN  IF rcv >= LenBytes /\ exp <= rcv /\ e <= rcv
        THEN Reassemble(buf, nxt + e, 0,
                        Append(pkts, SubSeq(buf, nxt + 1, nxt + e)))
        ELSE [pkts |-> pkts, exp |-> IF rcv >= LenBytes /\ exp <= rcv
                                     THEN e ELSE exp, nxt |-> nxt]

\* Moving the unprocessed bytes from next_pkt to the front of the buffer.
relocateStale(buf, nxt) == buf
relocate(buf, nxt) == SubSeq(buf, nxt + 1, Len(buf))

buffer_remaining(e) == MaxSize - Len(e.buf)

\* num_clients under buffers.lock, then lisa_recv_part1's pre-select
\* section.  A tick with no clients, or on a handle in error, returns at
\* once and changes nothing.  With state < LISA_CONNECTED part1 returns 0,
\* which the caller takes for an fd.
RecvPart1Pre ==
    /\ rpc = "idle" /\ Len(breg) > 0 /\ state >= 0
    /\ IF state < LISA_CONNECTED \/ clsvr = LISA_UNKNOWN
       THEN rpc' = "part2" /\ rfd' = NoFd /\ UNCHANGED rsel
       ELSE rpc' = "select" /\ rsel' = ToSet(fds) /\ UNCHANGED rfd
    /\ UNCHANGED <<state, cstate, clsvr, fds, cfd, env, listener, breg, rq,
                   rlast, ci, sst, down, procd>>

\* The select on rsel and part1's post-select section: a timeout, or
\* client_fd set to the first client_fds entry that is ready, and part1
\* returns it still holding l->lock.
RecvSelect ==
    /\ rpc = "select"
    /\ LET ready == {c \in rsel : inflight[c] # <<>>}
       IN  IF ready = {}
           THEN /\ cstate' = LISA_TIMEOUT /\ rpc' = "idle"
                /\ UNCHANGED <<cfd, rfd>>
           ELSE LET i == Min({j \in 1..Len(fds) : fds[j] \in ready})
                IN  /\ cfd' = fds[i] /\ rfd' = fds[i] /\ rpc' = "part2"
                    /\ UNCHANGED cstate
    /\ UNCHANGED <<state, clsvr, fds, env, listener, breg, rsel, rq, rlast,
                   ci, sst, down, procd>>

\* Under buffers.lock: client_for_fd, lisa_recv_part2 (recv of at most
\* buffer_remaining bytes, client_state, unlock of l->lock), the
\* reassembly loop and the relocation.  client_for_fd = -1 indexes
\* client[-1], memory outside buffers: the bytes are read into it and lost.
RecvPart2 ==
    /\ rpc = "part2"
    /\ LET clnum == client_for_fd(rfd) IN
       IF clnum = -1
       THEN /\ \E n \in 1..Len(inflight[rfd]) :
                  inflight' = [inflight EXCEPT ![rfd] = SubSeq(@, n + 1, Len(@))]
            /\ cstate' = LISA_GOT_DATA /\ rpc' = "idle"
            /\ UNCHANGED <<breg, rq, procd>>
       ELSE LET e == breg[clnum]
                rem == buffer_remaining(e)
            IN \E n \in IF rem <= 0 THEN {0}
                        ELSE 1..Min({rem, Len(inflight[rfd])}) :
                 LET buf == e.buf \o SubSeq(inflight[rfd], 1, n)
                     R == Reassemble(buf, 0, e.exp, <<>>)
                 IN  /\ cstate' = IF n = 0 THEN LISA_CLOSED ELSE LISA_GOT_DATA
                     /\ inflight' = [inflight EXCEPT ![rfd] =
                                       SubSeq(@, n + 1, Len(@))]
                     /\ breg' = [breg EXCEPT ![clnum] =
                                   [fd |-> e.fd, exp |-> R.exp,
                                    buf |-> relocate(buf, R.nxt)]]
                     /\ rq' = R.pkts
                     /\ procd' = [procd EXCEPT ![rfd] = @ \o R.pkts]
                     /\ rpc' = IF R.pkts = <<>> THEN "idle" ELSE "proc"
    /\ UNCHANGED <<state, clsvr, fds, cfd, phase, sent, listener, rsel, rfd,
                   rlast, ci, sst, down>>

\* The packet handed to process_pkt is done; on to the next, or the tick ends.
NextPkt ==
    /\ rq' = Tail(rq)
    /\ rpc' = IF Len(rq) = 1 THEN "idle" ELSE "proc"

\* process_pkt: a stop marker makes lisa_close_client (which takes no
\* lock) drop the client; any other packet is lisa_cast, which takes
\* l->lock and notes last_client = client_fd.
ProcessPkt ==
    /\ rpc = "proc"
    /\ IF match_end(Head(rq))
       THEN /\ IF state < 0 \/ cstate < LISA_CONNECTED
               THEN UNCHANGED <<state, cstate, fds>>
               ELSE /\ fds' = CloseClient(fds, cfd)
                    /\ cstate' = LISA_UNINITIALIZED
                    /\ state' = LISA_LISTENING
            /\ UNCHANGED <<rlast, ci>> /\ NextPkt
       ELSE /\ rlast' = cfd /\ ci' = 1 /\ rpc' = "cast"
            /\ UNCHANGED <<state, cstate, fds, rq>>
    /\ UNCHANGED <<clsvr, cfd, env, listener, breg, rsel, rfd, sst, down,
                   procd>>

\* One iteration of lisa_cast's loop, under l->lock: skip last_client, or
\* set client_fd to the next client and unlock around lisa_send; at the
\* end unlock and return.
CastIter ==
    /\ rpc = "cast"
    /\ \/ /\ ci <= Len(fds) /\ fds[ci] = rlast
          /\ ci' = ci + 1 /\ UNCHANGED <<cfd, rpc, rq>>
       \/ /\ ci <= Len(fds) /\ fds[ci] # rlast
          /\ cfd' = fds[ci] /\ rpc' = "send"
          /\ UNCHANGED <<ci, rq>>
       \/ /\ ci > Len(fds)
          /\ NextPkt /\ UNCHANGED <<cfd, ci>>
    /\ UNCHANGED <<state, cstate, clsvr, fds, env, listener, breg, rsel, rfd,
                   rlast, sst, down, procd>>

\* lisa_send's pre-select section (this_state, the socket = client_fd, the
\* early returns) and its send loop, which writes the whole packet.
CastSend ==
    /\ rpc = "send"
    /\ LET this_state == IF state # LISA_ACCEPTED THEN state ELSE cstate
       IN  IF state < LISA_CONNECTED          \* CHECK_ERROR and not connected
           THEN rpc' = "cast" /\ ci' = ci + 1 /\ UNCHANGED <<sst, down>>
           ELSE /\ rpc' = "sendpost" /\ UNCHANGED ci
                /\ IF this_state = LISA_ERROR
                   THEN sst' = LISA_ERROR /\ UNCHANGED down
                   ELSE /\ sst' = LISA_SENT_DATA
                        /\ down' = [down EXCEPT ![cfd] =
                                      Append(@, [from |-> rfd, pkt |-> Head(rq)])]
    /\ UNCHANGED <<state, cstate, clsvr, fds, cfd, env, listener, breg, rsel,
                   rfd, rq, rlast, procd>>

\* lisa_send's post-select section, then lisa_cast relocks and goes on.
CastSendPost ==
    /\ rpc = "sendpost"
    /\ IF state # LISA_ACCEPTED
       THEN state' = sst /\ UNCHANGED cstate
       ELSE cstate' = sst /\ UNCHANGED state
    /\ ci' = ci + 1 /\ rpc' = "cast"
    /\ UNCHANGED <<clsvr, fds, cfd, env, listener, breg, rsel, rfd, rq, rlast,
                   sst, down, procd>>

-----------------------------------------------------------------------------

Listener == ListenAcceptPre \/ ListenAcceptPost \/ ListenRegister
Receiver == RecvPart1Pre \/ RecvSelect \/ RecvPart2 \/ ProcessPkt
            \/ CastIter \/ CastSend \/ CastSendPost

Next == Listener \/ Receiver \/ \E c \in Clients : Client(c)

\* Both server threads are loopers that call their function forever
\* (looper.c:13-23); a client's connect is its start-up and its writes are
\* its send looper, so each is weakly fair too.
Fairness ==
    /\ WF_vars(Listener) /\ WF_vars(Receiver)
    /\ \A c \in Clients : WF_vars(Client(c))

Spec == Init /\ [][Next]_vars /\ Fairness

-----------------------------------------------------------------------------
(* Properties                                                              *)

Msg == UNION {ToSet(Script[c]) : c \in Clients}
Bytes == UNION {ToSet(m) : m \in Msg}
Rc == {LISA_ERROR, LISA_TIMEOUT, LISA_GOT_DATA, LISA_SENT_DATA, LISA_CLOSED}

TypeOK ==
    /\ state \in LisaStateCodes /\ cstate \in LisaStateCodes
    /\ fds \in Seq(Clients) /\ cfd \in Clients \cup {NoFd}
    /\ \A c \in Clients : sent[c] \in 0..Len(Script[c])
    /\ \A i \in 1..Len(breg) :
         /\ breg[i].fd \in Clients \cup {NoFd}
         /\ breg[i].buf \in Seq(Bytes) /\ Len(breg[i].buf) <= MaxSize
    /\ rq \in Seq({p \in Seq(Bytes) : Len(p) >= HdrBytes})
    /\ rpc \in {"idle", "select", "part2", "proc", "cast", "send", "sendpost"}
    /\ lpc \in {"accept", "select", "check"}

\* The packets of origin c in down[d].
Delivered(d, c) ==
    LET s == SelectSeq(down[d], LAMBDA x : x.from = c)
    IN  [i \in 1..Len(s) |-> s[i].pkt]

\* The receiver only reads into the buffer of a client registered by the
\* listener: client_for_fd never returns -1 (main.c:159, client[-1]).
RegisteredBeforeRead == rpc = "part2" => client_for_fd(rfd) # -1

\* What the server forwards from a client is that client's messages,
\* whole, in the order it wrote them, each at most once: the reassembly
\* loop and the relocation cut the stream at the frame boundaries.
FramesIntact ==
    \A d, c \in Clients :
        Delivered(d, c) = SelectSeq(Script[c], LAMBDA m : m \in ToSet(Delivered(d, c)))

\* lisa_cast never sends a packet back to the client it came from: it
\* skips last_client, the fd lisa_recv_part1 returned.
NoEcho == \A d \in Clients : \A i \in 1..Len(down[d]) : down[d][i].from # d

\* lisa_accept never holds more clients than client_fds has room for
\* (MAX_CLIENTS, lisa.h); the spec leaves the overflow as an open question.
WithinMaxClients == Len(fds) <= MAX_CLIENTS

\* When lisa_cast's loop ends, every client in client_fds other than the
\* packet's origin has been sent the packet.
CastReachesAll ==
    rpc = "cast" /\ ci > Len(fds) =>
        \A d \in ToSet(fds) \ {rfd} :
            [from |-> rfd, pkt |-> Head(rq)] \in ToSet(down[d])

\* Every client lisa_accept took is eventually given a buffer by the
\* listener, the one client_for_fd finds for it.
AllRegistered ==
    \A c \in Clients :
        phase[c] = "in" ~> \E i \in 1..Len(breg) : breg[i].fd = c

\* Every frame a client writes is eventually handed to process_pkt whole:
\* the reassembly loop of the receiver (main.c:163-172) never leaves a
\* complete frame waiting in a client's buffer.
AllProcessed ==
    <>(\A c \in Clients : procd[c] = Script[c])

\* A client that has written the stop marker is eventually dropped from
\* client_fds (spec section 8: the stop marker closes that client).
StopClosesClient ==
    \A c \in {x \in Clients : STOP_MSG \in ToSet(Script[x])} :
        sent[c] = Len(Script[c]) ~> c \notin ToSet(fds)

=============================================================================
