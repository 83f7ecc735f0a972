----------------------------- MODULE EpollServer -----------------------------
(***************************************************************************)
(* The echo server of 01_socket_underlying_c/05_tcp/06_server_epoll.c: one *)
(* thread, non-blocking sockets, edge-triggered epoll.                     *)
(*                                                                         *)
(* The kernel reports a descriptor once per edge: it joins the ready list  *)
(* when something arrives, and leaves it when epoll_wait returns it,       *)
(* whatever the program then does with it.  The server steps are single    *)
(* rounds of the two inner loops, so that data, connections and closes     *)
(* arrive between any two of them.                                         *)
(*                                                                         *)
(* Abstraction.  A connection is its client; the k-th byte a client sends  *)
(* is k.  Sockets, epoll and the clients are modelled as the program uses  *)
(* them.                                                                   *)
(***************************************************************************)
EXTENDS Naturals, Sequences, FiniteSets

CONSTANTS
    Clients,
    Listen,        \* the listening descriptor, sockfd
    MAX_EVENTS,    \* events of one epoll_wait
    LEN,           \* bytes of one recv, sizeof(buf) - 1
    SNDBUF,        \* bytes the kernel buffers for a client that does not read
    BACKLOG,       \* connections waiting for accept
    MaxSaid,       \* bound on the bytes a client sends
    CanReset,      \* whether clients may close without reading
    SysErrors      \* whether accept and epoll_ctl may fail

ASSUME EpollAssumption ==
    /\ IsFiniteSet(Clients) /\ Listen \notin Clients
    /\ MAX_EVENTS \in Nat \ {0} /\ LEN \in Nat \ {0} /\ SNDBUF \in Nat \ {0}
    /\ BACKLOG \in Nat \ {0} /\ MaxSaid \in Nat
    /\ CanReset \in BOOLEAN /\ SysErrors \in BOOLEAN

VARIABLES
    conn,     \* client -> "none", "queued", "open" or "closed" (by the server)
    backlog,  \* connections not yet accepted
    said,     \* client -> bytes sent
    fin,      \* client -> it sends no more
    rst,      \* client -> "no", "gone" (reads no more) or "reset" (and the server's side knows)
    rbuf,     \* client -> bytes the server has not received yet
    sbuf,     \* client -> bytes sent to the client and not read by it
    heard,    \* client -> bytes the client has read
    ready,    \* the ready list of the epoll instance
    evs,      \* events of this epoll_wait still to be handled, the first one in hand
    stalled,  \* history: descriptors last returned to epoll_wait with input left
    proc      \* "running", "exited" or "killed"

peers == <<said, fin, rst, heard>>
vars == <<conn, backlog, peers, rbuf, sbuf, ready, evs, stalled, proc>>

Elements(s) == {s[i] : i \in 1 .. Len(s)}
Smaller(a, b) == IF a < b THEN a ELSE b

Init ==
    /\ conn = [c \in Clients |-> "none"] /\ backlog = <<>>
    /\ said = [c \in Clients |-> 0] /\ fin = [c \in Clients |-> FALSE]
    /\ rst = [c \in Clients |-> "no"]
    /\ rbuf = [c \in Clients |-> <<>>] /\ sbuf = [c \in Clients |-> <<>>]
    /\ heard = [c \in Clients |-> <<>>]
    /\ ready = <<>> /\ evs = <<>> /\ stalled = {} /\ proc = "running"

-----------------------------------------------------------------------------
(***************************************************************************)
(* Clients and kernel.                                                     *)
(***************************************************************************)
\* An edge: fd joins the ready list unless it is on it.
Edge(fd) == IF fd \in Elements(ready) THEN ready ELSE Append(ready, fd)

\* An edge for c's socket, if it is in the epoll set.
Wake(c) == ready' = IF conn[c] = "open" THEN Edge(c) ELSE ready

Connected(c) == conn[c] \in {"queued", "open"}

Connect(c) ==
    /\ conn[c] = "none" /\ Len(backlog) < BACKLOG
    /\ conn' = [conn EXCEPT ![c] = "queued"]
    /\ backlog' = Append(backlog, c)
    /\ ready' = Edge(Listen)
    /\ UNCHANGED <<peers, rbuf, sbuf, evs, stalled, proc>>

Say(c) ==
    /\ Connected(c) /\ ~fin[c] /\ said[c] < MaxSaid
    /\ said' = [said EXCEPT ![c] = @ + 1]
    /\ rbuf' = [rbuf EXCEPT ![c] = Append(@, said[c] + 1)]
    /\ Wake(c)
    /\ UNCHANGED <<conn, backlog, fin, rst, heard, sbuf, evs, stalled, proc>>

\* shutdown, or close: then the client reads no more.
Leave(c) ==
    /\ Connected(c) /\ ~fin[c]
    /\ fin' = [fin EXCEPT ![c] = TRUE]
    /\ \E r \in {"no"} \cup {x \in {"gone"} : CanReset} : rst' = [rst EXCEPT ![c] = r]
    /\ Wake(c)
    /\ UNCHANGED <<conn, backlog, said, heard, rbuf, sbuf, evs, stalled, proc>>

\* The client's kernel answers with RST: it closed with unread input, or is
\* sent to after its close.
Reset(c) ==
    /\ Connected(c) /\ rst[c] = "gone"
    /\ rst' = [rst EXCEPT ![c] = "reset"]
    /\ Wake(c)
    /\ UNCHANGED <<conn, backlog, said, fin, heard, rbuf, sbuf, evs, stalled, proc>>

Hear(c) ==
    /\ rst[c] = "no" /\ sbuf[c] # <<>>
    /\ heard' = [heard EXCEPT ![c] = Append(@, Head(sbuf[c]))]
    /\ sbuf' = [sbuf EXCEPT ![c] = Tail(@)]
    /\ UNCHANGED <<conn, backlog, said, fin, rst, rbuf, ready, evs, stalled, proc>>

-----------------------------------------------------------------------------
(***************************************************************************)
(* The server.                                                             *)
(***************************************************************************)
Running == proc = "running"
InHand(fd) == Running /\ evs # <<>> /\ Head(evs) = fd

\* The events one epoll_wait returns.
Batch == Smaller(MAX_EVENTS, Len(ready))

\* Up to MAX_EVENTS descriptors, in the order they became ready.
EpollWait ==
    /\ Running /\ evs = <<>> /\ ready # <<>>
    /\ evs' = SubSeq(ready, 1, Batch)
    /\ ready' = SubSeq(ready, Batch + 1, Len(ready))
    /\ stalled' = stalled \ Elements(evs')
    /\ UNCHANGED <<conn, backlog, peers, rbuf, sbuf, proc>>

Readable(c) == rbuf[c] # <<>> \/ fin[c]

\* Mutant: one connection per event.
AcceptOne_NoLoop == evs' = Tail(evs)

\* After a connection has been taken the loop tries again.
AcceptOne == UNCHANGED evs

\* accept, unblock, add_ev: adding a socket that is readable is an edge.
Accept ==
    /\ InHand(Listen) /\ backlog # <<>>
    /\ LET c == Head(backlog)
       IN  /\ conn' = [conn EXCEPT ![c] = "open"]
           /\ ready' = IF Readable(c) THEN Edge(c) ELSE ready
    /\ backlog' = Tail(backlog)
    /\ AcceptOne
    /\ UNCHANGED <<peers, rbuf, sbuf, stalled, proc>>

\* accept would block.
AcceptAgain ==
    /\ InHand(Listen) /\ backlog = <<>>
    /\ evs' = Tail(evs)
    /\ UNCHANGED <<conn, backlog, peers, rbuf, sbuf, ready, stalled, proc>>

\* accept fails otherwise, out of descriptors say: the loop is left with
\* connections still waiting.
AcceptFails ==
    /\ SysErrors /\ InHand(Listen) /\ backlog # <<>>
    /\ evs' = Tail(evs)
    /\ stalled' = stalled \cup {Listen}
    /\ UNCHANGED <<conn, backlog, peers, rbuf, sbuf, ready, proc>>

\* epoll_ctl fails in add_ev: exit(1).
AddFails ==
    /\ SysErrors /\ InHand(Listen) /\ backlog # <<>>
    /\ proc' = "exited"
    /\ UNCHANGED <<conn, backlog, peers, rbuf, sbuf, ready, evs, stalled>>

\* Mutant: the last byte received is taken for the terminator.
Chunk_Terminated(c) == SubSeq(rbuf[c], 1, Smaller(LEN, Len(rbuf[c])) - 1)

\* What one recv returns, and what it leaves.
Chunk(c) == SubSeq(rbuf[c], 1, Smaller(LEN, Len(rbuf[c])))

Rest(c) == SubSeq(rbuf[c], Smaller(LEN, Len(rbuf[c])) + 1, Len(rbuf[c]))
Space(c) == SNDBUF - Len(sbuf[c])

\* Mutant: back to epoll_wait after one recv.
EchoRound_Once(c) == evs' = Tail(evs)

\* After an echo the loop receives again.
EchoRound(c) == UNCHANGED evs

\* recv returns a chunk and send takes as much of it as there is room for; a
\* short count is not looked at.
Echo(c) ==
    /\ InHand(c) /\ rbuf[c] # <<>> /\ rst[c] # "reset" /\ Space(c) > 0
    /\ rbuf' = [rbuf EXCEPT ![c] = Rest(c)]
    /\ sbuf' = [sbuf EXCEPT ![c] = IF rst[c] = "gone" THEN @ ELSE
                   @ \o SubSeq(Chunk(c), 1, Smaller(Space(c), Len(Chunk(c))))]
    /\ EchoRound(c)
    /\ UNCHANGED <<conn, backlog, peers, ready, stalled, proc>>

\* send would block: communication returns 0, the chunk is gone, the rest of
\* the input stays unread.
EchoBlocked(c) ==
    /\ InHand(c) /\ rbuf[c] # <<>> /\ rst[c] # "reset" /\ Space(c) = 0
    /\ rbuf' = [rbuf EXCEPT ![c] = Rest(c)]
    /\ evs' = Tail(evs)
    /\ stalled' = stalled \cup {d \in {c} : Rest(d) # <<>> \/ fin[d]}
    /\ UNCHANGED <<conn, backlog, peers, sbuf, ready, proc>>

\* send on a connection reset after the end of its input raises SIGPIPE, which is
\* not handled.
BrokenPipe(c) ==
    /\ InHand(c) /\ rbuf[c] # <<>> /\ rst[c] = "reset"
    /\ proc' = "killed"
    /\ UNCHANGED <<conn, backlog, peers, rbuf, sbuf, ready, evs, stalled>>

\* recv would block: return 0.
RecvAgain(c) ==
    /\ InHand(c) /\ ~Readable(c)
    /\ evs' = Tail(evs)
    /\ UNCHANGED <<conn, backlog, peers, rbuf, sbuf, ready, stalled, proc>>

\* Mutant: the socket stays in the epoll set.
Deleted_Keeps(c) == ready

\* The ready list without c, which is on it at most once.
Deleted(c) == LET n == CHOOSE k \in 1 .. Len(ready) : ready[k] = c
              IN  IF c \notin Elements(ready) THEN ready
                  ELSE SubSeq(ready, 1, n - 1) \o SubSeq(ready, n + 1, Len(ready))

\* communication returned -1: EPOLL_CTL_DEL and close.
Drop(c) ==
    /\ conn' = [conn EXCEPT ![c] = "closed"]
    /\ evs' = Tail(evs)
    /\ ready' = Deleted(c)

\* End of input, or the error of a reset.
CloseConn(c) ==
    /\ InHand(c) /\ rbuf[c] = <<>> /\ fin[c]
    /\ Drop(c)
    /\ UNCHANGED <<backlog, peers, rbuf, sbuf, stalled, proc>>

\* send fails with another error, the ECONNRESET of a reset without the end of
\* input before it: closed with the chunk gone and input perhaps unread.
SendFails(c) ==
    /\ InHand(c) /\ rbuf[c] # <<>> /\ rst[c] = "reset"
    /\ rbuf' = [rbuf EXCEPT ![c] = Rest(c)]
    /\ Drop(c)
    /\ UNCHANGED <<backlog, peers, sbuf, stalled, proc>>

communication(c) ==
    Echo(c) \/ EchoBlocked(c) \/ BrokenPipe(c) \/ SendFails(c) \/ RecvAgain(c) \/ CloseConn(c)

ServerStep == EpollWait \/ Accept \/ AcceptAgain \/ \E c \in Clients : communication(c)

Next == \/ ServerStep \/ AcceptFails \/ AddFails
        \/ \E c \in Clients : Connect(c) \/ Say(c) \/ Leave(c) \/ Reset(c) \/ Hear(c)

Spec == Init /\ [][Next]_vars

\* A round that does not end its loop by finding nothing left.
Round == \/ EpollWait \/ Accept
         \/ \E c \in Clients : Echo(c) \/ EchoBlocked(c) \/ BrokenPipe(c) \/ SendFails(c) \/ CloseConn(c)

\* The server runs, and clients that have not closed read what they are sent.  A
\* loop need not find nothing left: more than the numbered bytes may keep coming
\* and being echoed, which changes nothing here.
FairSpec == Spec /\ WF_vars(Round) /\ \A c \in Clients : WF_vars(Hear(c))

-----------------------------------------------------------------------------
(***************************************************************************)
(* Properties.                                                             *)
(***************************************************************************)
\* fd will be looked at again without anything new arriving.
Scheduled(fd) == fd \in Elements(ready) \cup Elements(evs)

\* No lost wake-up: a connection with input, or a client waiting for accept, is
\* on the ready list or among the events at hand, wherever the edge fell in the
\* loops; the only exceptions are the early returns that leave input behind.
NoLostWakeup ==
    /\ \A c \in Clients : conn[c] = "open" /\ Readable(c) => Scheduled(c) \/ c \in stalled
    /\ backlog # <<>> => Scheduled(Listen) \/ Listen \in stalled

\* No event is ever handled, or pending, for a descriptor that has been closed
\* or not yet been added: its number may already belong to another connection.
NoStaleEvent == \A c \in Clients : Scheduled(c) => conn[c] = "open"

\* What a client gets back are bytes it sent, in their order and none twice, even
\* if short and blocked sends lose some; and if it stays and sends no more than
\* the kernel buffers for it, none is lost.
EchoInOrder ==
    \A c \in Clients :
        LET s == heard[c] \o sbuf[c] \o rbuf[c]
        IN  /\ \A i \in 1 .. Len(s) : s[i] <= said[c] /\ \A j \in 1 .. i - 1 : s[j] < s[i]
            /\ said[c] <= SNDBUF /\ rst[c] = "no" => Len(s) = said[c]

\* The server will not come back to c on its own: it is gone, or has returned to
\* epoll_wait with input of c, or with waiting connections, left behind.
GivenUp(c) == ~Running \/ {c, Listen} \cap stalled # {}

\* Nobody keeps the server in one loop for ever: accept, and recv for each client,
\* find nothing left at some time.
Pauses == WF_vars(AcceptAgain) /\ \A c \in Clients : WF_vars(RecvAgain(c))

\* The connection of a client that has finished sending is closed, and the client
\* has everything that was sent back, unless the server has given it up, or another
\* client never stops sending: communication does not return as long as recv finds
\* something, and everyone else waits.
EveryoneServed ==
    Pauses => \A c \in Clients :
                  fin[c] ~> \/ GivenUp(c)
                            \/ conn[c] = "closed" /\ (sbuf[c] = <<>> \/ rst[c] # "no")

=============================================================================
