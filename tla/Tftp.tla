-------------------------------- MODULE Tftp --------------------------------
(***************************************************************************)
(* The TFTP download of 01_socket_underlying_c/03_tftp: the client of      *)
(* 01_tftp_client.c and the server of 02_tftp_server.c over UDP.           *)
(*                                                                         *)
(* The server is one thread with one socket.  It alternates between two    *)
(* blocking recvfrom calls: the outer one, where only a read request is    *)
(* looked at, and the inner one, where it waits for the acknowledgement of *)
(* the block it has just sent.  Neither side has a timeout.  Each action   *)
(* is one recvfrom with everything up to the next one.                     *)
(*                                                                         *)
(* Abstraction.  Client c downloads the file of that name; a byte is its   *)
(* file and its position.  Block numbers on the wire are counted modulo    *)
(* BLOCK_MOD (65536 in the code); the client counts in an int.  UDP        *)
(* delivers in any order and may lose and duplicate a bounded number of    *)
(* datagrams.                                                              *)
(***************************************************************************)
EXTENDS Naturals, Sequences, FiniteSets, Bags

CONSTANTS
    Clients,      \* one download each
    Size,         \* client -> bytes of the file it wants
    BLK_SIZE,     \* bytes of a full block
    Missing,      \* clients that ask for a file the server does not have
    BLOCK_MOD,    \* block numbers on the wire (unsigned short)
    MaxLost,      \* bound on datagrams lost
    MaxDup,       \* bound on datagrams duplicated
    IoErrors      \* whether file and socket calls may fail

ASSUME TftpAssumption ==
    /\ IsFiniteSet(Clients) /\ Missing \subseteq Clients
    /\ Size \in [Clients -> Nat] /\ BLK_SIZE \in Nat \ {0}
    /\ BLOCK_MOD \in Nat \ {0} /\ MaxLost \in Nat /\ MaxDup \in Nat
    /\ IoErrors \in BOOLEAN

VARIABLES
    net,       \* bag of datagrams in flight, in no order
    lost, dup, \* datagrams lost and duplicated so far
    failed,    \* history: a file or socket call has failed
    spc,       \* server: "idle" in the outer recvfrom, "wait" in the inner one
    clientaddr, file, bl_num, pos,  \* server: peer, open file, block number, blocks read
    cpc,       \* client: "start", "wait", "done" or "exited"
    num,       \* client: blocks counted
    got,       \* client: bytes written to the local file
    gaps       \* history: clients one of whose writes was short

server == <<spc, clientaddr, file, bl_num, pos>>
client == <<cpc, num, got, gaps>>
vars == <<net, lost, dup, failed, server, client>>

(***************************************************************************)
(* Files.  The k-th read() returns a full block, or what is left of the    *)
(* file: nothing, when the size is a multiple of BLK_SIZE.                 *)
(***************************************************************************)
FileOf(f) == [i \in 1 .. Size[f] |-> <<f, i>>]

Block(f, k) == SubSeq(FileOf(f), (k - 1) * BLK_SIZE + 1,
                      IF k * BLK_SIZE < Size[f] THEN k * BLK_SIZE ELSE Size[f])

\* Mutant: the transfer is over when the whole file has been read.
LastBlock_AtEof(f, k) == k * BLK_SIZE >= Size[f]

LastBlock(f, k) == Len(Block(f, k)) < BLK_SIZE

(***************************************************************************)
(* Datagrams.                                                              *)
(***************************************************************************)
RRQ(c) == [to |-> "server", from |-> c, op |-> "RRQ"]
ACK(c, n) == [to |-> "server", from |-> c, op |-> "ACK", block |-> n]
DATA(c, n, b) == [to |-> c, op |-> "DATA", block |-> n, body |-> b]
ERROR(c) == [to |-> c, op |-> "ERROR"]

InFlight(to, op) == {m \in BagToSet(net) : m.to = to /\ m.op = op}

\* Take m out of the network, put the datagrams of S in.
Exchange(m, S) == net' = (net (-) SetToBag({m})) (+) SetToBag(S)

Init == /\ net = EmptyBag /\ lost = 0 /\ dup = 0 /\ failed = FALSE
        /\ spc = "idle"
        /\ clientaddr = CHOOSE c \in Clients : TRUE
        /\ file = CHOOSE c \in Clients : TRUE
        /\ bl_num = 0 /\ pos = 0
        /\ cpc = [c \in Clients |-> "start"]
        /\ num = [c \in Clients |-> 0]
        /\ got = [c \in Clients |-> <<>>]
        /\ gaps = {}

-----------------------------------------------------------------------------
(***************************************************************************)
(* The client.                                                             *)
(***************************************************************************)
SendRequest(c) ==
    /\ cpc[c] = "start"
    /\ cpc' = [cpc EXCEPT ![c] = "wait"]
    /\ net' = net (+) SetToBag({RRQ(c)})
    /\ UNCHANGED <<lost, dup, failed, server, num, got, gaps>>

\* Opcode 5: exit(1).
ReceiveError(c, m) ==
    /\ cpc[c] = "wait"
    /\ cpc' = [cpc EXCEPT ![c] = "exited"]
    /\ Exchange(m, {})
    /\ UNCHANGED <<lost, dup, failed, server, num, got, gaps>>

\* Opcode 3 with the next block number: write, acknowledge, stop after a
\* short block.
\* Mutant: the block received last is taken again.
Expected_Again(c, m) == m.block \in {num[c], num[c] + 1}

\* Mutant: the client counts in 16 bits as well.
Expected_Wraps(c, m) == (num[c] + 1) % BLOCK_MOD = m.block

Expected(c, m) == num[c] + 1 = m.block

ReceiveBlock(c, m) ==
    /\ cpc[c] = "wait" /\ Expected(c, m)
    /\ num' = [num EXCEPT ![c] = @ + 1]
    /\ got' = [got EXCEPT ![c] = @ \o m.body]
    /\ Exchange(m, {ACK(c, m.block)})
    /\ cpc' = [cpc EXCEPT ![c] = IF Len(m.body) < BLK_SIZE THEN "done" ELSE "wait"]
    /\ UNCHANGED <<lost, dup, failed, server, gaps>>

\* Opcode 3 with another block number: nothing, back to recvfrom.
IgnoreBlock(c, m) ==
    /\ cpc[c] = "wait" /\ ~Expected(c, m)
    /\ Exchange(m, {})
    /\ UNCHANGED <<lost, dup, failed, server, client>>

\* The request cannot be sent, or recvfrom fails: exit(1).
ClientFails(c) ==
    /\ IoErrors /\ failed' = TRUE /\ cpc[c] \in {"start", "wait"}
    /\ cpc' = [cpc EXCEPT ![c] = "exited"]
    /\ UNCHANGED <<net, lost, dup, server, num, got, gaps>>

\* The first DATA creates the local file, whatever its number; if that fails:
\* exit(1).
OpenFails(c, m) ==
    /\ IoErrors /\ failed' = TRUE /\ cpc[c] = "wait" /\ num[c] = 0
    /\ Exchange(m, {})
    /\ cpc' = [cpc EXCEPT ![c] = "exited"]
    /\ UNCHANGED <<lost, dup, server, num, got, gaps>>

\* The block cannot be written, though it has been counted: exit(1).
WriteFails(c, m) ==
    /\ IoErrors /\ failed' = TRUE /\ cpc[c] = "wait" /\ Expected(c, m)
    /\ num' = [num EXCEPT ![c] = @ + 1]
    /\ Exchange(m, {})
    /\ cpc' = [cpc EXCEPT ![c] = "exited"]
    /\ UNCHANGED <<lost, dup, server, got, gaps>>

\* write takes only some of the bytes, a disk that fills up, and only a negative
\* result is looked at: the block is counted and acknowledged like a whole one.
ShortWrite(c, m) ==
    /\ IoErrors /\ failed' = TRUE /\ cpc[c] = "wait" /\ Expected(c, m)
    /\ num' = [num EXCEPT ![c] = @ + 1]
    /\ \E n \in 0 .. Len(m.body) - 1 : got' = [got EXCEPT ![c] = @ \o SubSeq(m.body, 1, n)]
    /\ gaps' = gaps \cup {c}
    /\ Exchange(m, {ACK(c, m.block)})
    /\ cpc' = [cpc EXCEPT ![c] = IF Len(m.body) < BLK_SIZE THEN "done" ELSE "wait"]
    /\ UNCHANGED <<lost, dup, server>>

\* The acknowledgement cannot be sent: exit(1), the block written, wholly or not.
AckFails(c, m) ==
    /\ IoErrors /\ failed' = TRUE /\ cpc[c] = "wait" /\ Expected(c, m)
    /\ num' = [num EXCEPT ![c] = @ + 1]
    /\ \/ got' = [got EXCEPT ![c] = @ \o m.body] /\ UNCHANGED gaps
       \/ /\ \E n \in 0 .. Len(m.body) - 1 : got' = [got EXCEPT ![c] = @ \o SubSeq(m.body, 1, n)]
          /\ gaps' = gaps \cup {c}
    /\ Exchange(m, {})
    /\ cpc' = [cpc EXCEPT ![c] = "exited"]
    /\ UNCHANGED <<lost, dup, server>>

-----------------------------------------------------------------------------
(***************************************************************************)
(* The server.                                                             *)
(***************************************************************************)
\* Read the next block and send it to the peer.
SendBlock(m, c, f, n, k) ==
    /\ bl_num' = n % BLOCK_MOD /\ pos' = k
    /\ Exchange(m, {DATA(c, n % BLOCK_MOD, Block(f, k))})
    /\ spc' = "wait" /\ clientaddr' = c /\ file' = f

HandleRequest(m) ==
    /\ spc = "idle" /\ m.op = "RRQ" /\ m.from \notin Missing
    /\ SendBlock(m, m.from, m.from, 1, 1)
    /\ UNCHANGED <<lost, dup, failed, client>>

\* The file cannot be opened: senderr, continue.
RefuseRequest(m) ==
    /\ spc = "idle" /\ m.op = "RRQ" /\ m.from \in Missing
    /\ clientaddr' = m.from
    /\ Exchange(m, {ERROR(m.from)})
    /\ UNCHANGED <<lost, dup, failed, spc, file, bl_num, pos, client>>

\* Anything but a request in the outer recvfrom is ignored.
IgnoreStray(m) ==
    /\ spc = "idle" /\ m.op # "RRQ"
    /\ clientaddr' = m.from
    /\ Exchange(m, {})
    /\ UNCHANGED <<lost, dup, failed, spc, file, bl_num, pos, client>>

\* Mutant: the block number of an acknowledgement is not looked at.
RightAck_AnyNumber(m) == m.op = "ACK"

RightAck(m) == m.op = "ACK" /\ m.block = bl_num

\* The right acknowledgement, from whomever it comes: the sender becomes the
\* peer and gets the next block.
NextBlock(m) ==
    /\ spc = "wait" /\ RightAck(m) /\ ~LastBlock(file, pos)
    /\ SendBlock(m, m.from, file, bl_num + 1, pos + 1)
    /\ UNCHANGED <<lost, dup, failed, client>>

\* The right acknowledgement of the short block: finished.
Finish(m) ==
    /\ spc = "wait" /\ RightAck(m) /\ LastBlock(file, pos)
    /\ spc' = "idle" /\ clientaddr' = m.from
    /\ Exchange(m, {})
    /\ UNCHANGED <<lost, dup, failed, file, bl_num, pos, client>>

\* Anything else in the inner recvfrom ends the transfer, another client's
\* read request included, which is swallowed.
Abandon(m) ==
    /\ spc = "wait" /\ ~RightAck(m)
    /\ spc' = "idle" /\ clientaddr' = m.from
    /\ Exchange(m, {})
    /\ UNCHANGED <<lost, dup, failed, file, bl_num, pos, client>>

\* read or sendto failed, after a request or a right acknowledgement: the
\* transfer ends, the peer hears nothing.
SendFails(m) ==
    /\ IoErrors /\ failed' = TRUE
    /\ \/ spc = "idle" /\ m.op = "RRQ" /\ m.from \notin Missing
       \/ spc = "wait" /\ RightAck(m) /\ ~LastBlock(file, pos)
    /\ spc' = "idle" /\ clientaddr' = m.from
    /\ Exchange(m, {})
    /\ UNCHANGED <<lost, dup, file, bl_num, pos, client>>

\* The inner recvfrom failed: the transfer ends.
ReceiveFails ==
    /\ IoErrors /\ failed' = TRUE /\ spc = "wait" /\ spc' = "idle"
    /\ UNCHANGED <<net, lost, dup, clientaddr, file, bl_num, pos, client>>

-----------------------------------------------------------------------------
(***************************************************************************)
(* UDP.                                                                    *)
(***************************************************************************)
Lose(m) == /\ lost < MaxLost /\ lost' = lost + 1
           /\ Exchange(m, {})
           /\ UNCHANGED <<dup, failed, server, client>>

Duplicate(m) == /\ dup < MaxDup /\ dup' = dup + 1
                /\ net' = net (+) SetToBag({m})
                /\ UNCHANGED <<lost, failed, server, client>>

ServerReceives(m) ==
    \/ HandleRequest(m) \/ RefuseRequest(m) \/ IgnoreStray(m)
    \/ NextBlock(m) \/ Finish(m) \/ Abandon(m)

ToServer == {m \in BagToSet(net) : m.to = "server"}

ServerStep == \E m \in ToServer : ServerReceives(m)

ClientStep(c) ==
    \/ SendRequest(c)
    \/ \E m \in InFlight(c, "ERROR") : ReceiveError(c, m)
    \/ \E m \in InFlight(c, "DATA") : ReceiveBlock(c, m) \/ IgnoreBlock(c, m)

ClientError(c) ==
    \/ ClientFails(c)
    \/ \E m \in InFlight(c, "DATA") :
          OpenFails(c, m) \/ WriteFails(c, m) \/ ShortWrite(c, m) \/ AckFails(c, m)

ServerError == ReceiveFails \/ \E m \in ToServer : SendFails(m)

Next == \/ ServerStep \/ ServerError
        \/ \E c \in Clients : ClientStep(c) \/ ClientError(c)
        \/ \E m \in BagToSet(net) : Lose(m) \/ Duplicate(m)

Spec == Init /\ [][Next]_vars

\* Each program runs, and a datagram that is in flight and is not lost arrives.
FairSpec == Spec /\ WF_vars(ServerStep) /\ \A c \in Clients : WF_vars(ClientStep(c))

-----------------------------------------------------------------------------
(***************************************************************************)
(* Properties.                                                             *)
(***************************************************************************)
\* A client writes the bytes of its blocks in the order of their positions, none
\* twice, even when the server loses track of whom it is talking to, and each at
\* its place in the file unless one of its own writes was short; and the client
\* never counts further than the 16-bit number on the wire reaches, so it does not
\* take a wrapped number for a later block.
InOrder ==
    \A c \in Clients :
        /\ \A j, k \in 1 .. Len(got[c]) : j < k => got[c][j][2] < got[c][k][2]
        /\ c \notin gaps => \A k \in 1 .. Len(got[c]) : got[c][k][2] = k
        /\ num[c] < BLOCK_MOD

\* The server is never more than the one block it waits for ahead of the client
\* it believes to be talking to, whoever that has become.
ServerNotAhead == spc = "wait" => num[clientaddr] + 1 >= pos

Verdict(c) == CASE c \in gaps -> "spoiled"
                [] c \notin gaps /\ cpc[c] = "done" -> "whole"
                [] c \notin gaps /\ cpc[c] = "exited" -> "given up"
                [] OTHER -> "going"

Copies == INSTANCE FileCopy WITH
    Readers <- Clients, Source <- [c \in Clients |-> FileOf(c)],
    copy <- got, verdict <- [c \in Clients |-> Verdict(c)]

\* A client alone with the server writes a faithful copy of the file it asked for,
\* whatever is lost, duplicated or reordered and whichever call reports an error:
\* the programs implement FileCopy.  A write that is short without an error spoils
\* the copy, and nothing else does.
FaithfulCopy == Copies!CopySpec

\* Something went wrong that the programs have no timeout for.
Mishap == lost > 0 \/ dup > 0 \/ failed

\* Unless a datagram is lost or duplicated or a call fails, every download ends:
\* with the whole file, a multiple of the block size too, or with the server's
\* error when there is no such file.
EveryDownloadEnds ==
    \A c \in Clients :
        cpc[c] = "start" ~> Mishap \/ cpc[c] = IF c \in Missing THEN "exited" ELSE "done"

=============================================================================
