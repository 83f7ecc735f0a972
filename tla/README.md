# A verification project for network-underlying

`network-underlying` is a notebook of small network programs, written from the
socket API downwards until the last of them is a TCP stack of its own on a TAP
device; its second part follows a read on a Go connection down into the copy of
the Go SDK it carries. This directory holds TLA+ models of the C code and of the
parts of the Go runtime that the second part is about, TLC configurations that
check them on small instances, and TLAPS proofs about them. Paths below are
relative to the root of the repository; `$GO` is `02_go_sdk/go/src`.

## 1. Inventory

### Components

| Part | Where | State it keeps | Operations |
|---|---|---|---|
| TCP engine of the second protocol stack | `04_protocolstack_underlying_c/second_version/src/tcp.c`, `include/tcp.h` | `tcp_conn[20]`: per connection its 4-tuple, state, `send_next`, `recv_next`, one timer and one saved segment | `find_tcp`, `alloc_tcp`, `handle_tcp`, `start_tcp_timer`, `close_tcp_timer`, `tcp_timer_tick` |
| Its event loop | `second_version/src/main.c` | the TAP descriptor | poll 10 ms, read one frame, dispatch by protocol, tick |
| ARP, ICMP, checksum | `second_version/src/{arp,icmp}.c` (the same in `first_version`) | none | ARP reply, echo reply |
| First protocol stack | `first_version/src/{tcp,main}.c` | none: each reply is computed from the frame | SYN/ACK, ACK, FIN and echo replies |
| TFTP client and server | `01_socket_underlying_c/03_tftp/*.c` | client: block counter, local file; server: peer address, open file, block number | RRQ, DATA, ACK, ERROR |
| TCP servers | `01_socket_underlying_c/05_tcp/0[2-6]*.c` | listening socket, children, threads, epoll set | accept, recv, send, close |
| TCP client, UDP, broadcast, multicast, conversions | the rest of `01_socket_underlying_c` | one socket | straight-line calls |
| Raw-socket tools | `03_rawsocket_underlying_c` | one raw socket | parse frames, build one TCP segment |
| Go: lock of a descriptor | `$GO/internal/poll/fd_mutex.go`, `fd_unix.go` | one word (closed, two locks, references, waiters), three semaphores, `isBlocking` | `incref`, `decref`, `rwlock`, `rwunlock`, `increfAndClose`; `Close`, `destroy`, `SetBlocking` |
| Go: network poller | `$GO/runtime/netpoll.go`, `netpoll_epoll.go`, `internal/poll/fd_poll_runtime.go` | per descriptor a `pollDesc`: `rg`, `wg`, deadlines, timers, versions, published flags; `netpollWaiters` | open, reset, wait, set deadline, unblock, close, timer callbacks, `netpoll` |
| Go: semaphores | `$GO/runtime/sema.go` | per root: `nwait`, a tree of waiters | `semacquire1`, `semrelease1` |
| Go: scheduler | `$GO/runtime/proc.go` | run queues, idle Ps and Ms, `nmspinning`, `needspinning`, `lastpoll` | `ready`, park, system calls, `wakep`, `startm`, `findRunnable`, `injectglist`, `sysmon`, `handoffp` |
| Go: everything else | `02_go_sdk/go` | Go 1.22.5 as it is distributed | compiler, tools, standard library |

### How they interact

The second stack is one process and one thread. A TAP device delivers frames;
`main` dispatches each to ARP, ICMP or `handle_tcp`, which answers *in the
received buffer* and saves a copy for retransmission; after every frame, or
after 10 ms without one, `tcp_timer_tick` walks the table. The peers are the
clients of a Linux host behind the TAP device. The TFTP programs talk to each
other over UDP; the server has a single socket for all of its clients. The
other programs stand alone.

In the Go runtime, a read takes the descriptor's lock (`fdMutex`, which waits on
the semaphores of `sema.go`), tries the system call, and parks in the
descriptor's `pollDesc`. It is made ready by an event, a timer, a new deadline or
a `Close`; whoever does so hands it to the scheduler, whose idle threads are also
the ones that wait in `netpoll`.

### What is hard

* **Second stack.** The network may lose, duplicate, delay and reorder; slots
  are reused by later connections; a timer of the past must not resend into the
  present; the table and the 1500-byte segment buffer have limits nobody checks,
  and a copy beyond the buffer overwrites other connections; sequence numbers wrap; the retry limit and a late segment race in one
  iteration.
* **TFTP.** No timeouts, one socket for all clients, block numbers of 16 bits
  against a counter of 32, duplicates and late acknowledgements, short writes
  nobody notices.
* **Servers.** One pending SIGCHLD for any number of dead children; descriptors
  shared between parent and child; a child that falls back into `accept`;
  edge-triggered readiness while the loops are draining, with bytes left unread
  after a blocked send; a loop that one client can keep busy.
* **Go runtime.** Everything is lock-free or half so: a goroutine that parks
  against a notification that comes once; timers and events that arrive after
  the descriptor was reused; a word whose fields may overflow into each other;
  threads that go to sleep while work is being queued, with no lock held by
  either side; counters that are raised before it is known whether they apply.

`PROJECT.json` lists each of these hazards at its line, with the properties that
cover it.

### What makes each part correct

* TCP engine: one slot per 4-tuple; used slots are in a state the state machine
  handles; a retransmission is the newest segment of the very connection; a half
  open or half closed connection has a timer and ends; backoff doubles per retry
  and starts afresh per segment; connections do not disturb each other; `MAX_CONN`
  clients never bring the process down.
* TFTP: a download is at all times a prefix of the file and the whole file when
  the client says so; it ends. (A write that is short without an error breaks the
  first, a lost datagram the second: sections 4 and 11 name the exceptions.)
* ARP/ICMP/checksum: the reply is addressed to the asker and its checksum
  verifies.
* Servers: every accepted connection is echoed in order and closed once; children
  are reaped; no connection with unread bytes sleeps forever.
* Descriptor lock: one reader and one writer, nobody enters after `Close`, the
  descriptor is closed once and with nobody inside, and nobody is left waiting.
* Poller: no goroutine stays parked on a socket that is ready, closed or past its
  deadline; nothing that belongs to an earlier deadline or socket has an effect.
* Semaphores: an acquire returns only with a unit of a release, and no unit lies
  idle beside a sleeper.
* Scheduler: goroutines and Ps are neither lost nor doubled; no P stays idle
  beside runnable work; somebody polls the network.

## 2. Plan

1. `TcpStack`, `MCTcpStack`, `TcpStackProofs`: the core. **Done.**
2. `FileCopy` (abstract), `Tftp`, `MCTftp`. **Done.**
3. `EpollServer` and `ForkServer` with their MC modules, `ForkServerProofs`.
   **Done.**
4. The Go runtime under a network connection: `FdLife` (abstract) and `FdMutex`;
   `NetPoll`, which is built on `FdLife`; `Semaphore` (abstract) and `Sema`;
   `Sched`. **Done.**
5. Theorems, in a `*Proofs` module for each component: `TcpStackProofs`,
   `TftpProofs`, `EpollServerProofs`, `ForkServerProofs`, `FdMutexProofs`,
   `SemaProofs`, `SchedProofs`, `NetPollProofs`. **Done**, with the refinements of
   `FileCopy`, `FdLife` and `Semaphore`.

How the modules build on each other: `Tftp` implements `FileCopy`, `FdMutex`
implements `FdLife`, `Sema` implements `Semaphore`. `NetPoll` does not repeat
`fdMutex`: it takes the steps of `FdLife` for entering and leaving a descriptor,
which `FdMutex` is shown to implement; `FdMutex` takes from the semaphores what
`Semaphore` promises. `Sched` has of the poller the part that the scheduler sees.

## 3. The TCP engine: TcpStack

**State.** `tcp_conn` is the table, a function from slots to records with the
fields of `struct tcp`; `sent` is what the last iteration wrote to the TAP
device; `proc` says whether the loop runs, was left (`poll` or `read` failed) or
died of the NULL dereference.

**Actions.** Each is one whole iteration of the loop in `main`, the trailing
`tcp_timer_tick` included (operator `Tick`):

| Action | Code |
|---|---|
| `HandleSyn`, `TableFull`, `DropUnknown` | `handle_tcp` with no control block: SYN and a free slot; SYN and NULL from `alloc_tcp`; anything else |
| `SynRcvd` | `case TCP_SYN_RCVD` |
| `EstablishedData`, `EstablishedAck`, `EstablishedFin` | the three `if`s of `case TCP_ESTABLISHED`; data overwrites the flag byte, so the FIN test fails after an echo |
| `LastAck`, `OtherState` | `case TCP_LAST_ACK`, `default` |
| `EchoCrash` | the echo of a segment whose total length leads out of the frame buffer or out of the table |
| `NoSegment` | poll timed out, or the frame is ARP, ICMP, UDP, IPv6 or unknown: only the tick |
| `Runt`, `LoopBreaks` | `continue` before the tick; `break` |

The network is open: in every iteration any flow may send any segment, so loss,
duplication, delay, reordering and client restarts are all included. `tick`
follows the body of the loop in `tcp_timer_tick`: count, give up at the limit
(slot freed), otherwise resend, count the retry and double the interval.

`start_tcp_timer` copies `14 + ntohs(ip->totallen)` bytes into
`unreact_pkg[1500]` (`tcp.c:96`, `:169`). The total length is a 16-bit field of the
frame that arrived, and nothing compares it with the bytes that were read, with
the buffer or with the table: a plain frame of a full MTU is 14 bytes too long, and
a header may claim up to 65549. `Reaches` and `Covers` say which of the slots behind
are overwritten in part or wholly, in units of which a control block has `TCB_SIZE`;
`overrun` gives their fields the values of some control block in `Garbage`, up to any
field of the last slot (`Cut`, in the order of `struct tcp`), timers, states and
sequence numbers included. When the copy reads beyond the frame buffer of `main` or
writes beyond the table (`OutOfBounds`), the program may also die (`EchoCrash`). Timers
in overwritten slots may hold anything, so their counters wrap (`TICK_MOD`).
`FramesFit` says that no length is too long. A saved segment that did not fit is
marked (`intact` is FALSE): what is retransmitted then depends on what came to lie
behind the buffer.

**Left out.** Addresses and ports beyond the identity of the 4-tuple, checksums,
the contents of payloads, flags no branch tests, failing writes (the code only
prints a message). The three headers have one constant length, `HDR_LEN`: options,
and header lengths that contradict the total length otherwise than by a negative
payload, only move the point at which a frame stops to fit. Bytes beyond the table
are not part of the state.

**Properties.**

* `TableSound`: the table under duplicates, reuse and races of the timer, in four
  parts. `OneSlotPerFlow` and `UsedSlotsLive`; `RetransmitIsCurrent`: what an
  armed timer would send is the newest segment of that connection;
  `HalfOpenGuarded`: a connection that waits for an answer has a timer.
* `SentIsCurrent`: what an iteration did send belongs to the slot's present state.
* `Countdown`: no slot is held for ever by a silent peer. Every iteration that
  reaches the tick brings a half-open connection nearer to being given up,
  whatever arrives; the distance is a natural number. As a safety property it
  says more than the liveness that follows from it: the peer cannot delay it.
* `Backoff`: interval, retries and count agree. It holds when frames fit: an
  overrun may write any timer.
* `CrashOnlyWhenFull`: the NULL of `alloc_tcp` takes a table full of other
  clients' live connections.
* `Isolation`: an iteration moves one connection and takes no other one away,
  unless its retries are used up. It holds when frames fit.
* `DamageIsBehind`: when they do not fit, and in a table that was damaged before
  (two slots for one 4-tuple, states and timers that mean nothing), the copy of an
  echo is still the only thing that disturbs a second slot in one iteration, and it
  reaches only slots behind its own, as far as the length of the echo says. The
  tick, the lookups and the other handlers stay within their slot.
* `SendNextFollowsSegments`: `send_next` advances by what was sent. It holds when
  frames fit.

### Runs

| Run | Instance | Shows |
|---|---|---|
| `tcp_safety` | 3 flows for 2 slots, every flag combination, sequence space of 3 starting at its end, 1 retry, payloads 0, 1 and -1 (an inconsistent header), all of which fit; @@tcp_safety@@ states | all of the above but `DamageIsBehind` |
| `tcp_overrun` | 2 flows, 3 slots, a payload whose copy covers the next slot and reaches the one after, three control blocks for the bytes to spell, no sequence numbers; @@tcp_overrun@@ states | `DamageIsBehind` |

*Why the bounds suffice.* Slots only interact through the lookups and through
the overrun: two slots show reuse and isolation, three let a copy overwrite one slot
wholly, another in part, and run out of the table; the third flow of `tcp_safety`
finds the table full. The sequence space wraps within one exchange. One retry has
all the branches of the tick (resend, then give up). What stray bytes spell
(`StrayTcbs`) is a free slot in a state that does not exist, or an open connection of
any client that has no retry left and a counter about to wrap; the theorem is for
any set. Flows are symmetric: nothing in the code compares 4-tuples other than for
equality.

*Deadlock* is not checked: the process may exit or die, and stands still then.

## 4. TFTP: FileCopy and Tftp

`FileCopy` is the promise: per reader, a copy that is a growing prefix of the
file it asked for, declared whole only when it is; a reader may give up.

`Tftp` has one action per `recvfrom` with everything up to the next one. Client:
`SendRequest`, `ReceiveBlock`, `IgnoreBlock`, `ReceiveError`, and the failing
calls `ClientFails`, `OpenFails`, `WriteFails`, `ShortWrite`, `AckFails`. Server: in the outer
`recvfrom` `HandleRequest`, `RefuseRequest`, `IgnoreStray`; in the inner one
`NextBlock`, `Finish`, `Abandon`; failing calls `SendFails`, `ReceiveFails`.
UDP is external: a bag of datagrams from which any may be taken, with bounded
numbers of losses (`Lose`) and duplicates (`Duplicate`). A byte is its file and
its position, so that bytes of different files and places differ. The block
number on the wire is taken modulo `BLOCK_MOD` (65536 in the code), the client's
counter is not, as in the code.

`write` is tested for a negative result only (`01_tftp_client.c:57`). A short one, on
a disk that fills up, is counted and acknowledged like a whole block, and the file
has a gap from then on (`ShortWrite`, and `AckFails` when the acknowledgement cannot
be sent either). `gaps` is a history variable, the clients to whom this happened. It
is the one mishap after which the copy is no longer faithful: `FileCopy` has the
verdict "spoiled" for it, after which it promises only that what was written stays, and
`InOrder` promises those clients the order of the bytes but not their places.

| Run | Instance | Shows |
|---|---|---|
| `tftp_single` | 1 client, 2 full blocks and an empty one, whose number is the last (`BLOCK_MOD` - 1), 1 loss, 2 duplicates, every call may fail; @@tftp_single@@ states | `FaithfulCopy`: `Tftp` implements `FileCopy`, short writes excepted; `EveryDownloadEnds`: a file that is a multiple of the block size, as long as the numbers reach |
| `tftp_many` | 3 clients, one file longer than the block numbers, one missing, 1 loss, 1 duplicate, every call may fail; @@tftp_many@@ states | `InOrder`: bytes are written in order, at their places unless a write was short, and past the last block number nothing more is written; `ServerNotAhead`: the server never sends a block before the one before was acknowledged by somebody |

*Fairness.* Both programs run, and a datagram in flight that is not lost
arrives. `EveryDownloadEnds` excepts the behaviours in which a datagram is lost
or duplicated or a call fails (`Mishap`), because the programs have no timeout:
after one lost datagram both wait forever, and a duplicated acknowledgement makes
the server break off. The bounds on loss and duplication limit how many happen in
one behaviour, not when.

### Two clients at a time

The server's comment at line 36 provides for several clients. No run of the
project asks for a faithful or a finished download then, because with several at once
the code promises neither; both can be seen by changing `Tftp_single.cfg`
(files of 5 bytes, `BLOCK_MOD` 8, no loss, no duplicate, no failing call).

* A second client's request during a transfer is taken for a wrong
  acknowledgement (`02_tftp_server.c:100`): it is thrown away, the transfer is
  broken off, and neither client hears of it. With two clients TLC
  refutes `EveryDownloadEnds`.
* The inner `recvfrom` (`:89`) overwrites `clientaddr`, and the acknowledgement is
  recognised by its number alone. After an abandoned transfer the late
  acknowledgement of its client is accepted for the next client's transfer: the
  following block of the *second* file is sent to the *first* client, which
  expects that number and writes it. TLC refutes `FaithfulCopy` with three clients,
  or with two and one duplicate (two without a duplicate keep it). What survives
  is in `tftp_many`: bytes are at their place (`InOrder`), though of the wrong file.

Two remarks of the docs describe less than the code does. A file size that is a
multiple of 512 "is not considered" (`03-tftp.md:73`): the code handles it, with
an empty last block, and `tftp_single` shows that such a download ends. And the
client is said to exit on an unexpected block number (`03-tftp.md:60`): the code
ignores the block (`01_tftp_client.c:55` has no else), and `FaithfulCopy` shows
that this is enough.

## 5. The epoll server: EpollServer

One thread over edge-triggered epoll. The server's actions are single rounds of
its two inner loops (`Accept`, `AcceptAgain`, `AcceptFails`, `AddFails`; `Echo`,
`EchoBlocked`, `BrokenPipe`, `SendFails`, `RecvAgain`, `CloseConn`) and `EpollWait`, so that
clients act between any two of them. The kernel is external: a ready list in
arrival order, which a descriptor joins at an edge and leaves when `epoll_wait`
returns it; receive and send buffers; a reset. After a reset `send` either raises
SIGPIPE, if the end of the client's input came before (`BrokenPipe`), or fails with
another error, for which `communication` returns -1 and the socket is closed with
input perhaps unread (`SendFails`, lines 53-57); the model allows both at any time.
The byte k of a client is the number k. `evs` holds the events of the batch still
to be handled, the first in hand. `stalled` is a history variable: descriptors
the program turned away from although input was left, after EAGAIN from `send` or
a failed `accept`.

| Run | Instance | Shows |
|---|---|---|
| `epoll` | 2 clients, 3 bytes each, batches of 2, recv of 2, send buffer of 1, resets, failing accept, epoll_ctl and send; @@epoll@@ states | `NoLostWakeup`: input or a waiting connection is always on the ready list or in the batch, `stalled` apart; `NoStaleEvent`: no event for a closed descriptor; `EchoInOrder`: echoes are in order and not repeated, and none is lost to a client that stays and sends no more than its buffer holds; `EveryoneServed` |

Two clients and the listening socket are three descriptors for a batch of two, so
batches overflow; a chunk is longer, as long and shorter than the room to send.

*Fairness.* The server runs (`Round`, any step that does not end a loop for want of
input or connections), and clients that have not closed read. `EveryoneServed` says
that the connection of a client that has finished sending is closed, and its echo
delivered, unless the server has given it up: after a blocked `send` or a failed
`accept` the program turns away from input it will not be told of again, and a
SIGPIPE ends it for everyone.

*Starvation.* The server does not keep everyone served. The loop of `communication`
(line 31) returns only when `recv` finds nothing, a call fails or the client leaves:
while one client keeps sending as fast as it is echoed, nobody else is looked at.
The bytes of the model are numbered and end, so more of them is represented by the
fairness: nothing obliges `RecvAgain` or `AcceptAgain` to come. `EveryoneServed` is
therefore conditional on `Pauses`, that these loops do find nothing left at some
time; without that hypothesis TLC refutes it.

`NoStaleEvent` is about the program's own bookkeeping: that a descriptor's number
already serves another connection is not in the model (each client has one socket),
and the kernel would also take a closed descriptor out of the set by itself.

## 6. The fork server: ForkServer

Parent, handler and children step by step. `holders` are the processes that have
a connection open, `listener` the children that still have the listening socket;
`sigchld` is the one pending bit of SIGCHLD, `handling` says that `handler` runs
(SIGCHLD is blocked meanwhile, as `signal` arranges). `accept` interrupted by the
signal is simply tried again. After a failed `recv` a child is `fallen`: it leaves
its loop, and goes round the parent's.

| Run | Instance | Shows |
|---|---|---|
| `fork_safety` | 2 clients, 2 bytes of text or NUL each, buffer of 2, failing accept, fork and recv, fair processes | `NoForgottenZombie`, `ClosedForReal`, `OneAcceptor`; `EchoIsText`: what `strlen` makes of every way of cutting the input; `AlwaysReaped`: the promise of the comment at lines 44-45 |

Two children are enough for one to die before the signal and the other while the
handler runs, or both behind one signal; section 11 proves the safety part for any
number of them.

The docs (`docs/en/part1-socket-c/05-tcp-socket.md:38`) prescribe `strlen` so that
no garbage behind the string is sent. The child receives up to `sizeof(buf)` bytes
(`03_server_fork.c:79`), so a full buffer has no terminator, and `strlen` (`:89`)
goes on behind it. The read beyond the buffer is modelled as a choice: a zero byte
follows, or something else does. `EchoIsText` is therefore about the client's own
bytes and NULs, and says nothing of the garbage: that none is ever sent is false of
the model and of the code, and is not among the properties.

## 7. The lock of a descriptor: FdLife and FdMutex

`FdLife` is the promise: a descriptor is open, closing or closed; a goroutine
enters to read, write, close or do something else; at most one reader and one
writer are inside; nobody enters once `Close` has begun; the descriptor is closed
once, when everybody has left.

`FdMutex` is the implementation. `mu` is the word `mu.state` by its fields, whose
limits `REF_MAX` and `WAIT_MAX` (2^20 - 1 in the code) are constants. Each
operation is a loop around one compare-and-swap; a failed one changes nothing, so
the operation is one atomic action. What follows it is separate: the
`Semrelease` calls that are owed to waiters, `pd.evict`, the `destroy` of whoever
drops the last reference, the wait of `Close` for `csema`. A full field panics
(`Overflow`) and leaves the word as it was.

| Run | Instance | Shows |
|---|---|---|
| `fdmutex` | 4 goroutines, at most 2 references and 2 waiters per mode; 208,875 states | `IsFdLife`: `FdMutex` implements `FdLife`; `NoStranded`: a sleeper has a wake-up on its way or a holder who will see it, also across `Close`; `EveryoneReturns`: `Close` and all it found waiting return |

Four goroutines are a holder, two waiters and a closer; both fields fill up with
two. *Fairness:* goroutines run; and after `evict` a read or write in progress
ends (`Drains`), which is what `NetPoll` shows, unless the descriptor is in
blocking mode. A user that holds a reference otherwise (`incref`: `setsockopt`, the
callback of a `RawControl`) is taken to come back, which the code cannot promise of a
callback.

The comment at `fd_unix.go:110-111` says that `Close` has exclusive access when it
reads `isBlocking`. A `SetBlocking` that took its reference before can still store
it, after `Close` read 0: `Close` then waits for a read that blocks in the system.
`EveryoneReturns` names this exception.

## 8. The network poller: NetPoll

One `pollDesc` and the sockets it serves one after the other. The goroutine of
each mode is named by the mode, because `FdLife` allows one at a time. `pd` holds
what the lock protects, `info` is `atomicInfo`, `gpp` the two semaphores `rg` and
`wg`, `timer` the two timers, `slot` where the `pollDesc` is between `alloc` and
`free`, `socket` the kernel's side. `asked` records what the caller of
`SetDeadline` wanted, for the properties.

Goroutines go through `Read`, `pollReset`, `Syscall` (`SyscallEnds`, `WritesOn`), `pollWait`, `netpollblock`,
`recheck`, `netpollblockcommit` and `swap`, each atomic access one action. Threads
are everybody else: callers of `SetDeadline` and `Close`, timers (`Fire`,
`netpolldeadlineimpl`) and pollers (`EpollWait`, `netpoll`, `setEventErr`). What a
thread does under `pd.lock` on `rg` and `wg`, which goroutines access without it,
is a list of single steps (`do`). `pollClose`, `free`, `pollOpen` and `netpollopen`
take the `pollDesc` to the next socket, with versions that wrap at `TAG_MOD`.
`FD.Write` (`fd_unix.go:375-398`) loops after a partial write and calls `write` again
without another `pollReset`; that is `WritesOn`, which leaves the socket full.

| Run | Instance | Shows |
|---|---|---|
| `netpoll_reuse` | a reader, 2 threads, 2 sockets one after the other, deadlines for read or both, sockets that fail; @@netpoll_reuse@@ states | `NoThrow`: none of the runtime's consistency checks fails, "unblock on closing polldesc" (`netpoll.go:452-454`) included; `NoLostWakeup`; `DeadlineReached`: no timeout before the deadline in force; `DeadlineWatched`: no deadline without a timer, though read and write may share one; `ErrorIsOurs`; `WaitersCounted` |
| `netpoll_live` | a writer with partial writes, 1 thread, 1 socket, delays past, none and future for any mode; @@netpoll_live@@ states | `CloseEnds`, `ReadReturns` |

Two threads are enough for any two wakers to meet, and a late timer or event needs
one thread that stays behind and another that goes on. The goroutine of the other
mode would behave alike: modes share only the lock and the combined timer, which
the runs exercise through `SetDeadline` for both. The liveness run has one thread,
because fairness doubles the work; the races of two threads are covered by the
safety run, in particular by `NoLostWakeup`, on which liveness rests. `TAG_MOD` is
larger than the number of sockets: a version that comes round while an event is
on its way is not excluded by the code, only made improbable.

*Fairness.* Goroutines and threads run once they have begun something. That
somebody polls and that timers are run is the scheduler's part (`PollerPresent`
below): strong fairness, as a thread that could do so may be busy otherwise for a
while. What a `Write` has to write is finite: of the calls that succeed again and
again one is the last (strong fairness on `SyscallEnds` of the writer). Nobody has
to call `SetDeadline` or `Close`.

*Not in the safety run:* delays in the past and the overflow of clock and delay
(`netpoll.go:376-380`), for want of room; the live run has the former, and the
theorem `TimeoutsAreDue` covers every delay.

Part 2 of the docs differs from the code in two details, both about this module:
`04-accept-internal.md:222` has `netpollblockcommit` use `atomic.Store`, where the
code compares and swaps (`netpoll.go:528`), without which `NoLostWakeup` fails;
and `03-runtime-architecture.md:85` gives the version 10 bits, where
`tagptr_64bit.go` has 19 on amd64.

## 9. Semaphores: Semaphore and Sema

`Semaphore` is a count per address: `semrelease` gives a unit, `semacquire` returns
with one. `Sema` is `semacquire1` and `semrelease1` for the addresses of one root,
each access to the word, to `nwait` or under the lock one action. `root.lock` is
held across two of them in `semacquire1`, since the word changes without it.
`opt` is `lifo` or `handoff`; a ticket is a unit the releaser took for the waiter.

| Run | Instance | Shows |
|---|---|---|
| `sema` | 3 goroutines, 2 addresses on one root, values up to 2; 228,189 states | `IsSemaphore`: `Sema` implements `Semaphore`, tickets counted as units; `NoMissedWakeup`; `UnitsAreTaken` |

Three goroutines are a waiter, a releaser and one that takes the unit in between;
the second address shows the shared `nwait`. *Fairness:* goroutines run, and the
run-time's lock is had by everybody in the end (strong fairness).

## 10. The scheduler: Sched

The part of `proc.go` that decides which threads look for work, sleep or poll.
Goroutines are counted, not named: `lq` and `gq` are the lengths of the queues,
`netw` and `netev` those that wait for the network, quiet or ready, `blocked` those
that wait for another goroutine. `th` has each M and sysmon: where it is, its P,
whether it spins, the P it hands to `startm`, what it has still to inject and to
take from `netpollWaiters`, the value of `nmspinning` it has read. What is done under
`sched.lock` is one step, and so is each atomic operation outside of it and each
look at a run queue; in between, everybody else acts. Three steps are coarser than
that. The loads of `netpollWaiters` and `lastpoll` before a poll or a swap of
`lastpoll` are one step with it; `findRelease`, which holds the lock, makes
`becomeSpinning` one step with the rest, since outside of it `needspinning` is only
read under the same lock; and a call of `netpoll` takes what is ready at once.

`netpoll(-1)` may also return without a goroutine, for an event on a socket on which
none is parked: `findPolling` returns at any time with what is there, and a thread
that found nothing takes a P and spins again if it did before (`PolledNone`, lines
3501-3504), or stops. `netpollWaiters` is an unsigned counter that may be lowered
before it was raised: `netpollAnyWaiters` is then true (`AnyWaiters` is `# 0`).

| Part | Actions |
|---|---|
| a running goroutine | `ready`, `park`, `parkNet`, `netpollAdjustWaiters`, `goschedImpl`, `entersyscall`, `exitsyscallfast`, `exitsyscallLost`, `exitsyscall0` |
| waking threads | `wakep`, `wakepGet`, `startm`, `resetspinning` |
| `findRunnable` with a P | `findGlobalFirst`, `findLocal`, `findGlobal`, `findPoll`, `findSteal`, `findLimit`, `becomeSpinning`, `becomeSpinningStore`, `stealWork`, `findRelease` |
| `findRunnable` without | `findDrop`, `findAgain`, `checkRunqsNoP`, `checkRunqsGetP`, `becomeSpinning`, `findMayBlock`, `findPolling`, `findPolled`, `findPollP` |
| `injectglist` | `injectGlobal`, `startIdle`, `injectLocal`, `adjustWaiters` |
| `sysmon` | `sysmonPoll`, `retake`, `handoffp`, `handoffSpin`, `handoffIdle`, `handoffCas`, `handoffStore`, `handoffLock` |

| Run | Instance | Shows |
|---|---|---|
| `sched` | 2 Ps, 3 Ms and sysmon, 2 goroutines; @@sched@@ states | `Accounted`: every goroutine and every P is in exactly one place; `SpinningCounted`: `nmspinning` counts what it should; `WorkConserving`; `PollerPresent`: when all Ps are idle and a goroutine waits for the network, a thread is in `netpoll` |
| `sched_handoff` | the same | the disagreement below |

Two Ps are a busy and an idle one, and the third M is there for the system call
that keeps its own. Ms and Ps are interchangeable, which the symmetry uses. The
scheduler starts a new M whenever none is parked; here their number is bounded,
and `startm` waits when all are in use, which no property takes for progress:
they speak of states in which every thread has come to rest (`Settled`).

`slack` is a history variable. The code accepts two ways of leaving work beside an
idle P: goroutines put in a local queue in bulk wake nobody, and `handoffp` may put
a P down while another P has work. `WorkConserving` says that there is no third
one, and that the global queue is never left behind. `slack` is forgotten as soon as
all local queues are empty (`StillSlack`), so that one bulk insertion excuses only
the work that is left of it.

*Disagreement.* `proc.go:2906-2907` says that "handoffp must start an M in any
situation where findrunnable would return a G to run on pp". `sched_handoff` finds
a behaviour in which it does not. sysmon retakes P1 from a system call and finds
the queues empty; a goroutine on P2 makes another one ready, and its `wakep` sets
`nmspinning` to 1; `handoffp` reads that 1 (`:2926`) and starts nobody; `wakep` finds
no idle P, sets `needspinning` and takes its 1 back; `handoffp` puts P1 on the idle
list. `findRunnable` looks at `needspinning` before it does the same (`:3332`),
`handoffp` does not. The goroutine is not lost: it runs when P2 is free, or another
`wakep` comes.

## 11. Proofs

Everything below is proved for every value of the constants that the modules'
named assumptions allow: any number of clients, slots, goroutines, threads, Ps,
any buffer and file size, any width of a counter. Each `*Proofs` module extends
its component and states the inductive invariant that the properties follow from.

| Module | Theorem | Property | Hypotheses |
|---|---|---|---|
| `TcpStackProofs` | `TypeCorrect` | `TypeOK` | |
| | `StackSafe` | `TableSound` | `FramesFit` |
| | `WritesAreCurrent` | `SentIsCurrent` | `FramesFit` |
| | `FatalOnlyWhenFull` | `CrashOnlyWhenFull` | `FramesFit` |
| | `NoCrash` | `CrashNeedsMoreClients` | `FramesFit`, finitely many flows |
| | `BacksOff` | `Backoff` | `FramesFit` |
| | `ClientsIsolated` | `Isolation` | `FramesFit` |
| | `DamageStaysBehind` | `DamageIsBehind` | |
| | `NoSequenceSkipped` | `SendNextFollowsSegments` | `FramesFit` |
| | `HalfOpenEnds` | `Countdown` | `FramesFit` |
| `TftpProofs` | `WrittenInOrder` | `InOrder` | |
| | `AtMostOneAhead` | `ServerNotAhead` | |
| | `OneFaithfulCopy` | `FaithfulCopy` | one client |
| `EpollServerProofs` | `EventsAreFresh` | `NoStaleEvent` | |
| | `NoWakeupLost` | `NoLostWakeup` | |
| | `EchoesInOrder` | `EchoInOrder` | |
| `ForkServerProofs` | `NeverForgotten` | `NoForgottenZombie` | |
| | `ConnectionCloses` | `ClosedForReal` | |
| | `OneServer` | `OneAcceptor` | |
| | `EchoesText` | `EchoIsText` | |
| `FdMutexProofs` | `ImplementsFdLife` | `IsFdLife` | |
| | `NobodyStranded` | `NoStranded` | |
| `SemaProofs` | `NoWakeupMissed` | `NoMissedWakeup` | |
| | `ImplementsSemaphore` | `IsSemaphore` | |
| `SchedProofs` | `SpinnersCounted` | `SpinningCounted` | |
| | `NothingLost` | `Accounted` | |
| | `NoWorkLeft` | `WorkConserving` | |
| | `SomeonePolls` | `PollerPresent` | |
| `NetPollProofs` | `NeverThrows` | `NoThrow` | |
| | `WakeupsNotLost` | `NoLostWakeup` | |
| | `TimeoutsAreDue` | `DeadlineReached` | |
| | `DeadlinesWatched` | `DeadlineWatched` | |
| | `ErrorsAreOurs` | `ErrorIsOurs` | fewer sockets than versions |
| | `WaitersAreCounted` | `WaitersCounted` | |

### TcpStackProofs

The assumptions are those of `TcpStack` (`TableAssumption`, `TimerAssumption`,
`SeqAssumption`, `FrameAssumption`, `GarbageAssumption`): the table and the sequence
space are not empty, at least one retry and one tick, the longest interval fits its
field, payload lengths are integers, a frame without payload fits the buffer, a
control block has at least one byte, and what bytes spell when they are copied over
one is again a control block. `FramesFit` is a hypothesis of the theorems and
not an assumption of the module, because the code does not ensure it.

`IInv` is `TypeOK`, `Consistent(tcp_conn)`, `SentIsCurrent` and
`CrashOnlyWhenFull`. `Consistent` puts the table properties together, and is a
predicate on a table rather than on the state because an iteration has two
halves: the segment handler builds a table that exists in no state, then the
tick runs over it. Each half is shown to keep it, slot by slot: a handler
replaces one slot by a consistent one whose flow is its own or, for a SYN,
was not in the table; the tick keeps, counts or frees each slot. None of the
parts is inductive alone: that a due timer resends the right segment needs the
saved segment to agree with the state, sequence numbers and flow of its slot;
that a SYN does not open a second slot needs `find_tcp` to return one whenever
one exists (the least number principle, lemma `FirstExists`); `SentIsCurrent`
needs that a slot which resends is not given up in the same tick. `NoCrash` is
a pigeonhole argument: a full table maps slots injectively to the other flows.

The action properties rest on one lemma about the shape of an iteration
(`StepTouches`): it handles one slot, and another one changes by its tick or, if
the copy of the echo reaches it, by the overrun. `TypeCorrect` and
`DamageStaysBehind` need nothing else, and no hypothesis on the lengths: the second
says of arbitrary tables what the shape of an iteration does to them. `Backoff`,
`Isolation` and `Countdown` also need `TimerInv`, under `FramesFit`: in every slot,
used or free, the retries are within `MAX_RETRIES` and a running timer is within its
doubled interval, which by `TimerAssumption` does not wrap. The power of
two in the interval is a recursive definition, about which the provers know
nothing; that it is positive, grows and doubles is proved by counting the
subsets of `1..n` (`PowerIsSize`, `PowerDoubles`).

### TftpProofs

A number on the wire stands for one block: the invariant says that every `DATA`
in the network is some block of some file under its number modulo `BLOCK_MOD`,
that every `ACK` is of a block its sender has counted (`NetInv`), that the server
is at most one block ahead of its peer (`ServerInv`), and that the bytes of a client
have rising positions within the blocks it has counted, without a hole if it has no
gap, and full blocks only as long as it goes on (`CopyInv`). `ServerNotAhead` is what makes `InOrder`
inductive: the server stops before it would use a number twice, because nobody
acknowledges the wrapped block 0. With one client every block is of its file,
which gives the refinement of `FileCopy`.

### EpollServerProofs

`Inv` adds to `NoStaleEvent` and `NoLostWakeup` that the list of ready sockets,
the batch and the backlog name everyone once, without which removing an event
(`Drop`, for either way of closing) could leave another copy behind. The echo has its own invariant: heard, on the
way back and unread bytes, put together, are increasing numbers of bytes said.

### ForkServerProofs

The properties speak of children that are done, and neither `ClosedForReal` nor
`OneAcceptor` is inductive: the invariant says instead that whoever holds the
listening socket has not started yet (`ListenersAreNew`), and that whoever holds
a connection is the parent between `accept` and `close` or a child still at
work (`HoldersAtWork`), for which the parent's `new_socket` must be unset at
`accept` (`CurOnlyInBetween`). `EchoIsText` counts the NULs of a chunk and of its
part before the first one.

### FdMutexProofs

The refinement mapping needs that the reference field counts the goroutines
between lock and unlock (`RefCounts`), that the lock bit belongs to one of them
(`LockHeld`), and that one goroutine at most is told it was the last
(`LastOnce`). `NoStranded` rests on a balance: the sleepers of a mode are as many
as the waiters in the word, the units of the semaphore and the signals still
owed together (`Balanced`); and a lock that is free while waiters are counted has
somebody coming for it (`Noticed`).

### SemaProofs

The invariant ties the lists to the goroutines: who is parked is in exactly one
list or is about to be made ready by one releaser (`QueueInv`, `ParkedInv`,
`WokenInv`), and `nwait` counts them (`CountInv`). `UnitInv` is the heart: as long
as an address has waiters, the units in its word are no more than those in
flight who will look at them again. The refinement maps a ticket to a unit.
That there are finitely many goroutines is an assumption (`SemaAssumption`),
because `nwait` counts them.

### SchedProofs

`Inv` gives for each thread what it may be doing (`ThreadOK`: when it has a P,
spins, owes or carries goroutines, and where it will go on), that every P is
idle, in a system call or with exactly one thread (`Owned`), that a P whose queue
was found empty still has an empty one as long as its thread has not put
anything there (`Empty`), and the two counts, `nmspinning` and the number of
goroutines. A thief only makes a foreign queue shorter, which is why `Empty`
survives. The step lemma `StepKeeps` reduces an action of one thread to what it
does to the thread, the Ps, the queues and the counts; `startm`, in which a P
changes hands, moves two. `Sum` is defined by counting units instead of
recursion, so that "one entry moves by k" can be proved (`SumMoves`).

`WorkConserving` and `PollerPresent` speak of states at rest, and say nothing about
the steps between them. `DanceInv` says who will still look for work, or at the
poller, at every point of the dance of `findRunnable` and `wakep`:

* `GlobalInv`: while a P is idle, a thread is awake (it spins, is about to spin again
  or to make another one spin), or every goroutine of the global queue has a thread that will take it.
  The second case is a count (`Stand`), because `injectglist` starts as many threads
  as it queues goroutines, one after the other, and a thread that was started for
  one may find it taken by another.
* `LocalInv`: a goroutine left in a local queue will be seen by a thread that is
  awake, by one in its last look over the queues that has passed only empty ones
  (`Looks`), or, if no P is idle, by the one that gives up its P and finds
  `needspinning` set. This is where the order in `findRunnable` counts, first to
  leave `nmspinning` and then to look again. `slack` excuses what it names.
* `WaitersInv`: `netpollWaiters` counts those that wait, up to one that is not
  counted yet and those that were fetched and not taken off yet.
* `LastInv`: `lastpoll` is 0 exactly while one thread, and only one, is in `netpoll`.
* `SeekInv`: with every P idle and somebody waiting for the network, a thread is in
  `netpoll` or will still look whether to go there. It needs the two above: what a
  thread reads before it decides are `netpollWaiters` and `lastpoll`.

The atomic operations that `becomeSpinning` and `handoffp` make one after the other
leave states in between, in which `nmspinning` is raised and `needspinning` not yet
cleared: the thread that will clear it is awake, and does not sleep before it has
looked.

Each has a condition on one step of one thread (`GlobalStep`, `LocalStep`,
`WaitersStep`, `LastStep`, `SeekStep`) that suffices to keep it (`StepDances`), and
each action has a lemma that shows them; `startm`, which hands a P to a parked
thread, moves two threads and is treated apart.

### NetPollProofs

`PollAssumption` asks for finitely many threads, apart from the modes, for at least
two versions and for integer delays; the bounds of the exploration are arbitrary.
The proof first says, for each step of a thread, what it does to the fields of the
state (`Unblocking`, `Expiry`, `Setting`, `Evicting`, ...), which needs that what a
thread has still to do is one of eight lists (`Lists`). `Inv` has six layers:

* `JobInv`: `atomicInfo` shows what the lock protects; only what runs under the
  lock holds it; an event holds no lock and expires nothing.
* `HandInv`: a semaphore holds a goroutine only while it is parked, and a
  goroutine that was taken out of it is in the hands of exactly one thread.
* `LifeInv`: who still uses the `poll.FD`, what the `pollDesc` may be doing
  meanwhile, and that nobody is in it when it is free.
* `EvictInv`: one thread at most is about to unblock for `Close`, and only while the
  `pollDesc` is not closing yet; this is what the throw of `netpoll.go:452-454` asks.
* `TimerInv`: a timer that is armed, has fired and still counts (its sequence
  number is the present one), or is being run, is *live*. A live timer fits the
  deadlines of its modes, one thread at most holds it, and a live shared timer
  excludes one for the write side alone (`Apart`). Neither deadline property is
  inductive without these three. `AskedOK` ties the stored deadlines to those
  that were asked for, overflow included.
* `WakeInv`: whenever a goroutine waits on a socket that is ready, there is a
  notification, an entry in epoll's list or a thread that brings the event
  (`ReadyOK`); whoever is parked, or about to be, although the socket is closing
  or its deadline is over, has a thread that will unblock it (`FreedOK`).

`ErrorsAreOurs` adds `ErrInv`: an event carries the number of the socket that it
was for. Its hypothesis is that there are fewer sockets than versions
(`MAX_OPENS < TAG_MOD`), for the reason given in section 8: the code makes a
version that comes round while an event is under way improbable and does not
exclude it. `WaitersAreCounted` adds that no thread has anything to add to
`netpollWaiters` (`CountInv`); what is still to be taken off is counted unit by
unit (`Owed`), as a sum by recursion would be out of the prover's reach.

### Only model-checked

Liveness (`EveryDownloadEnds`, `EveryoneServed`, `AlwaysReaped`, `EveryoneReturns`,
`CloseEnds`, `ReadReturns`, `UnitsAreTaken`), which is beyond the prover. Every
safety invariant, action property and refinement of a passing run has a theorem.

A type invariant is checked for `TcpStack` alone, where the run's properties
build on it; in the other modules the inductive invariants have one.

## 12. Not modelled

* ARP and ICMP replies, the first protocol stack: each reply is a function of the
  frame, and nothing is kept between two frames. The checksum is a sum over
  bytes, which the models abstract from.
* The sequential and non-blocking TCP servers serve one connection at a time. The
  threads of the thread server share nothing; its one weakness, an accepted
  descriptor and its record without an owner after a failed `pthread_create`
  (`04_server_thread.c:91`), is visible in the code.
* The TCP client, the UDP, broadcast, multicast and conversion programs and the
  raw-socket tools keep no state between two calls. Socket set-up in the `main`
  functions either succeeds or ends the program.
* The rest of the Go SDK: 1.3 million lines of Go, most of them the compiler, its
  generated rewrite tables and the standard library, unchanged from the Go
  project. They hold nearly all of the repository's lines of Go and none of its
  subject; the models cover what part 2 of the documentation explains and the
  files it links to. A model of a substantial share of that code by lines is not
  within reach, and would say nothing about this repository.
* Of the modelled Go files: `pollWaitCanceled` (Windows only), `netpollBreak` and
  its pipe, the pollers of other systems; the timer heap (an expired timer fires
  at any time, action `Fire`); the balanced tree of a `semaRoot` (a list per
  address), block and mutex profiling, `notifyList`; in the scheduler timers, the
  collector, stopping the world, locked threads, tracing, cgo and the bound of a
  local run queue.
