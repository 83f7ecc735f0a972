------------------------------ MODULE NetPoll -------------------------------
(***************************************************************************)
(* The runtime's network poller (runtime/netpoll.go, netpoll_epoll.go) and *)
(* the read and write loops of poll.FD on top of it, for one pollDesc, its *)
(* timers, and the sockets it serves one after the other.                  *)
(*                                                                         *)
(* A socket has at most one reader and one writer at a time, because poll.FD *)
(* keeps what FdLife promises (module FdMutex): the goroutine of each mode *)
(* is named by the mode. Threads are everyone who wakes them: callers of   *)
(* SetDeadline and Close, timers that fire, and Ms that call netpoll.      *)
(***************************************************************************)
EXTENDS Integers, Sequences, FiniteSets

CONSTANTS Threads,
          Users,        \* the modes that have a goroutine, a subset of Modes
          Deltas,       \* arguments of SetDeadline: a delay, 0: none, -1: past
          DeadlineModes,\* the modes a call of SetDeadline is for
          Sockets,      \* "quiet": never ready, "plain", "failing": may report EPOLLERR alone
          TAG_MOD,      \* versions of a pollDesc, 2^taggedPointerBits
          MAX_TIME, MAX_OPENS, MAX_SEQ, MAX_M     \* bounds of the exploration

Modes == {"r", "w"}
Nobody == "nobody"

ASSUME PollAssumption ==
    /\ Users \subseteq Modes /\ DeadlineModes \subseteq SUBSET Modes
    /\ IsFiniteSet(Threads) /\ Threads \cap Modes = {} /\ Nobody \notin Threads
    /\ Deltas \subseteq Int /\ TAG_MOD \in Nat \ {0, 1}
    /\ MAX_OPENS \in Nat /\ MAX_TIME \in Nat \ {0}
    /\ Sockets \in {"quiet", "plain", "failing"}

VARIABLES phase, use,   \* of the poll.FD: see FdLife
          pd,           \* the pollDesc: fdseq, and what its lock protects
          info,         \* pd.atomicInfo
          gpp,          \* pd.rg and pd.wg
          timer,        \* pd.rt and pd.wt
          slot,         \* of the pollDesc: "used", "closed", "free", "opened"
          socket,       \* the kernel's side: what is ready, its epoll entry
          pc,           \* of each mode's goroutine
          th,           \* what each thread is doing
          waiters,      \* netpollWaiters
          adding,       \* commits whose netpollAdjustWaiters(1) is still to come
          now, opens,
          asked         \* the deadline last asked for in each mode; 0: none

life == <<phase, use>>
vars == <<phase, use, pd, info, gpp, timer, slot, socket, pc, th, waiters, adding,
          now, opens, asked>>

Life == INSTANCE FdLife WITH Goroutines <- Modes \cup Threads

INT_MAX == MAX_TIME + 1      \* a deadline the clock never reaches
NoTimer == [f |-> {}, when |-> 0, seq |-> 0, armed |-> FALSE]
Idle == [pc |-> "idle", do |-> <<>>, modes |-> {}, seq |-> 0, err |-> FALSE,
         io |-> FALSE, hand |-> {}, delta |-> 0]

\* What a socket may be ready for; a mode nobody uses is left out.
Watched == IF Sockets = "quiet" THEN {} ELSE Users
Readiness == {r \in [Modes -> BOOLEAN] : \A m \in Modes : r[m] => m \in Watched}

\* A pollDesc fresh from pollcache.alloc, all zero.
Init ==
    /\ phase = "closed" /\ use = [g \in Modes \cup Threads |-> "none"]
    /\ slot = "free" /\ opens = 0
    /\ pd = [fdseq |-> 0, closing |-> FALSE, lock |-> Nobody,
             d |-> [m \in Modes |-> 0], seq |-> [m \in Modes |-> 0]]
    /\ info = [closing |-> FALSE, err |-> FALSE, expired |-> [m \in Modes |-> FALSE], fdseq |-> 0]
    /\ gpp = [m \in Modes |-> "nil"] /\ timer = [m \in Modes |-> NoTimer]
    /\ socket = [ready |-> [m \in Modes |-> FALSE], err |-> FALSE, tag |-> 0, listed |-> FALSE]
    /\ pc = [m \in Modes |-> "idle"] /\ th = [t \in Threads |-> Idle]
    /\ waiters = 0 /\ adding = 0 /\ now = 1 /\ asked = [m \in Modes |-> 0]

\* pd.publishInfo: the bits of p, and eventErr as it is.
publishInfo(p) == [info EXCEPT !.closing = p.closing, !.fdseq = p.fdseq,
                               !.expired = [m \in Modes |-> p.d[m] < 0]]

\* netpollcheckerr reports an error.
checkerr(m) == info.closing \/ info.expired[m] \/ (m = "r" /\ info.err)

Goto(m, to) == pc' = [pc EXCEPT ![m] = to]
Return(m) == Goto(m, "idle") /\ Life!Leave(m)
Gpp(m, to) == gpp' = [gpp EXCEPT ![m] = to]

-----------------------------------------------------------------------------
(***************************************************************************)
(* FD.Read, FD.Write, FD.Accept: lock, pollReset, then system calls with   *)
(* pollWait between them.                                                  *)
(***************************************************************************)
Read(m) ==
    /\ m \in Users /\ pc[m] = "idle"
    /\ Life!Enter(m, m)
    /\ Goto(m, "prepare")
    /\ UNCHANGED <<pd, info, gpp, timer, slot, socket, th, waiters, adding, now, opens, asked>>

pollReset(m) ==
    /\ pc[m] = "prepare"
    /\ IF checkerr(m) THEN Return(m) ELSE Goto(m, "reset") /\ UNCHANGED life
    /\ UNCHANGED <<pd, info, gpp, timer, slot, socket, th, waiters, adding, now, opens, asked>>

\* Mutant: the notification is dropped after the system call, not before.
ResetTo_Late == "check"

\* What follows the Store of pollReset.
ResetTo == "syscall"

pollResetStore(m) ==
    /\ pc[m] = "reset"
    /\ Gpp(m, "nil")
    /\ Goto(m, ResetTo)
    /\ UNCHANGED <<phase, use, pd, info, timer, slot, socket, th, waiters, adding, now, opens, asked>>

\* The call succeeds, and takes all of the data or room, or a part of it.
SyscallEnds(m) ==
    /\ pc[m] = "syscall" /\ socket.ready[m]
    /\ \E left \in {socket.err, TRUE} : socket' = [socket EXCEPT !.ready[m] = left]
    /\ Return(m)
    /\ UNCHANGED <<pd, info, gpp, timer, slot, th, waiters, adding, now, opens, asked>>

\* FD.Write has taken all the room and not written all: it calls again, without
\* a new pollReset.
WritesOn(m) ==
    /\ pc[m] = "syscall" /\ m = "w" /\ socket.ready[m] /\ ~socket.err
    /\ socket' = [socket EXCEPT !.ready[m] = FALSE]
    /\ UNCHANGED <<phase, use, pd, info, gpp, timer, slot, pc, th, waiters, adding, now, opens, asked>>

Syscall(m) == SyscallEnds(m) \/ WritesOn(m)

SyscallEAGAIN(m) ==
    /\ pc[m] = "syscall" /\ ~socket.ready[m]
    /\ Goto(m, "check")
    /\ UNCHANGED <<phase, use, pd, info, gpp, timer, slot, socket, th, waiters, adding, now, opens, asked>>

\* netpollcheckerr in pollWait, on entry and after netpollblock returned false.
pollWait(m) ==
    /\ pc[m] = "check"
    /\ IF checkerr(m) THEN Return(m) ELSE Goto(m, "block") /\ UNCHANGED life
    /\ UNCHANGED <<pd, info, gpp, timer, slot, socket, th, waiters, adding, now, opens, asked>>

\* netpollblock: consume a notification, or announce the wait.
netpollblock(m) ==
    /\ pc[m] = "block"
    /\ \/ gpp[m] = "ready" /\ Gpp(m, "nil") /\ Goto(m, "syscall")
       \/ gpp[m] = "nil" /\ Gpp(m, "wait") /\ Goto(m, "recheck")
    /\ UNCHANGED <<phase, use, pd, info, timer, slot, socket, th, waiters, adding, now, opens, asked>>

\* Mutant: the error states are not checked again.
Blocks_Always(m) == TRUE

\* The error states allow the goroutine to park.
Blocks(m) == ~checkerr(m)

recheck(m) ==
    /\ pc[m] = "recheck"
    /\ Goto(m, IF Blocks(m) THEN "commit" ELSE "swap")
    /\ UNCHANGED <<phase, use, pd, info, gpp, timer, slot, socket, th, waiters, adding, now, opens, asked>>

netpollblockcommit(m) ==
    /\ pc[m] = "commit" /\ adding < MAX_M
    /\ \/ gpp[m] = "wait" /\ Gpp(m, "g") /\ Goto(m, "parked") /\ adding' = adding + 1
       \/ gpp[m] # "wait" /\ Goto(m, "swap") /\ UNCHANGED <<gpp, adding>>
    /\ UNCHANGED <<phase, use, pd, info, timer, slot, socket, th, waiters, now, opens, asked>>

\* netpollAdjustWaiters(1), by the M that has parked a goroutine.
AddWaiter ==
    /\ adding > 0
    /\ adding' = adding - 1 /\ waiters' = waiters + 1
    /\ UNCHANGED <<phase, use, pd, info, gpp, timer, slot, socket, pc, th, now, opens, asked>>

\* gpp.Swap(pdNil) at the end of netpollblock.
swap(m) ==
    /\ pc[m] = "swap"
    /\ Gpp(m, "nil")
    /\ Goto(m, IF gpp[m] = "ready" THEN "syscall" ELSE "check")
    /\ UNCHANGED <<phase, use, pd, info, timer, slot, socket, th, waiters, adding, now, opens, asked>>

-----------------------------------------------------------------------------
(***************************************************************************)
(* What wakes them: netpollunblock, netpollgoready, netpollAdjustWaiters.  *)
(* A thread's "do" is what it has still to do under the lock, in order.    *)
(***************************************************************************)
Becomes(t, w) == th' = [th EXCEPT ![t] = w]
For(m, ms, s) == IF m \in ms THEN s ELSE <<>>
Unblocks(ms) == For("r", ms, << <<"unblock", "r">> >>) \o For("w", ms, << <<"unblock", "w">> >>)

\* Runs the rest of "do"; when nothing is left the lock is given back.
Does(t, w, p) ==
    /\ Becomes(t, [w EXCEPT !.pc = IF w.do = <<>> THEN "ready" ELSE "run"])
    /\ pd' = [p EXCEPT !.lock = IF w.io THEN @ ELSE IF w.do = <<>> THEN Nobody ELSE t]

\* Mutant: a notification that comes between pdWait and the commit is dropped.
Unblocked_Wait(old, io) ==
    IF old \in {"ready", "wait"} \/ (old = "nil" /\ ~io) THEN old ELSE IF io THEN "ready" ELSE "nil"

\* What netpollunblock turns the semaphore into.
Unblocked(old, io) ==
    IF old = "ready" \/ (old = "nil" /\ ~io) THEN old ELSE IF io THEN "ready" ELSE "nil"

\* Mutant: a goroutine that was about to park is counted as well.
Delta_Wait(old) == IF old \in {"g", "wait"} THEN -1 ELSE 0

\* The change of netpollWaiters: one parked goroutine less.
Delta(old) == IF old = "g" THEN -1 ELSE 0

netpollunblock(t) ==
    /\ th[t].pc = "run" /\ Head(th[t].do)[1] = "unblock"
    /\ LET m == Head(th[t].do)[2]
           w == [th[t] EXCEPT !.do = Tail(@), !.delta = @ + Delta(gpp[m]),
                              !.hand = IF gpp[m] = "g" THEN @ \cup {m} ELSE @]
       IN  Gpp(m, Unblocked(gpp[m], th[t].io)) /\ Does(t, w, pd)
    /\ UNCHANGED <<phase, use, info, timer, slot, socket, pc, waiters, adding, now, opens, asked>>

\* The timer's deadline of mode m is over: rd or wd becomes -1.
Expire(t) ==
    /\ th[t].pc = "run" /\ Head(th[t].do)[1] = "expire"
    /\ LET m == Head(th[t].do)[2]
           p == [pd EXCEPT !.d[m] = -1]
       IN  Does(t, [th[t] EXCEPT !.do = Tail(@)], p) /\ info' = publishInfo(p)
    /\ UNCHANGED <<phase, use, gpp, timer, slot, socket, pc, waiters, adding, now, opens, asked>>

netpollgoready(t) ==
    /\ th[t].pc = "ready"
    /\ \E m \in th[t].hand : Becomes(t, [th[t] EXCEPT !.hand = @ \ {m}]) /\ Goto(m, "swap")
    /\ UNCHANGED <<phase, use, pd, info, gpp, timer, slot, socket, waiters, adding, now, opens, asked>>

\* netpollAdjustWaiters(delta), and the decref of SetDeadline or Close.
Adjust(t) ==
    /\ th[t].pc = "ready" /\ th[t].hand = {}
    /\ waiters' = waiters + th[t].delta
    /\ Becomes(t, Idle)
    /\ IF use[t] = "none" THEN UNCHANGED life ELSE Life!Leave(t)
    /\ UNCHANGED <<pd, info, gpp, timer, slot, socket, pc, adding, now, opens, asked>>

-----------------------------------------------------------------------------
(***************************************************************************)
(* Deadlines.                                                              *)
(***************************************************************************)
SetDeadline(t) ==
    /\ th[t].pc = "idle" /\ \A m \in Modes : pd.seq[m] < MAX_SEQ
    /\ \E ms \in DeadlineModes : Becomes(t, [Idle EXCEPT !.pc = "set", !.modes = ms])
    /\ Life!Enter(t, "misc")
    /\ UNCHANGED <<pd, info, gpp, timer, slot, socket, pc, waiters, adding, now, opens, asked>>

\* One timer serves both modes when their deadlines are the same.
Combo(d) == d["r"] > 0 /\ d["r"] = d["w"]

\* What timer m runs, and whether it is needed, when the deadlines are d.
TimerFor(d, m) == IF Combo(d) THEN (IF m = "r" THEN Modes ELSE {})
                  ELSE IF d[m] > 0 THEN {m} ELSE {}

\* Mutant: only the deadline itself counts as a change.
Changed_NoCombo(d, m) == d[m] # pd.d[m]

\* The deadline of timer m, or its sharing, changes.
Changed(d, m) == d[m] # pd.d[m] \/ Combo(d) # Combo(pd.d)

\* rseq++, wseq++: timers that have already fired are invalid.
Invalidates(d, m) == timer[m].f # {} /\ Changed(d, m)

NewTimer(d, m, seq) ==
    IF timer[m].f # {} /\ ~Changed(d, m) THEN timer[m]
    ELSE IF TimerFor(d, m) = {} THEN NoTimer
    ELSE [f |-> TimerFor(d, m), when |-> d[m], seq |-> seq, armed |-> TRUE]

\* Mutant: the clock is not added.
Until_Relative(delta) == delta

\* The absolute deadline; the sum saturates.
Until(delta) == IF delta > 0 /\ now + delta > INT_MAX THEN INT_MAX
                ELSE IF delta > 0 THEN now + delta ELSE delta

\* The time at which the caller asked to be interrupted.
Asked(delta) == IF delta = 0 THEN 0 ELSE IF delta < 0 THEN now ELSE now + delta

pollSetDeadline(t) ==
    /\ th[t].pc = "set" /\ pd.lock = Nobody /\ ~pd.closing
    /\ \E delta \in Deltas :
        LET d == [m \in Modes |-> IF m \in th[t].modes THEN Until(delta) ELSE pd.d[m]]
            seq == [m \in Modes |-> IF Invalidates(d, m) THEN pd.seq[m] + 1 ELSE pd.seq[m]]
            p == [pd EXCEPT !.d = d, !.seq = seq]
        IN  /\ timer' = [m \in Modes |-> NewTimer(d, m, seq[m])]
            /\ info' = publishInfo(p)
            /\ asked' = [m \in Modes |-> IF m \in th[t].modes
                                         THEN Asked(delta) ELSE asked[m]]
            /\ Does(t, [th[t] EXCEPT !.do = Unblocks({m \in Modes : d[m] < 0})], p)
    /\ UNCHANGED <<phase, use, gpp, slot, socket, pc, waiters, adding, now, opens>>

\* On a closing descriptor SetDeadline does nothing.
pollSetDeadlineClosing(t) ==
    /\ th[t].pc = "set" /\ pd.lock = Nobody /\ pd.closing
    /\ Becomes(t, [th[t] EXCEPT !.pc = "ready"])
    /\ UNCHANGED <<phase, use, pd, info, gpp, timer, slot, socket, pc, waiters, adding, now, opens, asked>>

\* The runtime takes an expired timer off its heap and calls its function with
\* the seq of that moment; the call may come much later.
Fire(t) ==
    /\ th[t].pc = "idle"
    /\ \E m \in Modes :
        /\ timer[m].armed /\ timer[m].when <= now
        /\ timer' = [timer EXCEPT ![m].armed = FALSE]
        /\ Becomes(t, [Idle EXCEPT !.pc = "fired", !.modes = timer[m].f, !.seq = timer[m].seq])
    /\ UNCHANGED <<phase, use, pd, info, gpp, slot, socket, pc, waiters, adding, now, opens, asked>>

\* The seq that netpolldeadlineimpl compares with.
CurrentSeq(ms) == IF "r" \in ms THEN pd.seq["r"] ELSE pd.seq["w"]

Expires(ms) == For("r", ms, << <<"expire", "r">>, <<"unblock", "r">> >>)
               \o For("w", ms, << <<"expire", "w">>, <<"unblock", "w">> >>)

netpolldeadlineimpl(t) ==
    /\ th[t].pc = "fired" /\ pd.lock = Nobody
    /\ IF th[t].seq = CurrentSeq(th[t].modes)
       THEN Does(t, [th[t] EXCEPT !.do = Expires(th[t].modes)], pd)
       ELSE Becomes(t, Idle) /\ UNCHANGED pd
    /\ UNCHANGED <<phase, use, info, gpp, timer, slot, socket, pc, waiters, adding, now, opens, asked>>

Tick ==
    /\ now < MAX_TIME
    /\ now' = now + 1
    /\ UNCHANGED <<phase, use, pd, info, gpp, timer, slot, socket, pc, th, waiters, adding, opens, asked>>

-----------------------------------------------------------------------------
(***************************************************************************)
(* Close, and the next socket on the same pollDesc.                        *)
(***************************************************************************)
Close(t) ==
    /\ th[t].pc = "idle"
    /\ Becomes(t, [Idle EXCEPT !.pc = "evict"])
    /\ Life!Enter(t, "close")
    /\ UNCHANGED <<pd, info, gpp, timer, slot, socket, pc, waiters, adding, now, opens, asked>>

\* Mutant: the timers of the socket stay valid.
Bumped_Not(seq) == seq

\* rseq++, wseq++.
Bumped(seq) == [m \in Modes |-> seq[m] + 1]

\* The timers go before the lock does: with their seq they are already invalid.
pollUnblock(t) ==
    /\ th[t].pc = "evict" /\ pd.lock = Nobody
    /\ LET p == [pd EXCEPT !.closing = TRUE, !.seq = Bumped(@)]
       IN  /\ info' = publishInfo(p)
           /\ Does(t, [th[t] EXCEPT !.do = Unblocks(Modes)], p)
    /\ timer' = [m \in Modes |-> NoTimer]
    /\ UNCHANGED <<phase, use, gpp, slot, socket, pc, waiters, adding, now, opens, asked>>

\* The last reference is gone: FD.destroy takes the socket from the epoll set.
pollClose ==
    /\ slot = "used"
    /\ Life!Destroy
    /\ slot' = "closed"
    /\ socket' = [socket EXCEPT !.listed = FALSE]
    /\ UNCHANGED <<pd, info, gpp, timer, pc, th, waiters, adding, now, opens, asked>>

\* A version, in the bits of a tagged pointer.
Version(n) == n % TAG_MOD

free ==
    /\ slot = "closed" /\ pd.lock = Nobody
    /\ LET p == [pd EXCEPT !.fdseq = Version(@ + 1)]
       IN  pd' = p /\ info' = publishInfo(p)
    /\ slot' = "free"
    /\ UNCHANGED <<phase, use, gpp, timer, socket, pc, th, waiters, adding, now, opens, asked>>

pollOpen ==
    /\ slot = "free" /\ pd.lock = Nobody /\ opens < MAX_OPENS
    /\ LET p == [pd EXCEPT !.fdseq = IF @ = 0 THEN 1 ELSE @, !.closing = FALSE,
                           !.seq = Bumped(@), !.d = [m \in Modes |-> 0]]
       IN  pd' = p /\ info' = [publishInfo(p) EXCEPT !.err = FALSE]
    /\ gpp' = [m \in Modes |-> "nil"] /\ asked' = [m \in Modes |-> 0]
    /\ slot' = "opened" /\ opens' = opens + 1
    /\ UNCHANGED <<phase, use, timer, socket, pc, th, waiters, adding, now>>

\* epoll_ctl(ADD) with the pollDesc and its version; a new poll.FD begins.
netpollopen ==
    /\ slot = "opened"
    /\ \E r \in Readiness :
        socket' = [ready |-> r, err |-> FALSE, tag |-> pd.fdseq, listed |-> TRUE]
    /\ slot' = "used" /\ phase' = "open"
    /\ UNCHANGED <<use, pd, info, gpp, timer, pc, th, waiters, adding, now, opens, asked>>

\* epoll_ctl fails: the pollDesc goes back.
netpollopenFails ==
    /\ slot = "opened"
    /\ slot' = "closed"
    /\ UNCHANGED <<phase, use, pd, info, gpp, timer, socket, pc, th, waiters, adding, now, opens, asked>>

-----------------------------------------------------------------------------
(***************************************************************************)
(* The kernel, and netpoll.                                                *)
(***************************************************************************)
\* Data or room arrives: an edge puts the socket on the list of epoll.
Arrive ==
    /\ slot = "used"
    /\ \E m \in Watched :
        /\ ~socket.ready[m]
        /\ socket' = [socket EXCEPT !.ready[m] = TRUE, !.listed = TRUE]
    /\ UNCHANGED <<phase, use, pd, info, gpp, timer, slot, pc, th, waiters, adding, now, opens, asked>>

\* The socket fails: it reports EPOLLERR alone, and every call an error.
Fail ==
    /\ slot = "used" /\ Sockets = "failing" /\ ~socket.err
    /\ socket' = [socket EXCEPT !.ready = [m \in Modes |-> TRUE], !.err = TRUE, !.listed = TRUE]
    /\ UNCHANGED <<phase, use, pd, info, gpp, timer, slot, pc, th, waiters, adding, now, opens, asked>>

\* epoll_wait reports what is ready now, and takes the socket off its list.
EpollWait(t) ==
    /\ th[t].pc = "idle" /\ socket.listed
    /\ socket' = [socket EXCEPT !.listed = FALSE]
    /\ LET ms == {m \in Modes : socket.ready[m]}
       IN  Becomes(t, IF ms = {} THEN Idle
                      ELSE [Idle EXCEPT !.pc = "tag", !.io = TRUE, !.modes = ms,
                                        !.err = socket.err, !.seq = socket.tag])
    /\ UNCHANGED <<phase, use, pd, info, gpp, timer, slot, pc, waiters, adding, now, opens, asked>>

\* The event is for the present version of the pollDesc.
Current(tag) == pd.fdseq = tag

netpoll(t) ==
    /\ th[t].pc = "tag"
    /\ Becomes(t, IF Current(th[t].seq) THEN [th[t] EXCEPT !.pc = "seterr"] ELSE Idle)
    /\ UNCHANGED <<phase, use, pd, info, gpp, timer, slot, socket, pc, waiters, adding, now, opens, asked>>

\* Mutant: the bit is set whatever the version in atomicInfo.
ErrBit_Any(b, seq) == b

\* The bit after setEventErr.
ErrBit(b, seq) == IF info.fdseq = seq THEN b ELSE info.err

setEventErr(t) ==
    /\ th[t].pc = "seterr"
    /\ info' = [info EXCEPT !.err = ErrBit(th[t].err, th[t].seq)]
    /\ Becomes(t, [th[t] EXCEPT !.pc = "run", !.do = Unblocks(th[t].modes)])
    /\ UNCHANGED <<phase, use, pd, gpp, timer, slot, socket, pc, waiters, adding, now, opens, asked>>

-----------------------------------------------------------------------------
Goroutine(m) == \/ pollReset(m) \/ pollResetStore(m) \/ Syscall(m) \/ SyscallEAGAIN(m)
                \/ pollWait(m) \/ netpollblock(m) \/ recheck(m) \/ netpollblockcommit(m) \/ swap(m)

\* A thread goes on with what it has begun.
Thread(t) == \/ netpollunblock(t) \/ Expire(t) \/ netpollgoready(t) \/ Adjust(t)
             \/ pollSetDeadline(t) \/ pollSetDeadlineClosing(t) \/ netpolldeadlineimpl(t)
             \/ pollUnblock(t) \/ netpoll(t) \/ setEventErr(t)

Next ==
    \/ \E m \in Modes : Read(m) \/ Goroutine(m)
    \/ \E t \in Threads : SetDeadline(t) \/ Close(t) \/ Fire(t) \/ EpollWait(t) \/ Thread(t)
    \/ pollClose \/ free \/ pollOpen \/ netpollopen \/ netpollopenFails
    \/ AddWaiter \/ Arrive \/ Fail \/ Tick

Spec == Init /\ [][Next]_vars

\* Goroutines and threads run; the scheduler sees to it that somebody polls and
\* that timers are run. Time passes. What FD.Write has to write is finite: of
\* calls that keep succeeding one is the last.
FairSpec ==
    /\ Spec /\ WF_vars(AddWaiter) /\ WF_vars(pollClose) /\ WF_vars(Tick)
    /\ (\A m \in Modes : WF_vars(Goroutine(m))) /\ SF_vars(SyscallEnds("w"))
    /\ \A t \in Threads : WF_vars(Thread(t))
    /\ SF_vars(\E t \in Threads : EpollWait(t)) /\ SF_vars(\E t \in Threads : Fire(t))

-----------------------------------------------------------------------------
(***************************************************************************)
(* Properties.                                                             *)
(***************************************************************************)
\* Thread t is about to expire mode m.
Expiring(t, m) == th[t].pc = "run" /\ th[t].do # <<>> /\ Head(th[t].do) = <<"expire", m>>

\* The last reference to a closed poll.FD is gone: pollClose comes next.
Unused == phase = "closing" /\ \A g \in Modes \cup Threads : use[g] = "none"

\* None of the conditions under which netpoll.go calls throw: "double wait",
\* "corrupted polldesc", "blocked read on closing polldesc" and on a free one,
\* "unblock on closing polldesc", "close polldesc w/o unblock" and "inconsistent
\* read deadline"; and goready finds a goroutine that waits.
NoThrow ==
    /\ \A m \in Modes :
        /\ pc[m] = "block" => gpp[m] \in {"nil", "ready"}
        /\ pc[m] = "swap" => gpp[m] # "g"
        /\ Unused \/ slot = "free" => gpp[m] \in {"nil", "ready"}
        /\ \A t \in Threads :
            Expiring(t, m) => pd.d[m] > 0 /\ (timer[m].f # {} \/ timer["r"].f = Modes)
    /\ Unused => pd.closing
    /\ \A t \in Threads : th[t].pc = "evict" => ~pd.closing
    /\ \A t \in Threads : \A m \in th[t].hand : pc[m] = "parked"
    /\ \A t, u \in Threads : t # u => th[t].hand \cap th[u].hand = {}

\* An event for mode m is on its way to the pollDesc.
EventComing(m) ==
    \/ socket.listed
    \/ \E t \in Threads : /\ th[t].io /\ m \in th[t].modes
                          /\ \/ th[t].pc \in {"tag", "seterr"} /\ th[t].seq = pd.fdseq
                             \/ \E i \in DOMAIN th[t].do : th[t].do[i][2] = m

\* Thread t will unblock mode m under the lock.
WillUnblock(t, m) ==
    /\ th[t].pc = "run" /\ ~th[t].io
    /\ \E i \in DOMAIN th[t].do : th[t].do[i] = <<"unblock", m>>

\* A goroutine is never left parked on a socket that is ready, closing or past
\* its deadline: an event, or the unblock of whoever published the change, is
\* still on its way. The notification is edge-triggered and comes only once.
NoLostWakeup ==
    \A m \in Modes : gpp[m] = "g" =>
        /\ socket.ready[m] => EventComing(m)
        /\ info.closing \/ info.expired[m] => \E t \in Threads : WillUnblock(t, m)

\* A read or write times out only after the deadline that is in force was
\* reached: a timer of an earlier deadline, or of an earlier socket on the same
\* pollDesc, has no effect however late it runs.
DeadlineReached == \A m \in Modes : info.expired[m] => asked[m] # 0 /\ asked[m] <= now

\* Thread t will expire mode m: its timer has fired and is still valid.
WillExpire(t, m) ==
    \/ th[t].pc = "fired" /\ m \in th[t].modes /\ th[t].seq = CurrentSeq(th[t].modes)
    \/ th[t].pc = "run" /\ \E i \in DOMAIN th[t].do : th[t].do[i] = <<"expire", m>>

\* A deadline in force is always watched: by its own timer or by the read timer
\* that serves both modes, armed for that time, or fired and about to expire it.
DeadlineWatched ==
    \A m \in Modes : pd.d[m] > 0 /\ ~pd.closing =>
        \/ \E n \in Modes : timer[n].armed /\ m \in timer[n].f /\ timer[n].when = pd.d[m]
                            /\ timer[n].seq = pd.seq[n]
        \/ \E t \in Threads : WillExpire(t, m)

\* "Not pollable" is reported only on a socket that did report an error: the
\* versions keep a late event of the pollDesc's former socket away.
ErrorIsOurs == slot = "used" /\ info.err => socket.err

\* What the threads have still to take off netpollWaiters, unit by unit.
Owed == UNION {{t} \X (1 .. -th[t].delta) : t \in Threads}

\* netpollWaiters is the number of parked goroutines, up to the adjustments that
\* are under way: none is lost or made twice, whoever wakes whom. Until the M that
\* parked a goroutine has added it, the scheduler may still read one too few.
WaitersCounted ==
    waiters + adding - Cardinality(Owed) = Cardinality({m \in Modes : gpp[m] = "g"})

\* Close always comes to its end: whoever it interrupts returns, however the
\* events, timers and deadlines of the socket run meanwhile.
CloseEnds == phase = "closing" ~> phase # "closing"

\* Mode m's socket is ready, or its deadline has come.
Over(m) == socket.ready[m] \/ (asked[m] # 0 /\ asked[m] <= now)

\* A goroutine does not stay parked on a socket that is ready or whose deadline
\* has come, unless the deadline is moved again before it is noticed.
ReadReturns == \A m \in Modes : gpp[m] = "g" /\ Over(m) ~> pc[m] # "parked" \/ ~Over(m)

=============================================================================
