------------------------------- MODULE Sched --------------------------------
(***************************************************************************)
(* The part of the Go scheduler (runtime/proc.go) that decides which       *)
(* threads look for work, sleep, or wait in the network poller: Ms that    *)
(* spin, Ps that go idle, and the wake-ups between them.                   *)
(*                                                                         *)
(* Goroutines are counted, not named: the length of each run queue, those  *)
(* that wait for the network and those that wait for another goroutine.    *)
(* What is done under sched.lock is one step; so is each atomic operation  *)
(* outside of it, and each look at a run queue; only the tests of          *)
(* netpollWaiters and lastpoll are one step with the poll, or the swap of  *)
(* lastpoll, they guard.  Timers, the collector, locked threads, tracing   *)
(* and the bound of a local run queue are left out.                        *)
(***************************************************************************)
EXTENDS Integers, FiniteSets

CONSTANTS Ms,           \* threads: a bound, newm would always add one
          Ps,           \* allp
          Sysmon,       \* the thread of sysmon, which never has a P
          NoP,
          GS            \* number of goroutines

ASSUME SchedAssumption ==
    /\ IsFiniteSet(Ms) /\ IsFiniteSet(Ps) /\ GS \in Nat \ {0}
    /\ Sysmon \notin Ms /\ NoP \notin Ps /\ Ms # {} /\ Ps # {}

Threads == Ms \cup {Sysmon}

VARIABLES lq,           \* length of each P's run queue, runnext included
          gq,           \* sched.runqsize
          pidle,        \* idle Ps
          insys,        \* Ps whose status is _Psyscall
          nmspinning, needspinning,
          lastpoll,     \* FALSE: an M is blocked in netpoll (lastpoll is 0)
          waiters,      \* netpollWaiters
          netw, netev,  \* goroutines that wait for the network: quiet, ready
          blocked,      \* goroutines that wait for another goroutine
          slack,        \* history: there is work left to its own P, see WorkConserving
          th            \* each thread: see Thread

queues == <<lq, gq>>
idle == <<pidle, insys>>
spinning == <<nmspinning, needspinning>>
net == <<lastpoll, waiters, netw, netev>>
others == <<blocked, slack>>
vars == <<queues, idle, spinning, net, others, th>>

\* A thread: where it is, its P, the P it left in a system call, m.spinning;
\* the P it hands to startm, and whether as a spinning M, and where it goes on
\* afterwards; goroutines to start threads for and goroutines it still has to
\* queue; what it owes to netpollWaiters; the Ps it has looked at; nmspinning as
\* it has read it; wasSpinning.
Thread == [pc |-> "parked", p |-> NoP, old |-> NoP, spin |-> FALSE,
           hold |-> NoP, hspin |-> FALSE, ret |-> "run",
           n |-> 0, rest |-> 0, owed |-> 0, seen |-> {}, nm |-> 0, was |-> FALSE]

gomaxprocs == Cardinality(Ps)
npidle == Cardinality(pidle)

Init ==
    /\ lq = [p \in Ps |-> 0] /\ gq = 0 /\ insys = {}
    /\ nmspinning = 0 /\ needspinning = FALSE /\ lastpoll = TRUE /\ waiters = 0
    /\ blocked = GS - 1 /\ netw = 0 /\ netev = 0 /\ slack = FALSE
    /\ \E m \in Ms, p \in Ps :
        /\ pidle = Ps \ {p}
        /\ th = [t \in Threads |-> CASE t = m -> [Thread EXCEPT !.pc = "run", !.p = p]
                                     [] t = Sysmon -> [Thread EXCEPT !.pc = "sysmon"]
                                     [] OTHER -> Thread]

At(t, at) == th[t].pc = at
Become(t, w) == th' = [th EXCEPT ![t] = w]
Goto(t, to) == Become(t, [th[t] EXCEPT !.pc = to, !.seen = {}])
Return(t) == Become(t, [th[t] EXCEPT !.pc = th[t].ret, !.ret = "run"])
P(m) == th[m].p

Enqueue(p, k) == lq' = [lq EXCEPT ![p] = @ + k]

\* A goroutine has been found; a thread that spins stops doing so first.
Found(w) == [w EXCEPT !.pc = IF w.spin THEN "reset" ELSE "run", !.seen = {}]

-----------------------------------------------------------------------------
(***************************************************************************)
(* What a running goroutine does.                                          *)
(***************************************************************************)
\* A goroutine is made runnable (or created), and wakep is called.
ready(m) ==
    /\ At(m, "run") /\ blocked > 0
    /\ blocked' = blocked - 1 /\ Enqueue(P(m), 1)
    /\ Become(m, [th[m] EXCEPT !.pc = "wakep", !.ret = "run"])
    /\ UNCHANGED <<gq, idle, spinning, net, slack>>

\* It waits for another goroutine, or ends.
park(m) ==
    /\ At(m, "run")
    /\ blocked' = blocked + 1 /\ Goto(m, "find")
    /\ UNCHANGED <<queues, idle, spinning, net, slack>>

\* It waits for the network: from now on an event finds it, although it is
\* counted a step later.
parkNet(m) ==
    /\ At(m, "run")
    /\ netw' = netw + 1 /\ Goto(m, "count")
    /\ UNCHANGED <<queues, idle, spinning, lastpoll, waiters, netev, others>>

netpollAdjustWaiters(m) ==
    /\ At(m, "count")
    /\ waiters' = waiters + 1 /\ Goto(m, "find")
    /\ UNCHANGED <<queues, idle, spinning, lastpoll, netw, netev, others>>

goschedImpl(m) ==
    /\ At(m, "run")
    /\ gq' = gq + 1
    /\ Become(m, [th[m] EXCEPT !.pc = "wakep", !.ret = "find"])
    /\ UNCHANGED <<lq, idle, spinning, net, others>>

entersyscall(m) ==
    /\ At(m, "run")
    /\ insys' = insys \cup {P(m)}
    /\ Become(m, [th[m] EXCEPT !.pc = "syscall", !.old = P(m), !.p = NoP])
    /\ UNCHANGED <<queues, pidle, spinning, net, others>>

\* The P is still, or again, in a system call: the CompareAndSwap takes it,
\* perhaps from another thread.
exitsyscallfast(m) ==
    /\ At(m, "syscall") /\ th[m].old \in insys
    /\ insys' = insys \ {th[m].old}
    /\ Become(m, [th[m] EXCEPT !.pc = "run", !.p = th[m].old, !.old = NoP])
    /\ UNCHANGED <<queues, pidle, spinning, net, others>>

\* It has been taken away.
exitsyscallLost(m) ==
    /\ At(m, "syscall") /\ th[m].old \notin insys
    /\ Become(m, [th[m] EXCEPT !.pc = "exit0", !.old = NoP])
    /\ UNCHANGED <<queues, idle, spinning, net, others>>

\* Any idle P will do, and without one the goroutine is queued and the thread
\* stops.
exitsyscall0(m) ==
    /\ At(m, "exit0")
    /\ \/ \E p \in pidle :
            /\ pidle' = pidle \ {p}
            /\ Become(m, [th[m] EXCEPT !.pc = "run", !.p = p])
            /\ UNCHANGED gq
       \/ /\ pidle = {} /\ UNCHANGED pidle
          /\ gq' = gq + 1 /\ Become(m, Thread)
    /\ UNCHANGED <<lq, insys, spinning, net, others>>

-----------------------------------------------------------------------------
(***************************************************************************)
(* wakep, startm.                                                          *)
(***************************************************************************)
\* nmspinning.CompareAndSwap(0, 1): a thread that spins will find the work.
wakep(m) ==
    /\ At(m, "wakep")
    /\ IF nmspinning = 0 THEN nmspinning' = 1 /\ Goto(m, "wakeP")
       ELSE UNCHANGED nmspinning /\ Return(m)
    /\ UNCHANGED <<queues, idle, needspinning, net, others>>

\* pidlegetSpinning found no P: sched.needspinning.Store(1).
Needed == TRUE

wakepGet(m) ==
    /\ At(m, "wakeP")
    /\ \/ \E p \in pidle :
            /\ pidle' = pidle \ {p}
            /\ Become(m, [th[m] EXCEPT !.pc = "startm", !.hold = p, !.hspin = TRUE])
            /\ UNCHANGED spinning
       \/ /\ pidle = {} /\ UNCHANGED pidle
          /\ needspinning' = Needed /\ nmspinning' = nmspinning - 1
          /\ Return(m)
    /\ UNCHANGED <<queues, insys, net, others>>

\* The thread that is woken goes to findRunnable with its P.
startm(t) ==
    /\ At(t, "startm")
    /\ \E nm \in Ms :
        /\ At(nm, "parked")
        /\ th' = [th EXCEPT
                    ![nm] = [Thread EXCEPT !.pc = "find", !.p = th[t].hold, !.spin = th[t].hspin],
                    ![t] = [@ EXCEPT !.pc = th[t].ret, !.ret = "run", !.hold = NoP, !.hspin = FALSE]]
    /\ UNCHANGED <<queues, idle, spinning, net, others>>

\* resetspinning: the last thread that spun and found work wakes another one.
resetspinning(m) ==
    /\ At(m, "reset")
    /\ nmspinning' = nmspinning - 1
    /\ Become(m, [th[m] EXCEPT !.pc = "wakep", !.spin = FALSE, !.ret = "run"])
    /\ UNCHANGED <<queues, idle, needspinning, net, others>>

-----------------------------------------------------------------------------
(***************************************************************************)
(* findRunnable, with a P.                                                 *)
(***************************************************************************)
\* globrunqget(pp, 0): how many it takes of g.
Share(g) == IF g \div gomaxprocs + 1 > g THEN g ELSE g \div gomaxprocs + 1

\* Thread m, state w, takes its share for its P p and runs the first of it.
TakeGlobal(m, w, p) ==
    /\ gq' = gq - Share(gq) /\ Enqueue(p, Share(gq) - 1)
    /\ slack' = (slack \/ Share(gq) > 1)
    /\ Become(m, w)

\* What was left to its own P is no longer there when the queues are empty.
StillSlack(q) == slack /\ \E p \in Ps : q[p] > 0

\* Now and then the global queue goes first.
findGlobalFirst(m) ==
    /\ At(m, "find") /\ gq > 0
    /\ gq' = gq - 1 /\ Become(m, Found(th[m]))
    /\ UNCHANGED <<lq, idle, spinning, net, others>>

findLocal(m) ==
    /\ At(m, "find") /\ lq[P(m)] > 0
    /\ Enqueue(P(m), -1) /\ slack' = StillSlack(lq') /\ Become(m, Found(th[m]))
    /\ UNCHANGED <<gq, idle, spinning, net, blocked>>

findGlobal(m) ==
    /\ At(m, "find") /\ lq[P(m)] = 0
    /\ IF gq > 0 THEN TakeGlobal(m, Found(th[m]), P(m))
       ELSE Goto(m, "poll") /\ UNCHANGED <<queues, slack>>
    /\ UNCHANGED <<idle, spinning, net, blocked>>

\* injectglist, of k goroutines: first how many go to the global queue, one for
\* each of the `free` idle Ps, or all if the thread has no P.
Inject(w, k, free) ==
    LET n == IF w.p = NoP \/ k < free THEN k ELSE free
    IN  [w EXCEPT !.rest = k, !.n = n,
                  !.pc = IF n > 0 THEN "injectG" ELSE IF k > 0 THEN "injectP" ELSE "adjust"]

\* Thread w with a P has k > 0 goroutines from netpoll: it keeps one and
\* injects the others.
RunOne(w, k, free) == [Inject(w, k - 1, free) EXCEPT !.owed = k]

\* netpollAnyWaiters: the counter is unsigned, and one lowered before it was
\* raised is not 0.
AnyWaiters == waiters # 0

\* netpoll(0), unless nobody waits or a thread is blocked there.
findPoll(m) ==
    /\ At(m, "poll")
    /\ IF AnyWaiters /\ lastpoll /\ netev > 0 THEN netev' = 0 /\ Become(m, RunOne(th[m], netev, npidle))
       ELSE Goto(m, "steal") /\ UNCHANGED netev
    /\ UNCHANGED <<queues, idle, spinning, lastpoll, waiters, netw, others>>

\* At most half of the busy Ps spin: nmspinning is read first, then npidle.
findSteal(m) ==
    /\ At(m, "steal")
    /\ IF th[m].spin THEN Goto(m, "scan")
       ELSE Become(m, [th[m] EXCEPT !.pc = "limit", !.nm = nmspinning])
    /\ UNCHANGED <<queues, idle, spinning, net, others>>

findLimit(m) ==
    /\ At(m, "limit")
    /\ LET w == [th[m] EXCEPT !.nm = 0]
       IN  Become(m, IF 2 * th[m].nm < gomaxprocs - npidle
                     THEN [w EXCEPT !.pc = "respin", !.ret = "scan"]
                     ELSE [w EXCEPT !.pc = "release"])
    /\ UNCHANGED <<queues, idle, spinning, net, others>>

\* m.becomeSpinning: nmspinning.Add(1), then needspinning.Store(0).
becomeSpinning(m) ==
    /\ At(m, "respin")
    /\ nmspinning' = nmspinning + 1
    /\ Become(m, [th[m] EXCEPT !.pc = "spun", !.spin = TRUE])
    /\ UNCHANGED <<queues, idle, needspinning, net, others>>

becomeSpinningStore(m) ==
    /\ At(m, "spun")
    /\ needspinning' = FALSE /\ Return(m)
    /\ UNCHANGED <<queues, idle, nmspinning, net, others>>

\* A thread that goes through the Ps in S has looked at p2: on to the next, or,
\* after the last one, to `to`.
Looked(m, p2, S, to) ==
    IF S \subseteq th[m].seen \cup {p2} THEN Goto(m, to)
    ELSE Become(m, [th[m] EXCEPT !.seen = @ \cup {p2}])

\* runqgrab: half of the queue, with or without runnext.
Grabs(l) == {l - l \div 2} \cup ({l - 1 - (l - 1) \div 2} \ {0})

\* The last of the passes of stealWork.
stealWork(m) ==
    /\ At(m, "scan")
    /\ \E p2 \in Ps \ (th[m].seen \cup {P(m)}) :
          IF p2 \notin pidle /\ lq[p2] > 0
          THEN \E n \in Grabs(lq[p2]) :
                  /\ lq' = [lq EXCEPT ![p2] = @ - n, ![P(m)] = @ + n - 1]
                  /\ slack' = StillSlack(lq')
                  /\ Become(m, Found(th[m]))
          ELSE Looked(m, p2, Ps \ {P(m)}, "release") /\ UNCHANGED <<lq, slack>>
    /\ UNCHANGED <<gq, idle, spinning, net, blocked>>

\* Under the lock: the P goes idle unless there is work or a call for a thread
\* that spins. Its becomeSpinning is one step, as needspinning is set and read
\* under the lock only.
findRelease(m) ==
    /\ At(m, "release")
    /\ \/ /\ gq > 0
          /\ TakeGlobal(m, Found(th[m]), P(m)) /\ UNCHANGED <<pidle, spinning>>
       \/ /\ gq = 0 /\ ~th[m].spin /\ needspinning
          /\ nmspinning' = nmspinning + 1 /\ needspinning' = FALSE
          /\ Become(m, [th[m] EXCEPT !.pc = "find", !.spin = TRUE])
          /\ UNCHANGED <<queues, pidle, slack>>
       \/ /\ gq = 0 /\ (th[m].spin \/ ~needspinning)
          /\ pidle' = pidle \cup {P(m)}
          /\ Become(m, [th[m] EXCEPT !.pc = IF th[m].spin THEN "drop" ELSE "mayBlock", !.p = NoP])
          /\ UNCHANGED <<queues, spinning, slack>>
    /\ UNCHANGED <<insys, net, blocked>>

-----------------------------------------------------------------------------
(***************************************************************************)
(* findRunnable, without a P: a thread that spun looks at every source     *)
(* once more, then perhaps waits for the network.                          *)
(***************************************************************************)
\* Mutant: the queues are not looked at again.
AfterDrop_Skip == "mayBlock"

AfterDrop == "again"

findDrop(m) ==
    /\ At(m, "drop")
    /\ nmspinning' = nmspinning - 1
    /\ Become(m, [th[m] EXCEPT !.pc = AfterDrop, !.spin = FALSE, !.was = TRUE])
    /\ UNCHANGED <<queues, idle, needspinning, net, others>>

\* Thread w has found work and P p: acquirep, and it spins again.
Respin(w, p, to) == [w EXCEPT !.pc = "respin", !.p = p, !.ret = to, !.was = FALSE]

findAgain(m) ==
    /\ At(m, "again")
    /\ \/ /\ gq > 0
          /\ \E p \in pidle :
                /\ pidle' = pidle \ {p}
                /\ TakeGlobal(m, Respin(th[m], p, "reset"), p)
          /\ UNCHANGED needspinning
       \/ /\ gq = 0 \/ pidle = {}
          /\ needspinning' = IF gq > 0 THEN Needed ELSE needspinning
          /\ Goto(m, "queues") /\ UNCHANGED <<queues, pidle, slack>>
    /\ UNCHANGED <<insys, nmspinning, net, blocked>>

checkRunqsNoP(m) ==
    /\ At(m, "queues")
    /\ \E p2 \in Ps \ th[m].seen :
          IF p2 \notin pidle /\ lq[p2] > 0 THEN Goto(m, "getP")
          ELSE Looked(m, p2, Ps, "mayBlock")
    /\ UNCHANGED <<queues, idle, spinning, net, others>>

checkRunqsGetP(m) ==
    /\ At(m, "getP")
    /\ \/ \E p \in pidle :
            /\ pidle' = pidle \ {p}
            /\ Become(m, Respin(th[m], p, "find"))
            /\ UNCHANGED needspinning
       \/ pidle = {} /\ needspinning' = Needed /\ Goto(m, "mayBlock") /\ UNCHANGED pidle
    /\ UNCHANGED <<queues, insys, nmspinning, net, others>>

\* lastpoll.Swap(0): one thread waits for the network, the others stop.
findMayBlock(m) ==
    /\ At(m, "mayBlock")
    /\ IF AnyWaiters THEN /\ IF lastpoll THEN Goto(m, "polling") ELSE Become(m, Thread)
                          /\ lastpoll' = FALSE
       ELSE Become(m, Thread) /\ UNCHANGED lastpoll
    /\ UNCHANGED <<queues, idle, spinning, waiters, netw, netev, others>>

\* netpoll(-1) returns with the goroutines that are ready; with none, when the
\* event was for a socket on which no goroutine waits.
findPolling(m) ==
    /\ At(m, "polling")
    /\ netev' = 0 /\ Become(m, [th[m] EXCEPT !.pc = "polled", !.rest = netev])
    /\ UNCHANGED <<queues, idle, spinning, lastpoll, waiters, netw, others>>

findPolled(m) ==
    /\ At(m, "polled")
    /\ lastpoll' = TRUE /\ Goto(m, "pollP")
    /\ UNCHANGED <<queues, idle, spinning, waiters, netw, netev, others>>

\* Thread w with a P has polled in vain: it starts again, spinning if it did.
PolledNone(w, p) == IF w.was THEN Respin(w, p, "find") ELSE [w EXCEPT !.pc = "find", !.p = p]

\* With a P one goroutine is run at once; without one all are injected.
findPollP(m) ==
    /\ At(m, "pollP")
    /\ LET w == [th[m] EXCEPT !.was = FALSE]
       IN  \/ \E p \in pidle :
                /\ pidle' = pidle \ {p}
                /\ Become(m, IF w.rest = 0 THEN PolledNone(th[m], p)
                             ELSE RunOne([w EXCEPT !.p = p], w.rest, npidle - 1))
           \/ /\ pidle = {} /\ UNCHANGED pidle
              /\ Become(m, IF w.rest = 0 THEN Thread
                           ELSE [Inject(w, w.rest, 0) EXCEPT !.owed = w.rest])
    /\ UNCHANGED <<queues, insys, spinning, net, others>>

-----------------------------------------------------------------------------
(***************************************************************************)
(* injectglist, of `rest` goroutines, and what its callers do after it.    *)
(***************************************************************************)
\* When n threads more are to be started and k goroutines are left.
AfterStart(n, k) == IF n > 0 THEN "startIdle" ELSE IF k > 0 THEN "injectP" ELSE "adjust"

injectGlobal(t) ==
    /\ At(t, "injectG")
    /\ gq' = gq + th[t].n
    /\ Become(t, [th[t] EXCEPT !.rest = @ - th[t].n, !.pc = "startIdle"])
    /\ UNCHANGED <<lq, idle, spinning, net, others>>

startIdle(t) ==
    /\ At(t, "startIdle")
    /\ \/ \E p \in pidle :
            /\ pidle' = pidle \ {p}
            /\ Become(t, [th[t] EXCEPT !.pc = "startm", !.hold = p, !.n = @ - 1,
                                       !.ret = AfterStart(th[t].n - 1, th[t].rest)])
            /\ UNCHANGED needspinning
       \/ /\ pidle = {} /\ UNCHANGED pidle
          /\ needspinning' = Needed
          /\ Become(t, [th[t] EXCEPT !.pc = AfterStart(0, th[t].rest), !.n = 0])
    /\ UNCHANGED <<queues, insys, nmspinning, net, others>>

\* runqputbatch: what is left.
injectLocal(t) ==
    /\ At(t, "injectP")
    /\ Enqueue(P(t), th[t].rest) /\ slack' = TRUE
    /\ Become(t, [th[t] EXCEPT !.pc = "adjust", !.rest = 0])
    /\ UNCHANGED <<gq, idle, spinning, net, blocked>>

\* netpollAdjustWaiters(delta); then run the goroutine kept, stop, or go on as
\* sysmon.
adjustWaiters(t) ==
    /\ At(t, "adjust")
    /\ waiters' = waiters - th[t].owed
    /\ LET w == [th[t] EXCEPT !.owed = 0]
       IN  Become(t, CASE t = Sysmon -> [w EXCEPT !.pc = "sysmon"]
                       [] t # Sysmon /\ P(t) = NoP -> [w EXCEPT !.pc = "parked"]
                       [] OTHER -> Found(w))
    /\ UNCHANGED <<queues, idle, spinning, lastpoll, netw, netev, others>>

-----------------------------------------------------------------------------
(***************************************************************************)
(* sysmon: a poll when nobody has polled for a while, and Ps taken from    *)
(* system calls.                                                           *)
(***************************************************************************)
sysmonPoll ==
    /\ At(Sysmon, "sysmon") /\ lastpoll /\ netev > 0
    /\ netev' = 0 /\ Become(Sysmon, [Inject(th[Sysmon], netev, npidle) EXCEPT !.owed = netev])
    /\ UNCHANGED <<queues, idle, spinning, lastpoll, waiters, netw, others>>

\* Mutant: the P is taken without the CompareAndSwap of its status.
Retaken_NoCas(p) == insys

Retaken(p) == insys \ {p}

retake ==
    /\ At(Sysmon, "sysmon")
    /\ \E p \in insys :
        /\ insys' = Retaken(p)
        /\ Become(Sysmon, [th[Sysmon] EXCEPT !.pc = "handoff", !.hold = p, !.ret = "sysmon"])
    /\ UNCHANGED <<queues, pidle, spinning, net, others>>

handoffp ==
    /\ At(Sysmon, "handoff")
    /\ Goto(Sysmon, IF lq[th[Sysmon].hold] > 0 \/ gq > 0 THEN "startm" ELSE "handoffSpin")
    /\ UNCHANGED <<queues, idle, spinning, net, others>>

\* Mutant: the thread is started as a spinning one but not counted.
Reserved_Not == nmspinning

Reserved == nmspinning + 1

\* No M spinning, no P idle: this one spins, if still no other does.
handoffSpin ==
    /\ At(Sysmon, "handoffSpin")
    /\ Goto(Sysmon, IF nmspinning = 0 THEN "handoffIdle" ELSE "handoffLock")
    /\ UNCHANGED <<queues, idle, spinning, net, others>>

handoffIdle ==
    /\ At(Sysmon, "handoffIdle")
    /\ Goto(Sysmon, IF npidle = 0 THEN "handoffCas" ELSE "handoffLock")
    /\ UNCHANGED <<queues, idle, spinning, net, others>>

handoffCas ==
    /\ At(Sysmon, "handoffCas")
    /\ IF nmspinning = 0
       THEN /\ nmspinning' = Reserved
            /\ Become(Sysmon, [th[Sysmon] EXCEPT !.pc = "handoffStore", !.hspin = TRUE])
       ELSE Goto(Sysmon, "handoffLock") /\ UNCHANGED nmspinning
    /\ UNCHANGED <<queues, idle, needspinning, net, others>>

handoffStore ==
    /\ At(Sysmon, "handoffStore")
    /\ needspinning' = FALSE /\ Goto(Sysmon, "startm")
    /\ UNCHANGED <<queues, idle, nmspinning, net, others>>

\* Mutant: nobody is started to poll the network.
LastP_Never == FALSE

\* The last P that is not idle, and nobody polls the network.
LastP == npidle = gomaxprocs - 1 /\ lastpoll

handoffLock ==
    /\ At(Sysmon, "handoffLock")
    /\ IF gq > 0 \/ LastP THEN Goto(Sysmon, "startm") /\ UNCHANGED <<pidle, slack>>
       ELSE /\ pidle' = pidle \cup {th[Sysmon].hold}
            /\ slack' = (slack \/ \E p \in Ps : lq[p] > 0)
            /\ Become(Sysmon, [Thread EXCEPT !.pc = "sysmon"])
    /\ UNCHANGED <<queues, insys, spinning, net, blocked>>

\* The kernel: a socket becomes ready.
NetEvent ==
    /\ netw > 0 /\ netw' = netw - 1 /\ netev' = netev + 1
    /\ UNCHANGED <<queues, idle, spinning, lastpoll, waiters, others, th>>

-----------------------------------------------------------------------------
Goroutine(m) ==
    \/ ready(m) \/ park(m) \/ parkNet(m) \/ goschedImpl(m) \/ entersyscall(m)
    \/ exitsyscallfast(m)

Scheduler(m) ==
    \/ netpollAdjustWaiters(m) \/ exitsyscallLost(m) \/ exitsyscall0(m)
    \/ wakep(m) \/ wakepGet(m) \/ resetspinning(m)
    \/ findGlobalFirst(m) \/ findLocal(m) \/ findGlobal(m)
    \/ findPoll(m)
    \/ findSteal(m) \/ findLimit(m) \/ becomeSpinning(m) \/ becomeSpinningStore(m)
    \/ stealWork(m) \/ findRelease(m) \/ findDrop(m)
    \/ findAgain(m) \/ checkRunqsNoP(m) \/ checkRunqsGetP(m)
    \/ findMayBlock(m) \/ findPolling(m) \/ findPolled(m) \/ findPollP(m)

Injecting(t) ==
    \/ startm(t) \/ injectGlobal(t) \/ startIdle(t) \/ injectLocal(t)
    \/ adjustWaiters(t)

SysmonStep == \/ sysmonPoll \/ retake \/ handoffp
              \/ handoffSpin \/ handoffIdle \/ handoffCas \/ handoffStore \/ handoffLock

Next ==
    \/ \E m \in Ms : Goroutine(m) \/ Scheduler(m)
    \/ \E t \in Threads : Injecting(t)
    \/ SysmonStep \/ NetEvent

Spec == Init /\ [][Next]_vars

-----------------------------------------------------------------------------
(***************************************************************************)
(* Properties.                                                             *)
(***************************************************************************)
Where(at) == {t \in Threads : th[t].pc \in at}

\* Every thread has come to rest: it runs a goroutine, sleeps, waits for the
\* network or is in a system call.
Settled == Threads = Where({"run", "parked", "polling", "syscall", "sysmon"})

\* The sum of f over S, counted: f[x] units of each x.
Sum(f, S) == Cardinality(UNION {{x} \X (1 .. f[x]) : x \in S})

\* Goroutines that thread w has at hand: the one it runs, or has kept, and
\* those it still has to queue.
Carries(w) ==
    LET one == \/ w.pc \in {"run", "reset", "syscall", "exit0"}
               \/ w.pc \in {"respin", "spun"} /\ w.ret = "reset"
               \/ w.pc \in {"wakep", "wakeP", "startm"} /\ w.ret = "run"
               \/ w.owed > 0 /\ w.p # NoP
    IN  (IF one THEN 1 ELSE 0) + w.rest

\* Nothing is lost or doubled on the way between the queues, the poller and the
\* threads: every goroutine is in exactly one place, and every P is idle, in a
\* system call, with one M, or in the hands of one thread that starts an M.
Accounted ==
    /\ gq + blocked + netw + netev + Sum(lq, Ps)
         + Sum([t \in Threads |-> Carries(th[t])], Threads) = GS
    /\ \A p \in Ps : Cardinality({t \in Threads : p \in {th[t].p, th[t].hold}})
                       = IF p \in pidle \cup insys THEN 0 ELSE 1
    /\ pidle \cap insys = {} /\ \A p \in pidle : lq[p] = 0

\* nmspinning counts the threads that spin and those about to be started so: it
\* is never negative, and never stays up when nobody looks for work, which
\* would make every later wakep return without waking anyone.
SpinningCounted ==
    nmspinning = Cardinality({m \in Ms : th[m].spin}) + Cardinality(Where({"wakeP"}))
                   + Cardinality({t \in Threads : th[t].hspin})

\* "Idle P while there is runnable work" is what the comments of findRunnable
\* call a loss of work conservation, and handoffp "must start an M in any
\* situation where findrunnable would return a G": once every thread has come to
\* rest there is no idle P while a goroutine is runnable.
IdleMeansNoWork == Settled /\ pidle # {} => gq = 0 /\ \A p \in Ps : lq[p] = 0

\* The same with the exceptions the code has.  However submissions, steals, polls
\* and threads that stop spinning or drop their P interleave ("the delicate
\* dance"), once all threads are at rest the global queue is empty if a P is idle;
\* so are the local ones, unless, since they last were, goroutines were put there
\* in bulk (by injectglist or out of the global queue), which wakes nobody, or
\* handoffp put a P down while one held work: handoffp does not look at other
\* queues nor at needspinning.
WorkConserving ==
    Settled /\ pidle # {} => gq = 0 /\ (slack \/ \A p \in Ps : lq[p] = 0)

\* When every P has gone idle and a goroutine waits for the network, a thread
\* is blocked in netpoll: the last one to give up its P, or the one that
\* handoffp started for it, has stayed to poll.
PollerPresent == Settled /\ pidle = Ps /\ netw + netev > 0 => Where({"polling"}) # {}

=============================================================================
