--------------------------- MODULE NetPollProofs ----------------------------
(***************************************************************************)
(* Proofs about the network poller.                                        *)
(*                                                                         *)
(* First, for each step of a thread, what it does to the fields of the     *)
(* state (Unblocking, Expiry, Setting, ...). Then the inductive invariant, *)
(* layer by layer, each with a lemma that a step keeps it: the threads'    *)
(* jobs and the lock (JobInv), the goroutines in their hands (HandInv),    *)
(* the life of the pollDesc (LifeInv), timers and deadlines (TimerInv) and *)
(* wakeups (WakeInv). The versions (ErrInv) and the count of waiters       *)
(* (CountInv) are put on top of it.                                        *)
(***************************************************************************)
EXTENDS NetPoll, TLAPS, SequenceTheorems, FiniteSetTheorems

\* The steps under the lock of pd.
Ops == {"unblock", "expire"} \X Modes

\* What a thread may still have to do.
Lists ==
    LET ur == <<"unblock", "r">>  uw == <<"unblock", "w">>
        er == <<"expire", "r">>   ew == <<"expire", "w">>
    IN  {<<>>, <<ur>>, <<uw>>, <<ur, uw>>, <<er, ur>>, <<ew, uw>>,
         <<ur, ew, uw>>, <<er, ur, ew, uw>>}

Has(s, o) == \E i \in DOMAIN s : s[i] = o

\* Joining the parts of a list.
LEMMA JoinedTwo ==
    ASSUME NEW S, NEW a \in S, NEW b \in S
    PROVE  <<a>> \o <<b>> = <<a, b>>
<1>1. /\ <<a>> \o <<b>> \in Seq(S) /\ <<a, b>> \in Seq(S)
      /\ Len(<<a>> \o <<b>>) = 2 /\ Len(<<a, b>>) = 2
  OBVIOUS
<1>2. \A i \in 1..2 : (<<a>> \o <<b>>)[i] = <<a, b>>[i]
  OBVIOUS
<1>3. QED
  BY <1>1, <1>2, SeqEqual

\* The same for two lists of two.
LEMMA JoinedFour ==
    ASSUME NEW S, NEW a \in S, NEW b \in S, NEW c \in S, NEW d \in S
    PROVE  <<a, b>> \o <<c, d>> = <<a, b, c, d>>
<1>1. /\ <<a, b>> \o <<c, d>> \in Seq(S) /\ <<a, b, c, d>> \in Seq(S)
      /\ Len(<<a, b>> \o <<c, d>>) = 4 /\ Len(<<a, b, c, d>>) = 4
  OBVIOUS
<1>2. \A i \in 1..4 : (<<a, b>> \o <<c, d>>)[i] = <<a, b, c, d>>[i]
  OBVIOUS
<1>3. QED
  BY <1>1, <1>2, SeqEqual

\* Unblocks and Expires make such a list, with what the modes call for.
MadeFor(ms) ==
    /\ Unblocks(ms) \in Lists /\ Expires(ms) \in Lists
    /\ \A m \in Modes : /\ Has(Unblocks(ms), <<"unblock", m>>) <=> m \in ms
                        /\ ~Has(Unblocks(ms), <<"expire", m>>)
                        /\ Has(Expires(ms), <<"unblock", m>>) <=> m \in ms
                        /\ Has(Expires(ms), <<"expire", m>>) <=> m \in ms
    /\ Unblocks(ms) = <<>> <=> ms = {}
    /\ Expires(ms) = <<>> <=> ms = {}

LEMMA ListsMade ==
    ASSUME NEW ms \in SUBSET Modes
    PROVE  MadeFor(ms)
<1>1. CASE ms = {}
  <2>1. Unblocks(ms) = <<>> /\ Expires(ms) = <<>>
    BY <1>1 DEF Unblocks, Expires, For
  <2>2. QED
    BY <1>1, <2>1 DEF MadeFor, Lists, Has
<1>2. CASE ms = {"r"}
  <2>1. Unblocks(ms) = << <<"unblock", "r">> >> /\ Expires(ms) = << <<"expire", "r">>, <<"unblock", "r">> >>
    BY <1>2 DEF Unblocks, Expires, For
  <2>2. QED
    BY <1>2, <2>1 DEF MadeFor, Lists, Has, Modes
<1>3. CASE ms = {"w"}
  <2>1. Unblocks(ms) = << <<"unblock", "w">> >> /\ Expires(ms) = << <<"expire", "w">>, <<"unblock", "w">> >>
    BY <1>3 DEF Unblocks, Expires, For
  <2>2. QED
    BY <1>3, <2>1 DEF MadeFor, Lists, Has, Modes
<1>4. CASE ms = {"r", "w"}
  <2> DEFINE ur == <<"unblock", "r">>
             uw == <<"unblock", "w">>
             er == <<"expire", "r">>
             ew == <<"expire", "w">>
  <2>1. Unblocks(ms) = <<ur>> \o <<uw>> /\ Expires(ms) = <<er, ur>> \o <<ew, uw>>
    BY <1>4 DEF Unblocks, Expires, For
  <2>2. <<ur>> \o <<uw>> = <<ur, uw>> /\ <<er, ur>> \o <<ew, uw>> = <<er, ur, ew, uw>>
    <3> HIDE DEF ur, uw, er, ew
    <3>1. /\ ur \in {ur, uw, er, ew} /\ uw \in {ur, uw, er, ew}
          /\ er \in {ur, uw, er, ew} /\ ew \in {ur, uw, er, ew}
      OBVIOUS
    <3>2. <<ur>> \o <<uw>> = <<ur, uw>>
      BY <3>1, JoinedTwo
    <3>3. <<er, ur>> \o <<ew, uw>> = <<er, ur, ew, uw>>
      BY <3>1, JoinedFour
    <3>4. QED
      BY <3>2, <3>3
  <2>3. Unblocks(ms) = <<ur, uw>> /\ Expires(ms) = <<er, ur, ew, uw>>
    BY <2>1, <2>2
  <2>4. QED
    BY <1>4, <2>3 DEF MadeFor, Lists, Has, Modes
<1>5. QED
  BY <1>1, <1>2, <1>3, <1>4 DEF Modes

\* The first of a list is done, and what is left is the rest.
Runs(s) ==
    /\ Head(s) \in Ops /\ Tail(s) \in Lists /\ Has(s, Head(s))
    /\ \A o \in Ops : Has(Tail(s), o) <=> Has(s, o) /\ o # Head(s)

LEMMA ListsRun ==
    ASSUME NEW s \in Lists, s # <<>>
    PROVE  Runs(s)
<1> DEFINE ur == <<"unblock", "r">>
           uw == <<"unblock", "w">>
           er == <<"expire", "r">>
           ew == <<"expire", "w">>
<1>1. /\ ur # uw /\ ur # er /\ ur # ew /\ uw # er /\ uw # ew /\ er # ew
      /\ ur \in Ops /\ uw \in Ops /\ er \in Ops /\ ew \in Ops
  BY DEF Ops, Modes
<1>2. \/ s = <<ur>> \/ s = <<uw>> \/ s = <<ur, uw>> \/ s = <<er, ur>> \/ s = <<ew, uw>>
      \/ s = <<ur, ew, uw>> \/ s = <<er, ur, ew, uw>>
  BY DEF Lists
<1>3. /\ <<>> \in Lists /\ <<ur>> \in Lists /\ <<uw>> \in Lists /\ <<ew, uw>> \in Lists
      /\ <<ur, ew, uw>> \in Lists
  BY DEF Lists
<1> HIDE DEF ur, uw, er, ew
<1>a. CASE s = <<ur>>
  <2>1. Tail(s) = <<>> /\ Head(s) = ur
    BY <1>a
  <2>2. QED
    BY <1>1, <1>3, <1>a, <2>1 DEF Has, Runs
<1>4. CASE s = <<uw>>
  <2>1. Tail(s) = <<>> /\ Head(s) = uw
    BY <1>4
  <2>2. QED
    BY <1>1, <1>3, <1>4, <2>1 DEF Has, Runs
<1>5. CASE s = <<ur, uw>>
  <2>1. Tail(s) = <<uw>> /\ Head(s) = ur
    BY <1>5
  <2>2. QED
    BY <1>1, <1>3, <1>5, <2>1 DEF Has, Runs
<1>6. CASE s = <<er, ur>>
  <2>1. Tail(s) = <<ur>> /\ Head(s) = er
    BY <1>6
  <2>2. QED
    BY <1>1, <1>3, <1>6, <2>1 DEF Has, Runs
<1>7. CASE s = <<ew, uw>>
  <2>1. Tail(s) = <<uw>> /\ Head(s) = ew
    BY <1>7
  <2>2. QED
    BY <1>1, <1>3, <1>7, <2>1 DEF Has, Runs
<1>8. CASE s = <<ur, ew, uw>>
  <2>1. Tail(s) = <<ew, uw>> /\ Head(s) = ur
    BY <1>8
  <2>2. QED
    BY <1>1, <1>3, <1>8, <2>1 DEF Has, Runs
<1>9. CASE s = <<er, ur, ew, uw>>
  <2>1. Tail(s) = <<ur, ew, uw>> /\ Head(s) = er
    BY <1>9
  <2>2. QED
    BY <1>1, <1>3, <1>9, <2>1 DEF Has, Runs
<1>10. QED
  BY <1>2, <1>a, <1>4, <1>5, <1>6, <1>7, <1>8, <1>9

LEMMA ListsOrder ==
    ASSUME NEW s \in Lists, NEW m \in Modes, Has(s, <<"expire", m>>)
    PROVE  Has(s, <<"unblock", m>>)
  BY DEF Lists, Has, Modes

LEMMA ListsEmpty == <<>> \in Lists /\ \A o \in Ops : ~Has(<<>>, o)
  BY DEF Lists, Has

-----------------------------------------------------------------------------
(***************************************************************************)
(* Types, and what each thread's step does to it.                          *)
(***************************************************************************)
ThreadPcs == {"idle", "set", "evict", "fired", "tag", "seterr", "run", "ready"}
ThreadType == [pc : ThreadPcs, do : Lists, modes : SUBSET Modes, seq : Nat, err : BOOLEAN,
               io : BOOLEAN, hand : SUBSET Modes, delta : Int]
PdType == [fdseq : Nat, closing : BOOLEAN, lock : Threads \cup {Nobody},
           d : [Modes -> Int], seq : [Modes -> Nat]]
InfoType == [closing : BOOLEAN, err : BOOLEAN, expired : [Modes -> BOOLEAN], fdseq : Nat]
TimerType == [f : SUBSET Modes, when : Int, seq : Nat, armed : BOOLEAN]
SocketType == [ready : [Modes -> BOOLEAN], err : BOOLEAN, tag : Nat, listed : BOOLEAN]
Pcs == {"idle", "prepare", "reset", "syscall", "check", "block", "recheck", "commit",
        "parked", "swap"}

\* The values the variables take.
TypeOK ==
    /\ phase \in {"open", "closing", "closed"}
    /\ use \in [Modes \cup Threads -> Life!Uses]
    /\ pd \in PdType /\ info \in InfoType
    /\ gpp \in [Modes -> {"nil", "ready", "wait", "g"}]
    /\ timer \in [Modes -> TimerType]
    /\ slot \in {"used", "closed", "free", "opened"}
    /\ socket \in SocketType
    /\ pc \in [Modes -> Pcs]
    /\ th \in [Threads -> ThreadType]
    /\ waiters \in Int /\ adding \in Nat /\ now \in Nat /\ opens \in Nat
    /\ asked \in [Modes -> Int]

\* A thread that runs has something to do.
Busy == \A t \in Threads : th[t].pc = "run" <=> th[t].do # <<>>

\* atomicInfo shows what the lock protects.
Mirrors(i, p) ==
    /\ i.closing = p.closing /\ i.fdseq = p.fdseq
    /\ \A m \in Modes : i.expired[m] <=> p.d[m] < 0

\* The step of thread t leaves the others alone; its own job stays what it is.
Others(t) == th' \in [Threads -> ThreadType] /\ \A u \in Threads : u # t => th'[u] = th[u]
SameJob(t) == /\ th'[t].modes = th[t].modes /\ th'[t].seq = th[t].seq
              /\ th'[t].err = th[t].err /\ th'[t].io = th[t].io
GoesOn(t) == /\ th'[t].pc = IF th'[t].do = <<>> THEN "ready" ELSE "run"
             /\ pd' \in PdType
             /\ pd'.lock = IF th[t].io THEN pd.lock
                           ELSE IF th'[t].do = <<>> THEN Nobody ELSE t

\* Thread t becomes a job of kind k for the modes ms, with nothing in its hands.
Begins(t, k, ms, s, e, i) ==
    /\ Others(t)
    /\ th'[t].pc = k /\ th'[t].do = <<>> /\ th'[t].modes = ms /\ th'[t].seq = s
    /\ th'[t].err = e /\ th'[t].io = i /\ th'[t].hand = {} /\ th'[t].delta = 0
GoesIdle(t) == Begins(t, "idle", {}, 0, FALSE, FALSE)

LEMMA IdleType == /\ Idle \in ThreadType /\ Idle.pc = "idle" /\ Idle.do = <<>> /\ Idle.modes = {}
                  /\ Idle.seq = 0 /\ Idle.err = FALSE /\ Idle.io = FALSE /\ Idle.hand = {}
                  /\ Idle.delta = 0
  BY ListsEmpty DEF Idle, ThreadType, ThreadPcs

LEMMA BecomesEffect ==
    ASSUME NEW t \in Threads, th \in [Threads -> ThreadType], NEW w \in ThreadType, Becomes(t, w)
    PROVE  Others(t) /\ th'[t] = w
  BY DEF Becomes, Others

LEMMA BecomesIdle ==
    ASSUME NEW t \in Threads, th \in [Threads -> ThreadType], Becomes(t, Idle)
    PROVE  GoesIdle(t)
  BY BecomesEffect, IdleType DEF GoesIdle, Begins

LEMMA DoesEffect ==
    ASSUME NEW t \in Threads, th \in [Threads -> ThreadType], NEW w \in ThreadType,
           NEW p \in PdType, Does(t, w, p)
    PROVE  /\ Others(t)
           /\ th'[t].pc = IF w.do = <<>> THEN "ready" ELSE "run"
           /\ th'[t].do = w.do /\ th'[t].modes = w.modes /\ th'[t].seq = w.seq
           /\ th'[t].err = w.err /\ th'[t].io = w.io /\ th'[t].hand = w.hand
           /\ th'[t].delta = w.delta
           /\ pd' \in PdType /\ pd'.fdseq = p.fdseq /\ pd'.closing = p.closing
           /\ pd'.d = p.d /\ pd'.seq = p.seq
           /\ pd'.lock = IF w.io THEN p.lock ELSE IF w.do = <<>> THEN Nobody ELSE t
<1> DEFINE v == [w EXCEPT !.pc = IF w.do = <<>> THEN "ready" ELSE "run"]
<1>1. /\ v \in ThreadType /\ v.pc = (IF w.do = <<>> THEN "ready" ELSE "run")
      /\ v.do = w.do /\ v.modes = w.modes /\ v.seq = w.seq
      /\ v.err = w.err /\ v.io = w.io /\ v.hand = w.hand /\ v.delta = w.delta
  BY DEF ThreadType, ThreadPcs
<1>2. th' = [th EXCEPT ![t] = v]
  BY DEF Does, Becomes
<1> HIDE DEF v
<1>3. /\ Others(t) /\ th'[t] = v
  BY <1>1, <1>2 DEF Others
<1>4. /\ pd' \in PdType /\ pd'.fdseq = p.fdseq /\ pd'.closing = p.closing
      /\ pd'.d = p.d /\ pd'.seq = p.seq
      /\ pd'.lock = IF w.io THEN p.lock ELSE IF w.do = <<>> THEN Nobody ELSE t
  BY DEF Does, PdType
<1>5. QED
  BY <1>1, <1>3, <1>4

LEMMA Publishes ==
    ASSUME info \in InfoType, NEW p \in PdType
    PROVE  publishInfo(p) \in InfoType /\ Mirrors(publishInfo(p), p) /\ publishInfo(p).err = info.err
<1> DEFINE e == [m \in Modes |-> p.d[m] < 0]
<1>1. e \in [Modes -> BOOLEAN] /\ \A m \in Modes : e[m] <=> p.d[m] < 0
  <2>1. \A m \in Modes : (p.d[m] < 0) \in BOOLEAN
    BY DEF PdType
  <2>2. QED
    BY <2>1, Zenon
<1>2. publishInfo(p) = [info EXCEPT !.closing = p.closing, !.fdseq = p.fdseq, !.expired = e]
  BY DEF publishInfo
<1>3. p.closing \in BOOLEAN /\ p.fdseq \in Nat
  BY DEF PdType
<1> HIDE DEF e
<1>4. /\ publishInfo(p) \in InfoType /\ publishInfo(p).closing = p.closing
      /\ publishInfo(p).fdseq = p.fdseq /\ publishInfo(p).expired = e /\ publishInfo(p).err = info.err
  BY <1>1, <1>2, <1>3 DEF InfoType
<1>5. QED
  BY <1>1, <1>4 DEF Mirrors

\* pd keeps all but its lock.
PdKept == /\ pd'.fdseq = pd.fdseq /\ pd'.closing = pd.closing /\ pd'.d = pd.d /\ pd'.seq = pd.seq

\* netpollunblock for mode m.
Unblocking(t, m) ==
    /\ th[t].pc = "run" /\ Has(th[t].do, <<"unblock", m>>)
    /\ Others(t) /\ SameJob(t) /\ GoesOn(t) /\ PdKept
    /\ gpp' = [gpp EXCEPT ![m] = Unblocked(gpp[m], th[t].io)]
    /\ \A o \in Ops : Has(th'[t].do, o) <=> Has(th[t].do, o) /\ o # <<"unblock", m>>
    /\ th'[t].hand = IF gpp[m] = "g" THEN th[t].hand \cup {m} ELSE th[t].hand
    /\ th'[t].delta = th[t].delta + Delta(gpp[m])
    /\ UNCHANGED <<phase, use, info, timer, slot, socket, pc, waiters, adding, now, opens, asked>>

LEMMA UnblockEffect ==
    ASSUME TypeOK, Busy, NEW t \in Threads, netpollunblock(t)
    PROVE  \E m \in Modes : Unblocking(t, m)
<1>1. th[t] \in ThreadType /\ th[t].do \in Lists /\ th[t].pc = "run" /\ th[t].do # <<>>
  BY DEF TypeOK, Busy, netpollunblock, ThreadType
<1>2. Runs(th[t].do)
  BY <1>1, ListsRun
<1> DEFINE m == Head(th[t].do)[2]
           w == [th[t] EXCEPT !.do = Tail(@), !.delta = @ + Delta(gpp[m]),
                              !.hand = IF gpp[m] = "g" THEN @ \cup {m} ELSE @]
<1>3. Head(th[t].do)[1] = "unblock" /\ Gpp(m, Unblocked(gpp[m], th[t].io)) /\ Does(t, w, pd)
  BY DEF netpollunblock
<1>4. m \in Modes /\ Head(th[t].do) = <<"unblock", m>>
  BY <1>2, <1>3 DEF Runs, Ops
<1>5. Tail(th[t].do) \in Lists
      /\ \A o \in Ops : Has(Tail(th[t].do), o) <=> Has(th[t].do, o) /\ o # Head(th[t].do)
  BY <1>2 DEF Runs
<1> HIDE DEF m
<1>a. (IF gpp[m] = "g" THEN th[t].hand \cup {m} ELSE th[t].hand) \in SUBSET Modes
  BY <1>1, <1>4 DEF ThreadType
<1>b. th[t].delta + Delta(gpp[m]) \in Int
  BY <1>1 DEF ThreadType, Delta
<1>6. /\ w \in ThreadType /\ w.do = Tail(th[t].do) /\ w.modes = th[t].modes /\ w.seq = th[t].seq
      /\ w.err = th[t].err /\ w.io = th[t].io /\ w.delta = th[t].delta + Delta(gpp[m])
      /\ w.hand = IF gpp[m] = "g" THEN th[t].hand \cup {m} ELSE th[t].hand
  BY <1>1, <1>5, <1>a, <1>b DEF ThreadType
<1> HIDE DEF w
<1>7. th \in [Threads -> ThreadType] /\ pd \in PdType
  BY DEF TypeOK
<1>8. Others(t) /\ SameJob(t) /\ GoesOn(t) /\ PdKept /\ th'[t].do = Tail(th[t].do)
      /\ th'[t].hand = w.hand /\ th'[t].delta = w.delta
  BY <1>3, <1>6, <1>7, DoesEffect DEF SameJob, GoesOn, PdKept
<1>9. Has(th[t].do, <<"unblock", m>>)
  BY <1>2, <1>4 DEF Runs
<1>10. QED
  BY <1>1, <1>3, <1>4, <1>5, <1>6, <1>8, <1>9 DEF Unblocking, netpollunblock, Gpp

\* The deadline of mode m has come.
Expiry(t, m) ==
    /\ th[t].pc = "run" /\ Has(th[t].do, <<"expire", m>>) /\ Has(th'[t].do, <<"unblock", m>>)
    /\ Others(t) /\ SameJob(t) /\ GoesOn(t)
    /\ th'[t].hand = th[t].hand /\ th'[t].delta = th[t].delta
    /\ \A o \in Ops : Has(th'[t].do, o) <=> Has(th[t].do, o) /\ o # <<"expire", m>>
    /\ pd'.d = [pd.d EXCEPT ![m] = -1]
    /\ pd'.fdseq = pd.fdseq /\ pd'.closing = pd.closing /\ pd'.seq = pd.seq
    /\ info' \in InfoType /\ Mirrors(info', pd') /\ info'.err = info.err
    /\ UNCHANGED <<phase, use, gpp, timer, slot, socket, pc, waiters, adding, now, opens, asked>>

LEMMA ExpireEffect ==
    ASSUME TypeOK, Busy, NEW t \in Threads, Expire(t)
    PROVE  \E m \in Modes : Expiry(t, m)
<1>1. th[t] \in ThreadType /\ th[t].do \in Lists /\ th[t].pc = "run" /\ th[t].do # <<>>
  BY DEF TypeOK, Busy, Expire, ThreadType
<1>2. Runs(th[t].do)
  BY <1>1, ListsRun
<1> DEFINE m == Head(th[t].do)[2]
           p == [pd EXCEPT !.d[m] = -1]
           w == [th[t] EXCEPT !.do = Tail(@)]
<1>3. Head(th[t].do)[1] = "expire" /\ Does(t, w, p) /\ info' = publishInfo(p)
  BY DEF Expire
<1>4. m \in Modes /\ Head(th[t].do) = <<"expire", m>>
  BY <1>2, <1>3 DEF Runs, Ops
<1>5. Tail(th[t].do) \in Lists
      /\ \A o \in Ops : Has(Tail(th[t].do), o) <=> Has(th[t].do, o) /\ o # Head(th[t].do)
  BY <1>2 DEF Runs
<1> HIDE DEF m
<1>6. /\ w \in ThreadType /\ w.do = Tail(th[t].do) /\ w.modes = th[t].modes /\ w.seq = th[t].seq
      /\ w.err = th[t].err /\ w.io = th[t].io /\ w.delta = th[t].delta /\ w.hand = th[t].hand
  BY <1>1, <1>5 DEF ThreadType
<1>7. /\ p \in PdType /\ p.d = [pd.d EXCEPT ![m] = -1] /\ p.fdseq = pd.fdseq /\ p.lock = pd.lock
      /\ p.closing = pd.closing /\ p.seq = pd.seq
  BY <1>4 DEF TypeOK, PdType
<1> HIDE DEF w, p
<1>8. th \in [Threads -> ThreadType] /\ info \in InfoType
  BY DEF TypeOK
<1>9. /\ Others(t) /\ SameJob(t) /\ GoesOn(t) /\ th'[t].do = Tail(th[t].do)
      /\ th'[t].hand = th[t].hand /\ th'[t].delta = th[t].delta
      /\ pd' \in PdType /\ pd'.d = p.d /\ pd'.fdseq = p.fdseq /\ pd'.closing = p.closing /\ pd'.seq = p.seq
  BY <1>3, <1>6, <1>7, <1>8, DoesEffect DEF SameJob, GoesOn
<1>10. info' \in InfoType /\ Mirrors(info', pd') /\ info'.err = info.err
  BY <1>3, <1>7, <1>8, <1>9, Publishes DEF Mirrors
<1>11. Has(th[t].do, <<"expire", m>>)
  BY <1>2, <1>4 DEF Runs
<1>12. <<"unblock", m>> \in Ops /\ <<"unblock", m>> # <<"expire", m>>
  BY <1>4 DEF Ops
<1>13. Has(Tail(th[t].do), <<"unblock", m>>)
  BY <1>1, <1>4, <1>5, <1>11, <1>12, ListsOrder
<1>14. QED
  BY <1>1, <1>4, <1>5, <1>7, <1>9, <1>10, <1>11, <1>13 DEF Expiry, Expire

\* goready of mode m's goroutine.
Readying(t, m) ==
    /\ th[t].pc = "ready" /\ m \in th[t].hand /\ Others(t) /\ SameJob(t)
    /\ th'[t].pc = "ready" /\ th'[t].do = th[t].do /\ th'[t].delta = th[t].delta
    /\ th'[t].hand = th[t].hand \ {m} /\ pc' = [pc EXCEPT ![m] = "swap"]
    /\ UNCHANGED <<phase, use, pd, info, gpp, timer, slot, socket, waiters, adding, now, opens, asked>>

LEMMA ReadyEffect ==
    ASSUME TypeOK, NEW t \in Threads, netpollgoready(t)
    PROVE  \E m \in Modes : Readying(t, m)
<1>1. PICK m \in th[t].hand : Becomes(t, [th[t] EXCEPT !.hand = @ \ {m}]) /\ Goto(m, "swap")
  BY DEF netpollgoready
<1> DEFINE w == [th[t] EXCEPT !.hand = @ \ {m}]
<1>2. /\ th \in [Threads -> ThreadType] /\ m \in Modes
      /\ w \in ThreadType /\ w.pc = th[t].pc /\ w.do = th[t].do /\ w.modes = th[t].modes
      /\ w.seq = th[t].seq /\ w.err = th[t].err /\ w.io = th[t].io /\ w.delta = th[t].delta
      /\ w.hand = th[t].hand \ {m}
  BY DEF TypeOK, ThreadType
<1> HIDE DEF w
<1>3. Others(t) /\ th'[t] = w
  BY <1>1, <1>2, BecomesEffect DEF w
<1>4. QED
  BY <1>1, <1>2, <1>3 DEF Readying, SameJob, netpollgoready, Goto

LEMMA AdjustEffect ==
    ASSUME TypeOK, NEW t \in Threads, Adjust(t)
    PROVE  GoesIdle(t)
  BY BecomesIdle DEF Adjust, TypeOK

LEMMA SetDeadlineEffect ==
    ASSUME TypeOK, NEW t \in Threads, SetDeadline(t)
    PROVE  \E ms \in SUBSET Modes : Begins(t, "set", ms, 0, FALSE, FALSE)
<1>1. PICK ms \in DeadlineModes : Becomes(t, [Idle EXCEPT !.pc = "set", !.modes = ms])
  BY DEF SetDeadline
<1> DEFINE w == [Idle EXCEPT !.pc = "set", !.modes = ms]
<1>2. ms \in SUBSET Modes /\ th \in [Threads -> ThreadType]
  BY PollAssumption DEF TypeOK
<1>3. /\ w \in ThreadType /\ w.pc = "set" /\ w.do = <<>> /\ w.modes = ms /\ w.seq = 0
      /\ w.err = FALSE /\ w.io = FALSE /\ w.hand = {} /\ w.delta = 0
  BY <1>2, IdleType DEF ThreadType, ThreadPcs
<1> HIDE DEF w
<1>4. Others(t) /\ th'[t] = w
  BY <1>1, <1>2, <1>3, BecomesEffect DEF w
<1>5. QED
  BY <1>2, <1>3, <1>4 DEF Begins

LEMMA CloseEffect ==
    ASSUME TypeOK, NEW t \in Threads, Close(t)
    PROVE  Begins(t, "evict", {}, 0, FALSE, FALSE)
<1> DEFINE w == [Idle EXCEPT !.pc = "evict"]
<1>1. /\ w \in ThreadType /\ w.pc = "evict" /\ w.do = <<>> /\ w.modes = {} /\ w.seq = 0
      /\ w.err = FALSE /\ w.io = FALSE /\ w.hand = {} /\ w.delta = 0
  BY IdleType DEF ThreadType, ThreadPcs
<1>2. Becomes(t, w)
  BY DEF Close
<1> HIDE DEF w
<1>3. th \in [Threads -> ThreadType]
  BY DEF TypeOK
<1>4. Others(t) /\ th'[t] = w
  BY <1>1, <1>2, <1>3, BecomesEffect
<1>5. QED
  BY <1>1, <1>4 DEF Begins

\* The timer of mode n fires.
Firing(t, n) ==
    /\ th[t].pc = "idle" /\ timer[n].armed /\ timer[n].when <= now
    /\ Begins(t, "fired", timer[n].f, timer[n].seq, FALSE, FALSE)
    /\ timer' \in [Modes -> TimerType] /\ \A m \in Modes : m # n => timer'[m] = timer[m]
    /\ timer'[n].f = timer[n].f /\ timer'[n].when = timer[n].when /\ timer'[n].seq = timer[n].seq
    /\ timer'[n].armed = FALSE
    /\ UNCHANGED <<phase, use, pd, info, gpp, slot, socket, pc, waiters, adding, now, opens, asked>>

LEMMA FireEffect ==
    ASSUME TypeOK, NEW t \in Threads, Fire(t)
    PROVE  \E n \in Modes : Firing(t, n)
<1>1. PICK n \in Modes :
        /\ timer[n].armed /\ timer[n].when <= now
        /\ timer' = [timer EXCEPT ![n].armed = FALSE]
        /\ Becomes(t, [Idle EXCEPT !.pc = "fired", !.modes = timer[n].f, !.seq = timer[n].seq])
  BY DEF Fire
<1> DEFINE w == [Idle EXCEPT !.pc = "fired", !.modes = timer[n].f, !.seq = timer[n].seq]
<1>2. timer[n] \in TimerType /\ timer[n].f \in SUBSET Modes /\ timer[n].seq \in Nat
  BY DEF TypeOK, TimerType
<1>3. /\ w \in ThreadType /\ w.pc = "fired" /\ w.do = <<>> /\ w.modes = timer[n].f /\ w.seq = timer[n].seq
      /\ w.err = FALSE /\ w.io = FALSE /\ w.hand = {} /\ w.delta = 0
  BY <1>2, IdleType DEF ThreadType, ThreadPcs
<1> HIDE DEF w
<1>4. th \in [Threads -> ThreadType]
  BY DEF TypeOK
<1>5. Others(t) /\ th'[t] = w
  BY <1>1, <1>3, <1>4, BecomesEffect DEF w
<1>6. Begins(t, "fired", timer[n].f, timer[n].seq, FALSE, FALSE)
  BY <1>3, <1>5 DEF Begins
<1>7. /\ timer' \in [Modes -> TimerType] /\ \A m \in Modes : m # n => timer'[m] = timer[m]
      /\ timer'[n].f = timer[n].f /\ timer'[n].when = timer[n].when /\ timer'[n].seq = timer[n].seq
      /\ timer'[n].armed = FALSE
  BY <1>1, <1>2 DEF TypeOK, TimerType
<1>8. QED
  BY <1>1, <1>6, <1>7 DEF Firing, Fire

\* The deadlines become d, delta from now for the modes of thread t.
Setting(t, d, delta) ==
    /\ th[t].pc = "set" /\ pd.lock = Nobody /\ ~pd.closing
    /\ \A m \in Modes : IF m \in th[t].modes THEN d[m] = Until(delta) /\ asked'[m] = Asked(delta)
                                             ELSE d[m] = pd.d[m] /\ asked'[m] = asked[m]
    /\ asked' \in [Modes -> Int]
    /\ pd'.d = d /\ pd'.fdseq = pd.fdseq /\ pd'.closing = pd.closing
    /\ \A m \in Modes : pd'.seq[m] = IF Invalidates(d, m) THEN pd.seq[m] + 1 ELSE pd.seq[m]
    /\ timer' \in [Modes -> TimerType] /\ \A m \in Modes : timer'[m] = NewTimer(d, m, pd'.seq[m])
    /\ info' \in InfoType /\ Mirrors(info', pd') /\ info'.err = info.err
    /\ Others(t) /\ SameJob(t) /\ GoesOn(t) /\ th'[t].hand = th[t].hand /\ th'[t].delta = th[t].delta
    /\ \A m \in Modes : ~Has(th'[t].do, <<"expire", m>>) /\ (Has(th'[t].do, <<"unblock", m>>) <=> d[m] < 0)
    /\ UNCHANGED <<phase, use, gpp, slot, socket, pc, waiters, adding, now, opens>>

LEMMA SetEffect ==
    ASSUME TypeOK, NEW t \in Threads, pollSetDeadline(t)
    PROVE  \E delta \in Deltas, d \in [Modes -> Int] : Setting(t, d, delta)
<1>1. PICK delta \in Deltas :
        LET d == [m \in Modes |-> IF m \in th[t].modes THEN Until(delta) ELSE pd.d[m]]
            seq == [m \in Modes |-> IF Invalidates(d, m) THEN pd.seq[m] + 1 ELSE pd.seq[m]]
            p == [pd EXCEPT !.d = d, !.seq = seq]
        IN  /\ timer' = [m \in Modes |-> NewTimer(d, m, seq[m])]
            /\ info' = publishInfo(p)
            /\ asked' = [m \in Modes |-> IF m \in th[t].modes
                                         THEN Asked(delta) ELSE asked[m]]
            /\ Does(t, [th[t] EXCEPT !.do = Unblocks({m \in Modes : d[m] < 0})], p)
  BY DEF pollSetDeadline
<1> DEFINE d == [m \in Modes |-> IF m \in th[t].modes THEN Until(delta) ELSE pd.d[m]]
           seq == [m \in Modes |-> IF Invalidates(d, m) THEN pd.seq[m] + 1 ELSE pd.seq[m]]
           p == [pd EXCEPT !.d = d, !.seq = seq]
           ms == {m \in Modes : d[m] < 0}
           w == [th[t] EXCEPT !.do = Unblocks(ms)]
<1>2. /\ timer' = [m \in Modes |-> NewTimer(d, m, seq[m])] /\ info' = publishInfo(p) /\ Does(t, w, p)
      /\ asked' = [m \in Modes |-> IF m \in th[t].modes THEN Asked(delta) ELSE asked[m]]
  BY <1>1
<1>3. delta \in Int /\ Until(delta) \in Int /\ Asked(delta) \in Int
  BY PollAssumption DEF Until, Asked, TypeOK, INT_MAX
<1>4. d \in [Modes -> Int] /\ asked' \in [Modes -> Int]
  BY <1>2, <1>3 DEF TypeOK, PdType
<1>5. \A m \in Modes : IF m \in th[t].modes THEN d[m] = Until(delta) /\ asked'[m] = Asked(delta)
                                            ELSE d[m] = pd.d[m] /\ asked'[m] = asked[m]
  BY <1>2
<1> HIDE DEF d
<1>6. /\ seq \in [Modes -> Nat]
      /\ \A m \in Modes : seq[m] = IF Invalidates(d, m) THEN pd.seq[m] + 1 ELSE pd.seq[m]
  BY DEF TypeOK, PdType
<1> HIDE DEF seq
<1>7. ASSUME NEW m \in Modes PROVE NewTimer(d, m, seq[m]) \in TimerType
  <2>1. timer[m] \in TimerType /\ NoTimer \in TimerType
    BY DEF TypeOK, NoTimer, TimerType
  <2>2. TimerFor(d, m) \in SUBSET Modes /\ d[m] \in Int /\ seq[m] \in Nat
    BY <1>4, <1>6 DEF TimerFor, Modes
  <2>3. [f |-> TimerFor(d, m), when |-> d[m], seq |-> seq[m], armed |-> TRUE] \in TimerType
    BY <2>2 DEF TimerType
  <2>4. QED
    BY <2>1, <2>3 DEF NewTimer
<1>8. timer' \in [Modes -> TimerType] /\ \A m \in Modes : timer'[m] = NewTimer(d, m, seq[m])
  BY <1>2, <1>7
<1>9. /\ p \in PdType /\ p.d = d /\ p.seq = seq /\ p.fdseq = pd.fdseq /\ p.closing = pd.closing
      /\ p.lock = pd.lock
  BY <1>4, <1>6 DEF TypeOK, PdType
<1>10. ms \in SUBSET Modes /\ \A m \in Modes : m \in ms <=> d[m] < 0
  OBVIOUS
<1> HIDE DEF p, ms
<1>a. MadeFor(ms)
  BY <1>10, ListsMade
<1>11. Unblocks(ms) \in Lists /\ th[t] \in ThreadType /\ th \in [Threads -> ThreadType] /\ info \in InfoType
  BY <1>a DEF TypeOK, MadeFor
<1>12. /\ w \in ThreadType /\ w.do = Unblocks(ms) /\ w.modes = th[t].modes /\ w.seq = th[t].seq
       /\ w.err = th[t].err /\ w.io = th[t].io /\ w.delta = th[t].delta /\ w.hand = th[t].hand
  BY <1>11 DEF ThreadType
<1> HIDE DEF w
<1>13. /\ Others(t) /\ SameJob(t) /\ GoesOn(t) /\ th'[t].do = Unblocks(ms)
       /\ th'[t].hand = th[t].hand /\ th'[t].delta = th[t].delta
       /\ pd'.d = p.d /\ pd'.fdseq = p.fdseq /\ pd'.closing = p.closing /\ pd'.seq = p.seq
  BY <1>2, <1>9, <1>11, <1>12, DoesEffect DEF SameJob, GoesOn
<1>14. info' \in InfoType /\ Mirrors(info', pd') /\ info'.err = info.err
  BY <1>2, <1>9, <1>11, <1>13, Publishes DEF Mirrors
<1>15. \A m \in Modes : ~Has(th'[t].do, <<"expire", m>>) /\ (Has(th'[t].do, <<"unblock", m>>) <=> d[m] < 0)
  BY <1>10, <1>13, <1>a DEF MadeFor
<1>16. Setting(t, d, delta)
  BY <1>4, <1>5, <1>6, <1>8, <1>9, <1>13, <1>14, <1>15 DEF Setting, pollSetDeadline
<1>17. QED
  BY <1>4, <1>16

LEMMA ClosingEffect ==
    ASSUME TypeOK, NEW t \in Threads, pollSetDeadlineClosing(t)
    PROVE  /\ Others(t) /\ SameJob(t) /\ th'[t].pc = "ready" /\ th'[t].do = th[t].do
           /\ th'[t].hand = th[t].hand /\ th'[t].delta = th[t].delta
<1> DEFINE w == [th[t] EXCEPT !.pc = "ready"]
<1>1. /\ w \in ThreadType /\ w.pc = "ready" /\ w.do = th[t].do /\ w.modes = th[t].modes /\ w.seq = th[t].seq
      /\ w.err = th[t].err /\ w.io = th[t].io /\ w.delta = th[t].delta /\ w.hand = th[t].hand
  BY DEF ThreadType, ThreadPcs, TypeOK
<1>2. Becomes(t, w) /\ th \in [Threads -> ThreadType]
  BY DEF pollSetDeadlineClosing, TypeOK
<1> HIDE DEF w
<1>3. Others(t) /\ th'[t] = w
  BY <1>1, <1>2, BecomesEffect
<1>4. QED
  BY <1>1, <1>3 DEF SameJob

\* A timer that is still valid takes the lock to expire its modes.
Starting(t) ==
    /\ th[t].pc = "fired" /\ pd.lock = Nobody /\ th[t].seq = CurrentSeq(th[t].modes)
    /\ Others(t) /\ SameJob(t) /\ GoesOn(t) /\ PdKept
    /\ th'[t].hand = th[t].hand /\ th'[t].delta = th[t].delta
    /\ \A m \in Modes : /\ Has(th'[t].do, <<"expire", m>>) <=> m \in th[t].modes
                        /\ Has(th'[t].do, <<"unblock", m>>) <=> m \in th[t].modes
    /\ UNCHANGED <<phase, use, info, gpp, timer, slot, socket, pc, waiters, adding, now, opens, asked>>

\* One that is not does nothing.
Stale(t) ==
    /\ th[t].pc = "fired" /\ th[t].seq # CurrentSeq(th[t].modes) /\ GoesIdle(t)
    /\ UNCHANGED <<phase, use, pd, info, gpp, timer, slot, socket, pc, waiters, adding, now, opens, asked>>

LEMMA DeadlineEffect ==
    ASSUME TypeOK, NEW t \in Threads, netpolldeadlineimpl(t)
    PROVE  Starting(t) \/ Stale(t)
<1>1. th \in [Threads -> ThreadType] /\ th[t] \in ThreadType /\ th[t].modes \in SUBSET Modes /\ pd \in PdType
  BY DEF TypeOK, ThreadType
<1>a. MadeFor(th[t].modes)
  BY <1>1, ListsMade
<1>2. CASE th[t].seq = CurrentSeq(th[t].modes)
  <2> DEFINE w == [th[t] EXCEPT !.do = Expires(th[t].modes)]
  <2>1. /\ w \in ThreadType /\ w.do = Expires(th[t].modes) /\ w.modes = th[t].modes /\ w.seq = th[t].seq
        /\ w.err = th[t].err /\ w.io = th[t].io /\ w.delta = th[t].delta /\ w.hand = th[t].hand
    <3>1. Expires(th[t].modes) \in Lists
      BY <1>a DEF MadeFor
    <3>2. QED
      BY <1>1, <3>1 DEF ThreadType
  <2>2. Does(t, w, pd)
    BY <1>2 DEF netpolldeadlineimpl
  <2> HIDE DEF w
  <2>3. Others(t) /\ SameJob(t) /\ GoesOn(t) /\ PdKept /\ th'[t].do = Expires(th[t].modes)
        /\ th'[t].hand = th[t].hand /\ th'[t].delta = th[t].delta
    BY <1>1, <2>1, <2>2, DoesEffect DEF SameJob, GoesOn, PdKept
  <2>4. \A m \in Modes : /\ Has(th'[t].do, <<"expire", m>>) <=> m \in th[t].modes
                         /\ Has(th'[t].do, <<"unblock", m>>) <=> m \in th[t].modes
    BY <1>a, <2>3 DEF MadeFor
  <2>5. QED
    BY <1>2, <2>3, <2>4 DEF Starting, netpolldeadlineimpl
<1>3. CASE th[t].seq # CurrentSeq(th[t].modes)
  BY <1>1, <1>3, BecomesIdle DEF Stale, netpolldeadlineimpl
<1>4. QED
  BY <1>2, <1>3

\* pollUnblock.
Evicting(t) ==
    /\ th[t].pc = "evict" /\ pd.lock = Nobody
    /\ Others(t) /\ SameJob(t) /\ GoesOn(t) /\ th'[t].hand = th[t].hand /\ th'[t].delta = th[t].delta
    /\ \A m \in Modes : Has(th'[t].do, <<"unblock", m>>) /\ ~Has(th'[t].do, <<"expire", m>>)
    /\ pd'.closing = TRUE /\ pd'.fdseq = pd.fdseq /\ pd'.d = pd.d
    /\ \A m \in Modes : pd'.seq[m] = pd.seq[m] + 1
    /\ timer' = [m \in Modes |-> NoTimer]
    /\ info' \in InfoType /\ Mirrors(info', pd') /\ info'.err = info.err
    /\ UNCHANGED <<phase, use, gpp, slot, socket, pc, waiters, adding, now, opens, asked>>

LEMMA EvictEffect ==
    ASSUME TypeOK, NEW t \in Threads, pollUnblock(t)
    PROVE  Evicting(t)
<1> DEFINE p == [pd EXCEPT !.closing = TRUE, !.seq = Bumped(@)]
           w == [th[t] EXCEPT !.do = Unblocks(Modes)]
<1>1. info' = publishInfo(p) /\ Does(t, w, p)
  BY DEF pollUnblock
<1>2. /\ p \in PdType /\ p.closing = TRUE /\ p.fdseq = pd.fdseq /\ p.d = pd.d /\ p.lock = pd.lock
      /\ \A m \in Modes : p.seq[m] = pd.seq[m] + 1
  <2>1. /\ Bumped(pd.seq) \in [Modes -> Nat]
        /\ \A m \in Modes : Bumped(pd.seq)[m] = pd.seq[m] + 1
    BY DEF TypeOK, PdType, Bumped
  <2>2. QED
    BY <2>1 DEF TypeOK, PdType
<1>a. MadeFor(Modes)
  BY ListsMade
<1>3. Unblocks(Modes) \in Lists /\ th \in [Threads -> ThreadType] /\ info \in InfoType
  BY <1>a DEF TypeOK, MadeFor
<1>4. /\ w \in ThreadType /\ w.do = Unblocks(Modes) /\ w.modes = th[t].modes /\ w.seq = th[t].seq
      /\ w.err = th[t].err /\ w.io = th[t].io /\ w.delta = th[t].delta /\ w.hand = th[t].hand
  BY <1>3 DEF ThreadType
<1> HIDE DEF p, w
<1>5. /\ Others(t) /\ SameJob(t) /\ GoesOn(t) /\ th'[t].do = Unblocks(Modes)
      /\ th'[t].hand = th[t].hand /\ th'[t].delta = th[t].delta
      /\ pd'.d = p.d /\ pd'.fdseq = p.fdseq /\ pd'.closing = p.closing /\ pd'.seq = p.seq
  BY <1>1, <1>2, <1>3, <1>4, DoesEffect DEF SameJob, GoesOn
<1>6. info' \in InfoType /\ Mirrors(info', pd') /\ info'.err = info.err
  BY <1>1, <1>2, <1>3, <1>5, Publishes DEF Mirrors
<1>7. \A m \in Modes : Has(th'[t].do, <<"unblock", m>>) /\ ~Has(th'[t].do, <<"expire", m>>)
  BY <1>5, <1>a DEF MadeFor
<1>8. QED
  BY <1>2, <1>5, <1>6, <1>7 DEF Evicting, pollUnblock

LEMMA EpollEffect ==
    ASSUME TypeOK, NEW t \in Threads, EpollWait(t)
    PROVE  /\ socket' \in SocketType /\ socket'.listed = FALSE /\ socket'.ready = socket.ready
           /\ socket'.tag = socket.tag /\ socket'.err = socket.err
           /\ \/ GoesIdle(t) /\ \A m \in Modes : ~socket.ready[m]
              \/ \E ms \in SUBSET Modes :
                    /\ ms # {} /\ \A m \in Modes : m \in ms <=> socket.ready[m]
                    /\ Begins(t, "tag", ms, socket.tag, socket.err, TRUE)
<1> DEFINE ms == {m \in Modes : socket.ready[m]}
           w == [Idle EXCEPT !.pc = "tag", !.io = TRUE, !.modes = ms, !.err = socket.err,
                             !.seq = socket.tag]
<1>1. /\ socket' \in SocketType /\ socket'.listed = FALSE /\ socket'.ready = socket.ready
      /\ socket'.tag = socket.tag /\ socket'.err = socket.err
  BY DEF EpollWait, TypeOK, SocketType
<1>2. th \in [Threads -> ThreadType] /\ socket.tag \in Nat /\ socket.err \in BOOLEAN
  BY DEF TypeOK, SocketType
<1>3. ms \in SUBSET Modes /\ \A m \in Modes : m \in ms <=> socket.ready[m]
  OBVIOUS
<1>4. Becomes(t, IF ms = {} THEN Idle ELSE w)
  BY DEF EpollWait
<1> HIDE DEF ms
<1>5. /\ w \in ThreadType /\ w.pc = "tag" /\ w.do = <<>> /\ w.modes = ms /\ w.seq = socket.tag
      /\ w.err = socket.err /\ w.io = TRUE /\ w.hand = {} /\ w.delta = 0
  BY <1>2, <1>3, IdleType DEF ThreadType, ThreadPcs
<1> HIDE DEF w
<1>6. CASE ms = {}
  BY <1>1, <1>2, <1>3, <1>4, <1>6, BecomesIdle
<1>7. CASE ms # {}
  <2>1. Others(t) /\ th'[t] = w
    BY <1>2, <1>4, <1>5, <1>7, BecomesEffect
  <2>2. Begins(t, "tag", ms, socket.tag, socket.err, TRUE)
    BY <1>5, <2>1 DEF Begins
  <2>3. QED
    BY <1>1, <1>3, <1>7, <2>2
<1>8. QED
  BY <1>6, <1>7

LEMMA NetpollEffect ==
    ASSUME TypeOK, NEW t \in Threads, netpoll(t)
    PROVE  \/ GoesIdle(t) /\ th[t].seq # pd.fdseq
           \/ /\ th[t].seq = pd.fdseq /\ Others(t) /\ SameJob(t) /\ th'[t].pc = "seterr"
              /\ th'[t].do = th[t].do /\ th'[t].hand = th[t].hand /\ th'[t].delta = th[t].delta
<1> DEFINE w == [th[t] EXCEPT !.pc = "seterr"]
<1>1. /\ w \in ThreadType /\ w.pc = "seterr" /\ w.do = th[t].do /\ w.modes = th[t].modes /\ w.seq = th[t].seq
      /\ w.err = th[t].err /\ w.io = th[t].io /\ w.delta = th[t].delta /\ w.hand = th[t].hand
  BY DEF ThreadType, ThreadPcs, TypeOK
<1>2. Becomes(t, IF pd.fdseq = th[t].seq THEN w ELSE Idle) /\ th \in [Threads -> ThreadType]
  BY DEF netpoll, TypeOK, Current
<1> HIDE DEF w
<1>3. CASE pd.fdseq = th[t].seq
  <2>1. Others(t) /\ th'[t] = w
    BY <1>1, <1>2, <1>3, BecomesEffect
  <2>2. QED
    BY <1>1, <1>3, <2>1 DEF SameJob
<1>4. CASE pd.fdseq # th[t].seq
  BY <1>2, <1>4, BecomesIdle
<1>5. QED
  BY <1>3, <1>4

\* setEventErr; the unblocks of the event follow.
Reporting(t) ==
    /\ th[t].pc = "seterr" /\ Others(t) /\ SameJob(t) /\ th'[t].pc = "run"
    /\ th'[t].hand = th[t].hand /\ th'[t].delta = th[t].delta
    /\ th'[t].do = <<>> <=> th[t].modes = {}
    /\ \A m \in Modes : /\ Has(th'[t].do, <<"unblock", m>>) <=> m \in th[t].modes
                        /\ ~Has(th'[t].do, <<"expire", m>>)
    /\ info' \in InfoType /\ info'.closing = info.closing /\ info'.fdseq = info.fdseq
    /\ info'.expired = info.expired /\ info'.err = ErrBit(th[t].err, th[t].seq)
    /\ UNCHANGED <<phase, use, pd, gpp, timer, slot, socket, pc, waiters, adding, now, opens, asked>>

LEMMA ReportEffect ==
    ASSUME TypeOK, NEW t \in Threads, setEventErr(t)
    PROVE  Reporting(t)
<1> DEFINE w == [th[t] EXCEPT !.pc = "run", !.do = Unblocks(th[t].modes)]
<1>1. th \in [Threads -> ThreadType] /\ th[t] \in ThreadType /\ th[t].modes \in SUBSET Modes
      /\ th[t].err \in BOOLEAN /\ info \in InfoType
  BY DEF TypeOK, ThreadType
<1>a. MadeFor(th[t].modes)
  BY <1>1, ListsMade
<1>2. Unblocks(th[t].modes) \in Lists
  BY <1>a DEF MadeFor
<1>3. /\ w \in ThreadType /\ w.pc = "run" /\ w.do = Unblocks(th[t].modes) /\ w.modes = th[t].modes
      /\ w.seq = th[t].seq /\ w.err = th[t].err /\ w.io = th[t].io /\ w.delta = th[t].delta
      /\ w.hand = th[t].hand
  BY <1>1, <1>2 DEF ThreadType, ThreadPcs
<1>4. Becomes(t, w)
  BY DEF setEventErr
<1> HIDE DEF w
<1>5. Others(t) /\ th'[t] = w
  BY <1>1, <1>3, <1>4, BecomesEffect
<1>6. ErrBit(th[t].err, th[t].seq) \in BOOLEAN
  BY <1>1 DEF ErrBit, InfoType
<1>7. /\ info' \in InfoType /\ info'.closing = info.closing /\ info'.fdseq = info.fdseq
      /\ info'.expired = info.expired /\ info'.err = ErrBit(th[t].err, th[t].seq)
  BY <1>1, <1>6 DEF setEventErr, InfoType
<1>8. /\ th'[t].do = <<>> <=> th[t].modes = {}
      /\ \A m \in Modes : /\ Has(th'[t].do, <<"unblock", m>>) <=> m \in th[t].modes
                          /\ ~Has(th'[t].do, <<"expire", m>>)
  BY <1>3, <1>5, <1>a DEF MadeFor
<1>9. QED
  BY <1>3, <1>5, <1>7, <1>8 DEF Reporting, SameJob, setEventErr

-----------------------------------------------------------------------------
(***************************************************************************)
(* The type invariant.                                                     *)
(***************************************************************************)
LEMMA GoroutineTypes ==
    ASSUME TypeOK, NEW m \in Modes, Read(m) \/ Goroutine(m)
    PROVE  TypeOK'
<1>1. CASE Read(m)
  BY <1>1 DEF TypeOK, Read, Life!Enter, Life!Uses, Goto, Pcs, Modes
<1>2. CASE pollReset(m)
  BY <1>2 DEF TypeOK, pollReset, Life!Leave, Life!Uses, Goto, Return, life, Pcs
<1>3. CASE pollResetStore(m)
  BY <1>3 DEF TypeOK, pollResetStore, Goto, Gpp, ResetTo, Pcs
<1>4. CASE Syscall(m)
  <2>1. socket' \in SocketType
    <3>1. CASE SyscallEnds(m)
      BY <3>1 DEF TypeOK, SyscallEnds, SocketType
    <3>2. CASE WritesOn(m)
      BY <3>2 DEF TypeOK, WritesOn, SocketType
    <3>3. QED
      BY <1>4, <3>1, <3>2 DEF Syscall
  <2>2. QED
    BY <1>4, <2>1 DEF TypeOK, Syscall, SyscallEnds, WritesOn, Life!Leave, Life!Uses, Goto, Return, Pcs
<1>5. CASE SyscallEAGAIN(m)
  BY <1>5 DEF TypeOK, SyscallEAGAIN, Goto, Pcs
<1>6. CASE pollWait(m)
  BY <1>6 DEF TypeOK, pollWait, Life!Leave, Life!Uses, Goto, Return, life, Pcs
<1>7. CASE netpollblock(m)
  BY <1>7 DEF TypeOK, netpollblock, Goto, Gpp, Pcs
<1>8. CASE recheck(m)
  BY <1>8 DEF TypeOK, recheck, Goto, Pcs
<1>9. CASE netpollblockcommit(m)
  BY <1>9 DEF TypeOK, netpollblockcommit, Goto, Gpp, Pcs
<1>10. CASE swap(m)
  BY <1>10 DEF TypeOK, swap, Goto, Gpp, Pcs
<1>11. QED
  BY <1>1, <1>2, <1>3, <1>4, <1>5, <1>6, <1>7, <1>8, <1>9, <1>10 DEF Goroutine

LEMMA ThreadTypes ==
    ASSUME TypeOK, Busy, NEW t \in Threads,
           SetDeadline(t) \/ Close(t) \/ Fire(t) \/ EpollWait(t) \/ Thread(t)
    PROVE  TypeOK'
<1>1. CASE SetDeadline(t)
  BY <1>1, SetDeadlineEffect DEF TypeOK, SetDeadline, Begins, Others, Life!Enter, Life!Uses
<1>2. CASE Close(t)
  BY <1>2, CloseEffect DEF TypeOK, Close, Begins, Others, Life!Enter, Life!Uses
<1>3. CASE Fire(t)
  BY <1>3, FireEffect DEF TypeOK, Firing, Begins, Others
<1>4. CASE EpollWait(t)
  BY <1>4, EpollEffect DEF TypeOK, EpollWait, GoesIdle, Begins, Others
<1>5. CASE netpollunblock(t)
  <2>1. PICK m \in Modes : Unblocking(t, m)
    BY <1>5, UnblockEffect
  <2>2. Unblocked(gpp[m], th[t].io) \in {"nil", "ready", "wait", "g"}
    BY DEF TypeOK, Unblocked
  <2>3. QED
    BY <2>1, <2>2 DEF TypeOK, Unblocking, Others, GoesOn
<1>6. CASE Expire(t)
  <2>1. PICK m \in Modes : Expiry(t, m)
    BY <1>6, ExpireEffect
  <2>2. th' \in [Threads -> ThreadType] /\ pd' \in PdType /\ info' \in InfoType
    BY <2>1 DEF Expiry, Others, GoesOn
  <2>3. QED
    BY <2>1, <2>2 DEF TypeOK, Expiry
<1>7. CASE netpollgoready(t)
  BY <1>7, ReadyEffect DEF TypeOK, Readying, Others, Pcs
<1>8. CASE Adjust(t)
  <2>1. th' \in [Threads -> ThreadType]
    BY <1>8, AdjustEffect DEF GoesIdle, Begins, Others
  <2>2. waiters' \in Int
    BY <1>8 DEF Adjust, TypeOK, ThreadType
  <2>3. QED
    BY <1>8, <2>1, <2>2 DEF TypeOK, Adjust, life, Life!Leave, Life!Uses
<1>9. CASE pollSetDeadline(t)
  <2>1. PICK delta \in Deltas, d \in [Modes -> Int] : Setting(t, d, delta)
    BY <1>9, SetEffect
  <2>2. /\ th' \in [Threads -> ThreadType] /\ pd' \in PdType /\ info' \in InfoType
        /\ timer' \in [Modes -> TimerType] /\ asked' \in [Modes -> Int]
    BY <2>1 DEF Setting, Others, GoesOn
  <2>3. QED
    BY <2>1, <2>2 DEF TypeOK, Setting
<1>10. CASE pollSetDeadlineClosing(t)
  BY <1>10, ClosingEffect DEF TypeOK, pollSetDeadlineClosing, Others
<1>11. CASE netpolldeadlineimpl(t)
  BY <1>11, DeadlineEffect DEF TypeOK, Starting, Stale, GoesIdle, Begins, Others, GoesOn
<1>12. CASE pollUnblock(t)
  <2>1. Evicting(t)
    BY <1>12, EvictEffect
  <2>2. timer' \in [Modes -> TimerType]
    BY <2>1 DEF Evicting, TimerType, NoTimer
  <2>3. QED
    BY <2>1, <2>2 DEF TypeOK, Evicting, Others, GoesOn
<1>13. CASE netpoll(t)
  BY <1>13, NetpollEffect DEF TypeOK, netpoll, GoesIdle, Begins, Others
<1>14. CASE setEventErr(t)
  BY <1>14, ReportEffect DEF TypeOK, Reporting, Others
<1>15. QED
  BY <1>1, <1>2, <1>3, <1>4, <1>5, <1>6, <1>7, <1>8, <1>9, <1>10, <1>11, <1>12, <1>13, <1>14 DEF Thread

\* What the steps of the pollDesc's life do to pd and info.
Freeing ==
    /\ pd' \in PdType /\ pd'.fdseq = Version(pd.fdseq + 1) /\ pd'.closing = pd.closing
    /\ pd'.lock = pd.lock /\ pd'.d = pd.d /\ pd'.seq = pd.seq
    /\ info' \in InfoType /\ Mirrors(info', pd') /\ info'.err = info.err

Opening ==
    /\ pd' \in PdType /\ pd'.fdseq = (IF pd.fdseq = 0 THEN 1 ELSE pd.fdseq) /\ pd'.closing = FALSE
    /\ pd'.lock = pd.lock /\ \A m \in Modes : pd'.d[m] = 0 /\ pd'.seq[m] = pd.seq[m] + 1
    /\ info' \in InfoType /\ Mirrors(info', pd') /\ info'.err = FALSE

LEMMA FreeEffect ==
    ASSUME TypeOK, free
    PROVE  Freeing
<1> DEFINE p == [pd EXCEPT !.fdseq = Version(@ + 1)]
<1>1. Version(pd.fdseq + 1) \in Nat
  BY PollAssumption DEF TypeOK, PdType, Version
<1>2. /\ p \in PdType /\ p.fdseq = Version(pd.fdseq + 1) /\ p.closing = pd.closing
      /\ p.lock = pd.lock /\ p.d = pd.d /\ p.seq = pd.seq
  BY <1>1 DEF TypeOK, PdType
<1>3. pd' = p /\ info' = publishInfo(p) /\ info \in InfoType
  BY DEF free, TypeOK
<1> HIDE DEF p
<1>4. QED
  BY <1>2, <1>3, Publishes DEF Freeing

LEMMA OpenEffect ==
    ASSUME TypeOK, pollOpen
    PROVE  Opening
<1> DEFINE d == [m \in Modes |-> 0]
           f == IF pd.fdseq = 0 THEN 1 ELSE pd.fdseq
           p == [pd EXCEPT !.fdseq = IF @ = 0 THEN 1 ELSE @, !.closing = FALSE,
                           !.seq = Bumped(@), !.d = d]
<1>1. /\ Bumped(pd.seq) \in [Modes -> Nat] /\ d \in [Modes -> Int] /\ f \in Nat
      /\ \A m \in Modes : Bumped(pd.seq)[m] = pd.seq[m] + 1 /\ d[m] = 0
  BY DEF TypeOK, PdType, Bumped
<1>2. pd' = p /\ info' = [publishInfo(p) EXCEPT !.err = FALSE] /\ info \in InfoType
  BY DEF pollOpen, TypeOK
<1> HIDE DEF d
<1>3. /\ p \in PdType /\ p.fdseq = f /\ p.closing = FALSE
      /\ p.lock = pd.lock /\ p.d = d /\ p.seq = Bumped(pd.seq)
  BY <1>1 DEF TypeOK, PdType
<1> HIDE DEF p
<1>4. publishInfo(p) \in InfoType /\ Mirrors(publishInfo(p), p)
  BY <1>2, <1>3, Publishes
<1>5. info' \in InfoType /\ Mirrors(info', p) /\ info'.err = FALSE
  BY <1>2, <1>4 DEF InfoType, Mirrors
<1>6. QED
  BY <1>1, <1>2, <1>3, <1>5 DEF Opening

LEMMA ArriveEffect ==
    ASSUME TypeOK, Arrive
    PROVE  /\ socket' \in SocketType /\ socket'.listed = TRUE
           /\ socket'.tag = socket.tag /\ socket'.err = socket.err
<1>1. PICK m \in Watched : socket' = [socket EXCEPT !.ready[m] = TRUE, !.listed = TRUE]
  BY DEF Arrive
<1>2. [socket.ready EXCEPT ![m] = TRUE] \in [Modes -> BOOLEAN]
  BY DEF TypeOK, SocketType
<1>3. socket' = [socket EXCEPT !.ready = [socket.ready EXCEPT ![m] = TRUE], !.listed = TRUE]
  BY <1>1
<1>4. QED
  BY <1>2, <1>3 DEF TypeOK, SocketType

LEMMA SystemTypes ==
    ASSUME TypeOK,
           \/ pollClose \/ free \/ pollOpen \/ netpollopen \/ netpollopenFails
           \/ AddWaiter \/ Arrive \/ Fail \/ Tick
    PROVE  TypeOK'
<1>1. CASE pollClose
  <2>1. socket' \in SocketType
    BY <1>1 DEF TypeOK, pollClose, SocketType
  <2>2. QED
    BY <1>1, <2>1 DEF TypeOK, pollClose, Life!Destroy
<1>2. CASE free
  BY <1>2, FreeEffect DEF TypeOK, free, Freeing
<1>3. CASE pollOpen
  BY <1>3, OpenEffect DEF TypeOK, pollOpen, Opening
<1>4. CASE netpollopen
  <2>1. PICK r \in Readiness :
          socket' = [ready |-> r, err |-> FALSE, tag |-> pd.fdseq, listed |-> TRUE]
    BY <1>4 DEF netpollopen
  <2>2. socket' \in SocketType
    BY <2>1 DEF TypeOK, PdType, SocketType, Readiness
  <2>3. QED
    BY <1>4, <2>2 DEF TypeOK, netpollopen
<1>5. CASE netpollopenFails
  BY <1>5 DEF TypeOK, netpollopenFails
<1>6. CASE AddWaiter
  BY <1>6 DEF TypeOK, AddWaiter
<1>7. CASE Arrive
  BY <1>7, ArriveEffect DEF TypeOK, Arrive
<1>8. CASE Fail
  <2>1. socket' \in SocketType
    BY <1>8 DEF TypeOK, Fail, SocketType
  <2>2. QED
    BY <1>8, <2>1 DEF TypeOK, Fail
<1>9. CASE Tick
  BY <1>9 DEF TypeOK, Tick
<1>10. QED
  BY <1>1, <1>2, <1>3, <1>4, <1>5, <1>6, <1>7, <1>8, <1>9

-----------------------------------------------------------------------------
(***************************************************************************)
(* The jobs of the threads, and the lock.                                  *)
(***************************************************************************)
\* Only what runs under the lock holds it; an event needs no lock, expires
\* nothing and is for its modes; goroutines are in hand at the end of a job.
ThreadOK(t) ==
    /\ th[t].pc = "run" <=> th[t].do # <<>>
    /\ th[t].pc \notin {"run", "ready"} => th[t].hand = {} /\ th[t].delta = 0
    /\ th[t].io => th[t].pc \in {"tag", "seterr", "run", "ready"}
    /\ th[t].pc \in {"tag", "seterr"} => th[t].io /\ th[t].modes # {}
    /\ pd.lock = t <=> th[t].pc = "run" /\ ~th[t].io
    /\ th[t].io => \A m \in Modes : /\ ~Has(th[t].do, <<"expire", m>>)
                                    /\ Has(th[t].do, <<"unblock", m>>) => m \in th[t].modes

JobInv == Mirrors(info, pd) /\ \A t \in Threads : ThreadOK(t)

LEMMA JobBusy == ASSUME JobInv PROVE Busy
  BY DEF JobInv, ThreadOK, Busy

LEMMA OpsOf == \A m \in Modes : <<"unblock", m>> \in Ops /\ <<"expire", m>> \in Ops
  BY DEF Ops

LEMMA NoLists == \A m \in Modes : ~Has(<<>>, <<"unblock", m>>) /\ ~Has(<<>>, <<"expire", m>>)
  BY ListsEmpty, OpsOf

\* Nobody's job changes.
LEMMA JobsQuiet ==
    ASSUME JobInv, th' = th, pd'.lock = pd.lock
    PROVE  \A u \in Threads : ThreadOK(u)'
  BY DEF JobInv, ThreadOK

\* Thread t goes on, with the lock or without.
LEMMA JobGoesOn ==
    ASSUME TypeOK, JobInv, NEW t \in Threads, Others(t), SameJob(t), GoesOn(t),
           th[t].io \/ pd.lock = t \/ pd.lock = Nobody,
           \A m \in Modes : th[t].io => /\ ~Has(th'[t].do, <<"expire", m>>)
                                        /\ Has(th'[t].do, <<"unblock", m>>) => m \in th[t].modes
    PROVE  \A u \in Threads : ThreadOK(u)'
<1>1. ThreadOK(t)' 
  BY PollAssumption DEF JobInv, ThreadOK, Others, SameJob, GoesOn
<1>2. ASSUME NEW u \in Threads, u # t PROVE ThreadOK(u)'
  BY <1>2, PollAssumption DEF JobInv, ThreadOK, Others, SameJob, GoesOn
<1>3. QED
  BY <1>1, <1>2

\* Thread t begins a job, ends one or goes on without the lock.
LEMMA JobBegins ==
    ASSUME TypeOK, JobInv, NEW t \in Threads, Others(t), pd'.lock = pd.lock, pd.lock # t,
           th'[t].pc # "run", th'[t].do = <<>>,
           th'[t].pc # "ready" => th'[t].hand = {} /\ th'[t].delta = 0,
           th'[t].io => th'[t].pc \in {"tag", "seterr", "ready"},
           th'[t].pc \in {"tag", "seterr"} => th'[t].io /\ th'[t].modes # {}
    PROVE  \A u \in Threads : ThreadOK(u)'
<1>1. ThreadOK(t)' 
  BY NoLists DEF JobInv, ThreadOK, Others
<1>2. ASSUME NEW u \in Threads, u # t PROVE ThreadOK(u)'
  BY <1>2 DEF JobInv, ThreadOK, Others
<1>3. QED
  BY <1>1, <1>2

LEMMA JobStep ==
    ASSUME TypeOK, JobInv, Next
    PROVE  JobInv'
<1> USE DEF JobInv
<1>1. ASSUME NEW m \in Modes, Read(m) \/ Goroutine(m) PROVE JobInv'
  <2>1. UNCHANGED <<th, pd, info>>
    BY <1>1 DEF Goroutine, Read, pollReset, pollResetStore, Syscall, SyscallEnds, WritesOn, SyscallEAGAIN, pollWait,
                netpollblock, recheck, netpollblockcommit, swap
  <2>2. QED
    BY <2>1, JobsQuiet DEF Mirrors
<1>2. ASSUME netpollopen \/ netpollopenFails \/ pollClose \/ AddWaiter \/ Arrive \/ Fail \/ Tick PROVE JobInv'
  <2>1. UNCHANGED <<th, pd, info>>
    BY <1>2 DEF netpollopen, netpollopenFails, pollClose, AddWaiter, Arrive, Fail, Tick
  <2>2. QED
    BY <2>1, JobsQuiet DEF Mirrors
<1>3. CASE free
  BY <1>3, FreeEffect, JobsQuiet DEF Freeing, free
<1>4. CASE pollOpen
  BY <1>4, OpenEffect, JobsQuiet DEF Opening, pollOpen
<1>5. ASSUME NEW t \in Threads, SetDeadline(t) PROVE JobInv'
  <2>1. PICK ms \in SUBSET Modes : Begins(t, "set", ms, 0, FALSE, FALSE)
    BY <1>5, SetDeadlineEffect
  <2>2. UNCHANGED <<pd, info>> /\ pd.lock # t
    BY <1>5 DEF SetDeadline, ThreadOK
  <2>3. QED
    BY <2>1, <2>2, JobBegins DEF Begins, Mirrors
<1>6. ASSUME NEW t \in Threads, Close(t) PROVE JobInv'
  <2>1. Begins(t, "evict", {}, 0, FALSE, FALSE)
    BY <1>6, CloseEffect
  <2>2. UNCHANGED <<pd, info>> /\ pd.lock # t
    BY <1>6 DEF Close, ThreadOK
  <2>3. QED
    BY <2>1, <2>2, JobBegins DEF Begins, Mirrors
<1>7. ASSUME NEW t \in Threads, Fire(t) PROVE JobInv'
  <2>1. PICK n \in Modes : Firing(t, n)
    BY <1>7, FireEffect
  <2>2. UNCHANGED <<pd, info>> /\ pd.lock # t
    BY <2>1 DEF Firing, ThreadOK
  <2>3. QED
    BY <2>1, <2>2, JobBegins DEF Firing, Begins, Mirrors
<1>8. ASSUME NEW t \in Threads, EpollWait(t) PROVE JobInv'
  <2>1. UNCHANGED <<pd, info>> /\ pd.lock # t
    BY <1>8 DEF EpollWait, ThreadOK
  <2>2. CASE GoesIdle(t)
    BY <2>1, <2>2, JobBegins DEF GoesIdle, Begins, Mirrors
  <2>3. ASSUME NEW ms \in SUBSET Modes, ms # {}, Begins(t, "tag", ms, socket.tag, socket.err, TRUE)
        PROVE  JobInv'
    BY <2>1, <2>3, JobBegins DEF Begins, Mirrors
  <2>4. QED
    BY <1>8, <2>2, <2>3, EpollEffect
<1>9. ASSUME NEW t \in Threads, netpollunblock(t) PROVE JobInv'
  <2>1. PICK m \in Modes : Unblocking(t, m)
    BY <1>9, UnblockEffect, JobBusy
  <2>2. /\ th[t].io \/ pd.lock = t
        /\ \A n \in Modes : th[t].io => /\ ~Has(th'[t].do, <<"expire", n>>)
                                        /\ Has(th'[t].do, <<"unblock", n>>) => n \in th[t].modes
    BY <2>1, OpsOf DEF Unblocking, ThreadOK
  <2>3. \A u \in Threads : ThreadOK(u)'
    BY <2>1, <2>2, JobGoesOn DEF Unblocking
  <2>4. QED
    BY <2>1, <2>3 DEF Unblocking, PdKept, Mirrors
<1>10. ASSUME NEW t \in Threads, Expire(t) PROVE JobInv'
  <2>1. PICK m \in Modes : Expiry(t, m)
    BY <1>10, ExpireEffect, JobBusy
  <2>2. ~th[t].io /\ pd.lock = t
    BY <2>1 DEF Expiry, ThreadOK
  <2>3. \A u \in Threads : ThreadOK(u)'
    BY <2>1, <2>2, JobGoesOn DEF Expiry
  <2>4. QED
    BY <2>1, <2>3 DEF Expiry
<1>11. ASSUME NEW t \in Threads, netpollgoready(t) PROVE JobInv'
  <2>1. PICK m \in Modes : Readying(t, m)
    BY <1>11, ReadyEffect
  <2>2. UNCHANGED <<pd, info>> /\ pd.lock # t /\ th'[t].do = <<>>
    BY <2>1 DEF Readying, ThreadOK
  <2>3. QED
    BY <2>1, <2>2, JobBegins DEF Readying, Mirrors
<1>12. ASSUME NEW t \in Threads, Adjust(t) PROVE JobInv'
  <2>1. GoesIdle(t)
    BY <1>12, AdjustEffect
  <2>2. UNCHANGED <<pd, info>> /\ pd.lock # t
    BY <1>12 DEF Adjust, ThreadOK
  <2>3. QED
    BY <2>1, <2>2, JobBegins DEF GoesIdle, Begins, Mirrors
<1>13. ASSUME NEW t \in Threads, pollSetDeadline(t) PROVE JobInv'
  <2>1. PICK delta \in Deltas, d \in [Modes -> Int] : Setting(t, d, delta)
    BY <1>13, SetEffect
  <2>2. ~th[t].io /\ pd.lock = Nobody
    BY <2>1 DEF Setting, ThreadOK
  <2>3. \A u \in Threads : ThreadOK(u)'
    BY <2>1, <2>2, JobGoesOn DEF Setting
  <2>4. QED
    BY <2>1, <2>3 DEF Setting
<1>14. ASSUME NEW t \in Threads, pollSetDeadlineClosing(t) PROVE JobInv'
  <2>1. UNCHANGED <<pd, info>> /\ pd.lock # t /\ th[t].do = <<>> /\ ~th[t].io
    BY <1>14 DEF pollSetDeadlineClosing, ThreadOK
  <2>2. QED
    BY <1>14, <2>1, ClosingEffect, JobBegins DEF Mirrors
<1>15. ASSUME NEW t \in Threads, netpolldeadlineimpl(t) PROVE JobInv'
  <2>1. CASE Starting(t)
    <3>1. ~th[t].io /\ pd.lock = Nobody
      BY <2>1 DEF Starting, ThreadOK
    <3>2. \A u \in Threads : ThreadOK(u)'
      BY <2>1, <3>1, JobGoesOn DEF Starting
    <3>3. QED
      BY <2>1, <3>2 DEF Starting, PdKept, Mirrors
  <2>2. CASE Stale(t)
    <3>1. UNCHANGED <<pd, info>> /\ pd.lock # t
      BY <2>2 DEF Stale, ThreadOK
    <3>2. QED
      BY <2>2, <3>1, JobBegins DEF Stale, GoesIdle, Begins, Mirrors
  <2>3. QED
    BY <1>15, <2>1, <2>2, DeadlineEffect
<1>16. ASSUME NEW t \in Threads, pollUnblock(t) PROVE JobInv'
  <2>1. Evicting(t)
    BY <1>16, EvictEffect
  <2>2. ~th[t].io /\ pd.lock = Nobody
    BY <2>1 DEF Evicting, ThreadOK
  <2>3. \A u \in Threads : ThreadOK(u)'
    BY <2>1, <2>2, JobGoesOn DEF Evicting
  <2>4. QED
    BY <2>1, <2>3 DEF Evicting
<1>17. ASSUME NEW t \in Threads, netpoll(t) PROVE JobInv'
  <2>1. UNCHANGED <<pd, info>> /\ pd.lock # t /\ th[t].do = <<>> /\ th[t].io /\ th[t].modes # {}
        /\ th[t].hand = {} /\ th[t].delta = 0
    BY <1>17 DEF netpoll, ThreadOK
  <2>2. CASE GoesIdle(t)
    BY <2>1, <2>2, JobBegins DEF GoesIdle, Begins, Mirrors
  <2>3. CASE ~GoesIdle(t)
    BY <1>17, <2>1, <2>3, NetpollEffect, JobBegins DEF SameJob, Mirrors
  <2>4. QED
    BY <2>2, <2>3
<1>18. ASSUME NEW t \in Threads, setEventErr(t) PROVE JobInv'
  <2>1. Reporting(t)
    BY <1>18, ReportEffect
  <2>2. ThreadOK(t)'
    BY <2>1 DEF Reporting, SameJob, ThreadOK
  <2>3. ASSUME NEW u \in Threads, u # t PROVE ThreadOK(u)'
    BY <2>1, <2>3 DEF Reporting, Others, ThreadOK
  <2>4. Mirrors(info, pd)'
    BY <2>1 DEF Reporting, Mirrors
  <2>5. QED
    BY <2>2, <2>3, <2>4
<1>19. QED
  BY <1>1, <1>2, <1>3, <1>4, <1>5, <1>6, <1>7, <1>8, <1>9, <1>10, <1>11, <1>12, <1>13, <1>14,
     <1>15, <1>16, <1>17, <1>18 DEF Next, Thread

-----------------------------------------------------------------------------
(***************************************************************************)
(* The semaphores, the goroutines, and the hands they are in.              *)
(***************************************************************************)
GppOK(m) ==
    /\ gpp[m] = "g" => pc[m] = "parked"
    /\ gpp[m] = "wait" => pc[m] \in {"recheck", "commit", "swap"}
    /\ \A t \in Threads : m \in th[t].hand => pc[m] = "parked" /\ gpp[m] # "g"

OneHand(m) == \A t, u \in Threads : m \in th[t].hand /\ m \in th[u].hand => t = u

HandInv == \A m \in Modes : GppOK(m) /\ OneHand(m)

\* A step that leaves the semaphores, the goroutines and what is in hand alone.
LEMMA HandsQuiet ==
    ASSUME HandInv, gpp' = gpp, pc' = pc, \A t \in Threads : th'[t].hand = th[t].hand
    PROVE  HandInv'
  BY DEF HandInv, GppOK, OneHand

\* A goroutine's own step.
LEMMA HandsOwn ==
    ASSUME TypeOK, HandInv, NEW m \in Modes, Read(m) \/ Goroutine(m)
    PROVE  HandInv'
<1>1. th' = th
  BY DEF Goroutine, Read, pollReset, pollResetStore, Syscall, SyscallEnds, WritesOn, SyscallEAGAIN, pollWait,
         netpollblock, recheck, netpollblockcommit, swap
<1>2. \A n \in Modes : n # m => pc'[n] = pc[n] /\ gpp'[n] = gpp[n]
  BY DEF TypeOK, Goto, Gpp, Return, Goroutine, Read, pollReset, pollResetStore, Syscall, SyscallEnds, WritesOn, SyscallEAGAIN,
         pollWait, netpollblock, recheck, netpollblockcommit, swap
<1>3. pc[m] # "parked" /\ (pc'[m] = "parked" <=> gpp'[m] = "g")
      /\ (gpp'[m] = "wait" => pc'[m] \in {"recheck", "commit", "swap"})
  <2>1. GppOK(m)
    BY DEF HandInv
  <2> USE DEF TypeOK, Goto, Gpp, GppOK, Pcs
  <2>2. CASE Read(m)
    BY <2>1, <2>2 DEF Read
  <2>3. CASE pollReset(m)
    BY <2>1, <2>3 DEF pollReset, Return
  <2>4. CASE pollResetStore(m)
    BY <2>1, <2>4 DEF pollResetStore, ResetTo
  <2>5. CASE Syscall(m)
    BY <2>1, <2>5 DEF Syscall, SyscallEnds, WritesOn, Return
  <2>6. CASE SyscallEAGAIN(m)
    BY <2>1, <2>6 DEF SyscallEAGAIN
  <2>7. CASE pollWait(m)
    BY <2>1, <2>7 DEF pollWait, Return
  <2>8. CASE netpollblock(m)
    BY <2>1, <2>8 DEF netpollblock
  <2>9. CASE recheck(m)
    BY <2>1, <2>9 DEF recheck
  <2>10. CASE netpollblockcommit(m)
    BY <2>1, <2>10 DEF netpollblockcommit
  <2>11. CASE swap(m)
    BY <2>1, <2>11 DEF swap
  <2>12. QED
    BY <2>2, <2>3, <2>4, <2>5, <2>6, <2>7, <2>8, <2>9, <2>10, <2>11 DEF Goroutine
<1>4. QED
  BY <1>1, <1>2, <1>3 DEF HandInv, GppOK, OneHand

LEMMA HandStep ==
    ASSUME TypeOK, JobInv, HandInv, Next
    PROVE  HandInv'
<1>1. ASSUME NEW m \in Modes, Read(m) \/ Goroutine(m) PROVE HandInv'
  BY <1>1, HandsOwn
<1>2. ASSUME \/ netpollopen \/ netpollopenFails \/ pollClose \/ AddWaiter \/ Arrive \/ Fail \/ Tick \/ free
      PROVE  HandInv'
  <2>1. UNCHANGED <<th, gpp, pc>>
    BY <1>2 DEF netpollopen, netpollopenFails, pollClose, AddWaiter, Arrive, Fail, Tick, free
  <2>2. QED
    BY <2>1, HandsQuiet
<1>3. CASE pollOpen
  BY <1>3 DEF pollOpen, HandInv, GppOK, OneHand
<1>4. ASSUME NEW t \in Threads, SetDeadline(t) \/ Close(t) \/ Fire(t) \/ EpollWait(t) \/ Adjust(t)
             \/ netpoll(t) \/ pollSetDeadline(t) \/ pollSetDeadlineClosing(t) \/ netpolldeadlineimpl(t)
             \/ pollUnblock(t) \/ setEventErr(t) \/ Expire(t)
      PROVE  HandInv'
  <2>1. UNCHANGED <<gpp, pc>>
    BY <1>4 DEF SetDeadline, Close, Fire, EpollWait, Adjust, netpoll, pollSetDeadline,
                pollSetDeadlineClosing, netpolldeadlineimpl, pollUnblock, setEventErr, Expire
  <2>2. Others(t) /\ th'[t].hand = th[t].hand
    <3> USE DEF JobInv, ThreadOK
    <3>1. CASE SetDeadline(t)
      BY <3>1, SetDeadlineEffect DEF SetDeadline, Begins
    <3>2. CASE Close(t)
      BY <3>2, CloseEffect DEF Close, Begins
    <3>3. CASE Fire(t)
      <4>1. PICK n \in Modes : Firing(t, n)
        BY <3>3, FireEffect
      <4>2. Others(t) /\ th'[t].hand = {} /\ th[t].pc = "idle"
        BY <4>1 DEF Firing, Begins
      <4>3. QED
        BY <4>2
    <3>4. CASE EpollWait(t)
      <4>1. Others(t) /\ th'[t].hand = {}
        BY <3>4, EpollEffect DEF GoesIdle, Begins
      <4>2. QED
        BY <3>4, <4>1 DEF EpollWait
    <3>5. CASE Adjust(t)
      <4>1. Others(t) /\ th'[t].hand = {}
        BY <3>5, AdjustEffect DEF GoesIdle, Begins
      <4>2. QED
        BY <3>5, <4>1 DEF Adjust
    <3>6. CASE netpoll(t)
      <4>1. th[t].hand = {}
        BY <3>6 DEF netpoll
      <4>2. QED
        BY <3>6, <4>1, NetpollEffect DEF GoesIdle, Begins
    <3>7. CASE pollSetDeadline(t)
      BY <3>7, SetEffect DEF Setting
    <3>8. CASE pollSetDeadlineClosing(t)
      BY <3>8, ClosingEffect
    <3>9. CASE netpolldeadlineimpl(t)
      BY <3>9, DeadlineEffect DEF Starting, Stale, GoesIdle, Begins
    <3>10. CASE pollUnblock(t)
      BY <3>10, EvictEffect DEF Evicting
    <3>11. CASE setEventErr(t)
      BY <3>11, ReportEffect DEF Reporting
    <3>12. CASE Expire(t)
      BY <3>12, ExpireEffect, JobBusy DEF Expiry
    <3>13. QED
      BY <1>4, <3>1, <3>2, <3>3, <3>4, <3>5, <3>6, <3>7, <3>8, <3>9, <3>10, <3>11, <3>12
  <2>3. QED
    BY <2>1, <2>2, HandsQuiet DEF Others
<1>5. ASSUME NEW t \in Threads, netpollunblock(t) PROVE HandInv'
  <2>1. PICK m \in Modes : Unblocking(t, m)
    BY <1>5, UnblockEffect, JobBusy
  <2>2. gpp'[m] # "g" /\ gpp'[m] # "wait" /\ \A n \in Modes : n # m => gpp'[n] = gpp[n]
    BY <2>1 DEF Unblocking, Unblocked, TypeOK
  <2>3. pc' = pc /\ Others(t) /\ th'[t].hand = IF gpp[m] = "g" THEN th[t].hand \cup {m} ELSE th[t].hand
    BY <2>1 DEF Unblocking
  <2>4. ASSUME NEW n \in Modes, n # m PROVE GppOK(n)' /\ OneHand(n)'
    BY <2>2, <2>3, <2>4 DEF HandInv, GppOK, OneHand, Others
  <2>5. GppOK(m)' /\ OneHand(m)'
    BY <2>2, <2>3 DEF HandInv, GppOK, OneHand, Others
  <2>6. QED
    BY <2>4, <2>5 DEF HandInv
<1>6. ASSUME NEW t \in Threads, netpollgoready(t) PROVE HandInv'
  <2>1. PICK m \in Modes : Readying(t, m)
    BY <1>6, ReadyEffect
  <2>2. pc'[m] = "swap" /\ gpp' = gpp /\ \A n \in Modes : n # m => pc'[n] = pc[n]
    BY <2>1 DEF Readying, TypeOK
  <2>3. Others(t) /\ th'[t].hand = th[t].hand \ {m} /\ m \in th[t].hand
    BY <2>1 DEF Readying
  <2>4. ASSUME NEW n \in Modes, n # m PROVE GppOK(n)' /\ OneHand(n)'
    BY <2>2, <2>3, <2>4 DEF HandInv, GppOK, OneHand, Others
  <2>5. GppOK(m)' /\ OneHand(m)'
    BY <2>2, <2>3 DEF HandInv, GppOK, OneHand, Others
  <2>6. QED
    BY <2>4, <2>5 DEF HandInv
<1>7. QED
  BY <1>1, <1>2, <1>3, <1>4, <1>5, <1>6 DEF Next, Thread

-----------------------------------------------------------------------------
(***************************************************************************)
(* The life of the poll.FD and of its pollDesc.                            *)
(***************************************************************************)
\* What a thread's job says about its use of the poll.FD.
UseOK(t) ==
    /\ th[t].pc \in {"idle", "fired"} \/ th[t].io => use[t] = "none"
    /\ th[t].pc = "set" => use[t] = "misc"
    /\ th[t].pc = "evict" => use[t] = "close"

Everyone == Modes \cup Threads

LifeInv ==
    /\ \A m \in Modes : use[m] = "none" <=> pc[m] = "idle"
    /\ \A t \in Threads : UseOK(t)
    /\ phase = "closed" => \A g \in Everyone : use[g] = "none"
    /\ slot = "used" <=> phase # "closed"
    /\ phase = "closing" => pd.closing \/ \E t \in Threads : th[t].pc = "evict"

\* Nobody's use changes.
LEMMA LifeQuiet ==
    ASSUME TypeOK, LifeInv, UNCHANGED <<phase, use, slot>>, pd.closing => pd'.closing,
           \A m \in Modes : pc'[m] = "idle" <=> pc[m] = "idle",
           \A t \in Threads : UseOK(t)' /\ (th[t].pc = "evict" => th'[t].pc = "evict" \/ pd'.closing)
    PROVE  LifeInv'
  BY DEF LifeInv

LEMMA LifeOwn ==
    ASSUME TypeOK, LifeInv, NEW m \in Modes, Read(m) \/ Goroutine(m)
    PROVE  LifeInv'
<1>1. UNCHANGED <<th, pd, slot>> /\ m \notin Threads /\ m # "none"
  BY PollAssumption DEF Modes, Goroutine, Read, pollReset, pollResetStore, Syscall, SyscallEnds, WritesOn, SyscallEAGAIN, pollWait,
         netpollblock, recheck, netpollblockcommit, swap
<1>2. CASE Read(m)
  <2>1. phase' = phase /\ phase = "open" /\ use' = [use EXCEPT ![m] = m] /\ pc' = [pc EXCEPT ![m] = "prepare"]
    BY <1>2 DEF Read, Life!Enter, Goto, Modes
  <2>2. QED
    BY <1>1, <2>1 DEF LifeInv, TypeOK, UseOK
<1>3. ASSUME Return(m), pc[m] # "idle" PROVE LifeInv'
  <2>1. phase' = phase /\ use' = [use EXCEPT ![m] = "none"] /\ pc' = [pc EXCEPT ![m] = "idle"]
    BY <1>3 DEF Return, Life!Leave, Goto
  <2>2. QED
    BY <1>1, <2>1 DEF LifeInv, TypeOK, UseOK, Everyone
<1>4. ASSUME NEW to, Goto(m, to), UNCHANGED <<phase, use>>, pc[m] # "idle", to # "idle" PROVE LifeInv'
  <2>1. pc' = [pc EXCEPT ![m] = to]
    BY <1>4 DEF Goto
  <2>2. \A n \in Modes : pc'[n] = "idle" <=> pc[n] = "idle"
    BY <1>4, <2>1 DEF TypeOK
  <2>3. QED
    BY <1>1, <1>4, <2>2 DEF LifeInv, UseOK, Everyone
<1>5. CASE pollReset(m)
  BY <1>3, <1>4, <1>5 DEF pollReset, life
<1>6. CASE pollResetStore(m)
  BY <1>4, <1>6 DEF pollResetStore, ResetTo
<1>7. CASE Syscall(m)
  <2>1. CASE SyscallEnds(m)
    BY <1>3, <2>1 DEF SyscallEnds
  <2>2. CASE WritesOn(m)
    BY <1>1, <2>2 DEF WritesOn, LifeInv, UseOK, Everyone
  <2>3. QED
    BY <1>7, <2>1, <2>2 DEF Syscall
<1>8. CASE SyscallEAGAIN(m)
  BY <1>4, <1>8 DEF SyscallEAGAIN
<1>9. CASE pollWait(m)
  BY <1>3, <1>4, <1>9 DEF pollWait, life
<1>10. CASE netpollblock(m)
  BY <1>4, <1>10 DEF netpollblock
<1>11. CASE recheck(m)
  BY <1>4, <1>11 DEF recheck
<1>12. CASE netpollblockcommit(m)
  BY <1>4, <1>12 DEF netpollblockcommit
<1>13. CASE swap(m)
  BY <1>4, <1>13 DEF swap
<1>14. QED
  BY <1>2, <1>5, <1>6, <1>7, <1>8, <1>9, <1>10, <1>11, <1>12, <1>13 DEF Goroutine

\* A thread's job changes, and its use does not.
LEMMA LifeJob ==
    ASSUME TypeOK, LifeInv, NEW t \in Threads, Others(t), UNCHANGED <<phase, use, slot>>,
           pd.closing => pd'.closing, \A m \in Modes : pc'[m] = "idle" <=> pc[m] = "idle",
           UseOK(t)', th[t].pc = "evict" => pd'.closing
    PROVE  LifeInv'
<1>1. \A u \in Threads : UseOK(u)' /\ (th[u].pc = "evict" => th'[u].pc = "evict" \/ pd'.closing)
  BY DEF LifeInv, Others, UseOK
<1>2. QED
  BY <1>1, LifeQuiet

LEMMA LifeStep ==
    ASSUME TypeOK, JobInv, HandInv, LifeInv, Next
    PROVE  LifeInv'
<1>1. ASSUME NEW m \in Modes, Read(m) \/ Goroutine(m) PROVE LifeInv'
  BY <1>1, LifeOwn
<1>2. ASSUME AddWaiter \/ Arrive \/ Fail \/ Tick PROVE LifeInv'
  <2>1. UNCHANGED <<phase, use, slot, pc, pd, th>>
    BY <1>2 DEF AddWaiter, Arrive, Fail, Tick
  <2>2. QED
    BY <2>1 DEF LifeInv, UseOK
<1>3. CASE pollClose
  BY <1>3 DEF pollClose, Life!Destroy, LifeInv, UseOK, Everyone
<1>4. CASE free
  BY <1>4, FreeEffect DEF free, Freeing, LifeInv, UseOK
<1>5. CASE pollOpen
  BY <1>5 DEF pollOpen, LifeInv, UseOK, TypeOK
<1>6. CASE netpollopen
  BY <1>6 DEF netpollopen, LifeInv, UseOK
<1>7. CASE netpollopenFails
  BY <1>7 DEF netpollopenFails, LifeInv, UseOK
<1>8. ASSUME NEW t \in Threads, SetDeadline(t) PROVE LifeInv'
  <2>1. PICK ms \in SUBSET Modes : Begins(t, "set", ms, 0, FALSE, FALSE)
    BY <1>8, SetDeadlineEffect
  <2>2. /\ phase' = phase /\ phase = "open" /\ use' = [use EXCEPT ![t] = "misc"] /\ t \notin Modes
        /\ UNCHANGED <<pd, slot, pc>>
    BY <1>8, PollAssumption DEF SetDeadline, Life!Enter
  <2>3. Others(t) /\ th'[t].pc = "set" /\ ~th'[t].io
    BY <2>1 DEF Begins
  <2>4. \A u \in Threads : UseOK(u)'
    BY <2>2, <2>3 DEF LifeInv, TypeOK, UseOK, Others
  <2>5. QED
    BY <2>2, <2>4 DEF LifeInv, TypeOK
<1>9. ASSUME NEW t \in Threads, Close(t) PROVE LifeInv'
  <2>1. Begins(t, "evict", {}, 0, FALSE, FALSE)
    BY <1>9, CloseEffect
  <2>2. /\ phase' = "closing" /\ phase = "open" /\ use' = [use EXCEPT ![t] = "close"] /\ t \notin Modes
        /\ UNCHANGED <<pd, slot, pc>>
    BY <1>9, PollAssumption DEF Close, Life!Enter
  <2>3. Others(t) /\ th'[t].pc = "evict" /\ ~th'[t].io
    BY <2>1 DEF Begins
  <2>4. \A u \in Threads : UseOK(u)'
    BY <2>2, <2>3 DEF LifeInv, TypeOK, UseOK, Others
  <2>5. QED
    BY <2>2, <2>3, <2>4 DEF LifeInv, TypeOK
<1>10. ASSUME NEW t \in Threads, Adjust(t) PROVE LifeInv'
  <2>1. Others(t) /\ th'[t].pc = "idle" /\ ~th'[t].io
    BY <1>10, AdjustEffect DEF GoesIdle, Begins
  <2>2. UNCHANGED <<pd, slot, pc, phase>> /\ th[t].pc = "ready" /\ t \notin Modes
    BY <1>10, PollAssumption DEF Adjust, life, Life!Leave
  <2>3. use' = [use EXCEPT ![t] = "none"]
    BY <1>10 DEF Adjust, life, Life!Leave, TypeOK
  <2>4. \A u \in Threads : UseOK(u)'
    BY <2>1, <2>3 DEF LifeInv, TypeOK, UseOK, Others
  <2>5. QED
    BY <2>1, <2>2, <2>3, <2>4 DEF LifeInv, TypeOK, Everyone, Others
<1>11. ASSUME NEW t \in Threads, Fire(t) PROVE LifeInv'
  <2>1. PICK n \in Modes : Firing(t, n)
    BY <1>11, FireEffect
  <2>2. Others(t) /\ th'[t].pc = "fired" /\ th[t].pc = "idle" /\ UNCHANGED <<phase, use, slot, pd, pc>>
        /\ ~th'[t].io
    BY <2>1 DEF Firing, Begins
  <2>3. UseOK(t)'
    BY <2>2 DEF LifeInv, UseOK
  <2>4. QED
    BY <2>2, <2>3, LifeJob
<1>12. ASSUME NEW t \in Threads, EpollWait(t) PROVE LifeInv'
  <2>1. Others(t) /\ (th'[t].io \/ th'[t].pc = "idle") /\ th'[t].pc \in {"tag", "idle"}
    BY <1>12, EpollEffect DEF GoesIdle, Begins
  <2>2. th[t].pc = "idle" /\ UNCHANGED <<phase, use, slot, pd, pc>>
    BY <1>12 DEF EpollWait
  <2>3. UseOK(t)'
    BY <2>1, <2>2 DEF LifeInv, UseOK
  <2>4. QED
    BY <2>1, <2>2, <2>3, LifeJob
<1>13. ASSUME NEW t \in Threads, netpollunblock(t) PROVE LifeInv'
  <2>1. PICK m \in Modes : Unblocking(t, m)
    BY <1>13, UnblockEffect, JobBusy
  <2>2. /\ Others(t) /\ th'[t].pc \in {"ready", "run"} /\ th'[t].io = th[t].io /\ th[t].pc = "run"
        /\ pd'.closing = pd.closing /\ UNCHANGED <<phase, use, slot, pc>>
    BY <2>1 DEF Unblocking, SameJob, GoesOn, PdKept
  <2>3. UseOK(t)'
    BY <2>2 DEF LifeInv, UseOK
  <2>4. QED
    BY <2>2, <2>3, LifeJob
<1>14. ASSUME NEW t \in Threads, Expire(t) PROVE LifeInv'
  <2>1. PICK m \in Modes : Expiry(t, m)
    BY <1>14, ExpireEffect, JobBusy
  <2>2. /\ Others(t) /\ th'[t].pc \in {"ready", "run"} /\ th'[t].io = th[t].io /\ th[t].pc = "run"
        /\ pd'.closing = pd.closing /\ UNCHANGED <<phase, use, slot, pc>>
    BY <2>1 DEF Expiry, SameJob, GoesOn
  <2>3. UseOK(t)'
    BY <2>2 DEF LifeInv, UseOK
  <2>4. QED
    BY <2>2, <2>3, LifeJob
<1>15. ASSUME NEW t \in Threads, netpollgoready(t) PROVE LifeInv'
  <2>1. PICK m \in Modes : Readying(t, m)
    BY <1>15, ReadyEffect
  <2>2. /\ Others(t) /\ th'[t].pc = "ready" /\ th'[t].io = th[t].io /\ th[t].pc = "ready"
        /\ UNCHANGED <<phase, use, slot, pd>>
    BY <2>1 DEF Readying, SameJob
  <2>3. pc[m] = "parked" /\ pc' = [pc EXCEPT ![m] = "swap"]
    BY <2>1 DEF Readying, HandInv, GppOK
  <2>4. \A n \in Modes : pc'[n] = "idle" <=> pc[n] = "idle"
    BY <2>3 DEF TypeOK
  <2>5. UseOK(t)'
    BY <2>2 DEF LifeInv, UseOK
  <2>6. QED
    BY <2>2, <2>4, <2>5, LifeJob
<1>16. ASSUME NEW t \in Threads, pollSetDeadline(t) PROVE LifeInv'
  <2>1. PICK delta \in Deltas, d \in [Modes -> Int] : Setting(t, d, delta)
    BY <1>16, SetEffect
  <2>2. /\ Others(t) /\ th'[t].pc \in {"ready", "run"} /\ th'[t].io = th[t].io /\ th[t].pc = "set"
        /\ pd'.closing = pd.closing /\ UNCHANGED <<phase, use, slot, pc>>
    BY <2>1 DEF Setting, SameJob, GoesOn
  <2>3. UseOK(t)'
    BY <2>2 DEF LifeInv, UseOK
  <2>4. QED
    BY <2>2, <2>3, LifeJob
<1>17. ASSUME NEW t \in Threads, pollSetDeadlineClosing(t) PROVE LifeInv'
  <2>1. Others(t) /\ th'[t].pc = "ready" /\ th'[t].io = th[t].io
    BY <1>17, ClosingEffect DEF SameJob
  <2>2. th[t].pc = "set" /\ UNCHANGED <<phase, use, slot, pd, pc>>
    BY <1>17 DEF pollSetDeadlineClosing
  <2>3. UseOK(t)'
    BY <2>1, <2>2 DEF LifeInv, UseOK
  <2>4. QED
    BY <2>1, <2>2, <2>3, LifeJob
<1>18. ASSUME NEW t \in Threads, netpolldeadlineimpl(t) PROVE LifeInv'
  <2>1. /\ Others(t) /\ th'[t].pc \in {"ready", "run", "idle"} /\ th[t].pc = "fired"
        /\ (th'[t].io = th[t].io \/ ~th'[t].io)
        /\ pd'.closing = pd.closing /\ UNCHANGED <<phase, use, slot, pc>>
    BY <1>18, DeadlineEffect DEF Starting, Stale, GoesIdle, Begins, SameJob, GoesOn, PdKept
  <2>2. UseOK(t)'
    BY <2>1 DEF LifeInv, UseOK
  <2>3. QED
    BY <2>1, <2>2, LifeJob
<1>19. ASSUME NEW t \in Threads, pollUnblock(t) PROVE LifeInv'
  <2>1. Evicting(t)
    BY <1>19, EvictEffect
  <2>2. /\ Others(t) /\ th'[t].pc \in {"ready", "run"} /\ th'[t].io = th[t].io
        /\ pd'.closing /\ UNCHANGED <<phase, use, slot, pc>>
    BY <2>1 DEF Evicting, SameJob, GoesOn
  <2>3. UseOK(t)'
    BY <2>2 DEF LifeInv, UseOK
  <2>4. QED
    BY <2>2, <2>3, LifeJob
<1>20. ASSUME NEW t \in Threads, netpoll(t) PROVE LifeInv'
  <2>1. /\ Others(t) /\ th'[t].pc \in {"seterr", "idle"} /\ (th'[t].io = th[t].io \/ ~th'[t].io)
    BY <1>20, NetpollEffect DEF GoesIdle, Begins, SameJob
  <2>2. th[t].pc = "tag" /\ th[t].io /\ UNCHANGED <<phase, use, slot, pd, pc>>
    BY <1>20 DEF netpoll, JobInv, ThreadOK
  <2>3. UseOK(t)'
    BY <2>1, <2>2 DEF LifeInv, UseOK
  <2>4. QED
    BY <2>1, <2>2, <2>3, LifeJob
<1>21. ASSUME NEW t \in Threads, setEventErr(t) PROVE LifeInv'
  <2>1. Reporting(t)
    BY <1>21, ReportEffect
  <2>2. /\ Others(t) /\ th'[t].pc = "run" /\ th'[t].io = th[t].io /\ th[t].pc = "seterr"
        /\ UNCHANGED <<phase, use, slot, pd, pc>>
    BY <2>1 DEF Reporting, SameJob
  <2>3. UseOK(t)'
    BY <2>2 DEF LifeInv, UseOK
  <2>4. QED
    BY <2>2, <2>3, LifeJob
<1>22. QED
  BY <1>1, <1>2, <1>3, <1>4, <1>5, <1>6, <1>7, <1>8, <1>9, <1>10, <1>11, <1>12, <1>13, <1>14,
     <1>15, <1>16, <1>17, <1>18, <1>19, <1>20, <1>21 DEF Next, Thread

-----------------------------------------------------------------------------
(***************************************************************************)
(* One thread at most closes a poll.FD, and it finds the pollDesc open.    *)
(***************************************************************************)
Evicts(t) == th[t].pc = "evict"

EvictInv ==
    /\ slot = "opened" \/ phase = "open" => ~pd.closing
    /\ \A t \in Threads : Evicts(t) => phase = "closing" /\ ~pd.closing
    /\ \A t, u \in Threads : Evicts(t) /\ Evicts(u) => t = u

\* Nobody begins or ends a Close.
LEMMA EvictQuiet ==
    ASSUME EvictInv, UNCHANGED <<phase, slot>>, pd'.closing = pd.closing,
           \A t \in Threads : Evicts(t)' => Evicts(t)
    PROVE  EvictInv'
  BY DEF EvictInv

\* Thread t is not on its way into pollUnblock.
LEMMA EvictJob ==
    ASSUME EvictInv, NEW t \in Threads, Others(t), th'[t].pc # "evict",
           UNCHANGED <<phase, slot>>, pd'.closing = pd.closing
    PROVE  EvictInv'
  BY EvictQuiet DEF Others, Evicts

LEMMA EvictStep ==
    ASSUME TypeOK, JobInv, LifeInv, EvictInv, Next
    PROVE  EvictInv'
<1>1. ASSUME NEW m \in Modes, Read(m) \/ Goroutine(m) PROVE EvictInv'
  <2>1. UNCHANGED <<th, pd, slot>>
    BY <1>1 DEF Goroutine, Read, pollReset, pollResetStore, Syscall, SyscallEnds, WritesOn, SyscallEAGAIN,
                pollWait, netpollblock, recheck, netpollblockcommit, swap
  <2>2. phase' = phase
    BY <1>1 DEF Goroutine, Read, pollReset, pollResetStore, Syscall, SyscallEnds, WritesOn, SyscallEAGAIN,
                pollWait, netpollblock, recheck, netpollblockcommit, swap, Return, life, Life!Enter, Life!Leave,
                Modes
  <2>3. QED
    BY <2>1, <2>2, EvictQuiet DEF Evicts
<1>2. ASSUME AddWaiter \/ Arrive \/ Fail \/ Tick PROVE EvictInv'
  <2>1. UNCHANGED <<phase, slot, pd, th>>
    BY <1>2 DEF AddWaiter, Arrive, Fail, Tick
  <2>2. QED
    BY <2>1, EvictQuiet DEF Evicts
<1>3. CASE pollClose
  <2>1. /\ phase' = "closed" /\ slot' = "closed" /\ UNCHANGED <<pd, th>>
        /\ \A t \in Threads : use[t] = "none"
    BY <1>3 DEF pollClose, Life!Destroy
  <2>2. QED
    BY <2>1 DEF EvictInv, Evicts, LifeInv, UseOK
<1>4. CASE free
  BY <1>4, FreeEffect DEF free, Freeing, EvictInv, Evicts
<1>5. CASE pollOpen
  <2>1. pd'.closing = FALSE /\ UNCHANGED <<phase, th>>
    BY <1>5, OpenEffect DEF Opening, pollOpen
  <2>2. QED
    BY <2>1 DEF EvictInv, Evicts
<1>6. CASE netpollopen
  <2>1. phase = "closed" /\ slot = "opened" /\ UNCHANGED <<pd, th>>
    BY <1>6 DEF netpollopen, LifeInv
  <2>2. QED
    BY <2>1 DEF EvictInv, Evicts
<1>7. CASE netpollopenFails
  BY <1>7 DEF netpollopenFails, EvictInv, Evicts
<1>8. ASSUME NEW t \in Threads, SetDeadline(t) PROVE EvictInv'
  <2>1. PICK ms \in SUBSET Modes : Begins(t, "set", ms, 0, FALSE, FALSE)
    BY <1>8, SetDeadlineEffect
  <2>2. UNCHANGED <<phase, slot, pd>>
    BY <1>8 DEF SetDeadline, Life!Enter
  <2>3. QED
    BY <2>1, <2>2, EvictJob DEF Begins
<1>9. ASSUME NEW t \in Threads, Close(t) PROVE EvictInv'
  <2>1. Others(t)
    BY <1>9, CloseEffect DEF Begins
  <2>2. phase = "open" /\ phase' = "closing" /\ UNCHANGED <<slot, pd>>
    BY <1>9 DEF Close, Life!Enter
  <2>3. ~pd.closing /\ slot # "opened" /\ \A u \in Threads : ~Evicts(u)
    BY <2>2 DEF EvictInv, LifeInv
  <2>4. \A u \in Threads : Evicts(u)' => u = t
    BY <2>1, <2>3 DEF Others, Evicts
  <2>5. QED
    BY <2>2, <2>3, <2>4 DEF EvictInv
<1>10. ASSUME NEW t \in Threads, Adjust(t) PROVE EvictInv'
  <2>1. Others(t) /\ th'[t].pc = "idle"
    BY <1>10, AdjustEffect DEF GoesIdle, Begins
  <2>2. UNCHANGED <<phase, slot, pd>>
    BY <1>10 DEF Adjust, life, Life!Leave
  <2>3. QED
    BY <2>1, <2>2, EvictJob
<1>11. ASSUME NEW t \in Threads, Fire(t) PROVE EvictInv'
  <2>1. PICK n \in Modes : Firing(t, n)
    BY <1>11, FireEffect
  <2>2. QED
    BY <2>1, EvictJob DEF Firing, Begins
<1>12. ASSUME NEW t \in Threads, EpollWait(t) PROVE EvictInv'
  <2>1. Others(t) /\ th'[t].pc \in {"tag", "idle"}
    BY <1>12, EpollEffect DEF GoesIdle, Begins
  <2>2. QED
    BY <1>12, <2>1, EvictJob DEF EpollWait
<1>13. ASSUME NEW t \in Threads, netpollunblock(t) PROVE EvictInv'
  <2>1. PICK m \in Modes : Unblocking(t, m)
    BY <1>13, UnblockEffect, JobBusy
  <2>2. QED
    BY <2>1, EvictJob DEF Unblocking, GoesOn, PdKept
<1>14. ASSUME NEW t \in Threads, Expire(t) PROVE EvictInv'
  <2>1. PICK m \in Modes : Expiry(t, m)
    BY <1>14, ExpireEffect, JobBusy
  <2>2. QED
    BY <2>1, EvictJob DEF Expiry, GoesOn
<1>15. ASSUME NEW t \in Threads, netpollgoready(t) PROVE EvictInv'
  <2>1. PICK m \in Modes : Readying(t, m)
    BY <1>15, ReadyEffect
  <2>2. QED
    BY <2>1, EvictJob DEF Readying
<1>16. ASSUME NEW t \in Threads, pollSetDeadline(t) PROVE EvictInv'
  <2>1. PICK delta \in Deltas, d \in [Modes -> Int] : Setting(t, d, delta)
    BY <1>16, SetEffect
  <2>2. QED
    BY <2>1, EvictJob DEF Setting, GoesOn
<1>17. ASSUME NEW t \in Threads, pollSetDeadlineClosing(t) PROVE EvictInv'
  BY <1>17, ClosingEffect, EvictJob DEF pollSetDeadlineClosing
<1>18. ASSUME NEW t \in Threads, netpolldeadlineimpl(t) PROVE EvictInv'
  <2>1. /\ Others(t) /\ th'[t].pc \in {"ready", "run", "idle"}
        /\ pd'.closing = pd.closing /\ UNCHANGED <<phase, slot>>
    BY <1>18, DeadlineEffect DEF Starting, Stale, GoesIdle, Begins, GoesOn, PdKept
  <2>2. QED
    BY <2>1, EvictJob
<1>19. ASSUME NEW t \in Threads, pollUnblock(t) PROVE EvictInv'
  <2>1. Evicting(t)
    BY <1>19, EvictEffect
  <2>2. Evicts(t) /\ Others(t) /\ th'[t].pc \in {"ready", "run"} /\ UNCHANGED <<phase, slot>>
    BY <2>1 DEF Evicting, GoesOn, Evicts
  <2>3. phase = "closing" /\ slot # "opened" /\ \A u \in Threads : Evicts(u) => u = t
    BY <2>2 DEF EvictInv, LifeInv
  <2>4. \A u \in Threads : ~Evicts(u)'
    BY <2>2, <2>3 DEF Others, Evicts
  <2>5. QED
    BY <2>2, <2>3, <2>4 DEF EvictInv
<1>20. ASSUME NEW t \in Threads, netpoll(t) PROVE EvictInv'
  <2>1. Others(t) /\ th'[t].pc \in {"seterr", "idle"}
    BY <1>20, NetpollEffect DEF GoesIdle, Begins
  <2>2. QED
    BY <1>20, <2>1, EvictJob DEF netpoll
<1>21. ASSUME NEW t \in Threads, setEventErr(t) PROVE EvictInv'
  BY <1>21, ReportEffect, EvictJob DEF Reporting
<1>22. QED
  BY <1>1, <1>2, <1>3, <1>4, <1>5, <1>6, <1>7, <1>8, <1>9, <1>10, <1>11, <1>12, <1>13, <1>14,
     <1>15, <1>16, <1>17, <1>18, <1>19, <1>20, <1>21 DEF Next, Thread

-----------------------------------------------------------------------------
(***************************************************************************)
(* Timers and deadlines. A timer is armed, or a thread holds it: it fired   *)
(* and is still valid, or it is expiring its modes under the lock. The two  *)
(* exclude each other, and a timer has one holder at most.                  *)
(***************************************************************************)
\* The timer that runs for the modes ms.
Owner(ms) == IF "r" \in ms THEN "r" ELSE "w"

FiredFor(t, n) == th[t].pc = "fired" /\ Owner(th[t].modes) = n /\ th[t].seq = pd.seq[n]
WillRun(t, m) == Has(th[t].do, <<"expire", m>>)
RunsFor(t, n) == Owner(th[t].modes) = n /\ \E m \in Modes : WillRun(t, m)
Holds(t, n) == FiredFor(t, n) \/ RunsFor(t, n)
Live(n) == timer[n].armed \/ \E t \in Threads : Holds(t, n)

SeqOK(t) == th[t].pc = "fired" => th[t].seq <= pd.seq[Owner(th[t].modes)]

\* Timer n is set up for the deadlines as they are.
Fits(n) == timer[n].f = TimerFor(pd.d, n) /\ timer[n].f # {}

ArmedOK(n) == timer[n].armed => Fits(n) /\ timer[n].when = pd.d[n] /\ timer[n].seq = pd.seq[n]
FiredOK(t, n) ==
    FiredFor(t, n) => Fits(n) /\ th[t].modes = timer[n].f /\ pd.d[n] <= now /\ ~timer[n].armed
RunsOK(t, n) ==
    RunsFor(t, n) => /\ timer[n].f = th[t].modes /\ ~timer[n].armed
                     /\ \A m \in Modes : WillRun(t, m) => m \in th[t].modes /\ 0 < pd.d[m] /\ pd.d[m] <= now
OneHolder(n) == \A t, u \in Threads : Holds(t, n) /\ Holds(u, n) => t = u

\* The read timer serves both modes: the write timer is out of use.
Apart == Live("r") /\ timer["r"].f = Modes => ~Live("w")

\* Somebody watches the deadline of mode m.
WatchedOK(m) ==
    pd.d[m] > 0 /\ ~pd.closing =>
        \/ \E n \in Modes : m \in timer[n].f /\ (timer[n].armed \/ \E t \in Threads : FiredFor(t, n))
        \/ \E t \in Threads : WillRun(t, m)

\* What the deadline of mode m says about the time the caller asked for.
AskedOK(m) ==
    /\ pd.d[m] < 0 => asked[m] # 0 /\ asked[m] <= now
    /\ pd.d[m] > 0 => pd.d[m] = INT_MAX \/ asked[m] = pd.d[m]

Unarmed == pd.closing \/ slot # "used" => \A n \in Modes : ~timer[n].armed
Clock == 1 <= now /\ now < INT_MAX

TimerInv ==
    /\ \A t \in Threads : SeqOK(t) /\ \A n \in Modes : FiredOK(t, n) /\ RunsOK(t, n)
    /\ \A n \in Modes : ArmedOK(n) /\ OneHolder(n) /\ WatchedOK(n) /\ AskedOK(n)
    /\ Apart /\ Unarmed /\ Clock

LEMMA TimerForFacts ==
    ASSUME NEW d \in [Modes -> Int], NEW n \in Modes, TimerFor(d, n) # {}
    PROVE  /\ Owner(TimerFor(d, n)) = n /\ d[n] > 0 /\ n \in TimerFor(d, n)
           /\ \A m \in TimerFor(d, n) : m \in Modes /\ d[m] = d[n]
           /\ TimerFor(d, n) = Modes => n = "r" /\ Combo(d) /\ TimerFor(d, "w") = {}
           /\ TimerFor(d, n) # Modes => TimerFor(d, n) = {n} /\ ~Combo(d)
  BY DEF TimerFor, Owner, Combo, Modes

\* A holder of a timer expires under the lock, so there is one of them at most.
LEMMA RunnerLocks ==
    ASSUME TypeOK, JobInv, NEW t \in Threads, NEW m \in Modes, WillRun(t, m)
    PROVE  pd.lock = t /\ th[t].pc = "run"
<1>1. th[t].do # <<>>
  BY NoLists DEF WillRun
<1>2. QED
  BY <1>1 DEF WillRun, JobInv, ThreadOK

\* A thread's step that is not about timers.
QuietJob(t) ==
    /\ th'[t].pc = "fired" => th[t].pc = "fired" /\ th'[t].modes = th[t].modes /\ th'[t].seq = th[t].seq
    /\ \A n \in Modes : FiredFor(t, n) => th'[t].pc = "fired" /\ th'[t].modes = th[t].modes
                                          /\ th'[t].seq = th[t].seq
    /\ \A m \in Modes : WillRun(t, m)' <=> WillRun(t, m)
    /\ \A m \in Modes : WillRun(t, m) => th'[t].modes = th[t].modes

LEMMA TimersQuiet ==
    ASSUME TypeOK, TypeOK', TimerInv, \A t \in Threads : QuietJob(t),
           pd'.d = pd.d, pd'.seq = pd.seq, pd'.closing = pd.closing, timer' = timer, asked' = asked,
           now <= now', now' < INT_MAX,
           slot' # "used" => pd.closing \/ slot # "used"
    PROVE  TimerInv'
<1>1. ASSUME NEW t \in Threads, NEW n \in Modes
      PROVE  /\ FiredFor(t, n)' <=> FiredFor(t, n)
             /\ RunsFor(t, n)' <=> RunsFor(t, n)
             /\ Holds(t, n) => th'[t].modes = th[t].modes
  BY DEF QuietJob, FiredFor, RunsFor, Holds
<1>2. \A t \in Threads, n \in Modes : Holds(t, n)' <=> Holds(t, n)
  BY <1>1 DEF Holds
<1>3. \A n \in Modes : (Fits(n)' <=> Fits(n)) /\ (Live(n)' <=> Live(n))
  BY <1>2 DEF Fits, Live
<1>4. ASSUME NEW t \in Threads PROVE SeqOK(t)' /\ \A n \in Modes : FiredOK(t, n)' /\ RunsOK(t, n)'
  <2>1. SeqOK(t)'
    BY DEF TimerInv, SeqOK, QuietJob
  <2>2. now \in Int /\ now' \in Int /\ pd.d \in [Modes -> Int]
    BY DEF TypeOK, PdType
  <2>3. ASSUME NEW n \in Modes PROVE FiredOK(t, n)'
    BY <1>1, <1>3, <2>2 DEF TimerInv, FiredOK, Holds
  <2>4. ASSUME NEW n \in Modes PROVE RunsOK(t, n)'
    BY <1>1, <2>2 DEF TimerInv, RunsOK, Holds, QuietJob
  <2>5. QED
    BY <2>1, <2>3, <2>4
<1>5. ASSUME NEW n \in Modes PROVE ArmedOK(n)' /\ OneHolder(n)' /\ WatchedOK(n)' /\ AskedOK(n)'
  <2>1. ArmedOK(n)'
    BY <1>3 DEF TimerInv, ArmedOK
  <2>2. OneHolder(n)'
    BY <1>2 DEF TimerInv, OneHolder
  <2>3. WatchedOK(n)'
    BY <1>1 DEF TimerInv, WatchedOK, QuietJob
  <2>4. AskedOK(n)'
    BY DEF TypeOK, TimerInv, AskedOK
  <2>5. QED
    BY <2>1, <2>2, <2>3, <2>4
<1>6. Apart' /\ Unarmed' /\ Clock'
  BY <1>3 DEF TypeOK, TimerInv, Apart, Unarmed, Clock, Modes
<1>7. QED
  BY <1>4, <1>5, <1>6 DEF TimerInv

\* The timer of mode n fires: thread t holds it.
LEMMA TimerFires ==
    ASSUME TypeOK, TypeOK', JobInv, TimerInv, NEW t \in Threads, NEW n \in Modes, Firing(t, n)
    PROVE  TimerInv'
<1>1. /\ Fits(n) /\ timer[n].when = pd.d[n] /\ timer[n].seq = pd.seq[n] /\ pd.d[n] <= now
      /\ \A u \in Threads : ~Holds(u, n)
  BY DEF TimerInv, ArmedOK, Firing, FiredOK, RunsOK, Holds
<1>2. /\ UNCHANGED <<pd, now, slot, asked>> /\ Others(t) /\ th[t].pc = "idle" /\ th'[t].pc = "fired"
      /\ th'[t].modes = timer[n].f /\ th'[t].seq = timer[n].seq /\ th'[t].do = <<>>
  BY DEF Firing, Begins
<1>3. /\ timer[n].armed /\ ~timer'[n].armed /\ timer'[n].f = timer[n].f
      /\ \A m \in Modes : m # n => timer'[m] = timer[m]
  BY DEF Firing
<1>4. pd.d \in [Modes -> Int] /\ Owner(timer[n].f) = n
  BY <1>1, TimerForFacts DEF TypeOK, PdType, Fits
<1>5. \A k \in Modes : ~Holds(t, k)
  BY <1>2, NoLists DEF Holds, FiredFor, RunsFor, WillRun, JobInv, ThreadOK
<1>6. /\ \A m \in Modes : ~WillRun(t, m)' /\ ~WillRun(t, m)
      /\ \A k \in Modes : (FiredFor(t, k)' <=> k = n) /\ ~RunsFor(t, k)' /\ (Holds(t, k)' <=> k = n)
  <2>1. \A m \in Modes : ~WillRun(t, m)' /\ ~WillRun(t, m)
    BY <1>2, NoLists DEF WillRun, JobInv, ThreadOK
  <2>2. \A k \in Modes : FiredFor(t, k)' <=> k = n
    BY <1>1, <1>2, <1>4 DEF FiredFor
  <2>3. QED
    BY <2>1, <2>2 DEF RunsFor, Holds
<1>7. ASSUME NEW u \in Threads, u # t
      PROVE  /\ th'[u] = th[u]
             /\ \A k \in Modes : /\ WillRun(u, k)' <=> WillRun(u, k)
                                 /\ FiredFor(u, k)' <=> FiredFor(u, k)
                                 /\ RunsFor(u, k)' <=> RunsFor(u, k)
                                 /\ Holds(u, k)' <=> Holds(u, k)
  BY <1>2, <1>7 DEF Others, WillRun, FiredFor, RunsFor, Holds
<1>8. \A k \in Modes : (Fits(k)' <=> Fits(k)) /\ timer'[k].f = timer[k].f
  BY <1>2, <1>3 DEF Fits
<1>9. \A k \in Modes : Live(k)' => Live(k)
  BY <1>3, <1>6, <1>7 DEF Live
<1>10. \A k \in Modes : timer'[k].armed => k # n /\ timer'[k] = timer[k] /\ timer[k].armed
  BY <1>3
<1>11. SeqOK(t)' /\ \A k \in Modes : FiredOK(t, k)' /\ RunsOK(t, k)'
  <2>1. SeqOK(t)'
    BY <1>1, <1>2, <1>4 DEF SeqOK, TypeOK, PdType
  <2>2. QED
    BY <1>1, <1>2, <1>3, <1>6, <1>8, <2>1 DEF FiredOK, RunsOK
<1>12. ASSUME NEW u \in Threads, u # t PROVE SeqOK(u)' /\ \A k \in Modes : FiredOK(u, k)' /\ RunsOK(u, k)'
  <2>1. SeqOK(u)'
    BY <1>2, <1>7, <1>12 DEF TimerInv, SeqOK
  <2>2. ASSUME NEW k \in Modes PROVE FiredOK(u, k)'
    BY <1>2, <1>7, <1>8, <1>10, <1>12 DEF TimerInv, FiredOK
  <2>3. ASSUME NEW k \in Modes PROVE RunsOK(u, k)'
    BY <1>2, <1>7, <1>8, <1>10, <1>12 DEF TimerInv, RunsOK
  <2>4. QED
    BY <2>1, <2>2, <2>3
<1>13. ASSUME NEW k \in Modes PROVE ArmedOK(k)' /\ OneHolder(k)' /\ WatchedOK(k)' /\ AskedOK(k)'
  <2>1. ArmedOK(k)'
    BY <1>2, <1>8, <1>10 DEF TimerInv, ArmedOK
  <2>2. OneHolder(k)'
    BY <1>1, <1>6, <1>7 DEF TimerInv, OneHolder
  <2>3. WatchedOK(k)'
    <3>1. ASSUME pd.d[k] > 0, ~pd.closing, NEW j \in Modes, k \in timer[j].f,
                 timer[j].armed \/ \E u \in Threads : FiredFor(u, j)
          PROVE  k \in timer'[j].f /\ (timer'[j].armed \/ \E u \in Threads : FiredFor(u, j)')
      BY <1>3, <1>5, <1>6, <1>7, <1>8, <3>1 DEF Holds
    <3>2. ASSUME NEW u \in Threads, WillRun(u, k) PROVE WillRun(u, k)'
      BY <1>6, <1>7, <3>2
    <3>3. QED
      BY <1>2, <3>1, <3>2 DEF TimerInv, WatchedOK
  <2>4. AskedOK(k)'
    BY <1>2 DEF TimerInv, AskedOK
  <2>5. QED
    BY <2>1, <2>2, <2>3, <2>4
<1>14. Apart' /\ Unarmed' /\ Clock'
  BY <1>2, <1>8, <1>9, <1>10 DEF TimerInv, Apart, Unarmed, Clock, Modes
<1>15. QED
  BY <1>11, <1>12, <1>13, <1>14 DEF TimerInv

\* A valid timer goes on to expire its modes.
LEMMA TimerStarts ==
    ASSUME TypeOK, TypeOK', JobInv, TimerInv, NEW t \in Threads, Starting(t)
    PROVE  TimerInv'
<1> DEFINE n == Owner(th[t].modes)
<1>1. n \in Modes /\ pd.seq[n] = CurrentSeq(th[t].modes)
  BY DEF Owner, CurrentSeq, Modes
<1>2. FiredFor(t, n)
  BY <1>1 DEF FiredFor, Starting
<1>3. /\ Fits(n) /\ th[t].modes = timer[n].f /\ pd.d[n] <= now /\ ~timer[n].armed
  BY <1>1, <1>2 DEF TimerInv, FiredOK
<1>4. /\ pd.d \in [Modes -> Int] /\ th[t].modes \in SUBSET Modes /\ pd.d[n] > 0
      /\ \A m \in th[t].modes : m \in Modes /\ pd.d[m] = pd.d[n]
  BY <1>1, <1>3, TimerForFacts DEF TypeOK, PdType, ThreadType, Fits
<1>5. /\ UNCHANGED <<timer, now, slot, asked>> /\ Others(t) /\ th'[t].pc # "fired"
      /\ th'[t].modes = th[t].modes /\ pd'.d = pd.d /\ pd'.seq = pd.seq /\ pd'.closing = pd.closing
      /\ \A m \in Modes : WillRun(t, m)' <=> m \in th[t].modes
  BY DEF Starting, SameJob, GoesOn, PdKept, WillRun
<1>6. \A u \in Threads, m \in Modes : ~WillRun(u, m)
  <2>1. \A u \in Threads : pd.lock # u
    BY PollAssumption DEF Starting
  <2>2. QED
    BY <2>1, RunnerLocks
<1>7. \A k \in Modes : ~FiredFor(t, k)' /\ (RunsFor(t, k)' => k = n) /\ (Holds(t, k)' => k = n)
  BY <1>5 DEF FiredFor, RunsFor, Holds
<1>8. ASSUME NEW u \in Threads, u # t
      PROVE  /\ th'[u] = th[u]
             /\ \A k \in Modes : /\ ~WillRun(u, k)' /\ ~RunsFor(u, k)'
                                 /\ FiredFor(u, k)' <=> FiredFor(u, k)
                                 /\ Holds(u, k)' => Holds(u, k)
  BY <1>5, <1>6, <1>8 DEF Others, WillRun, FiredFor, RunsFor, Holds
<1>9. \A k \in Modes : (Fits(k)' <=> Fits(k)) /\ (Live(k)' => Live(k))
  BY <1>2, <1>5, <1>7, <1>8 DEF Fits, Live, Holds
<1> HIDE DEF n
<1>10. SeqOK(t)' /\ \A k \in Modes : FiredOK(t, k)' /\ RunsOK(t, k)'
  <2>1. SeqOK(t)' /\ \A k \in Modes : FiredOK(t, k)'
    BY <1>5, <1>7 DEF SeqOK, FiredOK
  <2>2. \A k \in Modes : RunsOK(t, k)'
    BY <1>3, <1>4, <1>5, <1>7 DEF RunsOK
  <2>3. QED
    BY <2>1, <2>2
<1>11. ASSUME NEW u \in Threads, u # t PROVE SeqOK(u)' /\ \A k \in Modes : FiredOK(u, k)' /\ RunsOK(u, k)'
  BY <1>5, <1>8, <1>9, <1>11 DEF TimerInv, SeqOK, FiredOK, RunsOK
<1>12. ASSUME NEW k \in Modes PROVE ArmedOK(k)' /\ OneHolder(k)' /\ WatchedOK(k)' /\ AskedOK(k)'
  <2>1. ArmedOK(k)'
    BY <1>5, <1>9 DEF TimerInv, ArmedOK
  <2>2. OneHolder(k)'
    <3>1. ASSUME NEW u \in Threads, Holds(u, k)' PROVE Holds(u, k)
      BY <1>2, <1>7, <1>8, <3>1 DEF Holds
    <3>2. QED
      BY <3>1 DEF TimerInv, OneHolder
  <2>3. WatchedOK(k)'
    <3>1. ASSUME NEW j \in Modes, k \in timer[j].f, timer[j].armed \/ \E u \in Threads : FiredFor(u, j)
          PROVE  \/ k \in timer'[j].f /\ (timer'[j].armed \/ \E u \in Threads : FiredFor(u, j)')
                 \/ \E u \in Threads : WillRun(u, k)'
      <4>1. CASE FiredFor(t, j)
        <5>1. k \in th[t].modes
          BY <3>1, <4>1 DEF TimerInv, FiredOK
        <5>2. QED
          BY <1>5, <5>1
      <4>2. CASE ~FiredFor(t, j)
        BY <1>5, <1>8, <3>1, <4>2
      <4>3. QED
        BY <4>1, <4>2
    <3>2. QED
      BY <1>5, <1>6, <3>1 DEF TimerInv, WatchedOK
  <2>4. AskedOK(k)'
    BY <1>5 DEF TimerInv, AskedOK
  <2>5. QED
    BY <2>1, <2>2, <2>3, <2>4
<1>13. Apart' /\ Unarmed' /\ Clock'
  BY <1>5, <1>9 DEF TimerInv, Apart, Unarmed, Clock, Modes
<1>14. QED
  BY <1>10, <1>11, <1>12, <1>13 DEF TimerInv

\* The deadline of mode m is over; the other timer, if it is in use, still fits.
LEMMA TimerExpires ==
    ASSUME TypeOK, TypeOK', JobInv, TimerInv, NEW t \in Threads, NEW m \in Modes, Expiry(t, m)
    PROVE  TimerInv'
<1> DEFINE n == Owner(th[t].modes)
<1>1. /\ UNCHANGED <<timer, now, slot, asked>> /\ Others(t) /\ th'[t].pc # "fired" /\ th[t].pc = "run"
      /\ th'[t].modes = th[t].modes /\ pd'.seq = pd.seq /\ pd'.closing = pd.closing
      /\ pd.d \in [Modes -> Int] /\ pd'.d \in [Modes -> Int] /\ now \in Int
      /\ pd'.d[m] = -1 /\ \A k \in Modes : k # m => pd'.d[k] = pd.d[k]
  BY DEF Expiry, SameJob, GoesOn, TypeOK, PdType
<1>2. /\ WillRun(t, m) /\ ~WillRun(t, m)'
      /\ \A k \in Modes : k # m => (WillRun(t, k)' <=> WillRun(t, k))
  BY OpsOf DEF Expiry, WillRun
<1>3. n \in Modes /\ RunsFor(t, n) /\ Holds(t, n)
  BY <1>2 DEF Owner, Modes, RunsFor, Holds
<1>4. /\ timer[n].f = th[t].modes /\ ~timer[n].armed /\ m \in th[t].modes
      /\ \A k \in Modes : WillRun(t, k) => 0 < pd.d[k] /\ pd.d[k] <= now
  BY <1>2, <1>3 DEF TimerInv, RunsOK
<1>5. \A u \in Threads, k \in Modes : u # t => ~WillRun(u, k)
  <2>1. pd.lock = t
    BY <1>2, RunnerLocks
  <2>2. QED
    BY <2>1, RunnerLocks
<1>6. \A k \in Modes : ~FiredFor(t, k)' /\ ~FiredFor(t, k) /\ (RunsFor(t, k)' => k = n) /\ (Holds(t, k)' => k = n)
  BY <1>1 DEF FiredFor, RunsFor, Holds
<1>7. ASSUME NEW u \in Threads, u # t
      PROVE  /\ th'[u] = th[u]
             /\ \A k \in Modes : /\ ~WillRun(u, k)' /\ ~RunsFor(u, k)'
                                 /\ FiredFor(u, k)' <=> FiredFor(u, k)
                                 /\ Holds(u, k)' => Holds(u, k)
  BY <1>1, <1>5, <1>7 DEF Others, WillRun, FiredFor, RunsFor, Holds
<1>8. \A k \in Modes, u \in Threads : Holds(u, k)' => Holds(u, k)
  BY <1>3, <1>6, <1>7
<1>9. \A k \in Modes : Live(k)' => Live(k)
  BY <1>1, <1>8 DEF Live
<1>10. ASSUME NEW k \in Modes, k # n, Live(k), Fits(k) PROVE Fits(k)' /\ pd'.d[k] = pd.d[k]
  <2>1. Live(n)
    BY <1>3 DEF Live
  <2>2. timer[k].f # Modes /\ timer[n].f # Modes
    <3>1. CASE timer[n].f = Modes
      BY <1>3, <1>4, <1>10, <2>1, <3>1 DEF TimerInv, Apart, Owner, Modes
    <3>2. CASE timer[k].f = Modes
      <4>1. k = "r"
        BY <1>1, <1>10, <3>2, TimerForFacts DEF Fits
      <4>2. n = "w"
        BY <1>3, <1>10, <4>1 DEF Modes
      <4>3. QED
        BY <1>10, <2>1, <3>2, <4>1, <4>2 DEF TimerInv, Apart
    <3>3. QED
      BY <3>1, <3>2
  <2>3. m = n
    <3>1. th[t].modes \in SUBSET Modes /\ th[t].modes # Modes /\ m \in th[t].modes
      BY <1>4, <2>2 DEF TypeOK, ThreadType
    <3>2. ~("r" \in th[t].modes /\ "w" \in th[t].modes)
      BY <3>1 DEF Modes
    <3>3. QED
      BY <3>1, <3>2 DEF Owner, Modes
  <2>4. timer[k].f = {k} /\ pd.d[k] > 0
    BY <1>1, <1>10, <2>2, TimerForFacts DEF Fits
  <2>5. pd'.d[k] = pd.d[k] /\ ~Combo(pd'.d)
    BY <1>1, <1>10, <2>3 DEF Combo, Modes
  <2>6. TimerFor(pd'.d, k) = {k}
    BY <1>1, <2>4, <2>5 DEF TimerFor
  <2>7. QED
    BY <1>1, <2>4, <2>5, <2>6 DEF Fits
<1> HIDE DEF n
<1>11. SeqOK(t)' /\ \A k \in Modes : FiredOK(t, k)' /\ RunsOK(t, k)'
  <2>1. SeqOK(t)' /\ \A k \in Modes : FiredOK(t, k)'
    BY <1>1, <1>6 DEF SeqOK, FiredOK
  <2>2. ASSUME NEW k \in Modes, RunsFor(t, k)' PROVE RunsOK(t, k)'
    <3>1. k = n
      BY <1>6, <2>2
    <3>2. \A j \in Modes : WillRun(t, j)' => j \in th[t].modes /\ 0 < pd'.d[j] /\ pd'.d[j] <= now
      BY <1>1, <1>2, <1>3, <1>4 DEF TimerInv, RunsOK
    <3>3. QED
      BY <1>1, <1>4, <3>1, <3>2 DEF RunsOK
  <2>3. QED
    BY <2>1, <2>2 DEF RunsOK
<1>12. ASSUME NEW u \in Threads, u # t PROVE SeqOK(u)' /\ \A k \in Modes : FiredOK(u, k)' /\ RunsOK(u, k)'
  <2>1. SeqOK(u)' /\ \A k \in Modes : RunsOK(u, k)'
    BY <1>1, <1>7, <1>12 DEF TimerInv, SeqOK, RunsOK
  <2>2. ASSUME NEW k \in Modes, FiredFor(u, k)' PROVE FiredOK(u, k)'
    <3>1. FiredFor(u, k) /\ Holds(u, k) /\ Live(k) /\ FiredOK(u, k)
      BY <1>7, <1>12, <2>2 DEF Holds, Live, TimerInv
    <3>2. k # n
      BY <1>3, <1>12, <3>1 DEF TimerInv, OneHolder
    <3>3. Fits(k)' /\ pd'.d[k] = pd.d[k]
      BY <1>10, <3>1, <3>2 DEF FiredOK
    <3>4. QED
      BY <1>1, <1>7, <1>12, <3>1, <3>3 DEF FiredOK
  <2>3. QED
    BY <2>1, <2>2 DEF FiredOK
<1>13. ASSUME NEW k \in Modes PROVE ArmedOK(k)' /\ OneHolder(k)' /\ WatchedOK(k)' /\ AskedOK(k)'
  <2>1. ArmedOK(k)'
    <3>1. SUFFICES ASSUME timer[k].armed PROVE ArmedOK(k)'
      BY <1>1 DEF ArmedOK
    <3>2. k # n /\ Live(k) /\ Fits(k) /\ timer[k].when = pd.d[k] /\ timer[k].seq = pd.seq[k]
      BY <1>4, <3>1 DEF Live, TimerInv, ArmedOK
    <3>3. QED
      BY <1>1, <1>10, <3>2 DEF ArmedOK
  <2>2. OneHolder(k)'
    BY <1>8 DEF TimerInv, OneHolder
  <2>3. WatchedOK(k)'
    <3>1. SUFFICES ASSUME pd'.d[k] > 0, ~pd'.closing PROVE WatchedOK(k)'
      BY DEF WatchedOK
    <3>2. k # m /\ pd.d[k] > 0 /\ ~pd.closing
      BY <1>1, <3>1
    <3>3. \A j \in Modes, u \in Threads : FiredFor(u, j) => FiredFor(u, j)'
      BY <1>6, <1>7
    <3>4. \A u \in Threads : WillRun(u, k) => WillRun(u, k)'
      BY <1>2, <1>5, <3>2
    <3>5. QED
      BY <1>1, <3>2, <3>3, <3>4 DEF TimerInv, WatchedOK
  <2>4. AskedOK(k)'
    <3>1. CASE k = m
      <4>1. 0 < pd.d[m] /\ pd.d[m] <= now /\ now < INT_MAX /\ INT_MAX \in Int
        BY <1>2, <1>4, PollAssumption DEF TimerInv, Clock, INT_MAX
      <4>2. asked[m] = pd.d[m]
        BY <1>1, <4>1 DEF TimerInv, AskedOK
      <4>3. QED
        BY <1>1, <3>1, <4>1, <4>2 DEF AskedOK
    <3>2. CASE k # m
      BY <1>1, <3>2 DEF TimerInv, AskedOK
    <3>3. QED
      BY <3>1, <3>2
  <2>5. QED
    BY <2>1, <2>2, <2>3, <2>4
<1>14. Apart' /\ Unarmed' /\ Clock'
  BY <1>1, <1>9 DEF TimerInv, Apart, Unarmed, Clock, Modes
<1>15. QED
  BY <1>11, <1>12, <1>13, <1>14 DEF TimerInv

\* The lock is free: nobody is expiring.
LEMMA NobodyRuns ==
    ASSUME TypeOK, JobInv, pd.lock = Nobody
    PROVE  \A u \in Threads, m \in Modes : ~WillRun(u, m)
<1>1. \A u \in Threads : pd.lock # u
  BY PollAssumption
<1>2. QED
  BY <1>1, RunnerLocks

\* All timers become invalid, and none is armed.
LEMMA TimersInvalid ==
    ASSUME TypeOK, TypeOK', JobInv, TimerInv, pd.lock = Nobody,
           \A n \in Modes : pd'.seq[n] = pd.seq[n] + 1 /\ ~timer'[n].armed,
           \A u \in Threads : /\ th'[u].pc = "fired" => th'[u] = th[u]
                              /\ \A m \in Modes : ~WillRun(u, m)',
           \A m \in Modes : AskedOK(m)' /\ (pd'.closing \/ pd'.d[m] = 0), now' = now
    PROVE  TimerInv'
<1>1. ASSUME NEW u \in Threads, NEW n \in Modes PROVE ~FiredFor(u, n)' /\ ~RunsFor(u, n)'
  <2>1. th'[u].pc = "fired" => th'[u].seq <= pd.seq[Owner(th'[u].modes)]
    BY DEF TimerInv, SeqOK
  <2>2. th'[u].seq \in Int /\ pd.seq[n] \in Int /\ pd'.seq[n] \in Int
    BY DEF TypeOK, ThreadType, PdType
  <2>3. QED
    BY <2>1, <2>2 DEF FiredFor, RunsFor
<1>2. \A u \in Threads : SeqOK(u)'
  <2>1. ASSUME NEW u \in Threads, th'[u].pc = "fired" PROVE SeqOK(u)'
    <3>1. Owner(th[u].modes) \in Modes /\ th'[u] = th[u]
      BY <2>1 DEF Owner, Modes
    <3>2. QED
      BY <2>1, <3>1 DEF TimerInv, SeqOK, TypeOK, ThreadType, PdType
  <2>2. QED
    BY <2>1 DEF SeqOK
<1>3. \A n \in Modes : ~Live(n)'
  BY <1>1 DEF Live, Holds
<1>4. \A u \in Threads, n \in Modes : FiredOK(u, n)' /\ RunsOK(u, n)' /\ ArmedOK(n)' /\ OneHolder(n)'
  BY <1>1 DEF FiredOK, RunsOK, ArmedOK, OneHolder, Holds
<1>5. \A n \in Modes : WatchedOK(n)' /\ ArmedOK(n)' /\ OneHolder(n)'
  BY <1>1 DEF WatchedOK, ArmedOK, OneHolder, Holds
<1>6. Apart' /\ Unarmed' /\ Clock'
  BY <1>3 DEF TimerInv, Apart, Unarmed, Clock, Modes
<1>7. QED
  BY <1>2, <1>4, <1>5, <1>6 DEF TimerInv

\* New deadlines: the timers that are kept still fit, the others are new, and
\* what fired for a timer that is not kept is invalid.
LEMMA TimersSet ==
    ASSUME TypeOK, TypeOK', JobInv, LifeInv, TimerInv, NEW t \in Threads,
           NEW delta \in Deltas, NEW d \in [Modes -> Int], Setting(t, d, delta)
    PROVE  TimerInv'
<1>1. /\ UNCHANGED <<now, slot>> /\ Others(t) /\ th[t].pc = "set" /\ th'[t].pc # "fired" /\ ~pd.closing
      /\ pd'.d = d /\ pd'.closing = pd.closing /\ \A m \in Modes : ~WillRun(t, m)'
      /\ \A m \in Modes : pd'.seq[m] = IF Invalidates(d, m) THEN pd.seq[m] + 1 ELSE pd.seq[m]
      /\ \A m \in Modes : timer'[m] = NewTimer(d, m, pd'.seq[m])
  BY DEF Setting, GoesOn, WillRun
<1>2. \A u \in Threads, m \in Modes : ~WillRun(u, m)
  BY NobodyRuns DEF Setting
<1>3. \A u \in Threads : u # t => th'[u] = th[u] /\ \A m \in Modes : ~WillRun(u, m)'
  BY <1>1, <1>2 DEF Others, WillRun
<1>4. \A u \in Threads, k \in Modes : ~RunsFor(u, k) /\ ~RunsFor(u, k)' /\ ~FiredFor(t, k)' /\ ~FiredFor(t, k)
  BY <1>1, <1>2, <1>3 DEF RunsFor, FiredFor
<1>5. pd.d \in [Modes -> Int] /\ pd.seq \in [Modes -> Nat] /\ pd'.seq \in [Modes -> Nat] /\ now \in Int
  BY DEF TypeOK, PdType
<1>6. \A k \in Modes : pd.seq[k] <= pd'.seq[k] /\ (Invalidates(d, k) => pd.seq[k] < pd'.seq[k])
  BY <1>1, <1>5
\* A timer that is in use is kept or new.
<1>7. ASSUME NEW k \in Modes, timer[k].f # {}, ~Changed(d, k)
      PROVE  /\ timer'[k] = timer[k] /\ pd'.seq[k] = pd.seq[k] /\ d[k] = pd.d[k]
             /\ TimerFor(d, k) = TimerFor(pd.d, k)
  BY <1>1, <1>7 DEF NewTimer, Invalidates, Changed, TimerFor
<1>8. ASSUME NEW k \in Modes, NEW u \in Threads, FiredFor(u, k)'
      PROVE  /\ FiredFor(u, k) /\ th'[u] = th[u] /\ Fits(k)' /\ timer'[k] = timer[k] /\ d[k] = pd.d[k]
  <2>1. u # t /\ th'[u] = th[u] /\ th[u].pc = "fired" /\ Owner(th[u].modes) = k /\ th[u].seq = pd'.seq[k]
    BY <1>3, <1>4, <1>8 DEF FiredFor
  <2>2. th[u].seq <= pd.seq[k] /\ th[u].seq \in Int
    BY <2>1 DEF TimerInv, SeqOK, TypeOK, ThreadType
  <2>3. ~Invalidates(d, k) /\ th[u].seq = pd.seq[k]
    BY <1>5, <1>6, <2>1, <2>2
  <2>4. FiredFor(u, k)
    BY <2>1, <2>3 DEF FiredFor
  <2>5. Fits(k)
    BY <2>4 DEF TimerInv, FiredOK
  <2>6. ~Changed(d, k) /\ timer[k].f # {}
    BY <2>3, <2>5 DEF Invalidates, Fits
  <2>7. QED
    BY <1>1, <1>7, <2>1, <2>4, <2>5, <2>6 DEF Fits
<1>9. ASSUME NEW k \in Modes, timer'[k].armed
      PROVE  ArmedOK(k)' /\ Fits(k)'
  <2>1. CASE timer[k].f # {} /\ ~Changed(d, k)
    <3>1. timer'[k] = timer[k] /\ pd'.seq[k] = pd.seq[k] /\ d[k] = pd.d[k] /\ TimerFor(d, k) = TimerFor(pd.d, k)
      BY <1>7, <2>1
    <3>2. Fits(k) /\ timer[k].when = pd.d[k] /\ timer[k].seq = pd.seq[k]
      BY <1>9, <3>1 DEF TimerInv, ArmedOK
    <3>3. QED
      BY <1>1, <3>1, <3>2 DEF ArmedOK, Fits
  <2>2. CASE ~(timer[k].f # {} /\ ~Changed(d, k))
    <3>1. TimerFor(d, k) # {}
      <4>1. TimerFor(d, k) = {} => timer'[k] = NoTimer
        BY <1>1, <2>2 DEF NewTimer
      <4>2. ~NoTimer.armed
        BY DEF NoTimer
      <4>3. QED
        BY <1>9, <4>1, <4>2
    <3>2. timer'[k] = [f |-> TimerFor(d, k), when |-> d[k], seq |-> pd'.seq[k], armed |-> TRUE]
      BY <1>1, <2>2, <3>1 DEF NewTimer
    <3>3. QED
      BY <1>1, <3>1, <3>2 DEF ArmedOK, Fits
  <2>3. QED
    BY <2>1, <2>2
<1>10. ASSUME NEW k \in Modes, Live(k)' PROVE Fits(k)'
  BY <1>4, <1>8, <1>9, <1>10 DEF Live, Holds
<1>11. ASSUME NEW u \in Threads PROVE SeqOK(u)' /\ \A k \in Modes : FiredOK(u, k)' /\ RunsOK(u, k)'
  <2>1. SeqOK(u)'
    <3>1. SUFFICES ASSUME th'[u].pc = "fired" PROVE SeqOK(u)'
      BY DEF SeqOK
    <3>2. Owner(th[u].modes) \in Modes /\ th'[u] = th[u] /\ th[u].seq \in Int
      BY <1>1, <1>3, <3>1 DEF Owner, Modes, TypeOK, ThreadType
    <3>3. QED
      BY <1>5, <1>6, <3>1, <3>2 DEF TimerInv, SeqOK
  <2>2. ASSUME NEW k \in Modes, FiredFor(u, k)' PROVE FiredOK(u, k)'
    <3>1. /\ FiredFor(u, k) /\ th'[u] = th[u] /\ Fits(k)' /\ timer'[k] = timer[k] /\ d[k] = pd.d[k]
      BY <1>8, <2>2
    <3>2. th[u].modes = timer[k].f /\ pd.d[k] <= now /\ ~timer[k].armed
      BY <3>1 DEF TimerInv, FiredOK
    <3>3. QED
      BY <1>1, <3>1, <3>2 DEF FiredOK
  <2>3. QED
    BY <1>4, <2>1, <2>2 DEF FiredOK, RunsOK
<1>12. ASSUME NEW k \in Modes PROVE ArmedOK(k)' /\ OneHolder(k)' /\ WatchedOK(k)' /\ AskedOK(k)'
  <2>1. ArmedOK(k)'
    BY <1>9 DEF ArmedOK
  <2>2. OneHolder(k)'
    BY <1>4, <1>8 DEF TimerInv, OneHolder, Holds
  <2>3. WatchedOK(k)'
    <3>1. SUFFICES ASSUME d[k] > 0 PROVE WatchedOK(k)'
      BY <1>1 DEF WatchedOK
    <3>2. PICK n \in Modes : k \in TimerFor(d, n)
      <4>1. CASE Combo(d)
        BY <4>1 DEF TimerFor, Modes
      <4>2. CASE ~Combo(d)
        BY <3>1, <4>2 DEF TimerFor
      <4>3. QED
        BY <4>1, <4>2
    <3>3. /\ TimerFor(d, n) # {} /\ d[n] > 0
          /\ TimerFor(d, n) = Modes => n = "r"
          /\ TimerFor(d, n) # Modes => TimerFor(d, n) = {n} /\ ~Combo(d)
      BY <3>2, TimerForFacts
    <3>4. CASE timer[n].f # {} /\ ~Changed(d, n)
      <4>1. timer'[n] = timer[n] /\ pd'.seq[n] = pd.seq[n] /\ d[n] = pd.d[n] /\ TimerFor(d, n) = TimerFor(pd.d, n)
        BY <1>7, <3>4
      <4>2. PICK j \in Modes : n \in timer[j].f /\ (timer[j].armed \/ \E u \in Threads : FiredFor(u, j))
        BY <1>1, <1>2, <3>3, <4>1 DEF TimerInv, WatchedOK
      <4>3. timer[j].f = TimerFor(pd.d, j) /\ timer[j].f # {}
        BY <4>2 DEF TimerInv, ArmedOK, FiredOK, Fits
      <4>4. j = n
        BY <3>3, <4>1, <4>2, <4>3 DEF TimerFor, Modes
      <4>5. \A u \in Threads : FiredFor(u, n) => FiredFor(u, n)'
        BY <1>3, <1>4, <4>1 DEF FiredFor
      <4>6. QED
        BY <3>2, <4>1, <4>2, <4>3, <4>4, <4>5 DEF WatchedOK
    <3>5. CASE ~(timer[n].f # {} /\ ~Changed(d, n))
      <4>1. timer'[n] = [f |-> TimerFor(d, n), when |-> d[n], seq |-> pd'.seq[n], armed |-> TRUE]
        BY <1>1, <3>3, <3>5 DEF NewTimer
      <4>2. QED
        BY <3>2, <4>1 DEF WatchedOK
    <3>6. QED
      BY <3>4, <3>5
  <2>4. AskedOK(k)'
    <3>1. CASE k \in th[t].modes
      <4>1. d[k] = Until(delta) /\ asked'[k] = Asked(delta)
        BY <3>1 DEF Setting
      <4>2. delta \in Int /\ 1 <= now /\ INT_MAX \in Int /\ INT_MAX > 0
        BY PollAssumption DEF TimerInv, Clock, INT_MAX
      <4>3. QED
        BY <1>1, <1>5, <4>1, <4>2 DEF AskedOK, Until, Asked
    <3>2. CASE k \notin th[t].modes
      <4>1. d[k] = pd.d[k] /\ asked'[k] = asked[k]
        BY <3>2 DEF Setting
      <4>2. QED
        BY <1>1, <4>1 DEF TimerInv, AskedOK
    <3>3. QED
      BY <3>1, <3>2
  <2>5. QED
    BY <2>1, <2>2, <2>3, <2>4
<1>13. Apart'
  <2>1. SUFFICES ASSUME Live("r")', timer'["r"].f = Modes, Live("w")' PROVE FALSE
    BY DEF Apart
  <2>2. Fits("r")' /\ Fits("w")'
    BY <1>10, <2>1 DEF Modes
  <2>3. TimerFor(d, "r") = Modes /\ TimerFor(d, "r") # {} /\ TimerFor(d, "w") # {}
    BY <1>1, <2>1, <2>2 DEF Fits
  <2>4. QED
    BY <2>3, TimerForFacts DEF Modes
<1>14. Unarmed' /\ Clock'
  <2>1. slot = "used"
    BY <1>1 DEF LifeInv, UseOK, Everyone
  <2>2. QED
    BY <1>1, <2>1 DEF TimerInv, Unarmed, Clock
<1>15. QED
  BY <1>11, <1>12, <1>13, <1>14 DEF TimerInv

\* A thread that is at another job before and after is not about timers.
LEMMA QuietOther ==
    ASSUME NEW t \in Threads, th[t].pc # "fired", th'[t].pc # "fired",
           \A m \in Modes : ~WillRun(t, m) /\ ~WillRun(t, m)'
    PROVE  QuietJob(t)
  BY DEF QuietJob, FiredFor

\* The other threads keep their jobs.
LEMMA QuietOthers ==
    ASSUME NEW t \in Threads, Others(t), QuietJob(t)
    PROVE  \A u \in Threads : QuietJob(u)
<1>1. ASSUME NEW u \in Threads, u # t PROVE QuietJob(u)
  BY <1>1 DEF Others, QuietJob, FiredFor, WillRun
<1>2. QED
  BY <1>1

LEMMA QuietAll ==
    ASSUME th' = th
    PROVE  \A u \in Threads : QuietJob(u)
  BY DEF QuietJob, FiredFor, WillRun

LEMMA TimerStep ==
    ASSUME TypeOK, TypeOK', JobInv, HandInv, LifeInv, TimerInv, Next
    PROVE  TimerInv'
<1>a. now < INT_MAX /\ now \in Int
  BY DEF TimerInv, Clock, TypeOK
<1>b. \A t \in Threads : th[t].do = <<>> => \A m \in Modes : ~WillRun(t, m)
  BY NoLists DEF WillRun
<1>c. \A t \in Threads : th'[t].do = <<>> => \A m \in Modes : ~WillRun(t, m)'
  BY NoLists DEF WillRun
<1>d. \A t \in Threads : th[t].pc # "run" => th[t].do = <<>>
  BY DEF JobInv, ThreadOK
<1>1. ASSUME NEW m \in Modes, Read(m) \/ Goroutine(m) PROVE TimerInv'
  <2>1. UNCHANGED <<th, pd, timer, asked, now, slot>>
    BY <1>1 DEF Goroutine, Read, pollReset, pollResetStore, Syscall, SyscallEnds, WritesOn, SyscallEAGAIN, pollWait,
                netpollblock, recheck, netpollblockcommit, swap
  <2>2. QED
    BY <1>a, <2>1, QuietAll, TimersQuiet
<1>2. ASSUME AddWaiter \/ Arrive \/ Fail \/ netpollopen \/ netpollopenFails PROVE TimerInv'
  <2>1. UNCHANGED <<th, pd, timer, asked, now>> /\ (slot' # "used" => slot # "used")
    BY <1>2 DEF AddWaiter, Arrive, Fail, netpollopen, netpollopenFails
  <2>2. QED
    BY <1>a, <2>1, QuietAll, TimersQuiet
<1>3. CASE Tick
  <2>1. UNCHANGED <<th, pd, timer, asked, slot>> /\ now < MAX_TIME /\ now' = now + 1
    BY <1>3 DEF Tick
  <2>2. now <= now' /\ now' < INT_MAX
    BY <1>a, <2>1, PollAssumption DEF INT_MAX
  <2>3. QED
    BY <2>1, <2>2, QuietAll, TimersQuiet
<1>4. CASE pollClose
  <2>1. UNCHANGED <<th, pd, timer, asked, now>>
    BY <1>4 DEF pollClose
  <2>2. pd.closing
    BY <1>4 DEF pollClose, Life!Destroy, LifeInv, UseOK
  <2>3. QED
    BY <1>a, <2>1, <2>2, QuietAll, TimersQuiet
<1>5. CASE free
  <2>1. UNCHANGED <<th, timer, asked, now>> /\ slot # "used"
    BY <1>5 DEF free
  <2>2. QED
    BY <1>5, <1>a, <2>1, QuietAll, TimersQuiet, FreeEffect DEF Freeing
<1>6. CASE pollOpen
  <2>1. UNCHANGED <<th, timer, now>> /\ slot # "used" /\ pd.lock = Nobody
    BY <1>6 DEF pollOpen
  <2>2. \A n \in Modes : pd'.seq[n] = pd.seq[n] + 1 /\ pd'.d[n] = 0 /\ ~timer'[n].armed
    BY <1>6, <2>1, OpenEffect DEF Opening, TimerInv, Unarmed
  <2>3. \A u \in Threads, m \in Modes : ~WillRun(u, m)'
    BY <2>1, NobodyRuns DEF WillRun
  <2>4. \A m \in Modes : AskedOK(m)'
    BY <2>2 DEF AskedOK
  <2>5. QED
    BY <2>1, <2>2, <2>3, <2>4, TimersInvalid
<1>7. ASSUME NEW t \in Threads, SetDeadline(t) \/ Close(t) \/ EpollWait(t) \/ Adjust(t) \/ netpoll(t)
                                \/ pollSetDeadlineClosing(t)
      PROVE  TimerInv'
  <2>1. UNCHANGED <<pd, timer, asked, now, slot>>
    BY <1>7 DEF SetDeadline, Close, EpollWait, Adjust, netpoll, pollSetDeadlineClosing
  <2>2. th[t].pc # "fired" /\ th[t].pc # "run"
    BY <1>7 DEF SetDeadline, Close, EpollWait, Adjust, netpoll, pollSetDeadlineClosing
  <2>3. Others(t) /\ th'[t].pc # "fired" /\ th'[t].do = <<>>
    <3>1. CASE SetDeadline(t)
      BY <3>1, SetDeadlineEffect DEF Begins
    <3>2. CASE Close(t)
      BY <3>2, CloseEffect DEF Begins
    <3>3. CASE EpollWait(t)
      BY <3>3, EpollEffect DEF GoesIdle, Begins
    <3>4. CASE Adjust(t)
      BY <3>4, AdjustEffect DEF GoesIdle, Begins
    <3>5. CASE netpoll(t)
      BY <1>d, <2>2, <3>5, NetpollEffect DEF GoesIdle, Begins
    <3>6. CASE pollSetDeadlineClosing(t)
      BY <1>d, <2>2, <3>6, ClosingEffect
    <3>7. QED
      BY <1>7, <3>1, <3>2, <3>3, <3>4, <3>5, <3>6
  <2>4. QuietJob(t)
    BY <1>b, <1>c, <1>d, <2>2, <2>3, QuietOther
  <2>5. QED
    BY <1>a, <2>1, <2>3, <2>4, QuietOthers, TimersQuiet
<1>8. ASSUME NEW t \in Threads, netpollgoready(t) PROVE TimerInv'
  <2>1. PICK m \in Modes : Readying(t, m)
    BY <1>8, ReadyEffect
  <2>2. /\ UNCHANGED <<pd, timer, asked, now, slot>> /\ Others(t) /\ th[t].pc = "ready" /\ th'[t].pc = "ready"
        /\ th'[t].do = th[t].do
    BY <2>1 DEF Readying
  <2>3. QuietJob(t)
    BY <1>b, <1>c, <1>d, <2>2, QuietOther
  <2>4. QED
    BY <1>a, <2>2, <2>3, QuietOthers, TimersQuiet
<1>9. ASSUME NEW t \in Threads, netpollunblock(t) PROVE TimerInv'
  <2>1. PICK m \in Modes : Unblocking(t, m)
    BY <1>9, UnblockEffect, JobBusy
  <2>2. /\ UNCHANGED <<timer, asked, now, slot>> /\ Others(t) /\ th[t].pc = "run" /\ th'[t].pc # "fired"
        /\ th'[t].modes = th[t].modes
        /\ pd'.d = pd.d /\ pd'.seq = pd.seq /\ pd'.closing = pd.closing
    BY <2>1 DEF Unblocking, SameJob, GoesOn, PdKept
  <2>3. \A k \in Modes : WillRun(t, k)' <=> WillRun(t, k)
    <3>1. \A k \in Modes : <<"expire", k>> # <<"unblock", m>>
      OBVIOUS
    <3>2. QED
      BY <2>1, <3>1, OpsOf DEF Unblocking, WillRun
  <2>4. QuietJob(t)
    BY <2>2, <2>3 DEF QuietJob, FiredFor
  <2>5. QED
    BY <1>a, <2>2, <2>4, QuietOthers, TimersQuiet
<1>10. ASSUME NEW t \in Threads, setEventErr(t) PROVE TimerInv'
  <2>1. Reporting(t)
    BY <1>10, ReportEffect
  <2>2. /\ UNCHANGED <<pd, timer, asked, now, slot>> /\ Others(t) /\ th[t].pc = "seterr" /\ th'[t].pc = "run"
        /\ \A m \in Modes : ~WillRun(t, m)'
    BY <2>1 DEF Reporting, WillRun
  <2>3. QuietJob(t)
    BY <1>b, <1>d, <2>2, QuietOther
  <2>4. QED
    BY <1>a, <2>2, <2>3, QuietOthers, TimersQuiet
<1>11. ASSUME NEW t \in Threads, netpolldeadlineimpl(t) PROVE TimerInv'
  <2>1. CASE Stale(t)
    <3>1. /\ UNCHANGED <<pd, timer, asked, now, slot>> /\ Others(t) /\ th[t].pc = "fired" /\ th'[t].pc = "idle"
          /\ th'[t].do = <<>>
      BY <2>1 DEF Stale, GoesIdle, Begins
    <3>2. \A n \in Modes : ~FiredFor(t, n)
      BY <2>1 DEF Stale, FiredFor, CurrentSeq, Owner
    <3>3. QuietJob(t)
      BY <1>b, <1>c, <1>d, <3>1, <3>2 DEF QuietJob
    <3>4. QED
      BY <1>a, <3>1, <3>3, QuietOthers, TimersQuiet
  <2>2. QED
    BY <1>11, <2>1, DeadlineEffect, TimerStarts
<1>12. ASSUME NEW t \in Threads, Fire(t) PROVE TimerInv'
  BY <1>12, FireEffect, TimerFires
<1>13. ASSUME NEW t \in Threads, Expire(t) PROVE TimerInv'
  BY <1>13, ExpireEffect, JobBusy, TimerExpires
<1>14. ASSUME NEW t \in Threads, pollSetDeadline(t) PROVE TimerInv'
  BY <1>14, SetEffect, TimersSet
<1>15. ASSUME NEW t \in Threads, pollUnblock(t) PROVE TimerInv'
  <2>1. Evicting(t)
    BY <1>15, EvictEffect
  <2>2. /\ UNCHANGED <<now, asked>> /\ pd.lock = Nobody /\ Others(t) /\ th'[t].pc # "fired"
        /\ pd'.closing /\ pd'.d = pd.d /\ \A m \in Modes : ~WillRun(t, m)'
    BY <2>1 DEF Evicting, GoesOn, WillRun
  <2>3. \A n \in Modes : pd'.seq[n] = pd.seq[n] + 1 /\ ~timer'[n].armed
    BY <2>1 DEF Evicting, NoTimer
  <2>4. \A u \in Threads : /\ th'[u].pc = "fired" => th'[u] = th[u]
                           /\ \A m \in Modes : ~WillRun(u, m)'
    BY <2>2, NobodyRuns DEF Others, WillRun
  <2>5. \A m \in Modes : AskedOK(m)'
    BY <2>2 DEF TimerInv, AskedOK
  <2>6. QED
    BY <2>2, <2>3, <2>4, <2>5, TimersInvalid
<1>16. QED
  BY <1>1, <1>2, <1>3, <1>4, <1>5, <1>6, <1>7, <1>8, <1>9, <1>10, <1>11, <1>12, <1>13, <1>14, <1>15
     DEF Next, Thread

-----------------------------------------------------------------------------
(***************************************************************************)
(* Wakeups: what is still on its way to a goroutine that waits.            *)
(***************************************************************************)
\* The goroutine has seen that its call would block, or is about to look again.
Waits == {"check", "block", "recheck", "commit", "parked", "swap"}

\* Thread t carries an event for mode m, or will unblock it under the lock.
Brings(t, m) ==
    /\ th[t].io /\ m \in th[t].modes
    /\ \/ th[t].pc \in {"tag", "seterr"} /\ th[t].seq = pd.fdseq
       \/ Has(th[t].do, <<"unblock", m>>)
Frees(t, m) == ~th[t].io /\ Has(th[t].do, <<"unblock", m>>)

TagOK == (slot = "used" => socket.tag = pd.fdseq) /\ (socket.listed => slot = "used")

ReadyOK(m) ==
    pc[m] \in Waits /\ socket.ready[m] =>
        gpp[m] = "ready" \/ socket.listed \/ \E t \in Threads : Brings(t, m)

\* The goroutine is parked, or nothing keeps it from parking any more.
Parks(m) == gpp[m] = "g" \/ (gpp[m] = "wait" /\ pc[m] = "commit")
Ended(m) == pd.closing \/ pd.d[m] < 0
FreedOK(m) == Parks(m) /\ Ended(m) => \E t \in Threads : Frees(t, m)

WakeInv == TagOK /\ \A m \in Modes : ReadyOK(m) /\ FreedOK(m)

\* Nobody waits.
LEMMA WakeIdle ==
    ASSUME TagOK', \A m \in Modes : pc'[m] = "idle" /\ gpp'[m] # "g"
    PROVE  WakeInv'
  BY DEF WakeInv, ReadyOK, FreedOK, Parks, Waits

\* A step that takes nothing from the goroutines that wait.
LEMMA WakeKeeps ==
    ASSUME WakeInv, TagOK',
           \A m \in Modes : /\ pc'[m] \in Waits => pc[m] \in Waits
                            /\ pc'[m] = "commit" => pc[m] = "commit"
                            /\ socket'.ready[m] <=> socket.ready[m]
                            /\ Ended(m)' => Ended(m) \/ \E t \in Threads : Frees(t, m)',
           gpp' = gpp, socket.listed => socket'.listed,
           \A t \in Threads, m \in Modes : /\ Brings(t, m) => Brings(t, m)'
                                           /\ Frees(t, m) => Frees(t, m)'
    PROVE  WakeInv'
<1>1. ASSUME NEW m \in Modes PROVE ReadyOK(m)'
  BY DEF WakeInv, ReadyOK
<1>2. ASSUME NEW m \in Modes PROVE FreedOK(m)'
  BY DEF WakeInv, FreedOK, Parks
<1>3. QED
  BY <1>1, <1>2 DEF WakeInv

\* A goroutine's own step.
LEMMA WakeOwn ==
    ASSUME TypeOK, JobInv, HandInv, WakeInv, NEW m \in Modes, Read(m) \/ Goroutine(m)
    PROVE  WakeInv'
<1>1. UNCHANGED <<th, pd, info, slot>>
  BY DEF Goroutine, Read, pollReset, pollResetStore, Syscall, SyscallEnds, WritesOn, SyscallEAGAIN, pollWait,
         netpollblock, recheck, netpollblockcommit, swap
<1>2. /\ socket'.listed = socket.listed /\ socket'.tag = socket.tag
      /\ \A n \in Modes : n # m => socket'.ready[n] = socket.ready[n]
  <2>1. CASE Syscall(m)
    BY <2>1 DEF Syscall, SyscallEnds, WritesOn, TypeOK, SocketType
  <2>2. CASE ~Syscall(m)
    <3>1. socket' = socket
      BY <2>2 DEF Goroutine, Read, pollReset, pollResetStore, SyscallEAGAIN, pollWait,
                  netpollblock, recheck, netpollblockcommit, swap
    <3>2. QED
      BY <3>1
  <2>3. QED
    BY <2>1, <2>2
<1>3. \A n \in Modes : n # m => pc'[n] = pc[n] /\ gpp'[n] = gpp[n]
  BY DEF TypeOK, Goto, Gpp, Return, Goroutine, Read, pollReset, pollResetStore, Syscall, SyscallEnds, WritesOn, SyscallEAGAIN,
         pollWait, netpollblock, recheck, netpollblockcommit, swap
<1>4. /\ \A t \in Threads, n \in Modes : (Brings(t, n)' <=> Brings(t, n)) /\ (Frees(t, n)' <=> Frees(t, n))
      /\ \A n \in Modes : Ended(n)' <=> Ended(n)
  BY <1>1 DEF Brings, Frees, Ended
<1>5. TagOK'
  BY <1>1, <1>2 DEF WakeInv, TagOK
<1>6. ASSUME NEW n \in Modes, n # m PROVE ReadyOK(n)' /\ FreedOK(n)'
  BY <1>2, <1>3, <1>4, <1>6 DEF WakeInv, ReadyOK, FreedOK, Parks
<1>7. ReadyOK(m)'
  <2> USE DEF TypeOK, Goto, Gpp, Waits, Pcs
  <2>0. ReadyOK(m) /\ gpp[m] \in {"nil", "ready", "wait", "g"} /\ GppOK(m)
    BY DEF WakeInv, HandInv
  <2>1. SUFFICES ASSUME pc'[m] \in Waits, socket'.ready[m]
                 PROVE  pc[m] \in Waits /\ socket' = socket /\ (gpp[m] = "ready" => gpp'[m] = "ready")
    BY <1>2, <1>4, <2>0 DEF ReadyOK
  <2>2. CASE Read(m)
    BY <2>1, <2>2 DEF Read
  <2>3. CASE pollReset(m)
    BY <2>1, <2>3 DEF pollReset, Return
  <2>4. CASE pollResetStore(m)
    BY <2>1, <2>4 DEF pollResetStore, ResetTo
  <2>5. CASE Syscall(m)
    BY <2>1, <2>5 DEF Syscall, SyscallEnds, WritesOn, Return
  <2>6. CASE SyscallEAGAIN(m)
    BY <2>1, <2>6 DEF SyscallEAGAIN
  <2>7. CASE pollWait(m)
    BY <2>1, <2>7 DEF pollWait, Return
  <2>8. CASE netpollblock(m)
    BY <2>1, <2>8 DEF netpollblock
  <2>9. CASE recheck(m)
    BY <2>1, <2>9 DEF recheck
  <2>10. CASE netpollblockcommit(m)
    BY <2>1, <2>10 DEF netpollblockcommit
  <2>11. CASE swap(m)
    BY <2>1, <2>11 DEF swap
  <2>12. QED
    BY <2>2, <2>3, <2>4, <2>5, <2>6, <2>7, <2>8, <2>9, <2>10, <2>11 DEF Goroutine
<1>8. FreedOK(m)'
  <2> USE DEF TypeOK, Goto, Gpp, Pcs
  <2>0. FreedOK(m) /\ gpp[m] \in {"nil", "ready", "wait", "g"} /\ GppOK(m)
    BY DEF WakeInv, HandInv
  <2>1. SUFFICES ASSUME Parks(m)', Ended(m) PROVE Parks(m)
    BY <1>4, <2>0 DEF FreedOK
  <2> USE DEF Parks, GppOK
  <2>2. CASE Read(m)
    BY <2>0, <2>1, <2>2 DEF Read
  <2>3. CASE pollReset(m)
    BY <2>0, <2>1, <2>3 DEF pollReset, Return
  <2>4. CASE pollResetStore(m)
    BY <2>0, <2>1, <2>4 DEF pollResetStore, ResetTo
  <2>5. CASE Syscall(m)
    BY <2>0, <2>1, <2>5 DEF Syscall, SyscallEnds, WritesOn, Return
  <2>6. CASE SyscallEAGAIN(m)
    BY <2>0, <2>1, <2>6 DEF SyscallEAGAIN
  <2>7. CASE pollWait(m)
    BY <2>0, <2>1, <2>7 DEF pollWait, Return
  <2>8. CASE netpollblock(m)
    BY <2>0, <2>1, <2>8 DEF netpollblock
  <2>9. CASE recheck(m)
    <3>1. ~Blocks(m)
      BY <2>1 DEF Blocks, checkerr, Ended, JobInv, Mirrors
    <3>2. QED
      BY <2>0, <2>1, <2>9, <3>1 DEF recheck
  <2>10. CASE netpollblockcommit(m)
    BY <2>0, <2>1, <2>10 DEF netpollblockcommit
  <2>11. CASE swap(m)
    BY <2>0, <2>1, <2>11 DEF swap
  <2>12. QED
    BY <2>2, <2>3, <2>4, <2>5, <2>6, <2>7, <2>8, <2>9, <2>10, <2>11 DEF Goroutine
<1>9. QED
  BY <1>5, <1>6, <1>7, <1>8 DEF WakeInv

\* netpollunblock leaves mode m neither parked nor about to park, and an event
\* leaves its notification.
LEMMA WakeUnblocks ==
    ASSUME TypeOK, JobInv, HandInv, WakeInv, NEW t \in Threads, NEW m \in Modes, Unblocking(t, m)
    PROVE  WakeInv'
<1>1. /\ UNCHANGED <<slot, socket, pc>> /\ Others(t) /\ pd'.fdseq = pd.fdseq /\ pd'.closing = pd.closing
      /\ pd'.d = pd.d /\ th'[t].io = th[t].io /\ th'[t].modes = th[t].modes /\ th[t].pc = "run"
      /\ gpp'[m] = Unblocked(gpp[m], th[t].io) /\ \A n \in Modes : n # m => gpp'[n] = gpp[n]
  BY DEF Unblocking, SameJob, PdKept, TypeOK
<1>2. \A n \in Modes : n # m => (Has(th'[t].do, <<"unblock", n>>) <=> Has(th[t].do, <<"unblock", n>>))
  <2>1. \A n \in Modes : n # m => <<"unblock", n>> # <<"unblock", m>>
    OBVIOUS
  <2>2. QED
    BY <2>1, OpsOf DEF Unblocking
<1>3. ASSUME NEW n \in Modes, NEW u \in Threads, u # t \/ n # m
      PROVE  (Brings(u, n) => Brings(u, n)') /\ (Frees(u, n) => Frees(u, n)')
  BY <1>1, <1>2, <1>3 DEF Brings, Frees, Others
<1>4. TagOK'
  BY <1>1 DEF WakeInv, TagOK
<1>5. ASSUME NEW n \in Modes, n # m PROVE ReadyOK(n)' /\ FreedOK(n)'
  BY <1>1, <1>3, <1>5 DEF WakeInv, ReadyOK, FreedOK, Parks, Ended
<1>6. FreedOK(m)'
  <2>1. gpp'[m] # "g" /\ gpp'[m] # "wait"
    BY <1>1 DEF Unblocked, TypeOK
  <2>2. QED
    BY <2>1 DEF FreedOK, Parks
<1>7. ReadyOK(m)'
  <2>1. CASE th[t].io
    BY <1>1, <2>1 DEF ReadyOK, Unblocked
  <2>2. CASE ~th[t].io
    <3>1. \A u \in Threads : Brings(u, m) => Brings(u, m)'
      BY <1>3, <2>2 DEF Brings
    <3>2. gpp[m] = "ready" => gpp'[m] = "ready"
      BY <1>1 DEF Unblocked
    <3>3. QED
      BY <1>1, <3>1, <3>2 DEF WakeInv, ReadyOK
  <2>3. QED
    BY <2>1, <2>2
<1>8. QED
  BY <1>4, <1>5, <1>6, <1>7 DEF WakeInv

\* The other threads bring and free what they did.
LEMMA OthersBring ==
    ASSUME NEW t \in Threads, Others(t), pd'.fdseq = pd.fdseq,
           \A m \in Modes : (Brings(t, m) => Brings(t, m)') /\ (Frees(t, m) => Frees(t, m)')
    PROVE  \A u \in Threads, m \in Modes : (Brings(u, m) => Brings(u, m)') /\ (Frees(u, m) => Frees(u, m)')
  BY DEF Others, Brings, Frees

LEMMA WakeStep ==
    ASSUME TypeOK, TypeOK', JobInv, HandInv, LifeInv, WakeInv, Next
    PROVE  WakeInv'
<1>a. \A t \in Threads : th[t].pc # "run" => th[t].do = <<>>
  BY DEF JobInv, ThreadOK
<1>b. \A t \in Threads, m \in Modes : th[t].pc # "run" => ~Has(th[t].do, <<"unblock", m>>)
  BY <1>a, NoLists
<1>c. ASSUME NEW t \in Threads, th[t].pc \notin {"run", "tag", "seterr"}, Others(t), pd'.fdseq = pd.fdseq
      PROVE  \A u \in Threads, m \in Modes : (Brings(u, m) => Brings(u, m)') /\ (Frees(u, m) => Frees(u, m)')
  <2>1. \A m \in Modes : ~Brings(t, m) /\ ~Frees(t, m)
    BY <1>b, <1>c DEF Brings, Frees
  <2>2. QED
    BY <1>c, <2>1, OthersBring
<1>d. \A m \in Modes : use[m] = "none" => pc[m] = "idle" /\ gpp[m] # "g"
  BY DEF LifeInv, HandInv, GppOK
<1>1. ASSUME NEW m \in Modes, Read(m) \/ Goroutine(m) PROVE WakeInv'
  BY <1>1, WakeOwn
<1>2. ASSUME AddWaiter \/ Tick PROVE WakeInv'
  <2>1. UNCHANGED <<th, pd, slot, socket, pc, gpp>>
    BY <1>2 DEF AddWaiter, Tick
  <2>2. QED
    BY <2>1 DEF WakeInv, TagOK, ReadyOK, FreedOK, Parks, Ended, Brings, Frees
<1>3. ASSUME Arrive \/ Fail PROVE WakeInv'
  <2>1. UNCHANGED <<th, pd, slot, pc, gpp>> /\ slot = "used"
    BY <1>3 DEF Arrive, Fail
  <2>2. socket'.listed /\ socket'.tag = socket.tag
    BY <1>3, ArriveEffect DEF Fail, TypeOK, SocketType
  <2>3. QED
    BY <2>1, <2>2 DEF WakeInv, TagOK, ReadyOK, FreedOK, Parks, Ended, Frees
<1>4. CASE pollClose
  <2>1. UNCHANGED <<pc, gpp>> /\ slot' # "used" /\ \A m \in Modes : use[m] = "none"
    BY <1>4 DEF pollClose, Life!Destroy
  <2>2. ~socket'.listed
    BY <1>4 DEF pollClose, TypeOK, SocketType
  <2>3. QED
    BY <1>d, <2>1, <2>2, WakeIdle DEF TagOK
<1>5. ASSUME free \/ pollOpen \/ netpollopenFails PROVE WakeInv'
  <2>1. UNCHANGED <<pc, socket>> /\ slot' # "used" /\ slot # "used"
    BY <1>5 DEF free, pollOpen, netpollopenFails
  <2>2. \A m \in Modes : gpp'[m] = gpp[m] \/ gpp'[m] = "nil"
    BY <1>5 DEF free, pollOpen, netpollopenFails
  <2>3. \A m \in Modes : use[m] = "none"
    BY <2>1 DEF LifeInv, Everyone
  <2>4. TagOK'
    BY <2>1 DEF WakeInv, TagOK
  <2>5. QED
    BY <1>d, <2>1, <2>2, <2>3, <2>4, WakeIdle
<1>6. CASE netpollopen
  <2>1. UNCHANGED <<pc, gpp, pd>> /\ slot # "used" /\ slot' = "used" /\ socket'.tag = pd.fdseq
    BY <1>6 DEF netpollopen
  <2>2. \A m \in Modes : use[m] = "none"
    BY <2>1 DEF LifeInv, Everyone
  <2>3. QED
    BY <1>d, <2>1, <2>2, WakeIdle DEF TagOK
<1>7. ASSUME NEW t \in Threads, SetDeadline(t) \/ Close(t) \/ Fire(t) \/ Adjust(t) \/ pollSetDeadlineClosing(t)
      PROVE  WakeInv'
  <2>1. UNCHANGED <<pd, slot, socket, pc, gpp>> /\ th[t].pc \notin {"run", "tag", "seterr"}
    BY <1>7 DEF SetDeadline, Close, Fire, Adjust, pollSetDeadlineClosing
  <2>2. Others(t)
    <3>1. CASE SetDeadline(t)
      BY <3>1, SetDeadlineEffect DEF Begins
    <3>2. CASE Close(t)
      BY <3>2, CloseEffect DEF Begins
    <3>3. CASE Fire(t)
      BY <3>3, FireEffect DEF Firing, Begins
    <3>4. CASE Adjust(t)
      BY <3>4, AdjustEffect DEF GoesIdle, Begins
    <3>5. CASE pollSetDeadlineClosing(t)
      BY <3>5, ClosingEffect
    <3>6. QED
      BY <1>7, <3>1, <3>2, <3>3, <3>4, <3>5
  <2>3. \A u \in Threads, m \in Modes : (Brings(u, m) => Brings(u, m)') /\ (Frees(u, m) => Frees(u, m)')
    BY <1>c, <2>1, <2>2
  <2>4. TagOK' /\ \A m \in Modes : Ended(m)' <=> Ended(m)
    BY <2>1 DEF WakeInv, TagOK, Ended
  <2>5. QED
    BY <2>1, <2>3, <2>4, WakeKeeps
<1>8. ASSUME NEW t \in Threads, netpollgoready(t) PROVE WakeInv'
  <2>1. PICK k \in Modes : Readying(t, k)
    BY <1>8, ReadyEffect
  <2>2. UNCHANGED <<pd, slot, socket, gpp>> /\ th[t].pc \notin {"run", "tag", "seterr"} /\ Others(t)
    BY <2>1 DEF Readying
  <2>3. pc[k] = "parked" /\ pc' = [pc EXCEPT ![k] = "swap"]
    BY <2>1 DEF Readying, HandInv, GppOK
  <2>4. \A m \in Modes : (pc'[m] \in Waits => pc[m] \in Waits) /\ (pc'[m] = "commit" => pc[m] = "commit")
    BY <2>3 DEF TypeOK, Waits
  <2>5. \A u \in Threads, m \in Modes : (Brings(u, m) => Brings(u, m)') /\ (Frees(u, m) => Frees(u, m)')
    BY <1>c, <2>2
  <2>6. TagOK' /\ \A m \in Modes : Ended(m)' <=> Ended(m)
    BY <2>2 DEF WakeInv, TagOK, Ended
  <2>7. QED
    BY <2>2, <2>4, <2>5, <2>6, WakeKeeps
<1>9. ASSUME NEW t \in Threads, netpollunblock(t) PROVE WakeInv'
  BY <1>9, UnblockEffect, JobBusy, WakeUnblocks
<1>10. ASSUME NEW t \in Threads, Expire(t) PROVE WakeInv'
  <2>1. PICK k \in Modes : Expiry(t, k)
    BY <1>10, ExpireEffect, JobBusy
  <2>2. /\ UNCHANGED <<slot, socket, pc, gpp>> /\ Others(t) /\ pd'.fdseq = pd.fdseq
        /\ pd'.closing = pd.closing /\ th'[t].io = th[t].io /\ th'[t].modes = th[t].modes
        /\ Has(th'[t].do, <<"unblock", k>>) /\ \A m \in Modes : m # k => pd'.d[m] = pd.d[m]
    BY <2>1 DEF Expiry, SameJob, TypeOK, PdType
  <2>3. ~th[t].io
    BY <2>1 DEF Expiry, JobInv, ThreadOK
  <2>4. \A m \in Modes : <<"unblock", m>> # <<"expire", k>>
    OBVIOUS
  <2>5. \A m \in Modes : ~Brings(t, m) /\ (Frees(t, m) => Frees(t, m)')
    BY <2>1, <2>2, <2>3, <2>4, OpsOf DEF Expiry, Brings, Frees
  <2>6. \A u \in Threads, m \in Modes : (Brings(u, m) => Brings(u, m)') /\ (Frees(u, m) => Frees(u, m)')
    BY <2>2, <2>5, OthersBring
  <2>7. Frees(t, k)'
    BY <2>2, <2>3 DEF Frees
  <2>8. TagOK' /\ \A m \in Modes : Ended(m)' => Ended(m) \/ Frees(t, m)'
    BY <2>2, <2>7 DEF WakeInv, TagOK, Ended
  <2>9. QED
    BY <2>2, <2>6, <2>8, WakeKeeps
<1>11. ASSUME NEW t \in Threads, pollSetDeadline(t) PROVE WakeInv'
  <2>1. PICK delta \in Deltas, d \in [Modes -> Int] : Setting(t, d, delta)
    BY <1>11, SetEffect
  <2>2. /\ UNCHANGED <<slot, socket, pc, gpp>> /\ Others(t) /\ pd'.fdseq = pd.fdseq /\ th[t].pc = "set"
        /\ pd'.closing = pd.closing /\ ~pd.closing /\ th'[t].io = th[t].io /\ pd'.d = d
        /\ \A m \in Modes : Has(th'[t].do, <<"unblock", m>>) <=> d[m] < 0
    BY <2>1 DEF Setting, SameJob
  <2>3. ~th[t].io
    BY <2>2 DEF JobInv, ThreadOK
  <2>4. \A u \in Threads, m \in Modes : (Brings(u, m) => Brings(u, m)') /\ (Frees(u, m) => Frees(u, m)')
    BY <1>c, <2>2
  <2>5. TagOK' /\ \A m \in Modes : Ended(m)' => Frees(t, m)'
    BY <2>2, <2>3 DEF WakeInv, TagOK, Ended, Frees
  <2>6. QED
    BY <2>2, <2>4, <2>5, WakeKeeps
<1>12. ASSUME NEW t \in Threads, pollUnblock(t) PROVE WakeInv'
  <2>1. Evicting(t)
    BY <1>12, EvictEffect
  <2>2. /\ UNCHANGED <<slot, socket, pc, gpp>> /\ Others(t) /\ pd'.fdseq = pd.fdseq /\ th[t].pc = "evict"
        /\ th'[t].io = th[t].io /\ \A m \in Modes : Has(th'[t].do, <<"unblock", m>>)
    BY <2>1 DEF Evicting, SameJob
  <2>3. ~th[t].io
    BY <2>2 DEF JobInv, ThreadOK
  <2>4. \A u \in Threads, m \in Modes : (Brings(u, m) => Brings(u, m)') /\ (Frees(u, m) => Frees(u, m)')
    BY <1>c, <2>2
  <2>5. TagOK' /\ \A m \in Modes : Frees(t, m)'
    BY <2>2, <2>3 DEF WakeInv, TagOK, Frees
  <2>6. QED
    BY <2>2, <2>4, <2>5, WakeKeeps
<1>13. ASSUME NEW t \in Threads, netpolldeadlineimpl(t) PROVE WakeInv'
  <2>1. /\ UNCHANGED <<slot, socket, pc, gpp>> /\ Others(t) /\ pd'.fdseq = pd.fdseq /\ th[t].pc = "fired"
        /\ pd'.closing = pd.closing /\ pd'.d = pd.d
    BY <1>13, DeadlineEffect DEF Starting, Stale, GoesIdle, Begins, PdKept
  <2>2. \A u \in Threads, m \in Modes : (Brings(u, m) => Brings(u, m)') /\ (Frees(u, m) => Frees(u, m)')
    BY <1>c, <2>1
  <2>3. TagOK' /\ \A m \in Modes : Ended(m)' <=> Ended(m)
    BY <2>1 DEF WakeInv, TagOK, Ended
  <2>4. QED
    BY <2>1, <2>2, <2>3, WakeKeeps
<1>14. ASSUME NEW t \in Threads, netpoll(t) PROVE WakeInv'
  <2>1. UNCHANGED <<pd, slot, socket, pc, gpp>> /\ th[t].pc = "tag"
    BY <1>14 DEF netpoll
  <2>2. Others(t) /\ \A m \in Modes : Brings(t, m) => Brings(t, m)'
    <3>1. CASE GoesIdle(t) /\ th[t].seq # pd.fdseq
      BY <1>b, <2>1, <3>1 DEF GoesIdle, Begins, Brings
    <3>2. CASE ~(GoesIdle(t) /\ th[t].seq # pd.fdseq)
      BY <1>14, <2>1, <3>2, NetpollEffect DEF SameJob, Brings
    <3>3. QED
      BY <3>1, <3>2
  <2>3. \A m \in Modes : ~Frees(t, m)
    BY <1>b, <2>1 DEF Frees
  <2>4. \A u \in Threads, m \in Modes : (Brings(u, m) => Brings(u, m)') /\ (Frees(u, m) => Frees(u, m)')
    BY <2>1, <2>2, <2>3, OthersBring
  <2>5. TagOK' /\ \A m \in Modes : Ended(m)' <=> Ended(m)
    BY <2>1 DEF WakeInv, TagOK, Ended
  <2>6. QED
    BY <2>1, <2>4, <2>5, WakeKeeps
<1>15. ASSUME NEW t \in Threads, setEventErr(t) PROVE WakeInv'
  <2>1. Reporting(t)
    BY <1>15, ReportEffect
  <2>2. UNCHANGED <<pd, slot, socket, pc, gpp>> /\ th[t].pc = "seterr" /\ Others(t)
    BY <2>1 DEF Reporting
  <2>3. \A m \in Modes : (Brings(t, m) => Brings(t, m)') /\ ~Frees(t, m)
    BY <1>b, <2>1, <2>2 DEF Reporting, SameJob, Brings, Frees
  <2>4. \A u \in Threads, m \in Modes : (Brings(u, m) => Brings(u, m)') /\ (Frees(u, m) => Frees(u, m)')
    BY <2>2, <2>3, OthersBring
  <2>5. TagOK' /\ \A m \in Modes : Ended(m)' <=> Ended(m)
    BY <2>2 DEF WakeInv, TagOK, Ended
  <2>6. QED
    BY <2>2, <2>4, <2>5, WakeKeeps
<1>16. ASSUME NEW t \in Threads, EpollWait(t) PROVE WakeInv'
  <2>1. UNCHANGED <<pd, slot, pc, gpp>> /\ th[t].pc = "idle" /\ socket.listed
    BY <1>16 DEF EpollWait
  <2>2. /\ socket'.listed = FALSE /\ socket'.ready = socket.ready /\ socket'.tag = socket.tag
    BY <1>16, EpollEffect
  <2>3. socket.tag = pd.fdseq
    BY <2>1 DEF WakeInv, TagOK
  <2>4. Others(t) /\ \A m \in Modes : socket.ready[m] => Brings(t, m)'
    <3>1. CASE GoesIdle(t) /\ \A m \in Modes : ~socket.ready[m]
      BY <3>1 DEF GoesIdle, Begins
    <3>2. ASSUME NEW ms \in SUBSET Modes, \A m \in Modes : m \in ms <=> socket.ready[m],
                 Begins(t, "tag", ms, socket.tag, socket.err, TRUE)
          PROVE  Others(t) /\ \A m \in Modes : socket.ready[m] => Brings(t, m)'
      BY <2>1, <2>3, <3>2 DEF Begins, Brings
    <3>3. QED
      BY <1>16, <3>1, <3>2, EpollEffect
  <2>5. \A u \in Threads, m \in Modes : (Brings(u, m) => Brings(u, m)') /\ (Frees(u, m) => Frees(u, m)')
    BY <1>c, <2>1, <2>4
  <2>6. \A m \in Modes : ReadyOK(m)'
    BY <2>2, <2>4 DEF ReadyOK
  <2>7. \A m \in Modes : FreedOK(m)'
    BY <2>1, <2>5 DEF WakeInv, FreedOK, Parks, Ended
  <2>8. TagOK'
    BY <2>1, <2>2 DEF WakeInv, TagOK
  <2>9. QED
    BY <2>6, <2>7, <2>8 DEF WakeInv
<1>17. QED
  BY <1>1, <1>2, <1>3, <1>4, <1>5, <1>6, <1>7, <1>8, <1>9, <1>10, <1>11, <1>12, <1>13, <1>14,
     <1>15, <1>16 DEF Next, Thread

-----------------------------------------------------------------------------
(***************************************************************************)
(* The inductive invariant, and what it says.                              *)
(***************************************************************************)
Inv == TypeOK /\ JobInv /\ HandInv /\ LifeInv /\ EvictInv /\ TimerInv /\ WakeInv

LEMMA InvInit ==
    ASSUME Init
    PROVE  Inv
<1>1. \A t \in Threads : th[t] = Idle
  BY DEF Init
<1>2. TypeOK
  <2>1. use \in [Modes \cup Threads -> Life!Uses] /\ th \in [Threads -> ThreadType]
    BY IdleType DEF Init, Life!Uses
  <2>2. pd \in PdType /\ info \in InfoType /\ socket \in SocketType
    BY DEF Init, PdType, InfoType, SocketType
  <2>3. timer \in [Modes -> TimerType] /\ pc \in [Modes -> Pcs]
    BY DEF Init, TimerType, NoTimer, Pcs
  <2>4. QED
    BY <2>1, <2>2, <2>3 DEF TypeOK, Init
<1>3. JobInv
  <2>1. Mirrors(info, pd)
    BY DEF Init, Mirrors
  <2>2. ASSUME NEW t \in Threads PROVE ThreadOK(t)
    BY <1>1, IdleType, NoLists, PollAssumption DEF Init, ThreadOK
  <2>3. QED
    BY <2>1, <2>2 DEF JobInv
<1>4. HandInv
  BY <1>1, IdleType DEF Init, HandInv, GppOK, OneHand
<1>5. LifeInv
  BY <1>1, IdleType DEF Init, LifeInv, UseOK, Everyone
<1>6. TimerInv
  <2>1. \A t \in Threads, n \in Modes : ~FiredFor(t, n) /\ ~RunsFor(t, n) /\ ~Holds(t, n)
    BY <1>1, IdleType, NoLists DEF FiredFor, RunsFor, WillRun, Holds
  <2>2. \A n \in Modes : ~timer[n].armed /\ pd.d[n] = 0
    BY DEF Init, NoTimer
  <2>3. \A t \in Threads : SeqOK(t)
    BY <1>1, IdleType DEF SeqOK
  <2>4. \A n \in Modes : ~Live(n) /\ ArmedOK(n) /\ OneHolder(n) /\ WatchedOK(n) /\ AskedOK(n)
    BY <2>1, <2>2 DEF Live, ArmedOK, OneHolder, WatchedOK, AskedOK
  <2>5. \A t \in Threads, n \in Modes : FiredOK(t, n) /\ RunsOK(t, n)
    BY <2>1 DEF FiredOK, RunsOK
  <2>6. Apart /\ Unarmed
    BY <2>2, <2>4 DEF Apart, Unarmed, Modes
  <2>7. Clock
    BY PollAssumption DEF Clock, INT_MAX, Init
  <2>8. QED
    BY <2>3, <2>4, <2>5, <2>6, <2>7 DEF TimerInv
<1>7. WakeInv
  BY WakeIdle DEF Init, WakeInv, TagOK, ReadyOK, FreedOK, Parks, Waits
<1>8. EvictInv
  BY <1>1, IdleType DEF Init, EvictInv, Evicts
<1>9. QED
  BY <1>2, <1>3, <1>4, <1>5, <1>6, <1>7, <1>8 DEF Inv

LEMMA InvStep ==
    ASSUME Inv, [Next]_vars
    PROVE  Inv'
<1>1. CASE Next
  <2>1. TypeOK'
    BY <1>1, JobBusy, GoroutineTypes, ThreadTypes, SystemTypes DEF Inv, Next
  <2>2. QED
    BY <1>1, <2>1, JobStep, HandStep, LifeStep, EvictStep, TimerStep, WakeStep DEF Inv
<1>2. CASE UNCHANGED vars
  <2>1. TypeOK'
    BY <1>2 DEF Inv, TypeOK, vars
  <2>2. JobInv'
    BY <1>2 DEF Inv, JobInv, ThreadOK, Mirrors, vars
  <2>3. HandInv' /\ LifeInv' /\ EvictInv'
    BY <1>2 DEF Inv, HandInv, GppOK, OneHand, LifeInv, UseOK, EvictInv, Evicts, vars
  <2>4. TimerInv'
    BY <1>2, <2>1, QuietAll, TimersQuiet DEF Inv, TimerInv, Clock, TypeOK, vars
  <2>5. WakeInv'
    BY <1>2 DEF Inv, WakeInv, TagOK, ReadyOK, FreedOK, Parks, Ended, Brings, Frees, vars
  <2>6. QED
    BY <2>1, <2>2, <2>3, <2>4, <2>5 DEF Inv
<1>3. QED
  BY <1>1, <1>2

LEMMA Invariance == Spec => []Inv
<1>1. QED
  BY InvInit, InvStep, PTL DEF Spec

\* The head of a list of things to do is in it.
LEMMA ExpiringRuns ==
    ASSUME TypeOK, NEW t \in Threads, NEW m \in Modes, Expiring(t, m)
    PROVE  WillRun(t, m)
<1>1. th[t].do \in Lists /\ th[t].do # <<>> /\ Head(th[t].do) = <<"expire", m>>
  BY DEF Expiring, TypeOK, ThreadType
<1>2. QED
  BY <1>1, ListsRun DEF Runs, WillRun

\* For every number of threads, every delay and every clock, none of the states
\* is reached in which netpoll.go throws, and goready only ever finds goroutines
\* that wait.
THEOREM NeverThrows == Spec => []NoThrow
<1>1. ASSUME Inv PROVE NoThrow
  <2>1. TypeOK /\ JobInv /\ HandInv /\ LifeInv /\ EvictInv /\ TimerInv
    BY <1>1 DEF Inv
  <2>2. Unused => \A g \in Everyone : use[g] = "none"
    BY DEF Unused, Everyone
  <2>3. Unused => pd.closing
    BY <2>1, <2>2 DEF LifeInv, Unused, UseOK, Everyone
  <2>4. slot = "free" => \A g \in Everyone : use[g] = "none"
    BY <2>1 DEF LifeInv
  <2>5. ASSUME NEW m \in Modes
        PROVE  /\ pc[m] = "block" => gpp[m] \in {"nil", "ready"}
               /\ pc[m] = "swap" => gpp[m] # "g"
               /\ Unused \/ slot = "free" => gpp[m] \in {"nil", "ready"}
    <3>1. GppOK(m) /\ gpp[m] \in {"nil", "ready", "wait", "g"}
      BY <2>1 DEF HandInv, TypeOK
    <3>2. use[m] = "none" => pc[m] = "idle"
      BY <2>1 DEF LifeInv
    <3>3. QED
      BY <2>2, <2>4, <3>1, <3>2 DEF GppOK, Everyone
  <2>6. ASSUME NEW m \in Modes, NEW t \in Threads, Expiring(t, m)
        PROVE  pd.d[m] > 0 /\ (timer[m].f # {} \/ timer["r"].f = Modes)
    <3> DEFINE n == Owner(th[t].modes)
    <3>1. WillRun(t, m) /\ n \in Modes /\ pd.d[m] \in Int /\ th[t].modes \in SUBSET Modes
      BY <2>1, <2>6, ExpiringRuns DEF Owner, Modes, TypeOK, PdType, ThreadType
    <3>2. timer[n].f = th[t].modes /\ m \in th[t].modes /\ pd.d[m] > 0
      BY <2>1, <3>1 DEF TimerInv, RunsOK, RunsFor
    <3>3. n = m \/ (n = "r" /\ m = "w" /\ th[t].modes = Modes)
      BY <3>1, <3>2 DEF Owner, Modes
    <3>4. QED
      BY <3>2, <3>3
  <2>7. \A t \in Threads : \A m \in th[t].hand : pc[m] = "parked"
    BY <2>1 DEF HandInv, GppOK, TypeOK, ThreadType
  <2>8. \A t, u \in Threads : t # u => th[t].hand \cap th[u].hand = {}
    BY <2>1 DEF HandInv, OneHand, TypeOK, ThreadType
  <2>9. \A t \in Threads : th[t].pc = "evict" => ~pd.closing
    BY <2>1 DEF EvictInv, Evicts
  <2>10. QED
    BY <2>3, <2>5, <2>6, <2>7, <2>8, <2>9 DEF NoThrow
<1>2. QED
  BY <1>1, Invariance, PTL

\* No goroutine is left parked on a socket that is ready, closing or past its
\* deadline without an event or an unblock on its way, however the threads that
\* poll, set deadlines, run timers and close interleave.
THEOREM WakeupsNotLost == Spec => []NoLostWakeup
<1>1. ASSUME Inv PROVE NoLostWakeup
  <2>1. TypeOK /\ JobInv /\ HandInv /\ WakeInv
    BY <1>1 DEF Inv
  <2>2. ASSUME NEW m \in Modes, gpp[m] = "g", socket.ready[m] PROVE EventComing(m)
    <3>1. pc[m] = "parked"
      BY <2>1, <2>2 DEF HandInv, GppOK
    <3>2. socket.listed \/ \E t \in Threads : Brings(t, m)
      BY <2>1, <2>2, <3>1 DEF WakeInv, ReadyOK, Waits
    <3>3. ASSUME NEW t \in Threads, Has(th[t].do, <<"unblock", m>>)
          PROVE  \E i \in DOMAIN th[t].do : th[t].do[i][2] = m
      BY <3>3 DEF Has
    <3>4. QED
      BY <3>2, <3>3 DEF EventComing, Brings
  <2>3. ASSUME NEW m \in Modes, gpp[m] = "g", info.closing \/ info.expired[m]
        PROVE  \E t \in Threads : WillUnblock(t, m)
    <3>1. PICK t \in Threads : Frees(t, m)
      BY <2>1, <2>3 DEF JobInv, Mirrors, WakeInv, FreedOK, Parks, Ended
    <3>2. th[t].do # <<>>
      BY <3>1, NoLists DEF Frees
    <3>3. th[t].pc = "run"
      BY <2>1, <3>2 DEF JobInv, ThreadOK
    <3>4. QED
      BY <3>1, <3>3 DEF Frees, WillUnblock, Has
  <2>4. QED
    BY <2>2, <2>3 DEF NoLostWakeup
<1>2. QED
  BY <1>1, Invariance, PTL

\* A call times out only when the deadline in force has been reached: a timer of
\* an earlier deadline or of an earlier socket has no effect, however late it runs.
THEOREM TimeoutsAreDue == Spec => []DeadlineReached
<1>1. ASSUME Inv PROVE DeadlineReached
  BY <1>1 DEF Inv, JobInv, Mirrors, TimerInv, AskedOK, DeadlineReached
<1>2. QED
  BY <1>1, Invariance, PTL

\* A deadline in force always has a timer armed for it, or a thread that is
\* going to expire it, whatever sequence of calls changed and shared the timers.
THEOREM DeadlinesWatched == Spec => []DeadlineWatched
<1>1. ASSUME Inv PROVE DeadlineWatched
  <2>1. TypeOK /\ JobInv /\ TimerInv
    BY <1>1 DEF Inv
  <2>2. SUFFICES ASSUME NEW m \in Modes, pd.d[m] > 0, ~pd.closing
                 PROVE  \/ \E n \in Modes : timer[n].armed /\ m \in timer[n].f /\ timer[n].when = pd.d[m]
                                            /\ timer[n].seq = pd.seq[n]
                        \/ \E t \in Threads : WillExpire(t, m)
    BY DEF DeadlineWatched
  <2>3. pd.d \in [Modes -> Int]
    BY <2>1 DEF TypeOK, PdType
  <2>4. CASE \E t \in Threads : WillRun(t, m)
    <3>1. PICK t \in Threads : WillRun(t, m)
      BY <2>4
    <3>2. th[t].pc = "run"
      BY <2>1, <3>1, RunnerLocks
    <3>3. QED
      BY <3>1, <3>2 DEF WillRun, Has, WillExpire
  <2>5. ASSUME NEW n \in Modes, m \in timer[n].f, timer[n].armed
        PROVE  timer[n].when = pd.d[m] /\ timer[n].seq = pd.seq[n]
    <3>1. Fits(n) /\ timer[n].when = pd.d[n] /\ timer[n].seq = pd.seq[n]
      BY <2>1, <2>5 DEF TimerInv, ArmedOK
    <3>2. pd.d[m] = pd.d[n]
      BY <2>3, <2>5, <3>1, TimerForFacts DEF Fits
    <3>3. QED
      BY <3>1, <3>2
  <2>6. ASSUME NEW n \in Modes, m \in timer[n].f, NEW t \in Threads, FiredFor(t, n)
        PROVE  WillExpire(t, m)
    <3>1. th[t].modes = timer[n].f
      BY <2>1, <2>6 DEF TimerInv, FiredOK
    <3>2. QED
      BY <2>6, <3>1 DEF WillExpire, FiredFor, CurrentSeq, Owner
  <2>7. QED
    BY <2>1, <2>2, <2>4, <2>5, <2>6 DEF TimerInv, WatchedOK
<1>2. QED
  BY <1>1, Invariance, PTL

-----------------------------------------------------------------------------
(***************************************************************************)
(* Versions: while the pollDesc has been reused fewer times than a tagged  *)
(* pointer can tell apart, a late event is not taken for one of the present *)
(* socket.                                                                 *)
(***************************************************************************)
\* The version counts the sockets.
VersionOK ==
    /\ opens <= MAX_OPENS
    /\ slot # "free" => opens >= 1 /\ pd.fdseq = opens
    /\ slot = "free" /\ opens = 0 => pd.fdseq = 0
    /\ slot = "free" /\ opens >= 1 /\ opens < MAX_OPENS => pd.fdseq = opens + 1

\* An event on its way is of an earlier socket, or tells the truth.
EventOK(t) ==
    th[t].pc \in {"tag", "seterr"} =>
        /\ th[t].seq <= opens /\ (slot = "opened" => th[t].seq < opens)
        /\ slot = "used" /\ th[t].seq = opens /\ th[t].err => socket.err

ErrInv ==
    /\ VersionOK /\ \A t \in Threads : EventOK(t)
    /\ slot = "opened" => ~info.err
    /\ slot = "used" /\ info.err => socket.err

\* The socket and the pollDesc stay; no new event.
LEMMA ErrQuiet ==
    ASSUME ErrInv, UNCHANGED <<slot, opens>>, pd'.fdseq = pd.fdseq, info'.err = info.err,
           socket.err => socket'.err,
           \A t \in Threads : EventOK(t)'
    PROVE  ErrInv'
  BY DEF ErrInv, VersionOK

\* One thread's step.
LEMMA ErrJob ==
    ASSUME ErrInv, UNCHANGED <<slot, opens>>, pd'.fdseq = pd.fdseq, info'.err = info.err,
           socket'.err = socket.err, NEW t \in Threads, Others(t),
           th'[t].pc \notin {"tag", "seterr"}
    PROVE  ErrInv'
<1>1. ASSUME NEW u \in Threads PROVE EventOK(u)'
  BY DEF ErrInv, EventOK, Others
<1>2. QED
  BY <1>1, ErrQuiet

LEMMA ErrStep ==
    ASSUME MAX_OPENS < TAG_MOD, Inv, ErrInv, Next
    PROVE  ErrInv'
<1>a. TypeOK /\ JobInv /\ WakeInv /\ Busy
  BY JobBusy DEF Inv
<1>b. opens \in Nat /\ MAX_OPENS \in Nat /\ TAG_MOD \in Nat /\ TAG_MOD > 1 /\ pd.fdseq \in Nat
  BY <1>a, PollAssumption DEF TypeOK, PdType
<1>1. ASSUME NEW m \in Modes, Read(m) \/ Goroutine(m) PROVE ErrInv'
  <2>1. UNCHANGED <<th, pd, info, slot, opens>>
    BY <1>1 DEF Goroutine, Read, pollReset, pollResetStore, Syscall, SyscallEnds, WritesOn, SyscallEAGAIN, pollWait,
                netpollblock, recheck, netpollblockcommit, swap
  <2>2. socket'.err = socket.err
    <3>1. CASE Syscall(m)
      BY <1>a, <3>1 DEF Syscall, SyscallEnds, WritesOn, TypeOK, SocketType
    <3>2. CASE ~Syscall(m)
      <4>1. socket' = socket
        BY <1>1, <3>2 DEF Goroutine, Read, pollReset, pollResetStore, SyscallEAGAIN, pollWait,
                          netpollblock, recheck, netpollblockcommit, swap
      <4>2. QED
        BY <4>1
    <3>3. QED
      BY <3>1, <3>2
  <2>3. QED
    BY <2>1, <2>2 DEF ErrInv, VersionOK, EventOK
<1>2. ASSUME AddWaiter \/ Tick \/ Arrive \/ Fail PROVE ErrInv'
  <2>1. UNCHANGED <<th, pd, info, slot, opens>>
    BY <1>2 DEF AddWaiter, Tick, Arrive, Fail
  <2>2. socket.err => socket'.err
    BY <1>2, <1>a, ArriveEffect DEF AddWaiter, Tick, Fail, TypeOK, SocketType
  <2>3. QED
    BY <2>1, <2>2 DEF ErrInv, VersionOK, EventOK
<1>3. CASE pollClose
  BY <1>3 DEF pollClose, ErrInv, VersionOK, EventOK
<1>4. CASE netpollopenFails
  BY <1>4 DEF netpollopenFails, ErrInv, VersionOK, EventOK
<1>5. CASE netpollopen
  <2>1. UNCHANGED <<th, pd, info, opens>> /\ slot = "opened" /\ slot' = "used"
    BY <1>5 DEF netpollopen
  <2>2. ASSUME NEW t \in Threads PROVE EventOK(t)'
    <3>1. th[t].seq \in Nat
      BY <1>a DEF TypeOK, ThreadType
    <3>2. QED
      BY <1>b, <2>1, <3>1 DEF ErrInv, EventOK
  <2>3. QED
    BY <2>1, <2>2 DEF ErrInv, VersionOK
<1>6. CASE free
  <2>1. UNCHANGED <<th, opens>> /\ slot = "closed" /\ slot' = "free" /\ pd'.fdseq = Version(pd.fdseq + 1)
    BY <1>6, <1>a, FreeEffect DEF free, Freeing
  <2>2. opens >= 1 /\ pd.fdseq = opens
    BY <2>1 DEF ErrInv, VersionOK
  <2>3. opens < MAX_OPENS => pd'.fdseq = opens + 1
    BY <1>b, <2>1, <2>2 DEF Version
  <2>4. VersionOK'
    BY <1>b, <2>1, <2>2, <2>3 DEF ErrInv, VersionOK
  <2>5. QED
    BY <2>1, <2>4 DEF ErrInv, EventOK
<1>7. CASE pollOpen
  <2>1. /\ UNCHANGED <<th>> /\ slot = "free" /\ slot' = "opened" /\ opens < MAX_OPENS /\ opens' = opens + 1
        /\ pd'.fdseq = (IF pd.fdseq = 0 THEN 1 ELSE pd.fdseq) /\ ~info'.err
    BY <1>7, <1>a, OpenEffect DEF pollOpen, Opening
  <2>2. VersionOK'
    BY <1>b, <2>1 DEF ErrInv, VersionOK
  <2>3. ASSUME NEW t \in Threads PROVE EventOK(t)'
    <3>1. th[t].seq \in Nat
      BY <1>a DEF TypeOK, ThreadType
    <3>2. QED
      BY <1>b, <2>1, <3>1 DEF ErrInv, EventOK
  <2>4. QED
    BY <2>1, <2>2, <2>3 DEF ErrInv
<1>8. ASSUME NEW t \in Threads, SetDeadline(t) \/ Close(t) \/ Fire(t) \/ Adjust(t) \/ pollSetDeadlineClosing(t)
                                \/ netpollgoready(t)
      PROVE  ErrInv'
  <2>1. UNCHANGED <<pd, info, slot, opens, socket>>
    BY <1>8 DEF SetDeadline, Close, Fire, Adjust, pollSetDeadlineClosing, netpollgoready
  <2>2. Others(t) /\ th'[t].pc \notin {"tag", "seterr"}
    <3>1. CASE SetDeadline(t)
      BY <1>a, <3>1, SetDeadlineEffect DEF Begins
    <3>2. CASE Close(t)
      BY <1>a, <3>2, CloseEffect DEF Begins
    <3>3. CASE Fire(t)
      BY <1>a, <3>3, FireEffect DEF Firing, Begins
    <3>4. CASE Adjust(t)
      BY <1>a, <3>4, AdjustEffect DEF GoesIdle, Begins
    <3>5. CASE pollSetDeadlineClosing(t)
      BY <1>a, <3>5, ClosingEffect
    <3>6. CASE netpollgoready(t)
      BY <1>a, <3>6, ReadyEffect DEF Readying
    <3>7. QED
      BY <1>8, <3>1, <3>2, <3>3, <3>4, <3>5, <3>6
  <2>3. QED
    BY <2>1, <2>2, ErrJob
<1>9. ASSUME NEW t \in Threads, netpollunblock(t) PROVE ErrInv'
  <2>1. PICK m \in Modes : Unblocking(t, m)
    BY <1>9, <1>a, UnblockEffect
  <2>2. /\ UNCHANGED <<info, slot, opens, socket>> /\ Others(t) /\ th'[t].pc \notin {"tag", "seterr"}
        /\ pd'.fdseq = pd.fdseq
    BY <2>1 DEF Unblocking, GoesOn, PdKept
  <2>3. QED
    BY <2>2, ErrJob
<1>10. ASSUME NEW t \in Threads, Expire(t) PROVE ErrInv'
  <2>1. PICK m \in Modes : Expiry(t, m)
    BY <1>10, <1>a, ExpireEffect
  <2>2. /\ UNCHANGED <<slot, opens, socket>> /\ Others(t) /\ th'[t].pc \notin {"tag", "seterr"}
        /\ pd'.fdseq = pd.fdseq /\ info'.err = info.err
    BY <2>1 DEF Expiry, GoesOn
  <2>3. QED
    BY <2>2, ErrJob
<1>11. ASSUME NEW t \in Threads, pollSetDeadline(t) PROVE ErrInv'
  <2>1. PICK delta \in Deltas, d \in [Modes -> Int] : Setting(t, d, delta)
    BY <1>11, <1>a, SetEffect
  <2>2. /\ UNCHANGED <<slot, opens, socket>> /\ Others(t) /\ th'[t].pc \notin {"tag", "seterr"}
        /\ pd'.fdseq = pd.fdseq /\ info'.err = info.err
    BY <2>1 DEF Setting, GoesOn
  <2>3. QED
    BY <2>2, ErrJob
<1>12. ASSUME NEW t \in Threads, pollUnblock(t) PROVE ErrInv'
  <2>1. Evicting(t)
    BY <1>12, <1>a, EvictEffect
  <2>2. /\ UNCHANGED <<slot, opens, socket>> /\ Others(t) /\ th'[t].pc \notin {"tag", "seterr"}
        /\ pd'.fdseq = pd.fdseq /\ info'.err = info.err
    BY <2>1 DEF Evicting, GoesOn
  <2>3. QED
    BY <2>2, ErrJob
<1>13. ASSUME NEW t \in Threads, netpolldeadlineimpl(t) PROVE ErrInv'
  <2>1. /\ UNCHANGED <<info, slot, opens, socket>> /\ Others(t) /\ th'[t].pc \notin {"tag", "seterr"}
        /\ pd'.fdseq = pd.fdseq
    BY <1>13, <1>a, DeadlineEffect DEF Starting, Stale, GoesIdle, Begins, GoesOn, PdKept
  <2>2. QED
    BY <2>1, ErrJob
<1>14. ASSUME NEW t \in Threads, EpollWait(t) PROVE ErrInv'
  <2>1. UNCHANGED <<pd, info, slot, opens>> /\ socket.listed
    BY <1>14 DEF EpollWait
  <2>2. socket'.err = socket.err
    BY <1>14, <1>a, EpollEffect
  <2>3. slot = "used" /\ socket.tag = opens
    BY <1>a, <2>1 DEF WakeInv, TagOK, ErrInv, VersionOK
  <2>4. Others(t) /\ EventOK(t)'
    <3>1. CASE GoesIdle(t)
      BY <3>1 DEF GoesIdle, Begins, EventOK
    <3>2. ASSUME NEW ms \in SUBSET Modes, Begins(t, "tag", ms, socket.tag, socket.err, TRUE)
          PROVE  Others(t) /\ EventOK(t)'
      BY <1>b, <2>1, <2>2, <2>3, <3>2 DEF Begins, EventOK
    <3>3. QED
      BY <1>14, <1>a, <3>1, <3>2, EpollEffect
  <2>5. ASSUME NEW u \in Threads, u # t PROVE EventOK(u)'
    BY <2>1, <2>2, <2>4, <2>5 DEF ErrInv, EventOK, Others
  <2>6. QED
    BY <2>1, <2>2, <2>4, <2>5, ErrQuiet
<1>15. ASSUME NEW t \in Threads, netpoll(t) PROVE ErrInv'
  <2>1. UNCHANGED <<pd, info, slot, opens, socket>> /\ th[t].pc = "tag"
    BY <1>15 DEF netpoll
  <2>2. Others(t) /\ EventOK(t)'
    <3>1. CASE GoesIdle(t)
      BY <3>1 DEF GoesIdle, Begins, EventOK
    <3>2. CASE ~GoesIdle(t)
      BY <1>15, <1>a, <2>1, <3>2, NetpollEffect DEF ErrInv, EventOK, SameJob
    <3>3. QED
      BY <3>1, <3>2
  <2>3. ASSUME NEW u \in Threads, u # t PROVE EventOK(u)'
    BY <2>1, <2>2, <2>3 DEF ErrInv, EventOK, Others
  <2>4. QED
    BY <2>1, <2>2, <2>3, ErrQuiet
<1>16. ASSUME NEW t \in Threads, setEventErr(t) PROVE ErrInv'
  <2>1. Reporting(t)
    BY <1>16, <1>a, ReportEffect
  <2>2. /\ UNCHANGED <<pd, slot, opens, socket>> /\ Others(t) /\ th[t].pc = "seterr" /\ th'[t].pc = "run"
        /\ info'.err = (IF info.fdseq = th[t].seq THEN th[t].err ELSE info.err)
    BY <2>1 DEF Reporting, ErrBit
  <2>3. info.fdseq = pd.fdseq /\ th[t].seq \in Nat
    BY <1>a DEF JobInv, Mirrors, TypeOK, ThreadType
  <2>4. \A u \in Threads : EventOK(u)'
    BY <2>2 DEF ErrInv, EventOK, Others
  <2>5. slot = "opened" => info'.err = info.err
    BY <1>b, <2>2, <2>3 DEF ErrInv, EventOK, VersionOK
  <2>6. slot = "used" /\ info'.err => socket.err
    BY <2>2, <2>3 DEF ErrInv, EventOK, VersionOK
  <2>7. QED
    BY <2>2, <2>4, <2>5, <2>6 DEF ErrInv, VersionOK
<1>17. QED
  BY <1>1, <1>2, <1>3, <1>4, <1>5, <1>6, <1>7, <1>8, <1>9, <1>10, <1>11, <1>12, <1>13, <1>14,
     <1>15, <1>16 DEF Next, Thread

\* As long as a pollDesc serves fewer sockets than its version tells apart, "not
\* pollable" is reported only on a socket that reported an error itself.
THEOREM ErrorsAreOurs == ASSUME MAX_OPENS < TAG_MOD PROVE Spec => []ErrorIsOurs
<1>1. Init => ErrInv
  <2>1. SUFFICES ASSUME Init PROVE ErrInv
    OBVIOUS
  <2>2. \A t \in Threads : EventOK(t)
    BY <2>1, IdleType DEF Init, EventOK
  <2>3. QED
    BY <2>1, <2>2, PollAssumption DEF Init, ErrInv, VersionOK
<1>2. Inv /\ ErrInv /\ [Next]_vars => ErrInv'
  <2>1. CASE UNCHANGED vars
    BY <2>1 DEF ErrInv, VersionOK, EventOK, vars
  <2>2. QED
    BY <2>1, ErrStep
<1>3. ErrInv => ErrorIsOurs
  BY DEF ErrInv, ErrorIsOurs
<1>4. QED
  BY <1>1, <1>2, <1>3, Invariance, PTL DEF Spec

-----------------------------------------------------------------------------
(***************************************************************************)
(* netpollWaiters.                                                         *)
(***************************************************************************)
Parked == {m \in Modes : gpp[m] = "g"}
Taking(t) == {t} \X (1 .. -th[t].delta)

\* No thread has anything to add, and the count is right.
CountInv == (\A t \in Threads : th[t].delta <= 0) /\ WaitersCounted

LEMMA ParkedFinite == IsFiniteSet(Parked) /\ Cardinality(Parked) \in Nat
<1>1. IsFiniteSet(Modes)
  <2>1. Modes = {"r"} \cup {"w"}
    BY DEF Modes
  <2>2. QED
    BY <2>1, FS_Singleton, FS_AddElement
<1>2. QED
  BY <1>1, FS_Subset, FS_CardinalityType DEF Parked

LEMMA TakingSize ==
    ASSUME TypeOK, NEW t \in Threads, th[t].delta <= 0
    PROVE  IsFiniteSet(Taking(t)) /\ Cardinality(Taking(t)) = -th[t].delta
<1>1. PICK v \in Nat : v = -th[t].delta
  BY DEF TypeOK, ThreadType
<1>2. IsFiniteSet({t}) /\ Cardinality({t}) = 1
  BY FS_Singleton
<1>3. IsFiniteSet(1 .. v) /\ Cardinality(1 .. v) = v
  BY FS_Interval
<1>4. /\ IsFiniteSet({t} \X (1 .. v))
      /\ Cardinality({t} \X (1 .. v)) = Cardinality({t}) * Cardinality(1 .. v)
  BY <1>2, <1>3, FS_Product
<1>5. Taking(t) = {t} \X (1 .. v)
  BY <1>1 DEF Taking
<1>6. QED
  BY <1>1, <1>2, <1>3, <1>4, <1>5

LEMMA OwedFinite ==
    ASSUME TypeOK, \A t \in Threads : th[t].delta <= 0
    PROVE  IsFiniteSet(Owed) /\ Cardinality(Owed) \in Nat
<1> DEFINE F == {Taking(t) : t \in Threads}
<1>1. IsFiniteSet(F)
  <2> DEFINE g == [t \in Threads |-> Taking(t)]
  <2>1. g \in [Threads -> F] /\ \A y \in F : \E t \in Threads : g[t] = y
    OBVIOUS
  <2> HIDE DEF g, F
  <2>2. g \in Surjection(Threads, F)
    BY <2>1 DEF Surjection
  <2>3. QED
    BY <2>2, FS_Surjection, PollAssumption
<1>2. \A T \in F : IsFiniteSet(T)
  BY TakingSize
<1>3. Owed = UNION F
  BY DEF Owed, Taking
<1> HIDE DEF F
<1>4. QED
  BY <1>1, <1>2, <1>3, FS_UNION, FS_CardinalityType

\* What is owed is what each thread takes.
LEMMA OwedBy == \A e : e \in Owed <=> \E t \in Threads : e \in Taking(t)
  BY DEF Owed, Taking

LEMMA OwedByNext == \A e : e \in Owed' <=> \E t \in Threads : e \in Taking(t)'
  BY DEF Owed, Taking

\* A step after which no thread owes more or less.
LEMMA CountQuiet ==
    ASSUME CountInv, waiters' = waiters, adding' = adding, Parked' = Parked,
           \A t \in Threads : th'[t].delta = th[t].delta
    PROVE  CountInv'
<1>1. \A t \in Threads : Taking(t)' = Taking(t)
  BY DEF Taking
<1>2. Owed' = Owed
  BY <1>1, OwedBy, OwedByNext
<1>3. QED
  BY <1>2 DEF CountInv, WaitersCounted, Parked

\* One thread owes one unit more.
LEMMA OwedMore ==
    ASSUME TypeOK, TypeOK', \A u \in Threads : th[u].delta <= 0, NEW t \in Threads, Others(t),
           th'[t].delta = th[t].delta - 1
    PROVE  Cardinality(Owed') = Cardinality(Owed) + 1
<1>1. PICK v \in Nat : v = -th[t].delta
  BY DEF TypeOK, ThreadType
<1> DEFINE x == <<t, v + 1>>
<1>2. Taking(t) = {t} \X (1 .. v) /\ Taking(t)' = {t} \X (1 .. v + 1)
  <2>1. -th'[t].delta = v + 1
    BY <1>1 DEF TypeOK, ThreadType
  <2>2. QED
    BY <1>1, <2>1 DEF Taking
<1>3. Taking(t)' = Taking(t) \cup {x} /\ x \notin Taking(t)
  BY <1>2
<1>4. \A u \in Threads : u # t => Taking(u)' = Taking(u) /\ x \notin Taking(u)
  BY DEF Taking, Others
<1> HIDE DEF x
<1>5. Owed' = Owed \cup {x} /\ x \notin Owed
  BY <1>3, <1>4, OwedBy, OwedByNext
<1>6. QED
  BY <1>5, OwedFinite, FS_AddElement

\* One thread has taken off what it owed.
LEMMA OwedPaid ==
    ASSUME TypeOK, TypeOK', \A u \in Threads : th[u].delta <= 0, NEW t \in Threads, Others(t),
           th'[t].delta = 0
    PROVE  /\ Cardinality(Owed') = Cardinality(Owed) + th[t].delta
           /\ \A u \in Threads : th'[u].delta <= 0
<1>1. \A u \in Threads : th'[u].delta <= 0
  BY DEF Others
<1>2. Taking(t)' = {}
  BY DEF Taking
<1>3. \A u \in Threads : u # t => Taking(u)' = Taking(u) /\ Taking(u) \cap Taking(t) = {}
  BY DEF Taking, Others
<1>4. Owed = Owed' \cup Taking(t) /\ Owed' \cap Taking(t) = {}
  BY <1>2, <1>3, OwedBy, OwedByNext
<1>5. IsFiniteSet(Owed) /\ Cardinality(Owed) \in Nat
  BY OwedFinite
<1>6. IsFiniteSet(Owed') /\ Cardinality(Owed') \in Nat
  <2>1. Owed' \subseteq Owed
    BY <1>4
  <2>2. QED
    BY <1>5, <2>1, FS_Subset, FS_CardinalityType
<1>7. IsFiniteSet(Taking(t)) /\ Cardinality(Taking(t)) = -th[t].delta
  BY TakingSize
<1>8. Cardinality(Owed' \cup Taking(t)) = Cardinality(Owed') + Cardinality(Taking(t)) - Cardinality(Owed' \cap Taking(t))
  BY <1>6, <1>7, FS_Union
<1>9. Cardinality(Owed' \cap Taking(t)) = 0
  BY <1>4, FS_EmptySet
<1>10. th[t].delta \in Int
  BY DEF TypeOK, ThreadType
<1>11. Cardinality(Owed) = Cardinality(Owed') + Cardinality(Taking(t)) - 0
  BY <1>4, <1>8, <1>9, Zenon
<1>12. QED
  BY <1>1, <1>5, <1>6, <1>7, <1>10, <1>11

\* A thread's step that is not about goroutines; no thread that begins owes.
LEMMA CountJob ==
    ASSUME JobInv, CountInv, UNCHANGED <<gpp, waiters, adding>>, NEW t \in Threads, Others(t),
           th'[t].delta = th[t].delta
    PROVE  CountInv'
<1>1. \A u \in Threads : th'[u].delta = th[u].delta
  BY DEF Others
<1>2. Parked' = Parked
  BY DEF Parked
<1>3. QED
  BY <1>1, <1>2, CountQuiet

LEMMA CountStep ==
    ASSUME Inv, Inv', CountInv, Next
    PROVE  CountInv'
<1>a. TypeOK /\ JobInv /\ HandInv /\ LifeInv /\ Busy /\ TypeOK'
  BY JobBusy DEF Inv
<1>b. waiters \in Int /\ adding \in Nat /\ IsFiniteSet(Owed) /\ Cardinality(Owed) \in Nat
      /\ IsFiniteSet(Parked) /\ Cardinality(Parked) \in Nat
      /\ waiters + adding - Cardinality(Owed) = Cardinality(Parked)
      /\ \A t \in Threads : th[t].delta <= 0
  BY <1>a, OwedFinite, ParkedFinite DEF TypeOK, CountInv, WaitersCounted, Parked
<1>1. ASSUME NEW m \in Modes, Read(m) \/ Goroutine(m) PROVE CountInv'
  <2>1. UNCHANGED <<th, waiters>> /\ Owed' = Owed
    BY <1>1 DEF Goroutine, Read, pollReset, pollResetStore, Syscall, SyscallEnds, WritesOn, SyscallEAGAIN, pollWait,
                netpollblock, recheck, netpollblockcommit, swap, Owed
  <2>2. GppOK(m)
    BY <1>a DEF HandInv
  <2>3. CASE netpollblockcommit(m) /\ gpp[m] = "wait"
    <3>1. gpp' = [gpp EXCEPT ![m] = "g"] /\ adding' = adding + 1
      BY <2>3 DEF netpollblockcommit, Gpp
    <3>2. Parked' = Parked \cup {m} /\ m \notin Parked
      BY <1>a, <2>3, <3>1 DEF Parked, TypeOK
    <3>3. Cardinality(Parked') = Cardinality(Parked) + 1
      BY <1>b, <3>2, FS_AddElement
    <3>4. waiters' + adding' - Cardinality(Owed') = Cardinality(Parked')
      BY <1>b, <2>1, <3>1, <3>3
    <3>5. QED
      BY <1>b, <2>1, <3>4 DEF CountInv, WaitersCounted, Parked
  <2>4. CASE ~(netpollblockcommit(m) /\ gpp[m] = "wait")
    <3>1. adding' = adding
      BY <1>1, <2>4 DEF Goroutine, Read, pollReset, pollResetStore, Syscall, SyscallEnds, WritesOn, SyscallEAGAIN, pollWait,
                        netpollblock, recheck, netpollblockcommit, swap
    <3>2. \A n \in Modes : n # m => gpp'[n] = gpp[n]
      BY <1>1, <1>a DEF TypeOK, Gpp, Goroutine, Read, pollReset, pollResetStore, Syscall, SyscallEnds, WritesOn, SyscallEAGAIN,
                pollWait, netpollblock, recheck, netpollblockcommit, swap
    <3>3. gpp[m] # "g" /\ gpp'[m] # "g"
      <4>1. gpp[m] # "g"
        BY <1>1, <2>2 DEF GppOK, Goroutine, Read, pollReset, pollResetStore, Syscall, SyscallEnds, WritesOn, SyscallEAGAIN, pollWait,
                          netpollblock, recheck, netpollblockcommit, swap
      <4>2. gpp'[m] \in {gpp[m], "nil", "wait"}
        BY <1>1, <1>a, <2>4 DEF TypeOK, Gpp, Goroutine, Read, pollReset, pollResetStore, Syscall, SyscallEnds, WritesOn, SyscallEAGAIN,
                pollWait, netpollblock, recheck, netpollblockcommit, swap
      <4>3. QED
        BY <4>1, <4>2
    <3>4. Parked' = Parked
      BY <3>2, <3>3 DEF Parked
    <3>5. QED
      BY <2>1, <3>1, <3>4, CountQuiet
  <2>5. QED
    BY <2>3, <2>4
<1>2. ASSUME \/ netpollopen \/ netpollopenFails \/ pollClose \/ Arrive \/ Fail \/ Tick \/ free
      PROVE  CountInv'
  <2>1. UNCHANGED <<th, gpp, waiters, adding>>
    BY <1>2 DEF netpollopen, netpollopenFails, pollClose, Arrive, Fail, Tick, free
  <2>2. QED
    BY <2>1, CountQuiet DEF Parked
<1>3. CASE pollOpen
  <2>1. UNCHANGED <<th, waiters, adding>> /\ slot = "free" /\ \A m \in Modes : gpp'[m] = "nil"
    BY <1>3 DEF pollOpen
  <2>2. \A m \in Modes : gpp[m] # "g"
    BY <1>a, <2>1 DEF LifeInv, HandInv, GppOK, Everyone
  <2>3. Parked' = Parked
    BY <2>1, <2>2 DEF Parked
  <2>4. QED
    BY <2>1, <2>3, CountQuiet
<1>4. CASE AddWaiter
  <2>1. UNCHANGED <<th, gpp>>
    BY <1>4 DEF AddWaiter
  <2>2. Owed' = Owed /\ Parked' = Parked
    BY <2>1 DEF Owed, Parked
  <2>3. adding' = adding - 1 /\ waiters' = waiters + 1
    BY <1>4 DEF AddWaiter
  <2>4. waiters' + adding' - Cardinality(Owed') = Cardinality(Parked')
    BY <1>b, <2>2, <2>3
  <2>5. QED
    BY <1>b, <2>1, <2>4 DEF CountInv, WaitersCounted, Parked
<1>5. ASSUME NEW t \in Threads, SetDeadline(t) \/ Close(t) \/ Fire(t) \/ EpollWait(t)
                                \/ netpoll(t) \/ pollSetDeadline(t) \/ pollSetDeadlineClosing(t)
                                \/ netpolldeadlineimpl(t) \/ pollUnblock(t) \/ setEventErr(t) \/ Expire(t)
                                \/ netpollgoready(t)
      PROVE  CountInv'
  <2>1. UNCHANGED <<gpp, waiters, adding>>
    BY <1>5 DEF SetDeadline, Close, Fire, EpollWait, netpoll, pollSetDeadline, netpollgoready,
                pollSetDeadlineClosing, netpolldeadlineimpl, pollUnblock, setEventErr, Expire
  <2>2. th[t].pc \notin {"run", "ready"} => th[t].delta = 0
    BY <1>a DEF JobInv, ThreadOK
  <2>3. Others(t) /\ th'[t].delta = th[t].delta
    <3>1. CASE SetDeadline(t)
      BY <1>a, <2>2, <3>1, SetDeadlineEffect DEF SetDeadline, Begins
    <3>2. CASE Close(t)
      BY <1>a, <2>2, <3>2, CloseEffect DEF Close, Begins
    <3>3. CASE Fire(t)
      <4>1. PICK n \in Modes : Firing(t, n)
        BY <1>a, <3>3, FireEffect
      <4>2. QED
        BY <2>2, <4>1 DEF Firing, Begins
    <3>4. CASE EpollWait(t)
      BY <1>a, <2>2, <3>4, EpollEffect DEF EpollWait, GoesIdle, Begins
    <3>5. CASE netpoll(t)
      BY <1>a, <2>2, <3>5, NetpollEffect DEF netpoll, GoesIdle, Begins
    <3>6. CASE pollSetDeadline(t)
      <4>1. PICK delta \in Deltas, d \in [Modes -> Int] : Setting(t, d, delta)
        BY <1>a, <3>6, SetEffect
      <4>2. QED
        BY <4>1 DEF Setting
    <3>7. CASE pollSetDeadlineClosing(t)
      BY <1>a, <3>7, ClosingEffect
    <3>8. CASE netpolldeadlineimpl(t)
      BY <1>a, <2>2, <3>8, DeadlineEffect DEF Starting, Stale, GoesIdle, Begins
    <3>9. CASE pollUnblock(t)
      BY <1>a, <3>9, EvictEffect DEF Evicting
    <3>10. CASE setEventErr(t)
      BY <1>a, <3>10, ReportEffect DEF Reporting
    <3>11. CASE Expire(t)
      <4>1. PICK m \in Modes : Expiry(t, m)
        BY <1>a, <3>11, ExpireEffect
      <4>2. QED
        BY <4>1 DEF Expiry
    <3>12. CASE netpollgoready(t)
      <4>1. PICK m \in Modes : Readying(t, m)
        BY <1>a, <3>12, ReadyEffect
      <4>2. QED
        BY <4>1 DEF Readying
    <3>13. QED
      BY <1>5, <3>1, <3>2, <3>3, <3>4, <3>5, <3>6, <3>7, <3>8, <3>9, <3>10, <3>11, <3>12
  <2>4. QED
    BY <1>a, <2>1, <2>3, CountJob
<1>6. ASSUME NEW t \in Threads, Adjust(t) PROVE CountInv'
  <2>1. /\ UNCHANGED <<gpp, adding>> /\ waiters' = waiters + th[t].delta /\ Others(t)
        /\ th'[t].delta = 0 /\ th[t].delta \in Int
    BY <1>6, <1>a, AdjustEffect DEF Adjust, GoesIdle, Begins, TypeOK, ThreadType
  <2>2. /\ Cardinality(Owed') = Cardinality(Owed) + th[t].delta
        /\ \A u \in Threads : th'[u].delta <= 0
    BY <1>a, <1>b, <2>1, OwedPaid
  <2>3. Parked' = Parked
    BY <2>1 DEF Parked
  <2>4. waiters' + adding' - Cardinality(Owed') = Cardinality(Parked')
    BY <1>b, <2>1, <2>2, <2>3
  <2>5. QED
    BY <2>2, <2>4 DEF CountInv, WaitersCounted, Parked
<1>7. ASSUME NEW t \in Threads, netpollunblock(t) PROVE CountInv'
  <2>1. PICK m \in Modes : Unblocking(t, m)
    BY <1>7, <1>a, UnblockEffect
  <2>2. /\ UNCHANGED <<waiters, adding>> /\ Others(t) /\ th[t].delta \in Int
        /\ gpp' = [gpp EXCEPT ![m] = Unblocked(gpp[m], th[t].io)]
        /\ th'[t].delta = th[t].delta + Delta(gpp[m])
    BY <2>1, <1>a DEF Unblocking, TypeOK, ThreadType
  <2>3. gpp'[m] # "g" /\ \A n \in Modes : n # m => gpp'[n] = gpp[n]
    <3>1. gpp'[m] = Unblocked(gpp[m], th[t].io) /\ \A n \in Modes : n # m => gpp'[n] = gpp[n]
      BY <1>a, <2>2 DEF TypeOK
    <3>2. QED
      BY <3>1 DEF Unblocked
  <2>4. CASE gpp[m] # "g"
    <3>1. th'[t].delta = th[t].delta
      BY <2>2, <2>4 DEF Delta
    <3>2. Parked' = Parked
      BY <2>3, <2>4 DEF Parked
    <3>3. \A u \in Threads : th'[u].delta = th[u].delta
      BY <2>2, <3>1 DEF Others
    <3>4. QED
      BY <2>2, <3>2, <3>3, CountQuiet
  <2>5. CASE gpp[m] = "g"
    <3>1. th'[t].delta = th[t].delta - 1
      BY <2>2, <2>5 DEF Delta
    <3>2. Cardinality(Owed') = Cardinality(Owed) + 1
      BY <1>a, <1>b, <2>2, <3>1, OwedMore
    <3>3. Parked = Parked' \cup {m} /\ m \notin Parked' /\ Parked' \subseteq Parked
      BY <2>3, <2>5 DEF Parked
    <3>4. IsFiniteSet(Parked')
      BY <1>b, <3>3, FS_Subset
    <3>5. Cardinality(Parked) = Cardinality(Parked') + 1 /\ Cardinality(Parked') \in Nat
      BY <3>3, <3>4, FS_AddElement, FS_CardinalityType
    <3>6. waiters' + adding' - Cardinality(Owed') = Cardinality(Parked')
      BY <1>b, <2>2, <3>2, <3>5
    <3>7. \A u \in Threads : th'[u].delta <= 0
      BY <1>b, <2>2, <3>1 DEF Others
    <3>8. QED
      BY <3>6, <3>7 DEF CountInv, WaitersCounted, Parked
  <2>6. QED
    BY <2>4, <2>5
<1>8. QED
  BY <1>1, <1>2, <1>3, <1>4, <1>5, <1>6, <1>7 DEF Next, Thread

\* For any number of threads, netpollWaiters is the number of parked goroutines
\* up to the adjustments that are under way: none is lost and none made twice.
\* While the addition for a parked goroutine is still to come it is one too low.
THEOREM WaitersAreCounted == Spec => []WaitersCounted
<1>1. Init => CountInv
  <2>1. SUFFICES ASSUME Init PROVE CountInv
    OBVIOUS
  <2>2. \A t \in Threads : th[t].delta = 0
    BY <2>1, IdleType DEF Init
  <2>3. Owed = {} /\ Parked = {}
    <3>1. \A t \in Threads : Taking(t) = {}
      BY <2>2 DEF Taking
    <3>2. QED
      BY <2>1, <3>1, OwedBy DEF Init, Parked
  <2>4. QED
    BY <2>1, <2>2, <2>3, FS_EmptySet DEF Init, CountInv, WaitersCounted, Parked
<1>2. Inv /\ Inv' /\ CountInv /\ [Next]_vars => CountInv'
  <2>1. CASE UNCHANGED vars
    BY <2>1, CountQuiet DEF vars, Parked
  <2>2. QED
    BY <2>1, CountStep
<1>3. CountInv => WaitersCounted
  BY DEF CountInv
<1>4. QED
  BY <1>1, <1>2, <1>3, Invariance, PTL DEF Spec

=============================================================================
