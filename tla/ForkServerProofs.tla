-------------------------- MODULE ForkServerProofs --------------------------
(***************************************************************************)
(* ForkServer for any number of clients: no ended child is forgotten, no   *)
(* connection is held open by the wrong process, and no child can accept.  *)
(***************************************************************************)
EXTENDS ForkServer, FiniteSetTheorems, SequenceTheorems, TLAPS

(***************************************************************************)
(* The inductive invariant.  The three properties speak of children that   *)
(* are done; what carries them are facts about those that are not: who     *)
(* holds the listening socket has not started, who holds a connection is   *)
(* either the parent between accept and close or a child still at work.    *)
(***************************************************************************)
ProcessTypes ==
    /\ child \in [Clients -> {"none", "new", "serving", "fallen", "zombie", "reaped"}]
    /\ holders \in [Clients -> SUBSET {"parent", "child"}]
    /\ sigchld \in BOOLEAN /\ handling \in BOOLEAN

CurOnlyInBetween == ppc \in {"accept", "exited"} => cur = {}

ListenersAreNew == \A c \in Clients : c \in listener => child[c] = "new"

HoldersAtWork ==
    \A c \in Clients :
        /\ "parent" \in holders[c] => c \in cur
        /\ "child" \in holders[c] => child[c] \in {"new", "serving"}

IInv == /\ ProcessTypes /\ CurOnlyInBetween /\ ListenersAreNew
        /\ HoldersAtWork /\ NoForgottenZombie

\* In the initial state nobody holds anything.
LEMMA InitIInv == Init => IInv
BY DEF Init, IInv, ProcessTypes, CurOnlyInBetween, ListenersAreNew, HoldersAtWork,
       NoForgottenZombie, Zombies

\* The invariant gives the properties.
LEMMA IInvImplies == IInv => NoForgottenZombie /\ ClosedForReal /\ OneAcceptor
<1> SUFFICES ASSUME IInv PROVE ClosedForReal /\ OneAcceptor
  BY DEF IInv
<1>1. ClosedForReal
  <2> SUFFICES ASSUME NEW c \in Clients, child[c] \in {"fallen", "zombie", "reaped"}, c \notin cur
               PROVE  holders[c] = {}
    BY DEF ClosedForReal
  <2>1. holders[c] \subseteq {"parent", "child"}
    BY DEF IInv, ProcessTypes
  <2>2. "parent" \notin holders[c] /\ "child" \notin holders[c]
    BY DEF IInv, HoldersAtWork
  <2>3. QED
    BY <2>1, <2>2
<1>2. OneAcceptor
  BY DEF IInv, ListenersAreNew, OneAcceptor
<1>3. QED
  BY <1>1, <1>2

-----------------------------------------------------------------------------
(***************************************************************************)
(* Steps of the parent.                                                    *)
(***************************************************************************)
LEMMA AcceptKeeps == IInv /\ Accept => IInv'
<1> SUFFICES ASSUME IInv, Accept PROVE IInv'
  OBVIOUS
<1> USE DEF IInv, Accept, At
<1>1. cur = {}
  BY DEF CurOnlyInBetween
<1>2. PICK d \in queue : /\ cur' = {d}
                         /\ holders' = [holders EXCEPT ![d] = @ \cup {"parent"}]
  OBVIOUS
<1>3. ProcessTypes'
  BY <1>2 DEF ProcessTypes, signals
<1>4. HoldersAtWork'
  BY <1>1, <1>2 DEF ProcessTypes, HoldersAtWork
<1>5. CurOnlyInBetween' /\ ListenersAreNew' /\ NoForgottenZombie'
  BY DEF CurOnlyInBetween, ListenersAreNew, NoForgottenZombie, Zombies, signals
<1>6. QED
  BY <1>3, <1>4, <1>5

LEMMA ForkKeeps == IInv /\ Fork => IInv'
<1> SUFFICES ASSUME IInv, Fork PROVE IInv'
  OBVIOUS
<1> USE DEF IInv, Fork, At
<1>1. ProcessTypes'
  BY DEF ProcessTypes, signals
<1>2. HoldersAtWork'
  BY DEF ProcessTypes, HoldersAtWork
<1>3. ListenersAreNew'
  BY DEF ProcessTypes, ListenersAreNew
<1>4. NoForgottenZombie'
  BY DEF ProcessTypes, NoForgottenZombie, Zombies, signals
<1>5. CurOnlyInBetween'
  BY DEF CurOnlyInBetween
<1>6. QED
  BY <1>1, <1>2, <1>3, <1>4, <1>5

LEMMA CloseKeeps == IInv /\ (ParentClose \/ ParentFails) => IInv'
<1> SUFFICES ASSUME IInv, ParentClose \/ ParentFails PROVE IInv'
  OBVIOUS
<1> USE DEF IInv, ParentClose, ParentFails, At, Dropped
<1>1. ProcessTypes'
  BY DEF ProcessTypes, signals
<1>2. HoldersAtWork'
  BY DEF ProcessTypes, HoldersAtWork
<1>3. ListenersAreNew'
  BY DEF ProcessTypes, ListenersAreNew
<1>4. NoForgottenZombie'
  BY DEF ProcessTypes, NoForgottenZombie, Zombies, signals
<1>5. CurOnlyInBetween'
  BY DEF CurOnlyInBetween
<1>6. QED
  BY <1>1, <1>2, <1>3, <1>4, <1>5

\* A round of the handler, its call and its return: the loop only ends with
\* no ended child left, and a death meanwhile sets the pending bit again.
LEMMA HandlerKeeps == IInv /\ (Deliver \/ Reap \/ HandlerReturns) => IInv'
<1> SUFFICES ASSUME IInv, Deliver \/ Reap \/ HandlerReturns PROVE IInv'
  OBVIOUS
<1> USE DEF IInv, Deliver, Reap, HandlerReturns, StillHandling
<1>1. ProcessTypes'
  BY DEF ProcessTypes
<1>2. HoldersAtWork'
  BY DEF ProcessTypes, HoldersAtWork, parent, Zombies
<1>3. ListenersAreNew'
  BY DEF ProcessTypes, ListenersAreNew, Zombies
<1>4. NoForgottenZombie'
  BY DEF ProcessTypes, NoForgottenZombie, Zombies, parent
<1>5. CurOnlyInBetween'
  BY DEF CurOnlyInBetween, parent
<1>6. QED
  BY <1>1, <1>2, <1>3, <1>4, <1>5

-----------------------------------------------------------------------------
(***************************************************************************)
(* Steps of a child and of its client.                                     *)
(***************************************************************************)
LEMMA ChildStartKeeps ==
    ASSUME IInv, NEW c \in Clients, ChildStart(c) PROVE IInv'
<1> USE DEF IInv, ChildStart
<1>1. ProcessTypes'
  BY DEF ProcessTypes, signals
<1>2. HoldersAtWork'
  BY DEF ProcessTypes, HoldersAtWork, parent
<1>3. ListenersAreNew'
  BY DEF ProcessTypes, ListenersAreNew
<1>4. NoForgottenZombie' /\ CurOnlyInBetween'
  BY DEF ProcessTypes, NoForgottenZombie, Zombies, CurOnlyInBetween, signals, parent
<1>5. QED
  BY <1>1, <1>2, <1>3, <1>4

\* A child that is not new and ends.
LEMMA EndsKeeps ==
    ASSUME IInv, NEW c \in Clients, child[c] # "new", Ends(c), listener' = listener
    PROVE  IInv'
<1> USE DEF IInv, Ends
<1>1. ProcessTypes'
  BY DEF ProcessTypes
<1>2. HoldersAtWork'
  BY DEF ProcessTypes, HoldersAtWork, parent
<1>3. ListenersAreNew'
  BY DEF ProcessTypes, ListenersAreNew
<1>4. NoForgottenZombie'
  BY DEF ProcessTypes, NoForgottenZombie, Zombies, parent
<1>5. CurOnlyInBetween'
  BY DEF CurOnlyInBetween, parent
<1>6. QED
  BY <1>1, <1>2, <1>3, <1>4, <1>5

LEMMA RecvFailsKeeps ==
    ASSUME IInv, NEW c \in Clients, RecvFails(c) PROVE IInv'
<1> USE DEF IInv, RecvFails
<1>1. ProcessTypes'
  BY DEF ProcessTypes, signals
<1>2. HoldersAtWork'
  BY DEF ProcessTypes, HoldersAtWork, parent
<1>3. ListenersAreNew'
  BY DEF ProcessTypes, ListenersAreNew
<1>4. NoForgottenZombie' /\ CurOnlyInBetween'
  BY DEF ProcessTypes, NoForgottenZombie, Zombies, CurOnlyInBetween, signals, parent
<1>5. QED
  BY <1>1, <1>2, <1>3, <1>4

\* Steps that touch no process: the echo and the clients' own.
LEMMA OthersKeep ==
    ASSUME IInv, UNCHANGED <<parent, child, holders, listener, signals>> PROVE IInv'
BY DEF IInv, ProcessTypes, HoldersAtWork, ListenersAreNew, NoForgottenZombie,
       Zombies, CurOnlyInBetween, signals, parent

LEMMA IInvStep == IInv /\ [Next]_vars => IInv'
<1> SUFFICES ASSUME IInv, [Next]_vars PROVE IInv'
  OBVIOUS
<1>1. CASE ParentStep \/ ParentFails
  BY <1>1, AcceptKeeps, ForkKeeps, CloseKeeps, HandlerKeeps DEF ParentStep
<1>2. CASE \E c \in Clients : ChildStep(c)
  <2> PICK c \in Clients : ChildStep(c)
    BY <1>2
  <2>1. CASE ChildStart(c)
    BY <2>1, ChildStartKeeps
  <2>2. CASE RecvFails(c)
    BY <2>2, RecvFailsKeeps
  <2>3. CASE ClientLeft(c) \/ BrokenPipe(c) \/ FallenExits(c)
    BY <2>3, EndsKeeps DEF ClientLeft, BrokenPipe, FallenExits
  <2>4. CASE Echo(c)
    BY <2>4, OthersKeep DEF Echo
  <2>5. QED
    BY <2>1, <2>2, <2>3, <2>4 DEF ChildStep
<1>3. CASE \E c \in Clients : Connect(c) \/ Say(c) \/ Leave(c)
  BY <1>3, OthersKeep DEF Connect, Say, Leave
<1>4. CASE UNCHANGED vars
  BY <1>4, OthersKeep DEF vars
<1>5. QED
  BY <1>1, <1>2, <1>3, <1>4 DEF Next

LEMMA IInvHolds == Spec => []IInv
BY InitIInv, IInvStep, PTL DEF Spec

\* For any number of clients an ended child always has its signal pending or the
\* handler at work, though SIGCHLD is one bit: the handler's loop (lines 12-14)
\* ends only when waitpid finds nobody.
THEOREM NeverForgotten == Spec => []NoForgottenZombie
BY IInvHolds, IInvImplies, PTL

\* A connection its child is done with is held open by nobody else: the child
\* closes it (line 93) or exits, and the parent's copy goes before the next accept
\* (line 73), whichever of the two comes first.
THEOREM ConnectionCloses == Spec => []ClosedForReal
BY IInvHolds, IInvImplies, PTL

\* A child in its loop, or fallen out of it back into accept, does not hold the
\* listening socket (line 76), so there is one server.
THEOREM OneServer == Spec => []OneAcceptor
BY IInvHolds, IInvImplies, PTL

-----------------------------------------------------------------------------
(***************************************************************************)
(* What is echoed: counting bytes in sequences.                            *)
(***************************************************************************)
Where(s, b) == {i \in 1 .. Len(s) : s[i] = b}

LEMMA WhereFinite ==
    ASSUME NEW S, NEW s \in Seq(S), NEW b
    PROVE  IsFiniteSet(Where(s, b)) /\ Count(s, b) = Cardinality(Where(s, b)) /\ Count(s, b) \in Nat
<1>1. IsFiniteSet(1 .. Len(s)) /\ Where(s, b) \in SUBSET (1 .. Len(s))
  BY FS_Interval DEF Where
<1>2. IsFiniteSet(Where(s, b))
  BY <1>1, FS_Subset
<1>3. QED
  BY <1>2, FS_CardinalityType DEF Count, Where

\* Counting a concatenation.
LEMMA CountConcat ==
    ASSUME NEW S, NEW s \in Seq(S), NEW t \in Seq(S), NEW b
    PROVE  Count(s \o t, b) = Count(s, b) + Count(t, b)
<1> DEFINE Shifted == {i \in Len(s) + 1 .. Len(s) + Len(t) : t[i - Len(s)] = b}
           shift == [i \in Where(t, b) |-> i + Len(s)]
<1>1. Len(s) \in Nat /\ Len(t) \in Nat
  OBVIOUS
<1>2. Where(s \o t, b) = Where(s, b) \cup Shifted
  <2>1. ASSUME NEW i PROVE i \in Where(s \o t, b) <=> i \in Where(s, b) \cup Shifted
    BY <1>1, ConcatProperties DEF Where
  <2>2. QED
    BY <2>1
<1>3. Where(s, b) \cap Shifted = {}
  BY <1>1 DEF Where
<1>4. shift \in Bijection(Where(t, b), Shifted)
  <2>1. shift \in [Where(t, b) -> Shifted]
    BY <1>1 DEF Where
  <2>2. \A i, j \in Where(t, b) : shift[i] = shift[j] => i = j
    BY <1>1 DEF Where
  <2>3. \A k \in Shifted : k - Len(s) \in Where(t, b) /\ shift[k - Len(s)] = k
    BY <1>1 DEF Where
  <2>4. QED
    <3> HIDE DEF shift, Shifted
    <3>1. shift \in Injection(Where(t, b), Shifted)
      BY <2>1, <2>2 DEF Injection, IsInjective
    <3>2. shift \in Surjection(Where(t, b), Shifted)
      BY <2>1, <2>3 DEF Surjection
    <3>3. QED
      BY <3>1, <3>2 DEF Bijection
<1>5. IsFiniteSet(Shifted) /\ Cardinality(Shifted) = Count(t, b)
  BY <1>4, WhereFinite, FS_Bijection DEF ExistsBijection
<1> HIDE DEF shift, Shifted
<1>6. Cardinality(Where(s \o t, b)) = Cardinality(Where(s, b)) + Cardinality(Shifted)
  <2>1. IsFiniteSet(Where(s, b)) /\ Cardinality(Where(s, b)) \in Nat /\ Cardinality(Shifted) \in Nat
    BY <1>5, WhereFinite
  <2>2. Cardinality(Where(s, b) \cup Shifted) = Cardinality(Where(s, b)) + Cardinality(Shifted) - Cardinality({})
    BY <1>3, <1>5, <2>1, FS_Union
  <2>3. QED
    BY <1>2, <2>1, <2>2, FS_EmptySet
<1>7. s \o t \in Seq(S)
  BY ConcatProperties
<1>8. QED
  BY <1>5, <1>6, <1>7, WhereFinite

\* strlen stops at the first NUL: the text of a chunk is the longest beginning of
\* it without one.
LEMMA TextIsPrefix ==
    ASSUME NEW S, NEW chunk \in Seq(S)
    PROVE  \E n \in 0 .. Len(chunk) :
              /\ Text(chunk) = SubSeq(chunk, 1, n)
              /\ \A i \in 1 .. Len(chunk) : i <= n <=> \A j \in 1 .. i : chunk[j] # "nul"
<1> DEFINE P == {i \in 1 .. Len(chunk) : \A j \in 1 .. i : chunk[j] # "nul"}
           n == Cardinality(P)
<1>1. IsFiniteSet(1 .. Len(chunk)) /\ P \in SUBSET (1 .. Len(chunk))
  BY FS_Interval
<1>2. IsFiniteSet(P) /\ n \in Nat /\ n <= Len(chunk)
  <2>0. Len(chunk) \in Nat /\ 1 \in Int /\ Len(chunk) \in Int
    OBVIOUS
  <2>1. Len(chunk) \in Nat /\ Cardinality(1 .. Len(chunk)) = Len(chunk)
    BY ONLY <2>0, FS_Interval
  <2> HIDE DEF P
  <2>2. IsFiniteSet(P) /\ n <= Cardinality(1 .. Len(chunk))
    BY <1>1, FS_Subset
  <2>3. QED
    BY <2>1, <2>2, FS_CardinalityType
<1>3. P \in SUBSET (1 .. n)
  <2> SUFFICES ASSUME NEW i \in P PROVE i <= n
    BY <1>1, <1>2
  <2>1. 1 .. i \in SUBSET P
    OBVIOUS
  <2>2. Cardinality(1 .. i) <= n
    BY <1>2, <2>1, FS_Subset
  <2>3. QED
    BY <2>2, FS_Interval
<1>4. P = 1 .. n
  <2> HIDE DEF P
  <2>1. IsFiniteSet(1 .. n) /\ Cardinality(1 .. n) = n
    BY <1>2, FS_Interval
  <2>2. QED
    BY <1>3, <2>1, FS_Subset
<1>5. n \in 0 .. Len(chunk) /\ Text(chunk) = SubSeq(chunk, 1, n)
  BY <1>2 DEF Text
<1>6. \A i \in 1 .. Len(chunk) : i <= n <=> \A j \in 1 .. i : chunk[j] # "nul"
  <2> SUFFICES ASSUME NEW i \in 1 .. Len(chunk)
               PROVE  i <= n <=> \A j \in 1 .. i : chunk[j] # "nul"
    OBVIOUS
  <2>1. i \in P <=> i <= n
    BY <1>2, <1>4
  <2>2. QED
    BY <2>1
<1> HIDE DEF n
<1>7. QED
  BY <1>5, <1>6

\* Only text is sent, and all of it when there is no NUL.
LEMMA TextCounts ==
    ASSUME NEW chunk \in Seq(Bytes)
    PROVE  /\ Text(chunk) \in Seq(Bytes) /\ Count(Text(chunk), "nul") = 0
           /\ (\A i \in 1 .. Len(chunk) : chunk[i] # "nul") => Count(Text(chunk), "x") = Len(chunk)
<1>1. PICK n \in 0 .. Len(chunk) :
              /\ Text(chunk) = SubSeq(chunk, 1, n)
              /\ \A i \in 1 .. Len(chunk) : i <= n <=> \A j \in 1 .. i : chunk[j] # "nul"
  BY TextIsPrefix
<1>2. /\ Text(chunk) \in Seq(Bytes) /\ Len(Text(chunk)) = n
      /\ \A i \in 1 .. n : Text(chunk)[i] = chunk[i]
  BY <1>1, SubSeqProperties
<1>3. \A i \in 1 .. n : Text(chunk)[i] # "nul"
  BY <1>1, <1>2
<1>4. Where(Text(chunk), "nul") = {}
  BY <1>2, <1>3 DEF Where
<1>5. ASSUME \A i \in 1 .. Len(chunk) : chunk[i] # "nul" PROVE Count(Text(chunk), "x") = Len(chunk)
  <2>1. n = Len(chunk)
    <3>1. CASE Len(chunk) = 0
      BY <3>1
    <3>2. CASE Len(chunk) # 0
      <4>1. Len(chunk) \in 1 .. Len(chunk)
        BY <3>2
      <4>2. QED
        BY <1>1, <1>5, <4>1
    <3>3. QED
      BY <3>1, <3>2
  <2>2. Where(Text(chunk), "x") = 1 .. n
    BY <1>2, <1>3 DEF Where, Bytes
  <2>3. QED
    <3>1. Count(Text(chunk), "x") = Cardinality(1 .. n)
      BY <1>2, <2>2, WhereFinite
    <3>2. Cardinality(1 .. n) = n
      BY FS_Interval
    <3>3. QED
      BY <2>1, <3>1, <3>2
<1>6. QED
  BY <1>2, <1>4, <1>5, WhereFinite, FS_EmptySet

\* What may follow the text counts as neither.
LEMMA OverreadCounts ==
    ASSUME NEW chunk, NEW rest \in Overread(chunk)
    PROVE  rest \in Seq({"garbage"}) /\ Count(rest, "nul") = 0 /\ Count(rest, "x") = 0
<1>1. rest = <<>> \/ rest = <<"garbage">>
  BY DEF Overread
<1>2. rest \in Seq({"garbage"}) /\ \A i \in 1 .. Len(rest) : rest[i] = "garbage"
  <2>1. CASE rest = <<>>
    BY <2>1
  <2>2. CASE rest = <<"garbage">>
    BY <2>2
  <2>3. QED
    BY <1>1, <2>1, <2>2
<1>3. Where(rest, "nul") = {} /\ Where(rest, "x") = {}
  BY <1>2 DEF Where
<1>4. QED
  BY <1>2, <1>3, WhereFinite, FS_EmptySet

-----------------------------------------------------------------------------
(***************************************************************************)
(* The invariant of the echo: what was taken was said.                     *)
(***************************************************************************)
EchoTypes ==
    /\ said \in [Clients -> Seq(Bytes)] /\ taken \in [Clients -> Nat]
    /\ echoed \in [Clients -> Seq(Bytes \cup {"garbage"})]
    /\ \A c \in Clients : taken[c] <= Len(said[c])

EchoInv == EchoTypes /\ EchoIsText

LEMMA InitEchoInv == Init => EchoInv
<1> SUFFICES ASSUME Init PROVE EchoInv
  OBVIOUS
<1>1. EchoTypes
  BY DEF Init, EchoTypes
<1>2. Where(<<>>, "nul") = {} /\ Where(<<>>, "x") = {}
  BY DEF Where
<1>3. Count(<<>>, "nul") = 0 /\ Count(<<>>, "x") = 0
  BY <1>2, FS_EmptySet DEF Count, Where
<1>4. EchoIsText
  BY <1>3 DEF Init, EchoIsText
<1>5. QED
  BY <1>1, <1>4 DEF EchoInv

\* A NUL that was said stays said.
LEMMA SayKeepsEcho ==
    ASSUME EchoInv, NEW c \in Clients, Say(c) PROVE EchoInv'
<1>1. PICK b \in Bytes : said' = [said EXCEPT ![c] = Append(@, b)]
  BY DEF Say
<1>2. /\ Append(said[c], b) \in Seq(Bytes) /\ Len(Append(said[c], b)) = Len(said[c]) + 1
      /\ Append(said[c], b) = said[c] \o <<b>> /\ <<b>> \in Seq(Bytes)
  BY AppendProperties, AppendIsConcat DEF EchoInv, EchoTypes
<1>3. EchoTypes'
  BY <1>1, <1>2 DEF Say, EchoInv, EchoTypes
<1>4. Count(said[c], "nul") \in Nat /\ Count(<<b>>, "nul") \in Nat
  BY <1>2, WhereFinite DEF EchoInv, EchoTypes
<1>5. Count(said'[c], "nul") = Count(said[c], "nul") + Count(<<b>>, "nul")
  <2>1. said[c] \in Seq(Bytes) /\ said'[c] = said[c] \o <<b>>
    BY <1>1, <1>2 DEF EchoInv, EchoTypes
  <2>2. Count(said[c] \o <<b>>, "nul") = Count(said[c], "nul") + Count(<<b>>, "nul")
    BY <1>2, <2>1, CountConcat
  <2>3. QED
    BY <2>1, <2>2
<1>6. \A d \in Clients : Count(said'[d], "nul") = 0 => Count(said[d], "nul") = 0
  BY <1>1, <1>4, <1>5 DEF EchoInv, EchoTypes
<1>7. EchoIsText'
  BY <1>6 DEF Say, EchoInv, EchoIsText
<1>8. QED
  BY <1>3, <1>7 DEF EchoInv

LEMMA EchoKeepsEcho ==
    ASSUME EchoInv, NEW c \in Clients, Echo(c) PROVE EchoInv'
<1>1. PICK n \in taken[c] + 1 .. Len(said[c]) :
          /\ taken' = [taken EXCEPT ![c] = n]
          /\ LET chunk == SubSeq(said[c], taken[c] + 1, n)
             IN  \E rest \in Overread(chunk) :
                    echoed' = [echoed EXCEPT ![c] = @ \o Text(chunk) \o rest]
  BY DEF Echo
<1> DEFINE chunk == SubSeq(said[c], taken[c] + 1, n)
           All == Bytes \cup {"garbage"}
<1>2. PICK rest \in Overread(chunk) : echoed' = [echoed EXCEPT ![c] = @ \o Text(chunk) \o rest]
  BY <1>1
<1>3. said[c] \in Seq(Bytes) /\ taken[c] \in Nat /\ echoed[c] \in Seq(All) /\ taken[c] <= Len(said[c])
  BY DEF EchoInv, EchoTypes
<1>4. /\ chunk \in Seq(Bytes) /\ Len(chunk) = n - taken[c]
      /\ \A i \in 1 .. Len(chunk) : chunk[i] = said[c][taken[c] + i]
  <2>1. n \in Int /\ taken[c] + 1 \in Int /\ taken[c] + 1 <= n /\ n <= Len(said[c])
    BY <1>3
  <2>2. \A i \in taken[c] + 1 .. n : said[c][i] \in Bytes
    BY <1>3, <2>1
  <2>3. /\ chunk \in Seq(Bytes) /\ Len(chunk) = n - (taken[c] + 1) + 1
        /\ \A i \in 1 .. n - (taken[c] + 1) + 1 : chunk[i] = said[c][taken[c] + 1 + i - 1]
    BY <2>1, <2>2, SubSeqProperties
  <2> HIDE DEF chunk
  <2>4. Len(chunk) = n - taken[c]
    BY <1>3, <2>1, <2>3
  <2>5. ASSUME NEW i \in 1 .. Len(chunk) PROVE chunk[i] = said[c][taken[c] + i]
    <3>1. taken[c] \in Nat /\ n \in Int /\ i \in 1 .. n - taken[c]
      BY <1>3, <2>1, <2>4
    <3>2. taken[c] + 1 + i - 1 = taken[c] + i /\ n - (taken[c] + 1) + 1 = n - taken[c]
      BY ONLY <3>1
    <3>3. QED
      BY <2>3, <3>1, <3>2
  <2>6. QED
    BY <2>3, <2>4, <2>5
<1> HIDE DEF chunk
<1>5. Text(chunk) \in Seq(All) /\ rest \in Seq(All)
  <2>1. Text(chunk) \in Seq(Bytes) /\ rest \in Seq({"garbage"})
    BY <1>4, TextCounts, OverreadCounts
  <2>2. QED
    BY <2>1, SeqMonotonic
<1>6. echoed[c] \o Text(chunk) \in Seq(All) /\ echoed[c] \o Text(chunk) \o rest \in Seq(All)
  BY <1>3, <1>5, ConcatProperties
<1>7. \A b : Count(echoed[c] \o Text(chunk) \o rest, b)
               = Count(echoed[c], b) + Count(Text(chunk), b) + Count(rest, b)
  <2> TAKE b
  <2>1. Count((echoed[c] \o Text(chunk)) \o rest, b) = Count(echoed[c] \o Text(chunk), b) + Count(rest, b)
    BY <1>5, <1>6, CountConcat
  <2>2. Count(echoed[c] \o Text(chunk), b) = Count(echoed[c], b) + Count(Text(chunk), b)
    BY <1>3, <1>5, CountConcat
  <2>3. QED
    BY <2>1, <2>2
<1>8. EchoTypes'
  <2>1. said' = said
    BY DEF Echo, peers
  <2>2. taken' \in [Clients -> Nat] /\ \A d \in Clients : taken'[d] <= Len(said[d])
    BY <1>1, <1>3 DEF EchoInv, EchoTypes
  <2>3. echoed' \in [Clients -> Seq(All)]
    BY <1>2, <1>6 DEF EchoInv, EchoTypes
  <2>4. QED
    BY <2>1, <2>2, <2>3 DEF EchoInv, EchoTypes
<1>9. Count(echoed'[c], "nul") = 0
  <2>1. Count(Text(chunk), "nul") = 0 /\ Count(rest, "nul") = 0 /\ Count(echoed[c], "nul") = 0
    BY <1>4, TextCounts, OverreadCounts DEF EchoInv, EchoIsText
  <2>2. QED
    BY <1>2, <1>7, <2>1 DEF EchoInv, EchoTypes
<1>10. ASSUME Count(said[c], "nul") = 0 PROVE Count(echoed'[c], "x") = taken'[c]
  <2>1. Where(said[c], "nul") = {}
    BY <1>3, <1>10, WhereFinite, FS_EmptySet
  <2>2. \A i \in 1 .. Len(chunk) : chunk[i] # "nul"
    <3> SUFFICES ASSUME NEW i \in 1 .. Len(chunk) PROVE said[c][taken[c] + i] # "nul"
      BY <1>4
    <3>1. taken[c] + i \in 1 .. Len(said[c])
      BY <1>3, <1>4
    <3>2. QED
      BY <2>1, <3>1 DEF Where
  <2>3. Count(Text(chunk), "x") = n - taken[c] /\ Count(rest, "x") = 0
    BY <1>4, <2>2, TextCounts, OverreadCounts
  <2>4. Count(echoed[c], "x") = taken[c]
    BY <1>10 DEF EchoInv, EchoIsText
  <2>5. QED
    <3>1. Count(echoed'[c], "x") = taken[c] + (n - taken[c]) + 0
      BY <1>2, <1>7, <2>3, <2>4 DEF EchoInv, EchoTypes
    <3>2. taken'[c] = n /\ n \in Nat
      BY <1>1, <1>3 DEF EchoInv, EchoTypes
    <3>3. QED
      BY <1>3, <3>1, <3>2
<1>11. EchoIsText'
  BY <1>1, <1>2, <1>9, <1>10 DEF EchoInv, EchoTypes, EchoIsText, Echo, peers
<1>12. QED
  BY <1>8, <1>11 DEF EchoInv

LEMMA EchoInvStep == EchoInv /\ [Next]_vars => EchoInv'
<1> SUFFICES ASSUME EchoInv, [Next]_vars PROVE EchoInv'
  OBVIOUS
<1>1. CASE \E c \in Clients : Say(c)
  BY <1>1, SayKeepsEcho
<1>2. CASE \E c \in Clients : Echo(c)
  BY <1>2, EchoKeepsEcho
<1>3. CASE UNCHANGED <<said, taken, echoed>>
  BY <1>3 DEF EchoInv, EchoTypes, EchoIsText
<1>4. CASE ParentStep \/ ParentFails
  BY <1>3, <1>4 DEF ParentStep, Accept, Fork, ParentClose, Deliver, Reap, HandlerReturns, ParentFails, peers
<1>5. CASE \E c \in Clients : ChildStart(c) \/ ClientLeft(c) \/ RecvFails(c) \/ BrokenPipe(c) \/ FallenExits(c)
  BY <1>3, <1>5 DEF ChildStart, ClientLeft, RecvFails, BrokenPipe, FallenExits, Ends, peers
<1>6. CASE \E c \in Clients : Connect(c) \/ Leave(c)
  BY <1>3, <1>6 DEF Connect, Leave
<1>7. CASE UNCHANGED vars
  BY <1>3, <1>7 DEF vars, peers
<1>8. QED
  BY <1>1, <1>2, <1>4, <1>5, <1>6, <1>7 DEF Next, ChildStep

\* However recv cuts the input into chunks, for any buffer size, input and number
\* of clients: no NUL is sent back, and a client that sends none has got back
\* exactly as many of its bytes as the child received (recv, strlen and send of
\* lines 79-91).
THEOREM EchoesText == Spec => []EchoIsText
<1>1. EchoInv => EchoIsText
  BY DEF EchoInv
<1>2. QED
  BY <1>1, InitEchoInv, EchoInvStep, PTL DEF Spec

=============================================================================
