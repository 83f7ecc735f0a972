----------------------------- MODULE ForkServer -----------------------------
(***************************************************************************)
(* The echo server of 01_socket_underlying_c/05_tcp/03_server_fork.c: one  *)
(* child process per connection, reaped from the handler of SIGCHLD.       *)
(*                                                                         *)
(* Processes interleave system call by system call.  fork duplicates the   *)
(* descriptors, so a connection is closed for its client when parent and   *)
(* child have both closed it.  SIGCHLD is one pending bit, however many    *)
(* children have ended, and is blocked while its handler runs.             *)
(*                                                                         *)
(* Abstraction.  A connection is its client, and so is the child that      *)
(* serves it; a byte is "x", or "nul", the one value strlen tells apart.   *)
(***************************************************************************)
EXTENDS Naturals, Sequences, FiniteSets

CONSTANTS
    Clients,
    BUF,         \* sizeof(buf)
    MaxSaid,     \* bound on the bytes a client sends
    SysErrors    \* whether accept and fork may fail

ASSUME ForkAssumption ==
    /\ IsFiniteSet(Clients) /\ BUF \in Nat \ {0} /\ MaxSaid \in Nat
    /\ SysErrors \in BOOLEAN

VARIABLES
    client,   \* client -> "none", "connected", "left" (FIN) or "aborted" (RST)
    said,     \* client -> the bytes it has sent
    taken,    \* client -> how many of them the child has received
    echoed,   \* client -> the bytes sent back
    queue,    \* connections waiting for accept
    ppc,      \* parent: "accept", "fork", "close" or "exited"
    cur,      \* parent: the connection new_socket names, as a set
    child,    \* client -> "none", "new", "serving", "fallen", "zombie" or "reaped"
    holders,  \* client -> the processes that hold its connection open
    listener, \* the children that hold the listening socket open
    sigchld,  \* SIGCHLD is pending for the parent
    handling  \* the parent is in handler()

peers == <<client, said>>
parent == <<ppc, cur>>
signals == <<sigchld, handling>>
vars == <<peers, taken, echoed, queue, parent, child, holders, listener, signals>>

Bytes == {"x", "nul"}

Init ==
    /\ client = [c \in Clients |-> "none"] /\ said = [c \in Clients |-> <<>>]
    /\ taken = [c \in Clients |-> 0] /\ echoed = [c \in Clients |-> <<>>]
    /\ queue = {} /\ ppc = "accept" /\ cur = {}
    /\ child = [c \in Clients |-> "none"]
    /\ holders = [c \in Clients |-> {}] /\ listener = {}
    /\ sigchld = FALSE /\ handling = FALSE

-----------------------------------------------------------------------------
(***************************************************************************)
(* Clients.                                                                *)
(***************************************************************************)
Connect(c) ==
    /\ client[c] = "none" /\ ppc # "exited"
    /\ client' = [client EXCEPT ![c] = "connected"]
    /\ queue' = queue \cup {c}
    /\ UNCHANGED <<said, taken, echoed, parent, child, holders, listener, signals>>

Say(c) ==
    /\ client[c] = "connected" /\ Len(said[c]) < MaxSaid
    /\ \E b \in Bytes : said' = [said EXCEPT ![c] = Append(@, b)]
    /\ UNCHANGED <<client, taken, echoed, queue, parent, child, holders, listener, signals>>

Leave(c) ==
    /\ client[c] = "connected"
    /\ \E how \in {"left", "aborted"} : client' = [client EXCEPT ![c] = how]
    /\ UNCHANGED <<said, taken, echoed, queue, parent, child, holders, listener, signals>>

-----------------------------------------------------------------------------
(***************************************************************************)
(* The parent.                                                             *)
(***************************************************************************)
At(pc) == ppc = pc /\ ~handling

Accept ==
    /\ At("accept")
    /\ \E c \in queue : /\ queue' = queue \ {c} /\ cur' = {c}
                        /\ holders' = [holders EXCEPT ![c] = @ \cup {"parent"}]
    /\ ppc' = "fork"
    /\ UNCHANGED <<peers, taken, echoed, child, listener, signals>>

Fork ==
    /\ At("fork")
    /\ child' = [c \in Clients |-> IF c \in cur THEN "new" ELSE child[c]]
    /\ holders' = [c \in Clients |-> IF c \in cur THEN holders[c] \cup {"child"} ELSE holders[c]]
    /\ listener' = listener \cup cur
    /\ ppc' = "close"
    /\ UNCHANGED <<peers, taken, echoed, queue, cur, signals>>

\* The connections a parent that lets go of S leaves to the others.
Dropped(S) == [c \in Clients |-> IF c \in S THEN holders[c] \ {"parent"} ELSE holders[c]]

\* Mutant: the parent keeps its copy of the connection.
ParentClose_Forgets ==
    /\ At("close")
    /\ ppc' = "accept" /\ cur' = {}
    /\ UNCHANGED <<peers, taken, echoed, queue, child, holders, listener, signals>>

\* close(new_socket) in the parent.
ParentClose ==
    /\ At("close")
    /\ holders' = Dropped(cur)
    /\ ppc' = "accept" /\ cur' = {}
    /\ UNCHANGED <<peers, taken, echoed, queue, child, listener, signals>>

\* accept (other than EINTR) or fork fails: exit(1), and the descriptors go.
ParentFails ==
    /\ SysErrors /\ (At("accept") \/ At("fork"))
    /\ holders' = Dropped(cur)
    /\ ppc' = "exited" /\ cur' = {}
    /\ child' = [c \in Clients |-> IF child[c] = "zombie" THEN "reaped" ELSE child[c]]
    /\ UNCHANGED <<peers, taken, echoed, queue, listener, signals>>

Zombies == {c \in Clients : child[c] = "zombie"}

\* The pending signal is delivered between any two steps of the parent.
Deliver ==
    /\ sigchld /\ ~handling /\ ppc # "exited"
    /\ sigchld' = FALSE /\ handling' = TRUE
    /\ UNCHANGED <<peers, taken, echoed, queue, parent, child, holders, listener>>

\* Mutant: `if` for `while`, the handler reaps one child and returns.
StillHandling_Once == FALSE

\* After a child was reaped waitpid is called again.
StillHandling == TRUE

\* waitpid finds an ended child.
Reap ==
    /\ handling
    /\ \E c \in Zombies : child' = [child EXCEPT ![c] = "reaped"]
    /\ handling' = StillHandling
    /\ UNCHANGED <<peers, taken, echoed, queue, parent, holders, listener, sigchld>>

\* waitpid finds none.
HandlerReturns ==
    /\ handling /\ Zombies = {}
    /\ handling' = FALSE
    /\ UNCHANGED <<peers, taken, echoed, queue, parent, child, holders, listener, sigchld>>

-----------------------------------------------------------------------------
(***************************************************************************)
(* A child.                                                                *)
(***************************************************************************)
\* Mutant: the child keeps the listening socket.
ChildStart_KeepsListener(c) ==
    /\ child[c] = "new"
    /\ child' = [child EXCEPT ![c] = "serving"]
    /\ UNCHANGED <<peers, taken, echoed, queue, parent, holders, listener, signals>>

\* close(sockfd).
ChildStart(c) ==
    /\ child[c] = "new"
    /\ child' = [child EXCEPT ![c] = "serving"]
    /\ listener' = listener \ {c}
    /\ UNCHANGED <<peers, taken, echoed, queue, parent, holders, signals>>

\* What strlen finds behind a buffer filled to its end: there is no
\* terminator, and the bytes that follow buf are sent too, if any.
Overread(chunk) == IF Len(chunk) = BUF /\ \A i \in 1 .. BUF : chunk[i] # "nul"
                   THEN {<<>>, <<"garbage">>} ELSE {<<>>}

\* Mutant: all that was received is sent back.
Text_WholeBuffer(chunk) == chunk

\* The bytes before the first NUL: strlen(buf).
Text(chunk) == SubSeq(chunk, 1, Cardinality({i \in 1 .. Len(chunk) :
                                              \A j \in 1 .. i : chunk[j] # "nul"}))

\* recv returns 1 to BUF bytes, the bytes up to the first NUL are sent back.
Echo(c) ==
    /\ child[c] = "serving" /\ client[c] # "aborted"
    /\ \E n \in taken[c] + 1 .. Len(said[c]) :
          /\ n - taken[c] <= BUF
          /\ taken' = [taken EXCEPT ![c] = n]
          /\ LET chunk == SubSeq(said[c], taken[c] + 1, n)
             IN  \E rest \in Overread(chunk) :
                    echoed' = [echoed EXCEPT ![c] = @ \o Text(chunk) \o rest]
    /\ UNCHANGED <<peers, queue, parent, child, holders, listener, signals>>

\* A child ends: SIGCHLD, or init reaps it when the parent is gone.
Ends(c) ==
    /\ child' = [child EXCEPT ![c] = IF ppc = "exited" THEN "reaped" ELSE "zombie"]
    /\ sigchld' = (sigchld \/ ppc # "exited")
    /\ holders' = [holders EXCEPT ![c] = @ \ {"child"}]
    /\ UNCHANGED <<peers, taken, echoed, queue, parent, handling>>

\* recv returns 0: exit(0).
ClientLeft(c) ==
    /\ child[c] = "serving" /\ client[c] = "left" /\ taken[c] = Len(said[c])
    /\ Ends(c) /\ listener' = listener

\* recv fails: the child leaves its loop, closes the connection and goes on
\* with the parent's loop.
RecvFails(c) ==
    /\ child[c] = "serving" /\ client[c] = "aborted"
    /\ child' = [child EXCEPT ![c] = "fallen"]
    /\ holders' = [holders EXCEPT ![c] = @ \ {"child"}]
    /\ UNCHANGED <<peers, taken, echoed, queue, parent, listener, signals>>

\* Input from before the abort is still received, and its send raises SIGPIPE.
BrokenPipe(c) ==
    /\ child[c] = "serving" /\ client[c] = "aborted" /\ taken[c] < Len(said[c])
    /\ Ends(c) /\ listener' = listener

\* In that loop accept fails on the closed listening socket: exit(1).
FallenExits(c) ==
    /\ child[c] = "fallen"
    /\ Ends(c) /\ listener' = listener

ParentStep == Accept \/ Fork \/ ParentClose \/ Deliver \/ Reap \/ HandlerReturns
ChildStep(c) == \/ ChildStart(c) \/ Echo(c) \/ ClientLeft(c)
                \/ RecvFails(c) \/ BrokenPipe(c) \/ FallenExits(c)

Next == \/ ParentStep \/ ParentFails
        \/ \E c \in Clients : ChildStep(c) \/ Connect(c) \/ Say(c) \/ Leave(c)

Spec == Init /\ [][Next]_vars

\* Every process gets to run.
FairSpec == Spec /\ WF_vars(ParentStep) /\ \A c \in Clients : WF_vars(ChildStep(c))

-----------------------------------------------------------------------------
(***************************************************************************)
(* Properties.                                                             *)
(***************************************************************************)
\* An ended child is never forgotten: as long as there is one, its signal is
\* pending or the handler is still at work, though one pending bit stands for
\* any number of deaths and more may follow while the handler runs.
NoForgottenZombie == Zombies # {} /\ ppc # "exited" => sigchld \/ handling

\* When the child is done with a connection nobody else holds it open, so the
\* client sees it closed; the parent's copy is gone before its next accept.
ClosedForReal ==
    \A c \in Clients :
        child[c] \in {"fallen", "zombie", "reaped"} /\ c \notin cur => holders[c] = {}

\* A child that falls back into the accept loop after a failed recv cannot become
\* a second server: it no longer holds the listening socket.
OneAcceptor == \A c \in Clients : child[c] \in {"serving", "fallen"} => c \notin listener

Count(s, b) == Cardinality({i \in 1 .. Len(s) : s[i] = b})

\* However the input is cut into chunks, no NUL is sent back, and a client that
\* sends none gets back exactly as many of its bytes as were received.
EchoIsText ==
    \A c \in Clients :
        /\ Count(echoed[c], "nul") = 0
        /\ Count(said[c], "nul") = 0 => Count(echoed[c], "x") = taken[c]

\* "Once there is a death it is certain to be collected": every child that ends
\* is reaped, under any interleaving of ends, signals and connections.
AlwaysReaped == \A c \in Clients : child[c] = "zombie" ~> child[c] = "reaped"

=============================================================================
