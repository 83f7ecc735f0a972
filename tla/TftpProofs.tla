----------------------------- MODULE TftpProofs -----------------------------
(***************************************************************************)
(* Tftp for any clients, files, block size and block numbers: what the     *)
(* clients write is in order, the server is never two blocks ahead, and a  *)
(* single client gets a faithful copy.                                     *)
(***************************************************************************)
EXTENDS Tftp, SequenceTheorems, TLAPS

(***************************************************************************)
(* The inductive invariant.  A number on the wire stands for one block of  *)
(* some file: the server stops before it would send a number twice, since  *)
(* nobody acknowledges block 0.  An acknowledgement in flight is of a      *)
(* block its sender has counted.                                           *)
(***************************************************************************)
TypeInv ==
    /\ cpc \in [Clients -> {"start", "wait", "done", "exited"}]
    /\ num \in [Clients -> Nat] /\ got \in [Clients -> Seq(Clients \X Nat)]

Request(m) == \E c \in Clients : m = RRQ(c)
Refusal(m) == \E c \in Clients : m = ERROR(c)
Acknowledgement(m) == \E c \in Clients : \E n \in 1 .. num[c] : m = ACK(c, n)
Part(m) == \E c \in Clients, f \in Clients, k \in 1 .. BLOCK_MOD : m = DATA(c, k % BLOCK_MOD, Block(f, k))

Sendable(m) == Request(m) \/ Refusal(m) \/ Acknowledgement(m) \/ Part(m)
NetInv == \A m \in BagToSet(net) : Sendable(m)

ServerInv ==
    spc = "wait" => /\ clientaddr \in Clients /\ file \in Clients
                    /\ pos \in 1 .. BLOCK_MOD /\ bl_num = pos % BLOCK_MOD
                    /\ num[clientaddr] + 1 >= pos

\* The positions rise, up to those of the blocks counted.  Each byte is at its place
\* in a file that has it, unless a write was short; as long as such a client goes
\* on, it has full blocks only.
Rising(s, n) == \A i \in 1 .. Len(s) : s[i][2] <= n /\ \A j \in 1 .. Len(s) : j < i => s[j][2] < s[i][2]
InPlace(s) == \A i \in 1 .. Len(s) : s[i][2] = i /\ i <= Size[s[i][1]]

CopyInv ==
    \A c \in Clients :
        /\ num[c] < BLOCK_MOD /\ Rising(got[c], num[c] * BLK_SIZE)
        /\ c \notin gaps => /\ InPlace(got[c])
                            /\ cpc[c] \in {"start", "wait"} => Len(got[c]) = num[c] * BLK_SIZE

Inv == TypeInv /\ NetInv /\ ServerInv /\ CopyInv

LEMMA InvImplies == Inv => InOrder /\ ServerNotAhead
<1> SUFFICES ASSUME Inv PROVE InOrder /\ ServerNotAhead
  OBVIOUS
<1>1. InOrder
  <2> SUFFICES ASSUME NEW c \in Clients
               PROVE  /\ \A j, k \in 1 .. Len(got[c]) : j < k => got[c][j][2] < got[c][k][2]
                      /\ c \notin gaps => \A k \in 1 .. Len(got[c]) : got[c][k][2] = k
                      /\ num[c] < BLOCK_MOD
    BY DEF InOrder
  <2>1. num[c] < BLOCK_MOD /\ Rising(got[c], num[c] * BLK_SIZE) /\ (c \notin gaps => InPlace(got[c]))
    BY DEF Inv, CopyInv
  <2>2. QED
    BY ONLY <2>1 DEF Rising, InPlace
<1>2. ServerNotAhead
  BY DEF Inv, ServerInv, ServerNotAhead
<1>3. QED
  BY <1>1, <1>2

(***************************************************************************)
(* Datagrams and blocks.                                                   *)
(***************************************************************************)
LEMMA ExchangeHolds ==
    ASSUME NEW m, NEW S, Exchange(m, S) PROVE BagToSet(net') \subseteq BagToSet(net) \cup S
BY DEF Exchange, BagToSet, SetToBag, (+), (-)

LEMMA AddHolds ==
    ASSUME NEW S, net' = net (+) SetToBag(S) PROVE BagToSet(net') = BagToSet(net) \cup S
BY DEF BagToSet, SetToBag, (+)

\* What one read returns: bytes of the file from their places, a full block until
\* the end is near.
LEMMA BlockIs ==
    ASSUME NEW f \in Clients, NEW n \in Nat
    PROVE  LET b == Block(f, n + 1) IN
           /\ b \in Seq(Clients \X Nat)
           /\ Len(b) = IF n * BLK_SIZE + BLK_SIZE < Size[f] THEN BLK_SIZE
                       ELSE IF n * BLK_SIZE < Size[f] THEN Size[f] - n * BLK_SIZE ELSE 0
           /\ \A i \in 1 .. Len(b) : b[i] = <<f, n * BLK_SIZE + i>> /\ n * BLK_SIZE + i <= Size[f]
<1>1. PICK p \in Nat, s \in Nat, B \in Nat : p = n * BLK_SIZE /\ s = Size[f] /\ B = BLK_SIZE /\ B > 0
  <2>1. n * BLK_SIZE \in Nat
    BY TftpAssumption
  <2>2. Size[f] \in Nat /\ BLK_SIZE \in Nat /\ BLK_SIZE > 0
    BY TftpAssumption
  <2>3. QED
    BY ONLY <2>1, <2>2
<1>2. (n + 1) - 1 = n /\ (n + 1) * BLK_SIZE = p + B
  BY <1>1, TftpAssumption
<1>3. PICK F : F = FileOf(f)
  OBVIOUS
<1>4. F = [i \in 1 .. s |-> <<f, i>>]
  BY <1>1, <1>3 DEF FileOf
<1>5. PICK e : e = IF p + B < s THEN p + B ELSE s
  OBVIOUS
<1>6. Block(f, n + 1) = SubSeq(F, p + 1, e)
  BY ONLY <1>1, <1>2, <1>3, <1>5 DEF Block
<1>7. e \in Nat /\ e <= s /\ p + 1 \in Int
  BY ONLY <1>5, p \in Nat, s \in Nat, B \in Nat
<1>8. \A i \in p + 1 .. e : F[i] = <<f, i>> /\ F[i] \in Clients \X Nat
  BY ONLY <1>4, <1>7, p \in Nat, s \in Nat, f \in Clients
<1>9. PICK b : b = SubSeq(F, p + 1, e)
  OBVIOUS
<1>10. /\ b \in Seq(Clients \X Nat) /\ Len(b) = IF p + 1 <= e THEN e - (p + 1) + 1 ELSE 0
       /\ \A i \in 1 .. e - (p + 1) + 1 : b[i] = F[p + 1 + i - 1]
  BY ONLY <1>7, <1>8, <1>9, SubSeqProperties
<1>11. Len(b) = IF p + B < s THEN B ELSE IF p < s THEN s - p ELSE 0
  BY ONLY <1>1, <1>5, <1>7, <1>10, p \in Nat, s \in Nat, B \in Nat
<1>12. ASSUME NEW i \in 1 .. Len(b) PROVE b[i] = <<f, p + i>> /\ p + i <= s
  <2>1. i \in 1 .. e - (p + 1) + 1 /\ p + 1 + i - 1 = p + i /\ p + i \in p + 1 .. e
    BY ONLY <1>7, <1>10, p \in Nat, i \in 1 .. Len(b)
  <2>2. p + i <= s
    BY ONLY <2>1, <1>7, p \in Nat, s \in Nat
  <2>3. QED
    BY ONLY <2>1, <2>2, <1>8, <1>10
<1>13. QED
  BY ONLY <1>1, <1>6, <1>9, <1>10, <1>11, <1>12

\* The block after n full ones.
LEMMA BlockExtends ==
    ASSUME NEW f \in Clients, NEW n \in Nat, NEW s \in Seq(Clients \X Nat), InPlace(s), Len(s) = n * BLK_SIZE
    PROVE  LET t == s \o Block(f, n + 1) IN
           /\ t \in Seq(Clients \X Nat) /\ InPlace(t) /\ Len(t) = Len(s) + Len(Block(f, n + 1))
           /\ Len(Block(f, n + 1)) <= BLK_SIZE
           /\ Len(Block(f, n + 1)) >= BLK_SIZE => Len(t) = (n + 1) * BLK_SIZE
<1>1. PICK b : b = Block(f, n + 1)
  OBVIOUS
<1>2. PICK L \in Nat, B \in Nat : L = n * BLK_SIZE /\ L = Len(s) /\ B = BLK_SIZE /\ (n + 1) * BLK_SIZE = L + B /\ B > 0
  <2>1. Len(s) \in Nat /\ BLK_SIZE \in Nat /\ BLK_SIZE > 0
    BY TftpAssumption
  <2>2. (n + 1) * BLK_SIZE = n * BLK_SIZE + BLK_SIZE
    BY ONLY <2>1, n \in Nat
  <2>3. QED
    BY ONLY <2>1, <2>2, Len(s) = n * BLK_SIZE
<1>3. /\ b \in Seq(Clients \X Nat) /\ Len(b) = IF L + B < Size[f] THEN B ELSE IF L < Size[f] THEN Size[f] - L ELSE 0
      /\ \A i \in 1 .. Len(b) : b[i] = <<f, L + i>> /\ L + i <= Size[f]
  BY ONLY <1>1, <1>2, BlockIs, f \in Clients, n \in Nat
<1>4. PICK K \in Nat : K = Len(b) /\ K <= B
  <2>1. Size[f] \in Nat
    BY TftpAssumption
  <2>2. Len(b) \in Nat /\ Len(b) <= B
    BY ONLY <1>3, <2>1, L \in Nat, B \in Nat
  <2>3. QED
    BY ONLY <2>2
<1>5. PICK t : t = s \o b
  OBVIOUS
<1>6. /\ t \in Seq(Clients \X Nat) /\ Len(t) = L + K
      /\ \A i \in 1 .. L + K : t[i] = IF i <= L THEN s[i] ELSE b[i - L]
  <2>1. /\ t \in Seq(Clients \X Nat) /\ Len(t) = Len(s) + Len(b)
        /\ \A i \in 1 .. Len(s) + Len(b) : t[i] = IF i <= Len(s) THEN s[i] ELSE b[i - Len(s)]
    BY ONLY <1>3, <1>5, s \in Seq(Clients \X Nat), ConcatProperties
  <2>2. L = Len(s) /\ K = Len(b)
    BY <1>2, <1>4
  <2>3. QED
    BY ONLY <2>1, <2>2
<1>7. ASSUME NEW i \in 1 .. L + K PROVE t[i][2] = i /\ i <= Size[t[i][1]]
  <2>1. CASE i <= L
    <3>1. t[i] = s[i] /\ i \in 1 .. L
      BY ONLY <1>6, <2>1, i \in 1 .. L + K, L \in Nat, K \in Nat
    <3>2. QED
      BY ONLY <3>1, <1>2, InPlace(s) DEF InPlace
  <2>2. CASE i > L
    <3>1. t[i] = b[i - L] /\ i - L \in 1 .. K /\ L + (i - L) = i
      BY ONLY <1>6, <2>2, i \in 1 .. L + K, L \in Nat, K \in Nat
    <3>2. b[i - L] = <<f, L + (i - L)>> /\ L + (i - L) <= Size[f]
      BY ONLY <3>1, <1>3, <1>4
    <3>3. t[i] = <<f, i>> /\ i <= Size[f]
      BY ONLY <3>1, <3>2
    <3>4. QED
      BY ONLY <3>3
  <2>3. QED
    BY ONLY <2>1, <2>2, i \in 1 .. L + K, L \in Nat, K \in Nat
<1>8. InPlace(t)
  BY ONLY <1>6, <1>7 DEF InPlace
<1>9. K >= B => L + K = L + B
  <2>1. K <= B
    BY <1>4
  <2>2. QED
    BY ONLY <2>1, L \in Nat, K \in Nat, B \in Nat
<1>10. QED
  BY ONLY <1>1, <1>2, <1>4, <1>5, <1>6, <1>8, <1>9

\* Bytes of the block after the n counted ones, all of it or its beginning.
Piece(b, f, n) == /\ b \in Seq(Clients \X Nat) /\ Len(b) <= BLK_SIZE
                  /\ \A i \in 1 .. Len(b) : b[i] = <<f, n * BLK_SIZE + i>>

LEMMA PiecesAre ==
    ASSUME NEW f \in Clients, NEW n \in Nat
    PROVE  /\ Piece(Block(f, n + 1), f, n)
           /\ \A k \in 0 .. Len(Block(f, n + 1)) - 1 : Piece(SubSeq(Block(f, n + 1), 1, k), f, n)
<1>1. PICK b : b = Block(f, n + 1)
  OBVIOUS
<1>2. PICK p \in Nat, B \in Nat : p = n * BLK_SIZE /\ B = BLK_SIZE
  BY TftpAssumption
<1>3. /\ b \in Seq(Clients \X Nat) /\ Len(b) = IF p + B < Size[f] THEN B ELSE IF p < Size[f] THEN Size[f] - p ELSE 0
      /\ \A i \in 1 .. Len(b) : b[i] = <<f, p + i>>
  BY ONLY <1>1, <1>2, BlockIs, f \in Clients, n \in Nat
<1>4. Len(b) \in Nat /\ Len(b) <= B
  <2>1. Size[f] \in Nat
    BY TftpAssumption
  <2>2. QED
    BY ONLY <1>3, <2>1, p \in Nat, B \in Nat
<1>5. Piece(b, f, n)
  BY ONLY <1>2, <1>3, <1>4 DEF Piece
<1>6. ASSUME NEW k \in 0 .. Len(b) - 1 PROVE Piece(SubSeq(b, 1, k), f, n)
  <2>1. \A i \in 1 .. k : b[i] \in Clients \X Nat /\ i \in 1 .. Len(b)
    BY ONLY <1>3, <1>4, k \in 0 .. Len(b) - 1
  <2>2. PICK t : t = SubSeq(b, 1, k)
    OBVIOUS
  <2>3. k \in Nat /\ k <= B
    BY ONLY <1>4, k \in 0 .. Len(b) - 1, B \in Nat
  <2>4. t \in Seq(Clients \X Nat) /\ Len(t) = k /\ \A i \in 1 .. k : t[i] = b[i]
    BY ONLY <2>1, <2>2, <2>3, SubSeqProperties
  <2>5. \A i \in 1 .. Len(t) : t[i] = <<f, p + i>>
    BY ONLY <2>1, <2>4, <1>3
  <2>6. QED
    BY ONLY <1>2, <2>2, <2>3, <2>4, <2>5 DEF Piece
<1>7. QED
  BY ONLY <1>1, <1>5, <1>6

LEMMA PieceRises ==
    ASSUME NEW f \in Clients, NEW n \in Nat, NEW s \in Seq(Clients \X Nat), Rising(s, n * BLK_SIZE),
           NEW b, Piece(b, f, n)
    PROVE  s \o b \in Seq(Clients \X Nat) /\ Rising(s \o b, (n + 1) * BLK_SIZE)
<1>1. PICK p \in Nat, B \in Nat : p = n * BLK_SIZE /\ B = BLK_SIZE /\ (n + 1) * BLK_SIZE = p + B
  BY TftpAssumption
<1>2. PICK L \in Nat, K \in Nat : L = Len(s) /\ K = Len(b) /\ K <= B
  BY <1>1 DEF Piece
<1>3. PICK t : t = s \o b
  OBVIOUS
<1>4. /\ t \in Seq(Clients \X Nat) /\ Len(t) = L + K
      /\ \A i \in 1 .. L + K : t[i] = IF i <= L THEN s[i] ELSE b[i - L]
  BY ONLY <1>2, <1>3, s \in Seq(Clients \X Nat), Piece(b, f, n), ConcatProperties DEF Piece
<1>5. /\ \A i \in 1 .. L : s[i][2] \in Nat /\ s[i][2] <= p /\ \A j \in 1 .. L : j < i => s[j][2] < s[i][2]
  <2>1. \A i \in 1 .. L : s[i] \in Clients \X Nat
    BY ONLY <1>2, s \in Seq(Clients \X Nat)
  <2>2. \A i \in 1 .. L : s[i][2] \in Nat
    BY ONLY <2>1
  <2>3. QED
    BY ONLY <1>1, <1>2, <2>2, Rising(s, n * BLK_SIZE) DEF Rising
<1>6. \A i \in 1 .. K : b[i][2] = p + i
  <2>1. \A i \in 1 .. K : b[i] = <<f, p + i>>
    BY ONLY <1>1, <1>2, Piece(b, f, n) DEF Piece
  <2>2. QED
    BY ONLY <2>1
<1>7. ASSUME NEW i \in 1 .. L + K
      PROVE  t[i][2] <= p + B /\ \A j \in 1 .. L + K : j < i => t[j][2] < t[i][2]
  <2>1. CASE i <= L
    <3>1. i \in 1 .. L /\ t[i] = s[i]
      BY ONLY <2>1, <1>4, i \in 1 .. L + K, L \in Nat, K \in Nat
    <3>2. s[i][2] \in Nat /\ s[i][2] <= p /\ \A j \in 1 .. L : j < i => s[j][2] < s[i][2]
      BY ONLY <3>1, <1>5
    <3>3. ASSUME NEW j \in 1 .. L + K, j < i PROVE t[j] = s[j] /\ j \in 1 .. L
      BY ONLY <2>1, <3>3, <1>4, i \in 1 .. L + K, L \in Nat, K \in Nat
    <3>4. t[i][2] <= p + B
      BY ONLY <3>1, <3>2, p \in Nat, B \in Nat
    <3>5. QED
      BY ONLY <3>1, <3>2, <3>3, <3>4
  <2>2. CASE i > L
    <3>1. i - L \in 1 .. K /\ t[i] = b[i - L]
      BY ONLY <2>2, <1>4, i \in 1 .. L + K, L \in Nat, K \in Nat
    <3>2. t[i][2] = p + (i - L)
      BY ONLY <3>1, <1>6
    <3>3. ASSUME NEW j \in 1 .. L + K, j < i PROVE t[j][2] < t[i][2]
      <4>1. CASE j <= L
        <5>1. j \in 1 .. L /\ t[j] = s[j]
          BY ONLY <4>1, <1>4, j \in 1 .. L + K, L \in Nat, K \in Nat
        <5>2. t[j][2] \in Nat /\ t[j][2] <= p
          BY ONLY <5>1, <1>5
        <5>3. QED
          BY ONLY <5>2, <3>1, <3>2, p \in Nat, i \in 1 .. L + K, L \in Nat, K \in Nat
      <4>2. CASE j > L
        <5>1. j - L \in 1 .. K /\ t[j] = b[j - L]
          BY ONLY <4>2, <1>4, j \in 1 .. L + K, L \in Nat, K \in Nat
        <5>2. t[j][2] = p + (j - L)
          BY ONLY <5>1, <1>6
        <5>3. QED
          BY ONLY <5>2, <3>2, <3>3, p \in Nat, i \in 1 .. L + K, L \in Nat, K \in Nat
      <4>3. QED
        BY ONLY <4>1, <4>2, j \in 1 .. L + K, L \in Nat, K \in Nat
    <3>4. p + (i - L) <= p + B
      BY ONLY <3>1, <1>2, p \in Nat, B \in Nat, K \in Nat, i \in 1 .. L + K, L \in Nat
    <3>5. QED
      BY ONLY <3>2, <3>3, <3>4
  <2>3. QED
    BY ONLY <2>1, <2>2, i \in 1 .. L + K, L \in Nat, K \in Nat
<1>8. QED
  BY ONLY <1>1, <1>3, <1>4, <1>7 DEF Rising

LEMMA ModSmall == ASSUME NEW M \in Nat \ {0}, NEW k \in 1 .. M PROVE k % M = IF k = M THEN 0 ELSE k
OBVIOUS

\* The block a client expects is the block of that number, of some file.
LEMMA ExpectedPart ==
    ASSUME Inv, NEW c \in Clients, NEW m \in InFlight(c, "DATA"), Expected(c, m)
    PROVE  /\ num[c] + 1 < BLOCK_MOD /\ m.block = num[c] + 1
           /\ \E f \in Clients : m.body = Block(f, num[c] + 1)
<1>1. m \in BagToSet(net) /\ m.op = "DATA" /\ m.to = c
  BY DEF InFlight
<1>2. Part(m)
  BY <1>1 DEF Inv, NetInv, Sendable, Request, Refusal, Acknowledgement, RRQ, ERROR, ACK
<1>3. PICK d \in Clients, f \in Clients, k \in 1 .. BLOCK_MOD : m = DATA(d, k % BLOCK_MOD, Block(f, k))
  BY <1>2 DEF Part
<1>4. m.block = k % BLOCK_MOD /\ m.body = Block(f, k)
  BY <1>3 DEF DATA
<1>5. num[c] \in Nat /\ m.block = num[c] + 1
  BY DEF Inv, TypeInv, Expected
<1>6. k % BLOCK_MOD = IF k = BLOCK_MOD THEN 0 ELSE k
  BY TftpAssumption, ModSmall
<1>7. k = num[c] + 1 /\ k # BLOCK_MOD
  BY <1>4, <1>5, <1>6
<1>8. num[c] + 1 < BLOCK_MOD
  BY <1>5, <1>7, TftpAssumption
<1>9. QED
  BY <1>4, <1>5, <1>7, <1>8

-----------------------------------------------------------------------------
(***************************************************************************)
(* The steps.                                                              *)
(***************************************************************************)
LEMMA InitInv == Init => Inv
<1> SUFFICES ASSUME Init PROVE Inv
  OBVIOUS
<1>1. TypeInv /\ ServerInv
  BY DEF Init, TypeInv, ServerInv
<1>2. NetInv
  BY DEF Init, NetInv, BagToSet, EmptyBag, SetToBag
<1>3. CopyInv
  <2> SUFFICES ASSUME NEW c \in Clients PROVE num[c] = 0 /\ got[c] = <<>>
    BY TftpAssumption DEF CopyInv, InPlace, Rising
  <2>1. QED
    BY DEF Init
<1>4. QED
  BY <1>1, <1>2, <1>3 DEF Inv

\* The counters of the clients only grow.
Grows == TypeInv' /\ \A c \in Clients : num'[c] >= num[c]

LEMMA NetKept ==
    ASSUME Inv, Grows, \A m \in BagToSet(net') : m \in BagToSet(net) \/ Sendable(m)'
    PROVE  NetInv'
<1> SUFFICES ASSUME NEW m \in BagToSet(net)
             PROVE  Sendable(m)'
  BY DEF NetInv
<1>1. CASE Acknowledgement(m)
  <2>0. PICK c \in Clients : \E n \in 1 .. num[c] : m = ACK(c, n)
    BY <1>1 DEF Acknowledgement
  <2>1. PICK n \in 1 .. num[c] : m = ACK(c, n)
    BY <2>0
  <2>2. n \in 1 .. num'[c]
    BY DEF Grows, Inv, TypeInv
  <2>3. QED
    BY <2>1, <2>2 DEF Acknowledgement, Sendable
<1>2. CASE Request(m) \/ Refusal(m) \/ Part(m)
  BY <1>2 DEF Request, Refusal, Part, Sendable
<1>3. QED
  BY <1>1, <1>2 DEF Inv, NetInv, Sendable

LEMMA ServerKept ==
    ASSUME Inv, Grows, spc' = "wait" => UNCHANGED <<spc, clientaddr, file, bl_num, pos>>
    PROVE  ServerInv'
BY DEF Grows, Inv, TypeInv, ServerInv

\* A client stops, or goes on with what it has.
LEMMA ClientStops ==
    ASSUME Inv, NEW c \in Clients, NEW x \in {"wait", "exited"}, cpc' = [cpc EXCEPT ![c] = x],
           cpc[c] \in {"start", "wait"}, UNCHANGED <<num, got, gaps>>
    PROVE  Grows /\ CopyInv'
<1>1. TypeInv' /\ Grows
  BY DEF Inv, TypeInv, Grows
<1>2. CopyInv'
  BY DEF Inv, TypeInv, CopyInv
<1>3. QED
  BY <1>1, <1>2

\* A client counts a block.
LEMMA ClientCounts ==
    ASSUME Inv, NEW c \in Clients, cpc[c] = "wait", NEW f \in Clients,
           num[c] + 1 < BLOCK_MOD, num' = [num EXCEPT ![c] = @ + 1],
           NEW x \in {"wait", "done", "exited"}, cpc' = [cpc EXCEPT ![c] = x],
           \/ got' = got /\ gaps' = gaps /\ x = "exited"
           \/ /\ got' = [got EXCEPT ![c] = @ \o Block(f, num[c] + 1)] /\ gaps' = gaps
              /\ x = "wait" => Len(Block(f, num[c] + 1)) >= BLK_SIZE
           \/ /\ \E k \in 0 .. Len(Block(f, num[c] + 1)) - 1 :
                    got' = [got EXCEPT ![c] = @ \o SubSeq(Block(f, num[c] + 1), 1, k)]
              /\ gaps' = gaps \cup {c}
    PROVE  Grows /\ CopyInv'
<1>1. /\ num[c] \in Nat /\ got[c] \in Seq(Clients \X Nat) /\ Rising(got[c], num[c] * BLK_SIZE)
      /\ c \notin gaps => InPlace(got[c]) /\ Len(got[c]) = num[c] * BLK_SIZE
  BY DEF Inv, TypeInv, CopyInv
<1>2. PICK B : B = Block(f, num[c] + 1)
  OBVIOUS
<1>3. /\ Piece(B, f, num[c]) /\ \A k \in 0 .. Len(B) - 1 : Piece(SubSeq(B, 1, k), f, num[c])
  BY ONLY <1>1, <1>2, f \in Clients, PiecesAre
<1>4. num' \in [Clients -> Nat] /\ num'[c] = num[c] + 1 /\ \A d \in Clients \ {c} : num'[d] = num[d]
  BY DEF Inv, TypeInv
<1>5. /\ cpc' \in [Clients -> {"start", "wait", "done", "exited"}] /\ cpc'[c] = x
      /\ \A d \in Clients \ {c} : cpc'[d] = cpc[d]
  BY DEF Inv, TypeInv
<1>6. ASSUME NEW t, t \in Seq(Clients \X Nat), Rising(t, (num[c] + 1) * BLK_SIZE),
             got' = [got EXCEPT ![c] = t],
             gaps' = gaps \/ gaps' = gaps \cup {c},
             c \notin gaps' => InPlace(t) /\ (x = "wait" => Len(t) = (num[c] + 1) * BLK_SIZE)
      PROVE  Grows /\ CopyInv'
  <2>1. got' \in [Clients -> Seq(Clients \X Nat)] /\ got'[c] = t /\ \A d \in Clients \ {c} : got'[d] = got[d]
    BY <1>6 DEF Inv, TypeInv
  <2>2. TypeInv' /\ Grows
    <3>1. TypeInv'
      BY <1>4, <1>5, <2>1 DEF TypeInv
    <3>2. \A d \in Clients : num[d] \in Nat
      BY DEF Inv, TypeInv
    <3>3. \A d \in Clients : num'[d] >= num[d]
      BY ONLY <1>1, <1>4, <3>2
    <3>4. QED
      BY ONLY <3>1, <3>3 DEF Grows
  <2>3. ASSUME NEW d \in Clients
        PROVE  /\ num'[d] < BLOCK_MOD /\ Rising(got'[d], num'[d] * BLK_SIZE)
               /\ d \notin gaps' => /\ InPlace(got'[d])
                                    /\ cpc'[d] \in {"start", "wait"} => Len(got'[d]) = num'[d] * BLK_SIZE
    <3>1. CASE d = c
      BY ONLY <3>1, <1>4, <1>5, <1>6, <2>1, num[c] + 1 < BLOCK_MOD, x \in {"wait", "done", "exited"}
    <3>2. CASE d # c
      <4>1. d \notin gaps' => d \notin gaps
        BY <1>6, <3>2
      <4>2. num'[d] = num[d] /\ cpc'[d] = cpc[d] /\ got'[d] = got[d]
        BY <3>2, <1>4, <1>5, <2>1
      <4>3. QED
        BY <4>1, <4>2 DEF Inv, CopyInv
    <3>3. QED
      BY <3>1, <3>2
  <2>4. QED
    BY <2>2, <2>3 DEF CopyInv, InPlace, Rising
<1>7. CASE got' = got /\ gaps' = gaps /\ x = "exited"
  <2>1. got' = [got EXCEPT ![c] = got[c]]
    BY <1>7 DEF Inv, TypeInv
  <2>2. Rising(got[c], (num[c] + 1) * BLK_SIZE)
    <3>1. PICK p \in Nat, q \in Nat : p = num[c] * BLK_SIZE /\ q = (num[c] + 1) * BLK_SIZE /\ p <= q
      BY <1>1, TftpAssumption
    <3>2. \A i \in 1 .. Len(got[c]) : got[c][i] \in Clients \X Nat
      BY <1>1
    <3>3. \A i \in 1 .. Len(got[c]) : got[c][i][2] \in Nat
      BY ONLY <3>2
    <3>4. PICK s : s = got[c]
      OBVIOUS
    <3>5. Rising(s, p) /\ \A i \in 1 .. Len(s) : s[i][2] \in Nat
      BY ONLY <3>1, <3>3, <3>4, <1>1
    <3>6. Rising(s, q)
      <4>1. \A i \in 1 .. Len(s) : s[i][2] <= q
        BY ONLY <3>1, <3>5, p \in Nat, q \in Nat DEF Rising
      <4>2. QED
        BY ONLY <3>5, <4>1 DEF Rising
    <3>7. QED
      BY ONLY <3>1, <3>4, <3>6
  <2>3. QED
    BY ONLY <1>1, <1>7, <2>1, <2>2, <1>6
<1>8. CASE /\ got' = [got EXCEPT ![c] = @ \o B] /\ gaps' = gaps
           /\ x = "wait" => Len(B) >= BLK_SIZE
  <2>1. PICK t : t = got[c] \o B
    OBVIOUS
  <2>2. t \in Seq(Clients \X Nat) /\ Rising(t, (num[c] + 1) * BLK_SIZE)
    BY ONLY <1>1, <1>3, <2>1, f \in Clients, PieceRises
  <2>3. c \notin gaps => InPlace(t) /\ (Len(B) >= BLK_SIZE => Len(t) = (num[c] + 1) * BLK_SIZE)
    BY ONLY <1>1, <1>2, <2>1, f \in Clients, BlockExtends
  <2>4. got' = [got EXCEPT ![c] = t]
    BY ONLY <1>8, <2>1
  <2>5. QED
    BY ONLY <1>8, <2>2, <2>3, <2>4, <1>6
<1>9. CASE /\ \E k \in 0 .. Len(B) - 1 : got' = [got EXCEPT ![c] = @ \o SubSeq(B, 1, k)]
           /\ gaps' = gaps \cup {c}
  <2>1. PICK k \in 0 .. Len(B) - 1 : got' = [got EXCEPT ![c] = @ \o SubSeq(B, 1, k)]
    BY <1>9
  <2>2. PICK t : t = got[c] \o SubSeq(B, 1, k)
    OBVIOUS
  <2>3. t \in Seq(Clients \X Nat) /\ Rising(t, (num[c] + 1) * BLK_SIZE)
    BY ONLY <1>1, <1>3, <2>2, f \in Clients, k \in 0 .. Len(B) - 1, PieceRises
  <2>4. got' = [got EXCEPT ![c] = t]
    BY ONLY <2>1, <2>2
  <2>5. QED
    BY ONLY <1>9, <2>3, <2>4, <1>6
<1>10. QED
  BY <1>2, <1>7, <1>8, <1>9

\* A step of a client leaves the server alone; it may send a request or an
\* acknowledgement.
LEMMA ClientSide ==
    ASSUME Inv, Grows, CopyInv', UNCHANGED server, NEW e, BagToSet(net') \subseteq BagToSet(net) \cup {e},
           Request(e)' \/ Acknowledgement(e)'
    PROVE  Inv'
<1>1. \A m \in BagToSet(net') : m \in BagToSet(net) \/ Sendable(m)'
  BY DEF Sendable
<1>2. NetInv'
  BY ONLY <1>1, NetKept, Inv, Grows
<1>3. ServerInv'
  BY ServerKept DEF server
<1>4. QED
  BY <1>2, <1>3 DEF Inv, Grows

\* It sends nothing.
LEMMA ClientQuiet ==
    ASSUME Inv, Grows, CopyInv', UNCHANGED server, BagToSet(net') \subseteq BagToSet(net)
    PROVE  Inv'
<1>1. NetInv'
  <2>1. \A m \in BagToSet(net') : m \in BagToSet(net)
    OBVIOUS
  <2>2. QED
    BY ONLY <2>1, NetKept, Inv, Grows
<1>2. ServerInv'
  BY ServerKept DEF server
<1>3. QED
  BY <1>1, <1>2 DEF Inv, Grows

LEMMA QuietExchange == ASSUME NEW m, Exchange(m, {}) PROVE BagToSet(net') \subseteq BagToSet(net)
BY ExchangeHolds

LEMMA ClientKeeps == ASSUME Inv, NEW c \in Clients, ClientStep(c) \/ ClientError(c) PROVE Inv'
<1>1. CASE SendRequest(c)
  <2>1. Grows /\ CopyInv'
    BY <1>1, ClientStops DEF SendRequest
  <2>2. BagToSet(net') \subseteq BagToSet(net) \cup {RRQ(c)}
    BY <1>1, AddHolds DEF SendRequest
  <2>3. Request(RRQ(c))' /\ UNCHANGED server
    BY <1>1 DEF Request, SendRequest
  <2>4. QED
    BY ONLY Inv, <2>1, <2>2, <2>3, ClientSide
<1>2. CASE ClientFails(c)
  <2>1. Grows /\ CopyInv'
    BY <1>2, ClientStops DEF ClientFails
  <2>2. UNCHANGED server /\ BagToSet(net') \subseteq BagToSet(net)
    BY <1>2 DEF ClientFails
  <2>3. QED
    BY ONLY Inv, <2>1, <2>2, ClientQuiet
<1>3. ASSUME NEW m, ReceiveError(c, m) \/ OpenFails(c, m) PROVE Inv'
  <2>1. Grows /\ CopyInv'
    BY <1>3, ClientStops DEF ReceiveError, OpenFails
  <2>2. BagToSet(net') \subseteq BagToSet(net)
    BY <1>3, QuietExchange DEF ReceiveError, OpenFails
  <2>3. UNCHANGED server
    BY <1>3 DEF ReceiveError, OpenFails
  <2>4. QED
    BY ONLY Inv, <2>1, <2>2, <2>3, ClientQuiet
<1>4. ASSUME NEW m \in InFlight(c, "DATA"), ReceiveBlock(c, m) \/ ShortWrite(c, m) PROVE Inv'
  <2>1. PICK f \in Clients : m.body = Block(f, num[c] + 1) /\ num[c] + 1 < BLOCK_MOD /\ m.block = num[c] + 1
    BY <1>4, ExpectedPart DEF ReceiveBlock, ShortWrite
  <2>2. PICK x \in {"wait", "done", "exited"} : x = IF Len(m.body) < BLK_SIZE THEN "done" ELSE "wait"
    OBVIOUS
  <2>3. x = "wait" => Len(Block(f, num[c] + 1)) >= BLK_SIZE
    <3>1. num[c] \in Nat
      BY DEF Inv, TypeInv
    <3>2. Len(Block(f, num[c] + 1)) \in Nat
      BY <3>1, BlockIs
    <3>3. QED
      BY <2>1, <2>2, <3>2, TftpAssumption
  <2>4. Grows /\ CopyInv'
    <3>1. cpc[c] = "wait" /\ num' = [num EXCEPT ![c] = @ + 1] /\ cpc' = [cpc EXCEPT ![c] = x]
      BY <1>4, <2>2 DEF ReceiveBlock, ShortWrite
    <3>2. \/ got' = [got EXCEPT ![c] = @ \o Block(f, num[c] + 1)] /\ gaps' = gaps
          \/ /\ \E k \in 0 .. Len(Block(f, num[c] + 1)) - 1 :
                   got' = [got EXCEPT ![c] = @ \o SubSeq(Block(f, num[c] + 1), 1, k)]
             /\ gaps' = gaps \cup {c}
      BY <1>4, <2>1 DEF ReceiveBlock, ShortWrite
    <3>3. QED
      BY ONLY Inv, <2>1, <2>2, <2>3, <3>1, <3>2, ClientCounts, c \in Clients
  <2>5. BagToSet(net') \subseteq BagToSet(net) \cup {ACK(c, m.block)}
    BY <1>4, ExchangeHolds DEF ReceiveBlock, ShortWrite
  <2>6. Acknowledgement(ACK(c, m.block))'
    <3>1. num[c] \in Nat /\ num'[c] = num[c] + 1
      BY <1>4 DEF ReceiveBlock, ShortWrite, Inv, TypeInv
    <3>2. m.block \in 1 .. num'[c]
      BY <2>1, <3>1
    <3>3. QED
      BY <3>2 DEF Acknowledgement
  <2>7. QED
    <3>1. UNCHANGED server
      BY <1>4 DEF ReceiveBlock, ShortWrite
    <3>2. QED
      BY ONLY Inv, <2>4, <2>5, <2>6, <3>1, ClientSide
<1>5. ASSUME NEW m \in InFlight(c, "DATA"), WriteFails(c, m) \/ AckFails(c, m) PROVE Inv'
  <2>1. PICK f \in Clients : m.body = Block(f, num[c] + 1) /\ num[c] + 1 < BLOCK_MOD
    BY <1>5, ExpectedPart DEF WriteFails, AckFails
  <2>2. Grows /\ CopyInv'
    <3>1. cpc[c] = "wait" /\ num' = [num EXCEPT ![c] = @ + 1] /\ cpc' = [cpc EXCEPT ![c] = "exited"]
      BY <1>5 DEF WriteFails, AckFails
    <3>2. \/ got' = got /\ gaps' = gaps
          \/ got' = [got EXCEPT ![c] = @ \o Block(f, num[c] + 1)] /\ gaps' = gaps
          \/ /\ \E k \in 0 .. Len(Block(f, num[c] + 1)) - 1 :
                   got' = [got EXCEPT ![c] = @ \o SubSeq(Block(f, num[c] + 1), 1, k)]
             /\ gaps' = gaps \cup {c}
      BY <1>5, <2>1 DEF WriteFails, AckFails
    <3>3. PICK x \in {"wait", "done", "exited"} : x = "exited"
      OBVIOUS
    <3>4. cpc' = [cpc EXCEPT ![c] = x] /\ x # "wait"
      BY ONLY <3>1, <3>3
    <3>5. QED
      BY ONLY Inv, <2>1, <3>1, <3>2, <3>3, <3>4, ClientCounts, c \in Clients
  <2>3. BagToSet(net') \subseteq BagToSet(net) /\ UNCHANGED server
    BY <1>5, QuietExchange DEF WriteFails, AckFails
  <2>4. QED
    BY ONLY Inv, <2>2, <2>3, ClientQuiet
<1>6. ASSUME NEW m, IgnoreBlock(c, m) PROVE Inv'
  <2>1. Grows /\ CopyInv'
    BY <1>6 DEF IgnoreBlock, client, Inv, TypeInv, Grows, CopyInv
  <2>2. BagToSet(net') \subseteq BagToSet(net) /\ UNCHANGED server
    BY <1>6, QuietExchange DEF IgnoreBlock
  <2>3. QED
    BY ONLY Inv, <2>1, <2>2, ClientQuiet
<1>7. QED
  BY <1>1, <1>2, <1>3, <1>4, <1>5, <1>6 DEF ClientStep, ClientError

\* The server sends block k of file f to c, who has all before.
LEMMA SendKeeps ==
    ASSUME Inv, UNCHANGED client, NEW m, NEW c \in Clients, NEW f \in Clients, NEW k \in 1 .. BLOCK_MOD,
           NEW n \in Nat, n % BLOCK_MOD = k % BLOCK_MOD, SendBlock(m, c, f, n, k), num[c] + 1 >= k
    PROVE  Inv'
<1>1. Grows /\ CopyInv'
  BY DEF client, Inv, TypeInv, Grows, CopyInv
<1>2. BagToSet(net') \subseteq BagToSet(net) \cup {DATA(c, k % BLOCK_MOD, Block(f, k))}
  BY ExchangeHolds DEF SendBlock
<1>3. Sendable(DATA(c, k % BLOCK_MOD, Block(f, k)))'
  BY DEF Part, Sendable
<1>4. NetInv'
  <2>1. \A d \in BagToSet(net') : d \in BagToSet(net) \/ Sendable(d)'
    BY ONLY <1>2, <1>3
  <2>2. QED
    BY ONLY Inv, <1>1, <2>1, NetKept
<1>5. ServerInv'
  BY DEF SendBlock, ServerInv, client
<1>6. QED
  BY <1>1, <1>4, <1>5 DEF Inv, Grows

\* The server is back in the outer recvfrom, or stays there.
LEMMA IdleKeeps ==
    ASSUME Inv, UNCHANGED client, spc' = "idle",
           \/ BagToSet(net') \subseteq BagToSet(net)
           \/ \E e : Refusal(e) /\ BagToSet(net') \subseteq BagToSet(net) \cup {e}
    PROVE  Inv'
<1>1. Grows /\ CopyInv'
  BY DEF client, Inv, TypeInv, Grows, CopyInv
<1>2. \A m : Refusal(m) => Sendable(m)'
  BY DEF Refusal, Sendable
<1>3. \A m \in BagToSet(net') : m \in BagToSet(net) \/ Sendable(m)'
  BY <1>2
<1>4. NetInv'
  BY ONLY Inv, <1>1, <1>3, NetKept
<1>5. ServerInv'
  BY DEF ServerInv
<1>6. QED
  BY <1>1, <1>4, <1>5 DEF Inv, Grows

LEMMA RequestFrom ==
    ASSUME Inv, NEW m \in BagToSet(net), m.op = "RRQ" PROVE m.from \in Clients
<1>1. Request(m)
  BY DEF Inv, NetInv, Sendable, Refusal, Acknowledgement, Part, ERROR, ACK, DATA
<1>2. QED
  BY <1>1 DEF Request, RRQ

\* The right acknowledgement is of a block its sender has, and never of the last
\* number before it wraps to 0.
LEMMA RightAckIs ==
    ASSUME Inv, NEW m \in BagToSet(net), spc = "wait", RightAck(m)
    PROVE  /\ m.from \in Clients /\ bl_num = pos /\ pos \in Nat /\ pos + 1 \in 1 .. BLOCK_MOD
           /\ num[m.from] \in Nat /\ num[m.from] >= pos
<1>1. Acknowledgement(m)
  BY DEF Inv, NetInv, Sendable, Request, Refusal, Part, RRQ, ERROR, DATA, RightAck
<1>2. PICK c \in Clients : \E n \in 1 .. num[c] : m = ACK(c, n)
  BY <1>1 DEF Acknowledgement
<1>3. PICK n \in 1 .. num[c] : m = ACK(c, n)
  BY <1>2
<1>4. m.from = c /\ n = bl_num /\ num[c] \in Nat /\ num[c] < BLOCK_MOD
  BY <1>3 DEF ACK, RightAck, Inv, TypeInv, CopyInv
<1>5. pos \in 1 .. BLOCK_MOD /\ bl_num = pos % BLOCK_MOD
  BY DEF Inv, ServerInv
<1>6. pos % BLOCK_MOD = IF pos = BLOCK_MOD THEN 0 ELSE pos
  BY <1>5, ModSmall, TftpAssumption
<1>7. pos # BLOCK_MOD /\ bl_num = pos
  BY <1>4, <1>5, <1>6
<1>8. QED
  BY <1>4, <1>5, <1>7, TftpAssumption

LEMMA ServerKeeps == ASSUME Inv, ServerStep \/ ServerError PROVE Inv'
<1>1. ASSUME NEW m \in ToServer, HandleRequest(m) PROVE Inv'
  <2>1. m.from \in Clients
    BY <1>1, RequestFrom DEF HandleRequest, ToServer
  <2>2. num[m.from] + 1 >= 1 /\ 1 \in 1 .. BLOCK_MOD /\ 1 \in Nat
    BY <2>1, TftpAssumption DEF Inv, TypeInv
  <2>3. QED
    BY <1>1, <2>1, <2>2, SendKeeps DEF HandleRequest
<1>2. ASSUME NEW m \in ToServer, NextBlock(m) PROVE Inv'
  <2>1. /\ m.from \in Clients /\ bl_num = pos /\ pos \in Nat /\ pos + 1 \in 1 .. BLOCK_MOD /\ file \in Clients
        /\ num[m.from] \in Nat /\ num[m.from] >= pos
    BY <1>2, RightAckIs DEF NextBlock, ToServer, Inv, ServerInv
  <2>2. num[m.from] + 1 >= pos + 1 /\ bl_num + 1 = pos + 1 /\ pos + 1 \in Nat
    BY <2>1
  <2>3. QED
    BY <1>2, <2>1, <2>2, SendKeeps DEF NextBlock
<1>3. ASSUME NEW m \in ToServer, RefuseRequest(m) PROVE Inv'
  <2>1. Refusal(ERROR(m.from))
    BY <1>3, RequestFrom DEF RefuseRequest, ToServer, Refusal
  <2>2. BagToSet(net') \subseteq BagToSet(net) \cup {ERROR(m.from)}
    BY <1>3, ExchangeHolds DEF RefuseRequest
  <2>3. QED
    BY <1>3, <2>1, <2>2, IdleKeeps DEF RefuseRequest
<1>4. ASSUME NEW m \in ToServer, IgnoreStray(m) \/ Finish(m) \/ Abandon(m) \/ SendFails(m) PROVE Inv'
  <2>1. spc' = "idle" /\ UNCHANGED client /\ Exchange(m, {})
    BY <1>4 DEF IgnoreStray, Finish, Abandon, SendFails
  <2>2. BagToSet(net') \subseteq BagToSet(net)
    BY <2>1, QuietExchange
  <2>3. QED
    BY ONLY Inv, <2>1, <2>2, IdleKeeps
<1>5. CASE ReceiveFails
  <2>1. spc' = "idle" /\ UNCHANGED client /\ BagToSet(net') \subseteq BagToSet(net)
    BY <1>5 DEF ReceiveFails
  <2>2. QED
    BY ONLY Inv, <2>1, IdleKeeps
<1>6. QED
  BY <1>1, <1>2, <1>3, <1>4, <1>5 DEF ServerStep, ServerReceives, ServerError

\* UDP adds nothing that was not sent.
LEMMA NetworkKeeps == ASSUME Inv, NEW m \in BagToSet(net), Lose(m) \/ Duplicate(m) PROVE Inv'
<1>1. BagToSet(net') \subseteq BagToSet(net)
  <2>1. CASE Lose(m)
    BY <2>1, QuietExchange DEF Lose
  <2>2. CASE Duplicate(m)
    BY <2>2, AddHolds DEF Duplicate
  <2>3. QED
    BY <2>1, <2>2
<1>2. UNCHANGED <<server, client>>
  BY DEF Lose, Duplicate
<1>3. Grows /\ CopyInv'
  BY <1>2 DEF client, Inv, TypeInv, Grows, CopyInv
<1>4. QED
  BY ONLY Inv, <1>1, <1>2, <1>3, ClientQuiet

LEMMA InvStep == Inv /\ [Next]_vars => Inv'
<1> SUFFICES ASSUME Inv, [Next]_vars PROVE Inv'
  OBVIOUS
<1>1. CASE UNCHANGED vars
  <2>1. Grows /\ CopyInv' /\ UNCHANGED server /\ BagToSet(net') \subseteq BagToSet(net)
    BY <1>1 DEF vars, client, Inv, TypeInv, Grows, CopyInv
  <2>2. QED
    BY ONLY Inv, <2>1, ClientQuiet
<1>2. QED
  BY <1>1, ClientKeeps, ServerKeeps, NetworkKeeps DEF Next

LEMMA InvHolds == Spec => []Inv
BY InitInv, InvStep, PTL DEF Spec

\* A client writes bytes in the order of their positions, at their places unless one
\* of its writes was short, and stops counting before the 16-bit numbers wrap,
\* whatever UDP does and whomever the server talks to.
THEOREM WrittenInOrder == Spec => []InOrder
BY InvHolds, InvImplies, PTL

\* The server waits for an acknowledgement of the block after those its peer has,
\* or of an earlier one.
THEOREM AtMostOneAhead == Spec => []ServerNotAhead
BY InvHolds, InvImplies, PTL

-----------------------------------------------------------------------------
(***************************************************************************)
(* One client.  Then every byte in flight is of its file, and bytes at     *)
(* their places are the beginning of the file.                             *)
(***************************************************************************)
LEMMA PlacesArePrefix ==
    ASSUME NEW c, Clients = {c}, NEW s \in Seq(Clients \X Nat), InPlace(s)
    PROVE  Len(s) <= Size[c] /\ Len(FileOf(c)) = Size[c] /\ s = SubSeq(FileOf(c), 1, Len(s))
<1>1. PICK n \in Nat, z \in Nat : n = Len(s) /\ z = Size[c]
  BY TftpAssumption
<1>2. ASSUME NEW i \in 1 .. n PROVE s[i] = <<c, i>> /\ i <= z
  <2>1. s[i] \in Clients \X Nat /\ s[i][2] = i /\ i <= Size[s[i][1]]
    BY <1>1 DEF InPlace
  <2>2. s[i][1] = c /\ s[i] = <<s[i][1], s[i][2]>>
    BY <2>1
  <2>3. QED
    BY <2>1, <2>2, <1>1
<1>3. n <= z
  <2>1. CASE n = 0
    BY <2>1
  <2>2. CASE n # 0
    BY <2>2, <1>2
  <2>3. QED
    BY <2>1, <2>2
<1>4. PICK F : F = FileOf(c) /\ F = [i \in 1 .. z |-> <<c, i>>]
  BY <1>1 DEF FileOf
<1>5. F \in Seq(Clients \X Nat) /\ Len(F) = z
  BY ONLY <1>4, Clients = {c}, z \in Nat
<1>6. \A i \in 1 .. n : F[i] = <<c, i>> /\ F[i] \in Clients \X Nat
  BY ONLY <1>3, <1>4, n \in Nat, z \in Nat, Clients = {c}
<1>7. PICK t : t = SubSeq(F, 1, n)
  OBVIOUS
<1>8. t \in Seq(Clients \X Nat) /\ Len(t) = n /\ \A i \in 1 .. n : t[i] = F[i]
  BY ONLY <1>6, <1>7, n \in Nat, SubSeqProperties
<1>9. s = t
  <2>1. Len(s) = Len(t) /\ \A i \in 1 .. Len(s) : s[i] = t[i]
    BY ONLY <1>1, <1>2, <1>6, <1>8
  <2>2. QED
    BY ONLY <2>1, <1>8, s \in Seq(Clients \X Nat), SeqEqual
<1>10. QED
  BY ONLY <1>1, <1>3, <1>4, <1>5, <1>7, <1>9

Verdicts == [c \in Clients |-> Verdict(c)]

\* The mapped steps.
LEMMA Extends ==
    ASSUME NEW c, Clients = {c}, TypeInv, TypeInv', cpc[c] = "start" \/ cpc[c] = "wait",
           c \notin gaps', c \notin gaps, InPlace(got'[c]), Len(got[c]) <= Len(got'[c]),
           cpc'[c] = "done" => Len(got'[c]) = Size[c]
    PROVE  Copies!Extend(c)
<1>1. got'[c] \in Seq(Clients \X Nat) /\ got[c] \in Seq(Clients \X Nat) /\ Len(got[c]) \in Nat /\ Len(got'[c]) \in Nat
  BY DEF TypeInv
<1>2. Len(got'[c]) <= Size[c] /\ Len(FileOf(c)) = Size[c] /\ got'[c] = SubSeq(FileOf(c), 1, Len(got'[c]))
  BY <1>1, PlacesArePrefix
<1>3. got' = [got EXCEPT ![c] = SubSeq(FileOf(c), 1, Len(got'[c]))]
  BY <1>2 DEF TypeInv
<1>4. Verdicts[c] = "going" /\ Verdicts'[c] \in {"going", "whole", "given up"} /\ (Verdicts'[c] = "whole" => cpc'[c] = "done")
  BY DEF TypeInv, Verdicts, Verdict
<1>5. Verdicts' = [Verdicts EXCEPT ![c] = Verdicts'[c]]
  BY DEF Verdicts
<1>6. Len(got'[c]) \in Len(got[c]) .. Len(FileOf(c))
  <2>1. Size[c] \in Nat
    BY TftpAssumption
  <2>2. QED
    BY ONLY <1>1, <1>2, <2>1, Len(got[c]) <= Len(got'[c])
<1>7. Verdicts'[c] \in {"going", "given up"} \cup {v \in {"whole"} : Len(got'[c]) = Len(FileOf(c))}
  BY <1>2, <1>4
<1>8. [d \in Clients |-> FileOf(d)][c] = FileOf(c)
  OBVIOUS
<1>9. QED
  BY ONLY <1>3, <1>4, <1>5, <1>6, <1>7, <1>8 DEF Copies!Extend, Copies!Verdicts, Verdicts

\* The last block completes the file.
LEMMA ShortIsLast ==
    ASSUME NEW c, Clients = {c}, NEW n \in Nat, NEW s \in Seq(Clients \X Nat), InPlace(s), Len(s) = n * BLK_SIZE
    PROVE  LET b == Block(c, n + 1) IN
           /\ Len(s) <= Len(s \o b) /\ InPlace(s \o b)
           /\ Len(b) < BLK_SIZE => Len(s \o b) = Size[c]
<1>1. PICK b : b = Block(c, n + 1)
  OBVIOUS
<1>2. PICK L \in Nat, B \in Nat, z \in Nat : L = Len(s) /\ L = n * BLK_SIZE /\ B = BLK_SIZE /\ z = Size[c]
  <2>1. Len(s) \in Nat /\ BLK_SIZE \in Nat /\ Size[c] \in Nat
    BY TftpAssumption
  <2>2. QED
    BY ONLY <2>1, Len(s) = n * BLK_SIZE
<1>3. /\ Len(b) = IF L + B < z THEN B ELSE IF L < z THEN z - L ELSE 0
  BY ONLY <1>1, <1>2, BlockIs, Clients = {c}, n \in Nat
<1>4. L <= z
  BY <1>2, PlacesArePrefix
<1>5. InPlace(s \o b) /\ Len(s \o b) = Len(s) + Len(b)
  BY ONLY <1>1, BlockExtends, Clients = {c}, n \in Nat, s \in Seq(Clients \X Nat), InPlace(s), Len(s) = n * BLK_SIZE
<1>6. PICK K : K = Len(b)
  OBVIOUS
<1>7. K \in Nat /\ (K < B => L + K = z) /\ L <= L + K
  BY ONLY <1>3, <1>4, <1>6, L \in Nat, B \in Nat, z \in Nat
<1>8. QED
  BY ONLY <1>1, <1>2, <1>5, <1>6, <1>7

\* A copy with a gap, or one that gets it now, is appended to.
LEMMA Spoils ==
    ASSUME NEW c, Clients = {c}, TypeInv, TypeInv', c \in gaps', c \in gaps \/ cpc[c] = "wait",
           NEW b \in Seq(Clients \X Nat), got'[c] = got[c] \o b
    PROVE  Copies!Spoil(c)
<1>0. PICK s \in Seq(Clients \X Nat) : s = got[c]
  BY DEF TypeInv
<1>1. PICK t : s = got[c] /\ t = got'[c] /\ t = s \o b
  BY <1>0
<1>2. /\ t \in Seq(Clients \X Nat) /\ Len(t) = Len(s) + Len(b)
      /\ \A i \in 1 .. Len(s) + Len(b) : t[i] = IF i <= Len(s) THEN s[i] ELSE b[i - Len(s)]
  BY ONLY <1>1, b \in Seq(Clients \X Nat), ConcatProperties
<1>3. PICK n \in Nat, k \in Nat : n = Len(s) /\ k = Len(b)
  OBVIOUS
<1>4. \A i \in 1 .. n : t[i] = s[i] /\ t[i] \in Clients \X Nat
  <2>1. \A i \in 1 .. n : s[i] \in Clients \X Nat
    BY ONLY <1>3, s \in Seq(Clients \X Nat)
  <2>2. QED
    BY ONLY <2>1, <1>2, <1>3
<1>5. PICK u : u = SubSeq(t, 1, n)
  OBVIOUS
<1>6. u \in Seq(Clients \X Nat) /\ Len(u) = n /\ \A i \in 1 .. n : u[i] = t[i]
  BY ONLY <1>4, <1>5, n \in Nat, SubSeqProperties
<1>7. u = s
  <2>1. Len(u) = Len(s) /\ \A i \in 1 .. Len(u) : u[i] = s[i]
    BY ONLY <1>3, <1>4, <1>6
  <2>2. QED
    BY ONLY <2>1, <1>6, s \in Seq(Clients \X Nat), SeqEqual
<1>8. Len(t) >= Len(s)
  BY ONLY <1>2, <1>3, n \in Nat, k \in Nat
<1>9. Verdicts[c] \in {"going", "spoiled"} /\ Verdicts'[c] = "spoiled"
  BY DEF Verdicts, Verdict
<1>10. Verdicts' = [Verdicts EXCEPT ![c] = "spoiled"]
  BY <1>9 DEF Verdicts
<1>11. Len(got'[c]) >= Len(got[c]) /\ SubSeq(got'[c], 1, Len(got[c])) = got[c] /\ \A q \in Clients \ {c} : got'[q] = got[q]
  BY ONLY <1>1, <1>3, <1>5, <1>7, <1>8, Clients = {c}
<1>12. QED
  BY ONLY <1>9, <1>10, <1>11 DEF Copies!Spoil, Verdicts

LEMMA CopyStep ==
    ASSUME NEW c, Clients = {c}, Inv, Inv', [Next]_vars
    PROVE  Copies!Extend(c) \/ Copies!Spoil(c) \/ UNCHANGED <<got, Verdicts>>
<1>1. CASE UNCHANGED <<cpc, got, gaps>>
  BY <1>1 DEF Verdicts, Verdict
<1>2. TypeInv /\ TypeInv' /\ (c \notin gaps => InPlace(got[c])) /\ Len(got[c]) \in Nat
  BY DEF Inv, TypeInv, CopyInv
<1>3. ASSUME cpc[c] = "start" \/ cpc[c] = "wait", got' = got, gaps' = gaps, cpc'[c] # "done"
      PROVE  Copies!Extend(c) \/ UNCHANGED <<got, Verdicts>>
  <2>1. CASE c \in gaps
    BY <1>3, <2>1 DEF Verdicts, Verdict
  <2>2. CASE c \notin gaps
    BY <1>2, <1>3, <2>2, Extends
  <2>3. QED
    BY <2>1, <2>2
<1>4. ASSUME NEW m \in InFlight(c, "DATA"), ReceiveBlock(c, m) \/ ShortWrite(c, m) \/ AckFails(c, m)
      PROVE  Copies!Extend(c) \/ Copies!Spoil(c)
  <2>1. m.body = Block(c, num[c] + 1) /\ cpc[c] = "wait"
    BY <1>4, ExpectedPart DEF ReceiveBlock, ShortWrite, AckFails
  <2>2. PICK B : B = Block(c, num[c] + 1)
    OBVIOUS
  <2>3. /\ num[c] \in Nat /\ got[c] \in Seq(Clients \X Nat)
        /\ c \notin gaps => Len(got[c]) = num[c] * BLK_SIZE
    BY <2>1 DEF Inv, TypeInv, CopyInv
  <2>4. \/ got'[c] = got[c] \o B /\ gaps' = gaps
        \/ (\E n \in 0 .. Len(B) - 1 : got'[c] = got[c] \o SubSeq(B, 1, n)) /\ c \in gaps'
    <3>1. ASSUME NEW z, got' = [got EXCEPT ![c] = @ \o z] PROVE got'[c] = got[c] \o z
      BY <1>2, <3>1 DEF TypeInv
    <3>2. \/ got' = [got EXCEPT ![c] = @ \o B] /\ gaps' = gaps
          \/ (\E n \in 0 .. Len(B) - 1 : got' = [got EXCEPT ![c] = @ \o SubSeq(B, 1, n)]) /\ c \in gaps'
      BY <1>4, <2>1, <2>2 DEF ReceiveBlock, ShortWrite, AckFails
    <3>3. QED
      BY ONLY <3>1, <3>2
  <2>5. CASE c \notin gaps'
    <3>1. got'[c] = got[c] \o B /\ c \notin gaps
      BY <2>4, <2>5
    <3>2. ReceiveBlock(c, m) \/ AckFails(c, m)
      BY <1>4, <2>5 DEF ShortWrite
    <3>3. cpc'[c] = "done" => Len(B) < BLK_SIZE
      BY <3>2, <2>1, <2>2, <1>2 DEF ReceiveBlock, AckFails, TypeInv
    <3>4. /\ Len(got[c]) <= Len(got'[c]) /\ InPlace(got'[c])
          /\ Len(B) < BLK_SIZE => Len(got'[c]) = Size[c]
      BY ONLY <2>2, <2>3, <3>1, <1>2, Clients = {c}, ShortIsLast
    <3>5. QED
      BY ONLY <1>2, <2>1, <2>5, <3>1, <3>3, <3>4, Clients = {c}, Extends
  <2>6. CASE c \in gaps'
    <3>1. /\ Piece(B, c, num[c]) /\ \A n \in 0 .. Len(B) - 1 : Piece(SubSeq(B, 1, n), c, num[c])
      BY ONLY <2>2, <2>3, Clients = {c}, PiecesAre
    <3>2. PICK b \in Seq(Clients \X Nat) : got'[c] = got[c] \o b
      BY ONLY <2>4, <3>1 DEF Piece
    <3>3. QED
      BY ONLY <1>2, <2>1, <2>6, <3>2, Clients = {c}, Spoils
  <2>7. QED
    BY <2>5, <2>6
<1>5. CASE ClientStep(c)
  <2>1. CASE SendRequest(c)
    BY <2>1, <1>2, <1>3 DEF SendRequest, TypeInv
  <2>2. CASE \E m \in InFlight(c, "ERROR") : ReceiveError(c, m)
    BY <2>2, <1>2, <1>3 DEF ReceiveError, TypeInv
  <2>3. CASE \E m \in InFlight(c, "DATA") : ReceiveBlock(c, m) \/ IgnoreBlock(c, m)
    BY <2>3, <1>1, <1>4 DEF IgnoreBlock, client
  <2>4. QED
    BY <1>5, <2>1, <2>2, <2>3 DEF ClientStep
<1>6. CASE ClientError(c)
  <2>1. CASE ClientFails(c)
    BY <2>1, <1>2, <1>3 DEF ClientFails, TypeInv
  <2>2. CASE \E m \in InFlight(c, "DATA") : OpenFails(c, m) \/ WriteFails(c, m)
    BY <2>2, <1>2, <1>3 DEF OpenFails, WriteFails, TypeInv
  <2>3. QED
    BY <1>6, <2>1, <2>2, <1>4 DEF ClientError
<1>7. CASE ServerStep \/ ServerError \/ UNCHANGED vars \/ \E m \in BagToSet(net) : Lose(m) \/ Duplicate(m)
  <2>1. UNCHANGED client
    BY <1>7 DEF ServerStep, ServerReceives, HandleRequest, RefuseRequest, IgnoreStray, NextBlock, Finish, Abandon,
                ServerError, SendFails, ReceiveFails, Lose, Duplicate, vars
  <2>2. QED
    BY <2>1, <1>1 DEF client
<1>8. QED
  BY <1>5, <1>6, <1>7 DEF Next

\* A client alone with the server gets a faithful copy of its file: its local file
\* is at all times the beginning of it, and the client stops with success only when
\* it has all of it, whatever UDP loses, repeats or reorders and whichever call
\* reports an error.  The one exception is a write that was short, which the client
\* does not notice: that copy is only appended to.
THEOREM OneFaithfulCopy == ASSUME NEW c, Clients = {c} PROVE Spec => FaithfulCopy
<1>1. Init => Copies!CopyInit
  BY DEF Init, Copies!CopyInit, Verdict
<1>2. Inv /\ Inv' /\ [Next]_vars => [Copies!CopyNext]_<<got, Verdicts>>
  BY CopyStep DEF Copies!CopyNext
<1>3. QED
  BY <1>1, <1>2, InvHolds, PTL DEF Spec, FaithfulCopy, Copies!CopySpec, Verdicts

=============================================================================
