------------------------- MODULE Bip324StreamProofs ------------------------
(***************************************************************************)
(* Proofs about Bip324Stream, for every value of its constants.            *)
(***************************************************************************)
EXTENDS Bip324Stream, SequenceLemmas, TLAPS

\* A sealed packet is a sequence of cells.
LEMMA SealType ==
    ASSUME NEW c \in Nat, NEW from \in Nat, NEW size \in Nat, NEW ignore \in 0..1
    PROVE  /\ Seal(c, c, from, size, ignore) \in Seq(Cell)
           /\ Len(Seal(c, c, from, size, ignore)) = PacketLen(size)
           /\ PacketLen(size) \in Nat
           /\ PacketLen(size) > LenBytes
           /\ \A i \in 1..PacketLen(size) :
                  Seal(c, c, from, size, ignore)[i] = CellOf(c, from, size, ignore, i)
  BY StreamAssumption DEF Seal, PacketLen, Cell, CellOf

\* A value whose length is not zero is not the empty sequence.
LEMMA NonEmpty ==
    ASSUME NEW s, Len(s) # 0
    PROVE  s # <<>>
  OBVIOUS

\* Bytes(from, n) is the sequence of the n numbers after from.
LEMMA RunOfBytes ==
    ASSUME NEW from \in Nat, NEW n \in Nat
    PROVE  /\ Bytes(from, n) \in Seq(Nat)
           /\ Len(Bytes(from, n)) = n
           /\ \A i \in 1..n : Bytes(from, n)[i] = from + i
  BY DEF Bytes

\* The invariant holds of two fresh Bip324Streams on a new connection.
THEOREM InitIInv == Init => IInv
<1> SUFFICES ASSUME Init PROVE IInv
  OBVIOUS
<1> USE StreamAssumption DEF Init
<1>1. TypeOK
  BY DEF TypeOK
<1>2. NeverDesynchronised /\ FlushOutlivesWriter
  BY DEF NeverDesynchronised, FlushOutlivesWriter
<1>3. WireCells /\ Runs(tx, Len(tx)) /\ Boundaries(tx, Len(tx)) /\ FlushInv
  BY DEF WireCells, Runs, Boundaries, FlushInv, Whole
<1>4. WriterInv
  BY DEF WriterInv, BoundaryAt
<1>5. ReaderInv
  <2>1. FieldStart = 0 /\ Opened = 0
    <3>1. /\ Len(recvBuf) = 0 /\ Len(readBuf) = 0 /\ Len(delivered) = 0
          /\ rcvd = 0 /\ readPos = 0
      OBVIOUS
    <3> HIDE DEF Init
    <3> QED BY <3>1 DEF FieldStart, Opened
  <2> QED BY <2>1 DEF ReaderInv, BoundaryAt
<1>6. PlaintextInv
  BY DEF PlaintextInv, Opened
<1> QED BY <1>1, <1>2, <1>3, <1>4, <1>5, <1>6 DEF IInv

-----------------------------------------------------------------------------
\* A cell's packet has at least two bytes, so its last one is not its first.
LEMMA PacketLenType ==
    ASSUME NEW size \in Nat
    PROVE  PacketLen(size) \in Nat /\ PacketLen(size) > LenBytes /\ PacketLen(size) >= 2
  BY StreamAssumption DEF PacketLen

\* The fields of a ciphertext byte and what is computed from them are numbers.
LEMMA CellTypes ==
    ASSUME NEW x \in Cell
    PROVE  /\ x.ctr \in Nat /\ x.from \in Nat /\ x.size \in Nat
           /\ x.ignore \in 0..1 /\ x.off \in Nat
           /\ Carried(x) \in Nat
           /\ Left(x) \in Int
<1>1. /\ x.ctr \in Nat /\ x.from \in Nat /\ x.size \in Nat
      /\ x.ignore \in 0..1 /\ x.off \in Nat
  BY DEF Cell
<1>2. PacketLen(x.size) \in Nat
  BY <1>1, PacketLenType
<1> QED BY <1>1, <1>2 DEF Carried, Left

\* Sums of a cell's fields.
LEMMA CellSums ==
    ASSUME NEW x \in Cell
    PROVE  x.ctr < x.ctr + 1 /\ x.from + Carried(x) \in Nat
  BY CellTypes

\* The bytes after a byte of a packet.
LEMMA AfterFields ==
    ASSUME NEW x \in Cell, NEW d \in Nat
    PROVE  /\ After(x, d) \in Cell
           /\ After(x, d).ctr = x.ctr /\ After(x, d).from = x.from
           /\ After(x, d).size = x.size /\ After(x, d).ignore = x.ignore
           /\ After(x, d).off = x.off + d
           /\ Left(After(x, d)) = Left(x) - d
           /\ Carried(After(x, d)) = Carried(x)
<1>1. /\ x.ctr \in Nat /\ x.from \in Nat /\ x.size \in Nat
      /\ x.ignore \in 0..1 /\ x.off \in Nat /\ PacketLen(x.size) \in Nat
  BY CellTypes, PacketLenType
<1>2. /\ After(x, d) \in Cell
      /\ After(x, d).ctr = x.ctr /\ After(x, d).from = x.from
      /\ After(x, d).size = x.size /\ After(x, d).ignore = x.ignore
      /\ After(x, d).off = x.off + d
  BY <1>1 DEF After, CellOf, Cell
<1>3. Left(After(x, d)) = Left(x) - d
  BY <1>1, <1>2 DEF Left
<1> QED BY <1>2, <1>3 DEF Carried

\* The d-th and then the e-th byte after x is the (d+e)-th byte after x.
LEMMA AfterAfter ==
    ASSUME NEW x \in Cell, NEW d \in Nat, NEW e \in Nat
    PROVE  After(After(x, d), e) = After(x, d + e)
<1>1. x.off + d + e = x.off + (d + e)
  BY CellTypes
<1>2. After(After(x, d), e) = CellOf(x.ctr, x.from, x.size, x.ignore, x.off + d + e)
  BY AfterFields DEF After
<1> QED BY <1>1, <1>2 DEF After

\* The 0-th byte after x is x.
LEMMA AfterZero ==
    ASSUME NEW x \in Cell
    PROVE  After(x, 0) = x
  BY DEF After, CellOf, Cell

-----------------------------------------------------------------------------
\* Cutting an interval that starts at i <= n and ends at i+d in n+1..n+k.
LEMMA CutAt ==
    ASSUME NEW n \in Nat, NEW k \in Nat, NEW i \in Nat, NEW d \in Nat,
           i <= n, n < i + d, i + d <= n + k
    PROVE  \E e \in Nat, f \in 1..k : i + e = n /\ n + f = i + d /\ e + f = d
<1>1. n - i \in Nat /\ (i + d) - n \in 1..k
  OBVIOUS
<1>2. i + (n - i) = n /\ n + ((i + d) - n) = i + d /\ (n - i) + ((i + d) - n) = d
  OBVIOUS
<1> QED BY <1>1, <1>2

\* The first n+k bytes of u are the first n of t, then the k that follow z.
Appended(t, n, u, k, z) ==
    /\ \A i \in 1..n : u[i] = t[i]
    /\ \A f \in 1..k : u[n + f] = After(z, f)

Cells(t, n) == \A i \in 1..n : t[i] \in Cell

\* Appending the next bytes of a packet keeps the bytes of every packet
\* consecutive.
LEMMA ExtendRuns ==
    ASSUME NEW t, NEW u, NEW n \in Nat, NEW k \in Nat, NEW z \in Cell,
           Cells(t, n), Appended(t, n, u, k, z), Reached(t, n, z), Runs(t, n)
    PROVE  Runs(u, n + k)
<1> SUFFICES ASSUME NEW i \in 1..n + k, NEW d \in 0..Left(u[i]), i + d <= n + k
             PROVE  u[i + d] = After(u[i], d)
  BY DEF Runs
<1>1. CASE i <= n
  <2>1. PICK x \in Cell : x = t[i] /\ u[i] = x
    BY <1>1 DEF Cells, Appended
  <2>2. Left(x) \in Int /\ d \in Nat /\ d <= Left(x)
    BY <2>1, CellTypes
  <2>3. \A e \in Nat : e <= d /\ i + e <= n => t[i + e] = After(x, e)
    BY <1>1, <2>1, <2>2 DEF Runs
  <2>4. CASE i + d <= n
    <3>1. u[i + d] = t[i + d]
      BY <1>1, <2>2, <2>4 DEF Appended
    <3> QED BY <2>1, <2>2, <2>3, <2>4, <3>1
  <2>5. CASE i + d > n
    <3>1. PICK e \in Nat, f \in 1..k : i + e = n /\ n + f = i + d /\ e + f = d
      BY <1>1, <2>2, <2>5, CutAt
    <3>2. t[n] = After(x, e)
      BY <2>3, <3>1
    <3>3. Left(t[n]) = Left(x) - e
      BY <3>2, AfterFields
    <3>9. e < d /\ n # 0
      <4>1. \A a \in Nat, b \in 1..k : a + b = d => a < d
        BY <2>2
      <4> QED BY <1>1, <3>1, <4>1
    <3>4. Left(t[n]) # 0 /\ n # 0
      <4>1. Left(x) - e # 0
        BY <2>2, <3>9
      <4> QED BY <3>3, <3>9, <4>1
    <3>5. z.off # 0
      <4>1. ~ BoundaryAt(t, n, z.ctr, z.from)
        BY <3>4 DEF BoundaryAt
      <4> QED BY <4>1 DEF Reached
    <3>6. t[n] = z
      <4>1. z.off > 0
        BY <3>5, CellTypes
      <4> QED BY <4>1 DEF Reached
    <3>7. u[n + f] = After(z, f)
      BY DEF Appended
    <3>8. After(After(x, e), f) = After(x, d)
      <4>1. f \in Nat
        OBVIOUS
      <4>2. After(After(x, e), f) = After(x, e + f)
        BY <4>1, AfterAfter
      <4> QED BY <3>1, <4>2
    <3> QED BY <2>1, <3>1, <3>2, <3>6, <3>7, <3>8
  <2> QED BY <2>2, <2>4, <2>5
<1>2. CASE i > n
  <2>1. PICK j \in 1..k : n + j = i
    <3>1. i - n \in 1..k /\ n + (i - n) = i
      BY <1>2
    <3> QED BY <3>1
  <2>2. u[i] = After(z, j)
    BY <2>1 DEF Appended
  <2>3. d \in Nat
    BY <2>2, AfterFields, CellTypes
  <2>4. j + d \in 1..k /\ n + (j + d) = i + d
    BY <2>1, <2>3
  <2>5. u[n + (j + d)] = After(z, j + d)
    BY <2>4 DEF Appended
  <2>6. After(After(z, j), d) = After(z, j + d)
    BY <2>3, AfterAfter
  <2> QED BY <2>2, <2>4, <2>5, <2>6
<1> QED BY <1>1, <1>2

\* Appending the next bytes of a packet keeps packets in counter order, each
\* starting where the one before it ends.
LEMMA ExtendBoundaries ==
    ASSUME NEW t, NEW u, NEW n \in Nat, NEW k \in Nat, NEW z \in Cell,
           Left(z) >= k,
           Cells(t, n), Appended(t, n, u, k, z), Reached(t, n, z), Boundaries(t, n)
    PROVE  Boundaries(u, n + k)
<1> SUFFICES ASSUME NEW i \in 1..n + k, i = 1 \/ Left(u[i - 1]) = 0
             PROVE  u[i].off = 1 /\ BoundaryAt(u, i - 1, u[i].ctr, u[i].from)
  BY DEF Boundaries
<1>1. i - 1 <= n => (i - 1 = 0 \/ (i - 1 \in 1..n /\ u[i - 1] = t[i - 1]))
  BY DEF Appended
<1>2. CASE i <= n
  <2>1. i \in 1..n /\ u[i] = t[i]
    BY <1>2 DEF Appended
  <2>2. i = 1 \/ Left(t[i - 1]) = 0
    BY <1>1, <1>2
  <2>3. t[i].off = 1 /\ BoundaryAt(t, i - 1, t[i].ctr, t[i].from)
    BY <2>1, <2>2 DEF Boundaries
  <2> QED BY <1>1, <1>2, <2>1, <2>3 DEF BoundaryAt
<1>3. CASE i = n + 1
  <2>1. 1 \in 1..k /\ i - 1 = n
    BY <1>3
  <2>2. u[n + 1] = After(z, 1)
    BY <2>1 DEF Appended
  <2>3. n = 0 \/ u[n] = t[n]
    BY <1>1, <2>1
  <2>4. z.off = 0
    <3>1. CASE z.off > 0
      <4>1. n > 0 /\ t[n] = z
        BY <3>1 DEF Reached
      <4>2. Left(z) = 0
        BY <1>3, <2>1, <2>3, <4>1
      <4> QED BY <2>1, <4>2
    <3> QED BY <3>1, CellTypes
  <2>5. BoundaryAt(t, n, z.ctr, z.from)
    BY <2>4 DEF Reached
  <2>6. u[i].off = 1 /\ u[i].ctr = z.ctr /\ u[i].from = z.from
    <3>1. u[i] = After(z, 1)
      BY <1>3, <2>2
    <3>2. /\ After(z, 1).ctr = z.ctr /\ After(z, 1).from = z.from
          /\ After(z, 1).off = z.off + 1
      BY AfterFields
    <3> QED BY <2>4, <3>1, <3>2
  <2> QED BY <2>1, <2>3, <2>5, <2>6 DEF BoundaryAt
<1>4. CASE i > n + 1
  <2>1. PICK j \in 1..k : n + j = i - 1 /\ j < k
    <3>1. (i - 1) - n \in 1..k /\ n + ((i - 1) - n) = i - 1 /\ (i - 1) - n < k
      BY <1>4
    <3> QED BY <3>1
  <2>2. u[i - 1] = After(z, j)
    BY <2>1 DEF Appended
  <2>3. Left(u[i - 1]) = Left(z) - j
    BY <2>2, AfterFields
  <2>4. Left(u[i - 1]) # 0
    BY <2>1, <2>3, CellTypes
  <2> QED BY <1>4, <2>4
<1> QED BY <1>2, <1>3, <1>4

\* A prefix of a run of packets is one.
LEMMA RunsPrefix ==
    ASSUME NEW t, NEW u, NEW n \in Nat, NEW m \in Nat, m <= n,
           \A i \in 1..m : u[i] = t[i], \A i \in 1..n : t[i] \in Cell, Runs(t, n)
    PROVE  Runs(u, m)
<1> SUFFICES ASSUME NEW i \in 1..m, NEW d \in 0..Left(u[i]), i + d <= m
             PROVE  u[i + d] = After(u[i], d)
  BY DEF Runs
<1>1. i \in 1..n /\ u[i] = t[i]
  OBVIOUS
<1>2. Left(t[i]) \in Int
  BY <1>1, CellTypes
<1>3. d \in Nat /\ d \in 0..Left(t[i]) /\ i + d <= n /\ i + d \in 1..m
  BY <1>1, <1>2
<1>4. t[i + d] = After(t[i], d)
  BY <1>1, <1>3 DEF Runs
<1> QED BY <1>1, <1>3, <1>4

\* A prefix of packets in counter order is in counter order.
LEMMA BoundariesPrefix ==
    ASSUME NEW t, NEW u, NEW n \in Nat, NEW m \in Nat, m <= n,
           \A i \in 1..m : u[i] = t[i], Boundaries(t, n)
    PROVE  Boundaries(u, m)
<1> SUFFICES ASSUME NEW i \in 1..m, i = 1 \/ Left(u[i - 1]) = 0
             PROVE  u[i].off = 1 /\ BoundaryAt(u, i - 1, u[i].ctr, u[i].from)
  BY DEF Boundaries
<1>1. i \in 1..n /\ u[i] = t[i] /\ (i - 1 = 0 \/ (i # 1 /\ u[i - 1] = t[i - 1]))
  <2>1. i = 1 \/ i - 1 \in 1..m
    OBVIOUS
  <2> QED BY <2>1
<1>2. t[i].off = 1 /\ BoundaryAt(t, i - 1, t[i].ctr, t[i].from)
  BY <1>1 DEF Boundaries
<1> QED BY <1>1, <1>2 DEF BoundaryAt

\* After k more bytes of the packet of z, the wire ends k bytes after z.
LEMMA ReachedAfter ==
    ASSUME NEW t, NEW u, NEW n \in Nat, NEW k \in Nat, NEW z \in Cell,
           Appended(t, n, u, k, z), Reached(t, n, z)
    PROVE  Reached(u, n + k, After(z, k))
<1>1. CASE k = 0
  <2>1. After(z, k) = z /\ n + k = n
    BY <1>1, AfterZero
  <2>2. n = 0 \/ u[n] = t[n]
    BY DEF Appended
  <2> QED BY <2>1, <2>2 DEF Reached, BoundaryAt
<1>2. CASE k > 0
  <2>1. k \in 1..k
    BY <1>2
  <2>2. u[n + k] = After(z, k)
    BY <2>1 DEF Appended
  <2>3. After(z, k).off # 0 /\ n + k > 0
    <3>1. After(z, k).off = z.off + k /\ z.off \in Nat
      BY AfterFields, CellTypes
    <3> QED BY <1>2, <3>1
  <2> QED BY <2>2, <2>3 DEF Reached
<1> QED BY <1>1, <1>2

\* When the last byte of the packet of z is on the wire, the wire is at the
\* boundary before the next packet.
LEMMA BoundaryAfter ==
    ASSUME NEW t, NEW u, NEW n \in Nat, NEW k \in Nat, NEW z \in Cell,
           Appended(t, n, u, k, z), k > 0, Left(z) = k
    PROVE  BoundaryAt(u, n + k, z.ctr + 1, z.from + Carried(z))
<1>1. k \in 1..k /\ n + k # 0
  OBVIOUS
<1>2. u[n + k] = After(z, k)
  BY <1>1 DEF Appended
<1>3. /\ Left(After(z, k)) = 0 /\ After(z, k).ctr = z.ctr /\ After(z, k).from = z.from
      /\ Carried(After(z, k)) = Carried(z)
  BY AfterFields
<1> QED BY <1>1, <1>2, <1>3 DEF BoundaryAt

\* Inside a packet, the whole packets on the wire carry the bytes before it.
LEMMA WholeReached ==
    ASSUME NEW t, NEW n \in Nat, NEW z \in Cell, Left(z) # 0, Reached(t, n, z)
    PROVE  Whole(t, n) = z.from
<1>1. CASE z.off = 0
  BY <1>1 DEF Reached, BoundaryAt, Whole
<1>2. CASE z.off > 0
  BY <1>2 DEF Reached, Whole
<1> QED BY <1>1, <1>2, CellTypes

\* At a boundary, the packets on the wire carry every byte before it.
LEMMA WholeBoundary ==
    ASSUME NEW t, NEW n \in Nat, NEW ctr, NEW from, BoundaryAt(t, n, ctr, from)
    PROVE  Whole(t, n) = from
  BY DEF BoundaryAt, Whole

-----------------------------------------------------------------------------
\* The bytes of a packet that a step of drive_pending_write appends.
LEMMA DriveAppends ==
    ASSUME NEW t \in Seq(Cell), NEW p \in Seq(Cell), NEW z \in Cell, IsPacket(p, z),
           NEW pos \in Nat, NEW k \in Nat, pos + k <= Len(p)
    PROVE  /\ t \o SubSeq(p, pos + 1, pos + k) \in Seq(Cell)
           /\ Len(t \o SubSeq(p, pos + 1, pos + k)) = Len(t) + k
           /\ Appended(t, Len(t), t \o SubSeq(p, pos + 1, pos + k), k, After(z, pos))
<1> DEFINE u == t \o SubSeq(p, pos + 1, pos + k)
<1>1. /\ u \in Seq(Cell)
      /\ Len(u) = Len(t) + k
      /\ \A i \in 1..Len(t) : u[i] = t[i]
      /\ \A i \in 1..k : u[Len(t) + i] = p[pos + i]
  BY AppendSlice
<1> HIDE DEF u
<1>2. ASSUME NEW i \in 1..k
      PROVE  u[Len(t) + i] = After(After(z, pos), i)
  <2>1. pos + i \in 1..Len(p) /\ i \in Nat
    BY LenProperties
  <2>2. p[pos + i] = After(z, pos + i)
    BY <2>1 DEF IsPacket
  <2> QED BY <1>1, <2>1, <2>2, AfterAfter
<1>3. Appended(t, Len(t), u, k, After(z, pos))
  BY <1>1, <1>2 DEF Appended
<1> QED BY <1>1, <1>3 DEF u

\* The wire's part of the invariant, and what every step of the writer keeps.
WireInv ==
    /\ tx \in Seq(Cell)
    /\ WireCells
    /\ Runs(tx, Len(tx))
    /\ Boundaries(tx, Len(tx))

\* Appending bytes of a packet that was sealed from written bytes keeps WireCells.
LEMMA WireCellsAppend ==
    ASSUME WireCells, Cells(tx, Len(tx)), NEW n \in Nat, n = Len(tx), NEW k \in Nat,
           sendP \in Nat, written \in Nat, sendP' \in Nat, written' \in Nat,
           sendP <= sendP', written <= written',
           Len(tx') = n + k, NEW z \in Cell, Appended(tx, n, tx', k, z),
           k <= Left(z), z.from + Carried(z) <= written', z.ctr < sendP',
           z.ignore = 1 \/ z.size > 0
    PROVE  WireCells'
<1> SUFFICES ASSUME NEW i \in 1..n + k
             PROVE  /\ tx'[i].off > 0
                    /\ Left(tx'[i]) \in Nat
                    /\ tx'[i].from + Carried(tx'[i]) <= written'
                    /\ tx'[i].ctr < sendP'
                    /\ tx'[i].ignore = 1 \/ tx'[i].size > 0
  BY DEF WireCells
<1>1. CASE i <= n
  <2>1. PICK x \in Cell : x = tx[i] /\ tx'[i] = x
    BY <1>1 DEF Cells, Appended
  <2>2. /\ x.off > 0 /\ Left(x) \in Nat
        /\ x.from + Carried(x) <= written /\ x.ctr < sendP
        /\ x.ignore = 1 \/ x.size > 0
    BY <1>1, <2>1 DEF WireCells
  <2>3. x.from \in Nat /\ Carried(x) \in Nat /\ x.ctr \in Nat
    BY CellTypes
  <2>4. x.from + Carried(x) <= written' /\ x.ctr < sendP'
    BY <2>2, <2>3
  <2> QED BY <2>1, <2>2, <2>4
<1>2. CASE i > n
  <2>1. PICK j \in 1..k : n + j = i
    <3>1. i - n \in 1..k /\ n + (i - n) = i
      BY <1>2
    <3> QED BY <3>1
  <2>5. j \in Nat /\ tx'[i] = After(z, j)
    BY <2>1 DEF Appended
  <2>6. /\ After(z, j) \in Cell
        /\ After(z, j).off = z.off + j /\ Left(After(z, j)) = Left(z) - j
        /\ After(z, j).from = z.from /\ Carried(After(z, j)) = Carried(z)
        /\ After(z, j).ctr = z.ctr
        /\ After(z, j).ignore = z.ignore /\ After(z, j).size = z.size
    BY <2>5, AfterFields
  <2>2. PICK x \in Cell : x = After(z, j) /\ tx'[i] = x
    BY <2>5, <2>6
  <2>3. /\ x.off = z.off + j /\ Left(x) = Left(z) - j
        /\ x.from = z.from /\ Carried(x) = Carried(z) /\ x.ctr = z.ctr
        /\ x.ignore = z.ignore /\ x.size = z.size
    BY <2>2, <2>6
  <2>7. z.off \in Nat /\ Left(z) \in Int
    BY CellTypes
  <2>4. z.off + j > 0 /\ Left(z) - j \in Nat
    BY <2>7
  <2> QED BY <2>2, <2>3, <2>4
<1> QED BY <1>1, <1>2

\* The old wire is a prefix of the new one, which the step leaves in order.
Grows == Len(tx) <= Len(tx') /\ \A i \in 1..Len(tx) : tx'[i] = tx[i]

\* A step of drive_pending_write on the packet p after z, with the writer's
\* counters as they are once p is sealed.
LEMMA DriveStep ==
    ASSUME WireInv, FlushInv, link = "up", link' = link, outcome' = outcome,
           sendP \in Nat, sendP' \in Nat, sendP <= sendP', sendL' = sendP',
           written \in Nat, written' \in Nat, written <= written',
           flushed \in Nat,
           NEW z \in Cell, z.off = 0, z.ignore = 1 \/ z.size > 0,
           sendP' = z.ctr + 1, written' = z.from + Carried(z),
           NEW p \in Seq(Cell), IsPacket(p, z),
           NEW pos \in Nat, NEW k \in Nat, pos < Len(p),
           Reached(tx, Len(tx), After(z, pos)),
           Drive(p, pos, k),
           flushed' = flushed \/ (pos + k = Len(p) /\ flushed' = written')
    PROVE  WireInv' /\ Grows /\ WriterInv' /\ FlushInv'
           /\ flushBuf' \in Seq(Cell) /\ flushPos' \in Nat
<1>1. PICK n \in Nat : n = Len(tx) /\ tx \in Seq(Cell)
  BY LenProperties DEF WireInv
<1>2. PICK m \in Nat : m = Len(p) /\ m = Left(z) /\ pos < m /\ pos + k <= m
  BY LenProperties DEF IsPacket, Drive
<1>3. PICK y \in Cell : y = After(z, pos)
  BY AfterFields
<1>4. /\ y.ctr = z.ctr /\ y.from = z.from /\ y.size = z.size /\ y.ignore = z.ignore
      /\ y.off = z.off + pos /\ Left(y) = Left(z) - pos /\ Carried(y) = Carried(z)
  <2> DEFINE w == After(z, pos)
  <2>1. /\ w.ctr = z.ctr /\ w.from = z.from /\ w.size = z.size /\ w.ignore = z.ignore
        /\ w.off = z.off + pos /\ Left(w) = Left(z) - pos /\ Carried(w) = Carried(z)
    BY AfterFields
  <2> QED BY <1>3, <2>1
<1>5. Left(y) = m - pos /\ k <= Left(y) /\ Left(y) # 0
  <2>1. k <= m - pos /\ m - pos # 0
    BY <1>2
  <2> QED BY <2>1, <1>2, <1>4
<1>6. /\ tx' \in Seq(Cell)
      /\ Len(tx') = n + k
      /\ Appended(tx, n, tx', k, y)
  <2>1. tx' = tx \o SubSeq(p, pos + 1, pos + k)
    BY DEF Drive
  <2>2. pos + k <= Len(p)
    BY <1>2
  <2> QED BY <1>1, <1>3, <2>1, <2>2, DriveAppends
<1>7. Cells(tx, n)
  BY <1>1, ElementOfSeq DEF Cells
<1>8. WireCells /\ Runs(tx, n) /\ Boundaries(tx, n) /\ Reached(tx, n, y)
  BY <1>1, <1>3 DEF WireInv
<1>9. WireCells'
  <2>0. z.ctr < z.ctr + 1 /\ z.from + Carried(z) \in Nat
    BY CellSums
  <2>1. y.from + Carried(y) <= written' /\ y.ctr < sendP' /\ (y.ignore = 1 \/ y.size > 0)
    <3>1. y.from + Carried(y) = written'
      BY <1>4
    <3>2. y.ctr < sendP'
      BY <1>4, <2>0
    <3>3. y.ignore = 1 \/ y.size > 0
      BY <1>4
    <3> QED BY <2>0, <3>1, <3>2, <3>3
  <2> QED BY <1>1, <1>5, <1>6, <1>7, <1>8, <2>1, WireCellsAppend
<1>10. WireInv'
  <2>1. Runs(tx', n + k)
    BY <1>6, <1>7, <1>8, ExtendRuns
  <2>2. Boundaries(tx', n + k)
    BY <1>5, <1>6, <1>7, <1>8, ExtendBoundaries
  <2> QED BY <1>6, <1>9, <2>1, <2>2 DEF WireInv
<1>11. Grows
  <2>1. n <= n + k
    OBVIOUS
  <2> QED BY <1>1, <1>6, <2>1 DEF Grows, Appended
<1>12. Whole(tx, n) = z.from /\ flushed <= z.from
  <2>1. Whole(tx, n) = z.from
    BY <1>4, <1>5, <1>8, WholeReached
  <2> QED BY <1>1, <2>1 DEF FlushInv
<1>13. z.from \in Nat /\ z.from <= written'
  BY CellTypes
<1>16. flushed' <= written'
  <2>1. CASE flushed' = flushed
    BY <1>12, <1>13, <2>1
  <2> QED BY <2>1
<1>17. pos + k # m => pos + k < m /\ flushed' = flushed
  BY <1>2
<1>14. CASE pos + k = m
  <2>1. flushBuf' = <<>> /\ flushPos' = 0
    BY <1>2, <1>14 DEF Drive
  <2>2. k > 0 /\ k = Left(y)
    BY <1>2, <1>5, <1>14
  <2>3. BoundaryAt(tx', n + k, z.ctr + 1, z.from + Carried(z))
    BY <1>4, <1>6, <2>2, BoundaryAfter
  <2>4. Whole(tx', n + k) = written'
    BY <2>3, WholeBoundary
  <2>5. WriterInv'
    BY <1>6, <2>1, <2>3 DEF WriterInv
  <2>6. FlushInv'
    BY <1>6, <1>16, <2>4 DEF FlushInv
  <2> QED BY <1>10, <1>11, <2>1, <2>5, <2>6, EmptySeq
<1>15. CASE pos + k # m
  <2>1. flushBuf' = p /\ flushPos' = pos + k /\ pos + k < m /\ flushed' = flushed
    <3>1. pos + k # Len(p)
      BY <1>2, <1>15
    <3> QED BY <1>15, <1>17, <3>1 DEF Drive
  <2>2. Reached(tx', n + k, After(y, k))
    BY <1>6, <1>8, ReachedAfter
  <2>3. After(y, k) = After(z, pos + k)
    BY <1>3, AfterAfter
  <2>4. Whole(tx', n + k) = z.from
    <3>1. After(y, k) \in Cell /\ Left(After(y, k)) = Left(y) - k /\ After(y, k).from = z.from
      BY <1>4, AfterFields
    <3>2. Left(After(y, k)) # 0
      <4>1. (m - pos) - k # 0
        BY <2>1
      <4> QED BY <1>5, <3>1, <4>1
    <3> QED BY <2>2, <3>1, <3>2, WholeReached
  <2>5. Lead(p[1]) = z /\ p # <<>>
    <3>1. 1 \in 1..m
      BY <1>2
    <3>2. p[1] = After(z, 1)
      BY <1>2, <3>1 DEF IsPacket
    <3>3. Lead(After(z, 1)) = After(z, 0)
      <4>1. After(z, 1).ctr = z.ctr /\ After(z, 1).from = z.from
            /\ After(z, 1).size = z.size /\ After(z, 1).ignore = z.ignore
        BY AfterFields
      <4>2. z.off + 0 = 0
        OBVIOUS
      <4> QED BY <4>1, <4>2 DEF Lead, After
    <3>4. p # <<>>
      <4>1. Len(p) # 0
        BY <1>2
      <4> QED BY <4>1, NonEmpty
    <3> QED BY <3>2, <3>3, <3>4, AfterZero
  <2>6. Sending(p, pos + k, z)'
    BY <1>2, <1>6, <2>1, <2>2, <2>3 DEF Sending
  <2>7. WriterInv'
    BY <2>1, <2>5, <2>6 DEF WriterInv
  <2>8. FlushInv'
    BY <1>6, <1>12, <1>16, <2>1, <2>4 DEF FlushInv
  <2> QED BY <1>10, <1>11, <2>1, <2>7, <2>8
<1> QED BY <1>14, <1>15

-----------------------------------------------------------------------------
\* What the reader's end finds on the wire. At a boundary, the next packet is
\* the one expected; from any byte, the rest of its packet follows.
LEMMA PacketAhead ==
    ASSUME NEW t, NEW n \in Nat, Cells(t, n), Boundaries(t, n),
           NEW f \in Nat, f < n, NEW ctr, NEW from, BoundaryAt(t, f, ctr, from)
    PROVE  /\ t[f + 1] \in Cell /\ t[f + 1].off = 1
           /\ t[f + 1].ctr = ctr /\ t[f + 1].from = from
<1>1. f + 1 \in 1..n /\ (f + 1) - 1 = f
  OBVIOUS
<1>2. f + 1 = 1 \/ Left(t[(f + 1) - 1]) = 0
  BY <1>1 DEF BoundaryAt
<1>3. t[f + 1].off = 1 /\ BoundaryAt(t, (f + 1) - 1, t[f + 1].ctr, t[f + 1].from)
  BY <1>1, <1>2 DEF Boundaries
<1>4. BoundaryAt(t, f, t[f + 1].ctr, t[f + 1].from)
  BY <1>1, <1>3
<1>5. t[f + 1].ctr = ctr /\ t[f + 1].from = from
  BY <1>4 DEF BoundaryAt
<1> QED BY <1>1, <1>3, <1>5 DEF Cells

\* Runs for one byte and one distance, as the proofs of the reader need it.
LEMMA RunAt ==
    ASSUME NEW t, NEW n \in Nat, Cells(t, n), Runs(t, n),
           NEW i \in 1..n, NEW d \in Nat, d <= Left(t[i]), i + d <= n
    PROVE  t[i + d] = After(t[i], d)
<1>1. Left(t[i]) \in Int
  BY CellTypes DEF Cells
<1>2. d \in 0..Left(t[i])
  BY <1>1
<1> QED BY <1>2 DEF Runs

\* The bytes taken for a field are those of the wire from the field's start.
LEMMA TakenBytes ==
    ASSUME NEW b \in Seq(Cell), NEW t \in Seq(Cell), NEW r \in Nat, NEW k \in Nat,
           r + k <= Len(t), NEW f \in Nat, f + Len(b) = r,
           \A i \in 1..Len(b) : b[i] = t[f + i]
    PROVE  /\ b \o SubSeq(t, r + 1, r + k) \in Seq(Cell)
           /\ Len(b \o SubSeq(t, r + 1, r + k)) = Len(b) + k
           /\ \A i \in 1..Len(b) + k : (b \o SubSeq(t, r + 1, r + k))[i] = t[f + i]
<1> DEFINE v == b \o SubSeq(t, r + 1, r + k)
<1>1. /\ v \in Seq(Cell) /\ Len(v) = Len(b) + k
      /\ \A i \in 1..Len(b) : v[i] = b[i]
      /\ \A i \in 1..k : v[Len(b) + i] = t[r + i]
  BY AppendSlice
<1> HIDE DEF v
<1>2. PICK l \in Nat : l = Len(b)
  BY LenProperties
<1>3. ASSUME NEW i \in 1..l + k
      PROVE  v[i] = t[f + i]
  <2>1. CASE i <= l
    BY <1>1, <1>2, <2>1
  <2>2. CASE i > l
    <3>1. PICK j \in 1..k : l + j = i
      <4>1. i - l \in 1..k /\ l + (i - l) = i
        BY <2>2
      <4> QED BY <4>1
    <3>2. r + j = f + i
      BY <1>2, <3>1
    <3> QED BY <1>1, <1>2, <3>1, <3>2
  <2> QED BY <2>1, <2>2
<1> QED BY <1>1, <1>2, <1>3 DEF v

\* The reader's part of the invariant does not depend on the wire beyond what
\* was taken from it.
LEMMA ReaderUnaffected ==
    ASSUME TypeOK, ReaderInv, PlaintextInv,
           \A i \in 1..rcvd : tx'[i] = tx[i],
           written' \in Nat, written <= written',
           UNCHANGED <<rcvd, want, recvVars, delivered>>
    PROVE  ReaderInv' /\ PlaintextInv'
<1>1. PICK f \in Nat : f = FieldStart /\ f + Len(recvBuf) = rcvd /\ f <= rcvd
  <2>1. rcvd \in Nat /\ Len(recvBuf) \in Nat /\ Len(recvBuf) <= rcvd
    BY LenProperties DEF TypeOK, ReaderInv
  <2>2. rcvd - Len(recvBuf) \in Nat
    BY <2>1
  <2> QED BY <2>1, <2>2 DEF FieldStart
<1>2. FieldStart' = f /\ Opened' = Opened
  BY <1>1 DEF FieldStart, Opened, recvVars
<1>3. f = 0 \/ tx'[f] = tx[f]
  BY <1>1 DEF TypeOK
<1>4. \A ctr, from : BoundaryAt(tx, f, ctr, from) => BoundaryAt(tx', f, ctr, from)
  BY <1>3 DEF BoundaryAt
<1>5. \A i \in 1..Len(recvBuf) : tx'[f + i] = tx[f + i]
  <2>1. rcvd \in Nat /\ Len(recvBuf) \in Nat
    BY LenProperties DEF TypeOK
  <2>2. \A i \in 1..Len(recvBuf) : f + i \in 1..rcvd
    BY <1>1, <2>1
  <2> QED BY <2>2
<1>6. ReaderInv'
  BY <1>1, <1>2, <1>3, <1>4, <1>5 DEF ReaderInv, recvVars
<1>7. PlaintextInv'
  <2>1. Opened \in Int /\ written \in Nat
    BY LenProperties DEF Opened, TypeOK
  <2>2. Opened <= written'
    BY <2>1 DEF PlaintextInv
  <2> QED BY <1>2, <2>2 DEF PlaintextInv, recvVars
<1> QED BY <1>6, <1>7

-----------------------------------------------------------------------------
(* Every action of the writer's end keeps the invariant.                   *)

\* IInv with the three facts about the wire named together.
LEMMA IInvParts ==
    IInv <=> /\ TypeOK /\ NeverDesynchronised /\ FlushOutlivesWriter /\ WireInv
             /\ WriterInv /\ ReaderInv /\ PlaintextInv /\ FlushInv
  BY DEF IInv, WireInv, TypeOK

\* What is left to show of a step of the writer once the wire is in order.
LEMMA WriterStep ==
    ASSUME IInv, link = "up", link' = link, outcome' = outcome,
           UNCHANGED <<rcvd, want, recvVars, delivered>>,
           sendL' \in Nat, sendP' \in Nat, flushed' \in Nat,
           written' \in 0..MaxBytes, written <= written',
           flushBuf' \in Seq(Cell), flushPos' \in Nat,
           WireInv', Grows, WriterInv', FlushInv'
    PROVE  IInv'
<1>1. /\ TypeOK /\ NeverDesynchronised /\ FlushOutlivesWriter /\ WireInv
      /\ WriterInv /\ ReaderInv /\ PlaintextInv /\ FlushInv
  BY IInvParts
<1>2. /\ rcvd \in Nat /\ Len(tx) \in Nat /\ rcvd <= Len(tx)
      /\ tx' \in Seq(Cell) /\ Len(tx') \in Nat
  BY <1>1, LenProperties DEF TypeOK, WireInv
<1>3. rcvd' \in 0..Len(tx') /\ \A i \in 1..rcvd : tx'[i] = tx[i]
  BY <1>2 DEF Grows
<1>4. TypeOK'
  BY <1>1, <1>2, <1>3 DEF TypeOK, recvVars
<1>5. ReaderInv' /\ PlaintextInv'
  BY <1>1, <1>3, ReaderUnaffected
<1>6. NeverDesynchronised' /\ FlushOutlivesWriter'
  BY <1>1 DEF NeverDesynchronised, FlushOutlivesWriter, FlushInv
<1> QED BY <1>1, <1>4, <1>5, <1>6 DEF IInv, WireInv

\* The place before the first byte of a packet is a cell with offset 0.
LEMMA LeadType ==
    ASSUME NEW p \in Seq(Cell), p # <<>>
    PROVE  Lead(p[1]) \in Cell /\ Lead(p[1]).off = 0
<1>1. 1 \in 1..Len(p)
  BY EmptySeq
<1>2. PICK x \in Cell : x = p[1]
  BY <1>1, ElementOfSeq
<1>3. /\ x.ctr \in Nat /\ x.from \in Nat /\ x.size \in Nat /\ x.ignore \in 0..1
  BY CellTypes
<1> QED BY <1>2, <1>3 DEF Lead, CellOf, Cell

\* Nothing is sent of an empty flush_buf.
LEMMA AppendNothing ==
    ASSUME NEW t \in Seq(Cell)
    PROVE  t \o SubSeq(<<>>, 1, 0) = t
<1>1. SubSeq(<<>>, 1, 0) = <<>>
  OBVIOUS
<1> QED BY <1>1, ConcatEmptySeq

\* v2_enc_packet returns the whole packet that follows a place before its first
\* byte, when the two ciphers of the sender agree on the counter.
LEMMA SealIsPacket ==
    ASSUME NEW c \in Nat, NEW from \in Nat, NEW size \in Nat, NEW ignore \in 0..1
    PROVE  \E z \in Cell : \E p \in Seq(Cell) :
             /\ z.off = 0 /\ z.ctr = c /\ z.from = from /\ z.size = size /\ z.ignore = ignore
             /\ p = Seal(c, c, from, size, ignore)
             /\ IsPacket(p, z)
             /\ Len(p) > 0
<1>1. PICK z \in Cell :
          z.off = 0 /\ z.ctr = c /\ z.from = from /\ z.size = size /\ z.ignore = ignore
  <2>1. CellOf(c, from, size, ignore, 0) \in Cell
    BY DEF CellOf, Cell
  <2>2. /\ CellOf(c, from, size, ignore, 0).off = 0
        /\ CellOf(c, from, size, ignore, 0).ctr = c
        /\ CellOf(c, from, size, ignore, 0).from = from
        /\ CellOf(c, from, size, ignore, 0).size = size
        /\ CellOf(c, from, size, ignore, 0).ignore = ignore
    BY DEF CellOf
  <2> QED BY <2>1, <2>2
<1>2. PICK l \in Nat : l = PacketLen(size) /\ l > 0 /\ l = Left(z)
  <2>1. PacketLen(size) \in Nat /\ PacketLen(size) >= 2
    BY PacketLenType
  <2>2. Left(z) = PacketLen(size) - 0
    BY <1>1 DEF Left
  <2> QED BY <2>1, <2>2
<1>3. PICK p : p = Seal(c, c, from, size, ignore)
  OBVIOUS
<1>4. /\ p \in Seq(Cell) /\ Len(p) = l
      /\ \A i \in 1..l : p[i] = CellOf(c, from, size, ignore, i)
  <2>1. /\ Seal(c, c, from, size, ignore) \in Seq(Cell)
        /\ Len(Seal(c, c, from, size, ignore)) = PacketLen(size)
    BY SealType
  <2>2. ASSUME NEW i \in 1..PacketLen(size)
        PROVE  Seal(c, c, from, size, ignore)[i] = CellOf(c, from, size, ignore, i)
    BY DEF Seal
  <2> QED BY <1>2, <1>3, <2>1, <2>2
<1>5. \A i \in 1..l : After(z, i) = CellOf(c, from, size, ignore, i)
  BY <1>1 DEF After
<1>6. IsPacket(p, z)
  BY <1>2, <1>4, <1>5 DEF IsPacket
<1> QED BY <1>1, <1>2, <1>3, <1>4, <1>6

\* poll_write, with nothing in flight, preserves the invariant.
LEMMA PollWriteStep ==
    ASSUME IInv, NEW n \in 0..MaxWrite, NEW k \in 0..NetCap, PollWrite(n, k)
    PROVE  IInv'
<1>1. /\ TypeOK /\ WireInv /\ WriterInv /\ FlushInv
  BY IInvParts
<1>2. /\ sendL = sendP /\ sendP \in Nat /\ written \in Nat /\ flushed \in Nat
      /\ n \in Nat /\ k \in Nat
      /\ BoundaryAt(tx, Len(tx), sendP, written)
  BY <1>1, StreamAssumption DEF TypeOK, WriterInv, PollWrite
<1>3. /\ link = "up" /\ n > 0 /\ written + n <= MaxBytes
      /\ Drive(Seal(sendL, sendP, written, n, 0), 0, k)
      /\ sendL' = sendL + 1 /\ sendP' = sendP + 1 /\ written' = written + n
      /\ UNCHANGED <<rcvd, link, want, recvVars, outcome, flushed, delivered>>
  BY DEF PollWrite
<1>4. PICK z \in Cell, p \in Seq(Cell) :
          /\ z.off = 0 /\ z.ctr = sendP /\ z.from = written /\ z.size = n /\ z.ignore = 0
          /\ p = Seal(sendL, sendP, written, n, 0)
          /\ IsPacket(p, z)
          /\ Len(p) > 0
  BY <1>2, SealIsPacket
<1>6. Carried(z) = n
  BY <1>4 DEF Carried
<1>8. Reached(tx, Len(tx), After(z, 0))
  BY <1>2, <1>4, AfterZero DEF Reached
<1>9. /\ WireInv' /\ Grows /\ WriterInv' /\ FlushInv'
      /\ flushBuf' \in Seq(Cell) /\ flushPos' \in Nat
  <2>1. /\ sendP' \in Nat /\ sendP <= sendP' /\ sendL' = sendP' /\ sendP' = z.ctr + 1
        /\ written' \in Nat /\ written <= written' /\ written' = z.from + Carried(z)
        /\ z.size > 0 /\ Drive(p, 0, k) /\ flushed' = flushed
    BY <1>2, <1>3, <1>4, <1>6
  <2> QED BY <1>1, <1>2, <1>3, <1>4, <1>8, <2>1, DriveStep
<1>10. /\ sendL' \in Nat /\ sendP' \in Nat /\ flushed' \in Nat
       /\ written' \in 0..MaxBytes /\ written <= written'
  BY <1>2, <1>3, StreamAssumption
<1> QED BY <1>3, <1>9, <1>10, WriterStep

\* A decoy from the peer preserves the invariant.
LEMMA PeerDecoyStep ==
    ASSUME IInv, NEW n \in 0..MaxWrite, NEW k \in 0..NetCap, PeerDecoy(n, k)
    PROVE  IInv'
<1>1. /\ TypeOK /\ WireInv /\ WriterInv /\ FlushInv
  BY IInvParts
<1>2. /\ sendL = sendP /\ sendP \in Nat /\ written \in Nat /\ flushed \in Nat
      /\ n \in Nat /\ k \in Nat
      /\ BoundaryAt(tx, Len(tx), sendP, written)
  BY <1>1, StreamAssumption DEF TypeOK, WriterInv, PeerDecoy
<1>3. /\ link = "up"
      /\ Drive(Seal(sendL, sendP, written, n, 1), 0, k)
      /\ sendL' = sendL + 1 /\ sendP' = sendP + 1 
      /\ UNCHANGED <<rcvd, link, want, recvVars, outcome, written, flushed, delivered>>
  BY DEF PeerDecoy, ghostVars
<1>4. PICK z \in Cell, p \in Seq(Cell) :
          /\ z.off = 0 /\ z.ctr = sendP /\ z.from = written /\ z.size = n /\ z.ignore = 1
          /\ p = Seal(sendL, sendP, written, n, 1)
          /\ IsPacket(p, z)
          /\ Len(p) > 0
  BY <1>2, SealIsPacket
<1>6. Carried(z) = 0
  BY <1>4 DEF Carried
<1>8. Reached(tx, Len(tx), After(z, 0))
  BY <1>2, <1>4, AfterZero DEF Reached
<1>9. /\ WireInv' /\ Grows /\ WriterInv' /\ FlushInv'
      /\ flushBuf' \in Seq(Cell) /\ flushPos' \in Nat
  <2>1. /\ sendP' \in Nat /\ sendP <= sendP' /\ sendL' = sendP' /\ sendP' = z.ctr + 1
        /\ written' \in Nat /\ written <= written' /\ written' = z.from + Carried(z)
        /\ Drive(p, 0, k) /\ flushed' = flushed
    BY <1>2, <1>3, <1>4, <1>6
  <2> QED BY <1>1, <1>2, <1>3, <1>4, <1>8, <2>1, DriveStep
<1>10. /\ sendL' \in Nat /\ sendP' \in Nat /\ flushed' \in Nat
       /\ written' \in 0..MaxBytes /\ written <= written'
  BY <1>1, <1>2, <1>3 DEF TypeOK
<1> QED BY <1>3, <1>9, <1>10, WriterStep

\* poll_write that finds an earlier packet in flight preserves the invariant.
LEMMA PollWritePendingStep ==
    ASSUME IInv, NEW k \in 0..NetCap, PollWritePending(k)
    PROVE  IInv'
<1>1. /\ TypeOK /\ WireInv /\ WriterInv /\ FlushInv
  BY IInvParts
<1>2. /\ link = "up" /\ k < Len(flushBuf) - flushPos
      /\ Drive(flushBuf, flushPos, k)
      /\ sendL' = sendL /\ sendP' = sendP /\ written' = written
      /\ UNCHANGED <<rcvd, link, want, recvVars, outcome, flushed, delivered>>
  BY DEF PollWritePending, ghostVars
<1>3. /\ flushBuf \in Seq(Cell) /\ flushPos \in Nat /\ sendP \in Nat /\ sendL = sendP
      /\ written \in 0..MaxBytes /\ flushed \in Nat /\ k \in Nat
  BY <1>1, StreamAssumption DEF TypeOK, WriterInv
<1>4. flushBuf # <<>>
  BY <1>1, <1>2, <1>3 DEF WriterInv
<1>5. PICK z \in Cell : z = Lead(flushBuf[1]) /\ z.off = 0
  BY <1>3, <1>4, LeadType
<1>6. Sending(flushBuf, flushPos, z)
  BY <1>1, <1>2, <1>4, <1>5 DEF WriterInv
<1>7. /\ WireInv' /\ Grows /\ WriterInv' /\ FlushInv'
      /\ flushBuf' \in Seq(Cell) /\ flushPos' \in Nat
  <2>1. /\ IsPacket(flushBuf, z) /\ flushPos < Len(flushBuf)
        /\ z.ignore = 1 \/ z.size > 0
        /\ Reached(tx, Len(tx), After(z, flushPos))
        /\ sendP' = z.ctr + 1 /\ written' = z.from + Carried(z)
    BY <1>2, <1>6 DEF Sending
  <2>2. sendP <= sendP' /\ written <= written' /\ written \in Nat
    BY <1>2, <1>3, StreamAssumption
  <2> QED BY <1>1, <1>2, <1>3, <1>5, <2>1, <2>2, DriveStep
<1>8. written <= written'
  BY <1>2, <1>3, StreamAssumption
<1> QED BY <1>2, <1>3, <1>7, <1>8, WriterStep

\* poll_flush preserves the invariant, and Ok means flush_buf is on the wire.
LEMMA PollFlushStep ==
    ASSUME IInv, NEW k \in 0..NetCap, PollFlush(k)
    PROVE  IInv'
<1>1. /\ TypeOK /\ WireInv /\ WriterInv /\ FlushInv
  BY IInvParts
<1>2. /\ link = "up"
      /\ Drive(flushBuf, flushPos, k)
      /\ flushed' = IF flushPos + k = Len(flushBuf) THEN written ELSE flushed
      /\ sendL' = sendL /\ sendP' = sendP /\ written' = written
      /\ UNCHANGED <<rcvd, link, want, recvVars, outcome, delivered>>
  BY DEF PollFlush
<1>3. /\ flushBuf \in Seq(Cell) /\ flushPos \in Nat /\ sendP \in Nat /\ sendL = sendP
      /\ written \in 0..MaxBytes /\ flushed \in Nat /\ k \in Nat /\ written \in Nat
  BY <1>1, StreamAssumption DEF TypeOK, WriterInv
<1>4. flushed' \in Nat /\ written <= written' /\ sendP <= sendP'
  BY <1>2, <1>3
<1>5. CASE flushBuf # <<>>
  <2>1. PICK z \in Cell : z = Lead(flushBuf[1]) /\ z.off = 0
    BY <1>3, <1>5, LeadType
  <2>2. Sending(flushBuf, flushPos, z)
    BY <1>1, <1>2, <1>5, <2>1 DEF WriterInv
  <2>3. /\ IsPacket(flushBuf, z) /\ flushPos < Len(flushBuf)
        /\ z.ignore = 1 \/ z.size > 0
        /\ Reached(tx, Len(tx), After(z, flushPos))
        /\ sendP' = z.ctr + 1 /\ written' = z.from + Carried(z)
    BY <1>2, <2>2 DEF Sending
  <2>4. flushed' = flushed \/ (flushPos + k = Len(flushBuf) /\ flushed' = written')
    BY <1>2
  <2>5. /\ WireInv' /\ Grows /\ WriterInv' /\ FlushInv'
        /\ flushBuf' \in Seq(Cell) /\ flushPos' \in Nat
    BY <1>1, <1>2, <1>3, <1>4, <2>1, <2>3, <2>4, DriveStep
  <2> QED BY <1>2, <1>3, <1>4, <2>5, WriterStep
<1>6. CASE flushBuf = <<>>
  <2>1. flushPos = 0 /\ k = 0
    BY <1>1, <1>2, <1>3, <1>6 DEF WriterInv, Drive
  <2>2. tx' = tx /\ flushBuf' = <<>> /\ flushPos' = 0 /\ flushed' = written
    BY <1>1, <1>2, <1>6, <2>1, AppendNothing DEF Drive, WireInv
  <2>3. BoundaryAt(tx, Len(tx), sendP, written)
    BY <1>1, <1>2, <1>6 DEF WriterInv
  <2>4. Whole(tx, Len(tx)) = written
    BY <2>3, LenProperties, WholeBoundary, <1>1 DEF WireInv
  <2>5. WireInv' /\ Grows
    BY <1>1, <1>2, <2>2, LenProperties DEF WireInv, WireCells, Grows
  <2>6. WriterInv'
    BY <1>2, <1>3, <2>2, <2>3 DEF WriterInv
  <2>7. FlushInv'
    BY <1>1, <1>2, <1>3, <2>2, <2>4 DEF FlushInv
  <2> QED BY <1>2, <1>3, <1>4, <2>2, <2>5, <2>6, <2>7, EmptySeq, WriterStep
<1> QED BY <1>5, <1>6

\* Dropping the writer's stream preserves the invariant.
LEMMA DropWriterStep ==
    ASSUME IInv, DropWriter
    PROVE  IInv'
<1>1. /\ TypeOK /\ NeverDesynchronised /\ WireInv /\ FlushOutlivesWriter
      /\ WriterInv /\ ReaderInv /\ PlaintextInv /\ FlushInv
  BY IInvParts
<1>2. /\ link = "up" /\ link' = "fin" /\ flushBuf' = <<>> /\ flushPos' = 0
      /\ UNCHANGED <<sendL, sendP, tx, rcvd, want, recvVars, outcome, delivered>>
      /\ written' = written /\ flushed' = flushed
  BY DEF DropWriter, ghostVars
<1>3. written' \in Nat /\ written <= written'
  BY <1>1, <1>2 DEF TypeOK
<1>4. TypeOK'
  BY <1>1, <1>2, EmptySeq DEF TypeOK, recvVars
<1>5. ReaderInv' /\ PlaintextInv'
  BY <1>1, <1>2, <1>3, ReaderUnaffected
<1>6. NeverDesynchronised' /\ FlushOutlivesWriter'
  BY <1>1, <1>2 DEF NeverDesynchronised, FlushOutlivesWriter, FlushInv
<1>7. WireInv'
  BY <1>1, <1>2 DEF WireInv, WireCells
<1>8. WriterInv' /\ FlushInv'
  BY <1>1, <1>2 DEF WriterInv, FlushInv
<1> QED BY <1>4, <1>5, <1>6, <1>7, <1>8 DEF IInv, WireInv

\* A reset, which cuts the wire at the byte the reader is at, preserves it.
LEMMA ResetStep ==
    ASSUME IInv, Reset
    PROVE  IInv'
<1>1. /\ TypeOK /\ NeverDesynchronised /\ WireInv /\ FlushOutlivesWriter
      /\ WriterInv /\ ReaderInv /\ PlaintextInv /\ FlushInv
  BY IInvParts
<1>2. /\ link = "up" /\ link' = "reset" /\ tx' = SubSeq(tx, 1, rcvd)
      /\ UNCHANGED <<flushBuf, flushPos, sendL, sendP, rcvd, want, recvVars, outcome, delivered>>
      /\ written' = written /\ flushed' = flushed
  BY DEF Reset, ghostVars, writerVars
<1>3. written' \in Nat /\ written <= written'
  BY <1>1, <1>2 DEF TypeOK
<1>4. PICK n \in Nat : n = Len(tx) /\ rcvd \in Nat /\ rcvd <= n
  BY <1>1, LenProperties DEF TypeOK
<1>5. /\ tx' \in Seq(Cell) /\ Len(tx') = rcvd
      /\ \A i \in 1..rcvd : tx'[i] = tx[i]
  <2>1. \A i \in 1..rcvd : tx[i] \in Cell
    BY <1>1, <1>4, ElementOfSeq DEF TypeOK
  <2>2. /\ SubSeq(tx, 1, rcvd) \in Seq(Cell)
        /\ Len(SubSeq(tx, 1, rcvd)) = IF 1 <= rcvd THEN rcvd - 1 + 1 ELSE 0
        /\ \A i \in 1..(rcvd - 1 + 1) : SubSeq(tx, 1, rcvd)[i] = tx[1 + i - 1]
    BY <1>4, <2>1, SubSeqProperties
  <2>3. rcvd - 1 + 1 = rcvd /\ \A i \in 1..rcvd : 1 + i - 1 = i
    BY <1>4
  <2> QED BY <1>2, <1>4, <2>2, <2>3
<1>6. TypeOK'
  <2>1. rcvd' \in 0..Len(tx')
    BY <1>2, <1>4, <1>5
  <2> QED BY <1>1, <1>2, <1>5, <2>1 DEF TypeOK, recvVars
<1>7. ReaderInv' /\ PlaintextInv'
  BY <1>1, <1>2, <1>3, <1>5, ReaderUnaffected
<1>8. NeverDesynchronised' /\ FlushOutlivesWriter'
  BY <1>1, <1>2 DEF NeverDesynchronised, FlushOutlivesWriter, FlushInv
<1>9. WireInv'
  <2>1. WireCells'
    <3>1. \A i \in 1..rcvd : i \in 1..n /\ tx'[i] = tx[i]
      BY <1>4, <1>5
    <3> QED BY <1>1, <1>2, <1>4, <1>5, <3>1 DEF WireInv, WireCells
  <2>2. Runs(tx', rcvd)
    BY <1>1, <1>4, <1>5, ElementOfSeq, RunsPrefix DEF WireInv
  <2>3. Boundaries(tx', rcvd)
    BY <1>1, <1>4, <1>5, BoundariesPrefix DEF WireInv
  <2> QED BY <1>5, <2>1, <2>2, <2>3 DEF WireInv
<1>10. WriterInv' /\ FlushInv'
  BY <1>1, <1>2 DEF WriterInv, FlushInv
<1> QED BY <1>6, <1>7, <1>8, <1>9, <1>10 DEF IInv, WireInv

-----------------------------------------------------------------------------
(* Every action of the reader's end keeps the invariant.                   *)

\* What is left to show of a step of the reader.
LEMMA ReaderStep ==
    ASSUME IInv, UNCHANGED <<writerVars, tx, link, written, flushed>>,
           rcvd' \in 0..Len(tx), want' \in 0..MaxRead,
           recvState' \in {"Idle", "ReadingLength", "ReadingBody"},
           recvBuf' \in Seq(Cell), aeadLen' \in Nat, recvL' \in Nat, recvP' \in Nat,
           readBuf' \in Seq(Nat), readPos' \in 0..Len(readBuf'), delivered' \in Seq(Nat),
           ReaderInv', PlaintextInv',
           \/ outcome' = outcome /\ Len(delivered) <= Len(delivered')
           \/ outcome' = "reset"
           \/ outcome' = "eof" /\ link = "fin" /\ flushed <= Len(delivered')
    PROVE  IInv'
<1>1. /\ TypeOK /\ NeverDesynchronised /\ WireInv /\ FlushOutlivesWriter
      /\ WriterInv /\ FlushInv
  BY IInvParts
<1>2. TypeOK'
  BY <1>1 DEF TypeOK, writerVars
<1>3. WireInv' /\ WriterInv'
  BY <1>1 DEF WireInv, WireCells, WriterInv, Sending, writerVars
<1>4. NeverDesynchronised'
  BY <1>1 DEF NeverDesynchronised
<1>5. FlushOutlivesWriter' /\ FlushInv'
  <2>1. flushed \in Nat /\ Len(delivered) \in Nat /\ Len(delivered') \in Nat
    BY <1>1, <1>2, LenProperties DEF TypeOK
  <2>2. CASE outcome' = outcome /\ Len(delivered) <= Len(delivered')
    BY <1>1, <2>1, <2>2 DEF FlushOutlivesWriter, FlushInv
  <2>3. CASE outcome' = "reset"
    BY <1>1, <2>3 DEF FlushOutlivesWriter, FlushInv
  <2>4. CASE outcome' = "eof" /\ link = "fin" /\ flushed <= Len(delivered')
    BY <1>1, <2>4 DEF FlushOutlivesWriter, FlushInv
  <2> QED BY <2>2, <2>3, <2>4
<1> QED BY <1>2, <1>3, <1>4, <1>5 DEF IInv, WireInv

\* Names for where the field being received starts and how much of it is there.
LEMMA FieldFacts ==
    ASSUME TypeOK, ReaderInv
    PROVE  \E f \in Nat, l \in Nat :
             /\ f = FieldStart /\ l = Len(recvBuf) /\ f + l = rcvd
             /\ \A i \in 1..l : recvBuf[i] = tx[f + i]
<1>1. rcvd \in Nat /\ Len(recvBuf) \in Nat /\ Len(recvBuf) <= rcvd
  BY LenProperties DEF TypeOK, ReaderInv
<1>2. FieldStart \in Nat /\ FieldStart + Len(recvBuf) = rcvd
  BY <1>1 DEF FieldStart
<1>3. \A i \in 1..Len(recvBuf) : recvBuf[i] = tx[FieldStart + i]
  BY DEF ReaderInv
<1> QED BY <1>1, <1>2, <1>3

\* What poll_read appends to its buffer are the next bytes of the wire.
LEMMA TakenFacts ==
    ASSUME TypeOK, NEW f \in Nat, NEW l \in Nat, f + l = rcvd, l = Len(recvBuf),
           \A i \in 1..l : recvBuf[i] = tx[f + i],
           NEW k \in Nat, k <= Avail
    PROVE  /\ Taken(k) \in Seq(Cell)
           /\ Len(Taken(k)) = l + k
           /\ \A i \in 1..l + k : Taken(k)[i] = tx[f + i]
           /\ f + l + k <= Len(tx)
<1>1. Len(tx) \in Nat /\ rcvd \in Nat /\ recvBuf \in Seq(Cell) /\ tx \in Seq(Cell)
  BY LenProperties DEF TypeOK
<1>2. rcvd + k <= Len(tx)
  BY <1>1 DEF Avail
<1>3. /\ recvBuf \o SubSeq(tx, rcvd + 1, rcvd + k) \in Seq(Cell)
      /\ Len(recvBuf \o SubSeq(tx, rcvd + 1, rcvd + k)) = Len(recvBuf) + k
      /\ \A i \in 1..Len(recvBuf) + k :
             (recvBuf \o SubSeq(tx, rcvd + 1, rcvd + k))[i] = tx[f + i]
  BY <1>1, <1>2, TakenBytes, SMTT(30)
<1> QED BY <1>2, <1>3 DEF Taken

\* How many bytes of its packet follow a cell.
LEMMA LeftOf ==
    ASSUME NEW x \in Cell
    PROVE  Left(x) = LenBytes + Overhead + x.size - x.off
<1>1. Left(x) = PacketLen(x.size) - x.off
  BY DEF Left
<1>2. PacketLen(x.size) = LenBytes + Overhead + x.size
  BY DEF PacketLen
<1>3. \A m \in Nat, o \in Nat :
          (LenBytes + Overhead + m) - o = LenBytes + Overhead + m - o
  BY StreamAssumption
<1>4. x.size \in Nat /\ x.off \in Nat
  BY CellTypes
<1> QED BY <1>1, <1>2, <1>3, <1>4

\* In ReadingLength, the bytes from the field's start are those of the packet
\* the receiver's counters are at.
LEMMA LengthAhead ==
    ASSUME TypeOK, WireInv, NEW f \in Nat, NEW m \in Nat, 0 < m, m <= LenBytes,
           f + m <= Len(tx), BoundaryAt(tx, f, recvP, Opened)
    PROVE  \E x \in Cell :
             /\ x.off = 1 /\ x.ctr = recvP /\ x.from = Opened
             /\ Left(x) = LenBytes + Overhead + x.size - 1
             /\ \A i \in 1..m : tx[f + i] = After(x, i - 1)
<1>1. PICK n \in Nat : n = Len(tx)
  BY LenProperties DEF TypeOK
<1>2. Cells(tx, n) /\ Runs(tx, n) /\ Boundaries(tx, n) /\ f < n
  BY <1>1, ElementOfSeq DEF WireInv, Cells
<1>3. PICK x \in Cell : x = tx[f + 1] /\ x.off = 1 /\ x.ctr = recvP /\ x.from = Opened
  BY <1>1, <1>2, PacketAhead
<1>4. Left(x) = LenBytes + Overhead + x.size - 1
  BY <1>3, LeftOf
<1>5. ASSUME NEW i \in 1..m
      PROVE  tx[f + i] = After(x, i - 1)
  <2>1. i - 1 \in Nat /\ f + 1 \in 1..n /\ (f + 1) + (i - 1) = f + i /\ (f + 1) + (i - 1) <= n
    BY <1>1, <1>2
  <2>2. i - 1 <= Left(tx[f + 1])
    <3>1. x.size \in Nat
      BY CellTypes
    <3>2. i - 1 <= LenBytes + Overhead + x.size - 1
      BY <3>1, StreamAssumption
    <3> QED BY <1>3, <1>4, <3>2
  <2>3. tx[(f + 1) + (i - 1)] = After(tx[f + 1], i - 1)
    BY <1>2, <2>1, <2>2, RunAt
  <2> QED BY <1>3, <2>1, <2>3
<1> QED BY <1>3, <1>4, <1>5

\* In ReadingBody, the bytes from the field's start are the rest of the packet.
LEMMA BodyAhead ==
    ASSUME TypeOK, WireInv, NEW f \in Nat, 0 < f, NEW m \in Nat, f + m <= Len(tx),
           tx[f].off = LenBytes, m <= Overhead + tx[f].size
    PROVE  /\ tx[f] \in Cell
           /\ Left(tx[f]) = Overhead + tx[f].size
           /\ \A i \in 1..m : tx[f + i] = After(tx[f], i)
           /\ tx[f].from + Carried(tx[f]) <= written
           /\ tx[f].ignore = 1 \/ tx[f].size > 0
<1>1. PICK n \in Nat : n = Len(tx)
  BY LenProperties DEF TypeOK
<1>2. Cells(tx, n) /\ Runs(tx, n) /\ f \in 1..n
  BY <1>1, ElementOfSeq DEF WireInv, Cells
<1>3. PICK x \in Cell : x = tx[f] /\ x.off = LenBytes
  BY <1>2 DEF Cells
<1>4. Left(x) = Overhead + x.size
  <2>1. x.size \in Nat /\ Left(x) = LenBytes + Overhead + x.size - x.off
    BY CellTypes, LeftOf
  <2>2. LenBytes + Overhead + x.size - LenBytes = Overhead + x.size
    BY <2>1, StreamAssumption
  <2> QED BY <1>3, <2>1, <2>2
<1>5. ASSUME NEW i \in 1..m
      PROVE  tx[f + i] = After(x, i)
  <2>1. i \in Nat /\ i <= m /\ f + i <= n
    BY <1>1, <1>2
  <2>2. i <= Overhead + x.size
    BY <1>3, <2>1, CellTypes, StreamAssumption
  <2>3. i <= Left(tx[f])
    BY <1>3, <1>4, <2>2
  <2> QED BY <1>2, <1>3, <2>1, <2>3, RunAt
<1>6. x.from + Carried(x) <= written /\ (x.ignore = 1 \/ x.size > 0)
  BY <1>1, <1>2, <1>3 DEF WireInv, WireCells
<1> QED BY <1>3, <1>4, <1>5, <1>6

\* The ReadingLength arm of poll_read preserves the invariant.
LEMMA ReadLengthStep ==
    ASSUME IInv, NEW k \in 1..NetCap, ReadLength(k)
    PROVE  IInv'
<1>1. /\ TypeOK /\ WireInv /\ ReaderInv /\ PlaintextInv
  BY IInvParts
<1>2. /\ want > 0 /\ recvState = "ReadingLength" /\ k <= Avail /\ k \in Nat /\ k > 0
      /\ Len(recvBuf) + k <= LenBytes /\ rcvd' = rcvd + k
      /\ UNCHANGED <<writerVars, tx, link, want, recvP, readBuf, readPos, outcome,
                     written, flushed, delivered>>
  BY StreamAssumption DEF ReadLength, ghostVars
<1>3. PICK f \in Nat, l \in Nat :
          /\ f = FieldStart /\ l = Len(recvBuf) /\ f + l = rcvd
          /\ \A i \in 1..l : recvBuf[i] = tx[f + i]
  BY <1>1, FieldFacts
<1>4. /\ Taken(k) \in Seq(Cell) /\ Len(Taken(k)) = l + k
      /\ \A i \in 1..l + k : Taken(k)[i] = tx[f + i]
      /\ f + l + k <= Len(tx)
  BY <1>1, <1>2, <1>3, TakenFacts, ZenonT(60)
<1>5. recvL = recvP /\ BoundaryAt(tx, f, recvP, Opened)
  BY <1>1, <1>2, <1>3 DEF ReaderInv
<1>6. l + k \in Nat /\ 0 < l + k /\ l + k <= LenBytes /\ f + (l + k) <= Len(tx)
      /\ rcvd' = f + (l + k)
  <2>1. l + k \in Nat /\ 0 < l + k /\ l + k <= LenBytes
    BY <1>2, <1>3
  <2>2. f + (l + k) = f + l + k
    BY <1>2
  <2>3. rcvd' = f + l + k
    BY <1>2, <1>3
  <2> QED BY <1>4, <2>1, <2>2, <2>3
<1>7. PICK x \in Cell :
          /\ x.off = 1 /\ x.ctr = recvP /\ x.from = Opened
          /\ \A i \in 1..l + k : tx[f + i] = After(x, i - 1)
  BY <1>1, <1>5, <1>6, LengthAhead
<1>8. Opened' = Opened /\ PlaintextInv'
  BY <1>1, <1>2 DEF Opened, PlaintextInv, ReadLength
<1>9. /\ rcvd' \in 0..Len(tx) /\ want' \in 0..MaxRead /\ recvP' \in Nat
      /\ readBuf' \in Seq(Nat) /\ readPos' \in 0..Len(readBuf') /\ delivered' \in Seq(Nat)
      /\ recvL \in Nat /\ aeadLen \in Nat
  BY <1>1, <1>2, <1>6, LenProperties DEF TypeOK
<1>10. outcome' = outcome /\ Len(delivered) <= Len(delivered')
  BY <1>1, <1>2, LenProperties DEF TypeOK
<1>11. CASE l + k < LenBytes
  <2>1. recvBuf' = Taken(k) /\ UNCHANGED <<recvState, aeadLen, recvL>>
    BY <1>3, <1>11 DEF ReadLength
  <2>2. FieldStart' = f
    BY <1>4, <1>6, <2>1 DEF FieldStart
  <2>3. ReaderInv'
    <3>1. Len(recvBuf') = l + k /\ l + k <= rcvd' /\ l + k < LenBytes
      BY <1>4, <1>6, <1>11, <2>1
    <3>2. \A i \in 1..l + k : recvBuf'[i] = tx'[f + i]
      BY <1>2, <1>4, <2>1
    <3>3. recvL' = recvP' /\ BoundaryAt(tx', f, recvP', Opened')
      BY <1>2, <1>5, <1>8, <2>1
    <3> QED BY <1>2, <2>1, <2>2, <3>1, <3>2, <3>3 DEF ReaderInv
  <2> QED BY <1>2, <1>4, <1>8, <1>9, <1>10, <2>1, <2>3, ReaderStep
<1>12. CASE l + k = LenBytes
  <2>1. /\ \E size \in DecryptedSizes(Taken(k), recvL) : aeadLen' = Overhead + size
        /\ recvL' = recvL + 1 /\ recvState' = "ReadingBody" /\ recvBuf' = <<>>
    BY <1>3, <1>12 DEF ReadLength
  <2>2. ASSUME NEW i \in 1..LenBytes
        PROVE  /\ Taken(k)[i] \in Cell
               /\ Taken(k)[i].ctr = recvP /\ Taken(k)[i].off = i
               /\ Taken(k)[i].size = x.size /\ Taken(k)[i].from = Opened
    <3>1. i \in 1..l + k /\ i - 1 \in Nat /\ 1 + (i - 1) = i
      BY <1>12, StreamAssumption
    <3>2. Taken(k)[i] = After(x, i - 1)
      BY <1>4, <1>7, <3>1
    <3>3. /\ After(x, i - 1) \in Cell
          /\ After(x, i - 1).ctr = x.ctr /\ After(x, i - 1).from = x.from
          /\ After(x, i - 1).size = x.size /\ After(x, i - 1).off = x.off + (i - 1)
      BY <3>1, AfterFields
    <3> QED BY <1>7, <3>1, <3>2, <3>3
  <2>3. Genuine(Taken(k), 1, recvL)
    <3>1. \A i \in 1..LenBytes : 1 + i - 1 = i
      BY StreamAssumption
    <3> QED BY <1>4, <1>5, <1>12, <2>2, <3>1 DEF Genuine
  <2>4. 1 \in 1..LenBytes /\ LenBytes \in 1..LenBytes
    BY StreamAssumption
  <2>5. aeadLen' = Overhead + x.size
    BY <2>1, <2>2, <2>3, <2>4 DEF DecryptedSizes
  <2>6. FieldStart' = f + LenBytes /\ Len(recvBuf') = 0
    BY <1>6, <1>12, <2>1 DEF FieldStart
  <2>7. /\ tx[f + LenBytes].off = LenBytes /\ tx[f + LenBytes].ctr = recvP
        /\ tx[f + LenBytes].from = Opened /\ tx[f + LenBytes].size = x.size
    BY <1>4, <1>12, <2>2, <2>4
  <2>8. x.size \in Nat /\ aeadLen' \in Nat /\ 0 < aeadLen' /\ 0 < f + LenBytes
    BY <2>5, CellTypes, StreamAssumption
  <2>9. ReaderInv'
    BY <1>2, <1>5, <1>6, <1>8, <2>1, <2>5, <2>6, <2>7, <2>8 DEF ReaderInv
  <2> QED BY <1>2, <1>8, <1>9, <1>10, <2>1, <2>8, <2>9, EmptySeq, ReaderStep
<1> QED BY <1>6, <1>11, <1>12, StreamAssumption

\* What the reader has in hand in ReadingBody.
LEMMA ReadBodyFacts ==
    ASSUME IInv, NEW k \in 1..NetCap, ReadBody(k)
    PROVE  \E f \in Nat, x \in Cell, m \in Nat :
             /\ f > 0 /\ m > 0 /\ rcvd' = f + m /\ f + m <= Len(tx)
             /\ x.ctr = recvP /\ x.from = Opened /\ x.off = LenBytes
             /\ aeadLen = Overhead + x.size /\ Left(x) = aeadLen /\ recvL = recvP + 1
             /\ m <= aeadLen
             /\ Taken(k) \in Seq(Cell) /\ Len(Taken(k)) = m
             /\ \A i \in 1..m : Taken(k)[i] = After(x, i) /\ tx[f + i] = After(x, i)
             /\ x.from + Carried(x) <= written
             /\ x.ignore = 1 \/ x.size > 0
             /\ tx[f] = x
<1>1. /\ TypeOK /\ WireInv /\ ReaderInv
  BY IInvParts
<1>2. /\ recvState = "ReadingBody" /\ k <= Avail /\ k \in Nat /\ k > 0
      /\ Len(recvBuf) + k <= aeadLen /\ rcvd' = rcvd + k
  BY StreamAssumption DEF ReadBody
<1>3. PICK f \in Nat, l \in Nat :
          /\ f = FieldStart /\ l = Len(recvBuf) /\ f + l = rcvd
          /\ \A i \in 1..l : recvBuf[i] = tx[f + i]
  BY <1>1, FieldFacts
<1>4. /\ Taken(k) \in Seq(Cell) /\ Len(Taken(k)) = l + k
      /\ \A i \in 1..l + k : Taken(k)[i] = tx[f + i]
      /\ f + l + k <= Len(tx)
  BY <1>1, <1>2, <1>3, TakenFacts, ZenonT(60)
<1>5. /\ f > 0 /\ tx[f].off = LenBytes /\ tx[f].ctr = recvP /\ tx[f].from = Opened
      /\ aeadLen = Overhead + tx[f].size /\ recvL = recvP + 1
  BY <1>1, <1>2, <1>3 DEF ReaderInv
<1>6. PICK m \in Nat : m = l + k /\ m > 0 /\ rcvd' = f + m /\ f + m <= Len(tx) /\ m <= aeadLen
  <2>1. l + k \in Nat /\ l + k > 0 /\ l + k <= aeadLen
    BY <1>2, <1>3
  <2>2. f + (l + k) = f + l + k
    BY <1>2
  <2>3. rcvd' = f + l + k
    BY <1>2, <1>3
  <2> QED BY <1>4, <2>1, <2>2, <2>3
<1>7. /\ tx[f] \in Cell /\ Left(tx[f]) = Overhead + tx[f].size
      /\ \A i \in 1..m : tx[f + i] = After(tx[f], i)
      /\ tx[f].from + Carried(tx[f]) <= written
      /\ tx[f].ignore = 1 \/ tx[f].size > 0
  BY <1>1, <1>5, <1>6, BodyAhead
<1>8. PICK x \in Cell : x = tx[f]
  BY <1>7
<1>9. \A i \in 1..m : Taken(k)[i] = After(x, i) /\ tx[f + i] = After(x, i)
  BY <1>4, <1>6, <1>7, <1>8
<1> QED BY <1>4, <1>5, <1>6, <1>7, <1>8, <1>9

\* The body taken so far is not the whole field yet.
LEMMA ReadBodyPartial ==
    ASSUME IInv, NEW k \in 1..NetCap, ReadBody(k), Len(Taken(k)) < aeadLen
    PROVE  IInv'
<1>1. /\ TypeOK /\ ReaderInv /\ PlaintextInv
  BY IInvParts
<1>2. PICK f \in Nat, x \in Cell, m \in Nat :
          /\ f > 0 /\ m > 0 /\ rcvd' = f + m /\ f + m <= Len(tx)
          /\ x.ctr = recvP /\ x.from = Opened /\ x.off = LenBytes
          /\ aeadLen = Overhead + x.size /\ recvL = recvP + 1
          /\ Taken(k) \in Seq(Cell) /\ Len(Taken(k)) = m
          /\ \A i \in 1..m : Taken(k)[i] = After(x, i) /\ tx[f + i] = After(x, i)
          /\ tx[f] = x
  BY ReadBodyFacts, ZenonT(60)
<1>3. /\ recvState = "ReadingBody" /\ recvBuf' = Taken(k)
      /\ UNCHANGED <<recvState, aeadLen, recvP, recvL, readBuf, readPos, want, outcome,
                     delivered, writerVars, tx, link, written, flushed>>
  <2>1. aeadLen \in Nat
    BY <1>1 DEF TypeOK
  <2>2. Len(Taken(k)) # aeadLen
    BY <1>2, <2>1
  <2> QED BY <2>2 DEF ReadBody
<1>4. Opened' = Opened /\ PlaintextInv'
  BY <1>1, <1>3 DEF Opened, PlaintextInv
<1>5. FieldStart' = f
  BY <1>2, <1>3 DEF FieldStart
<1>6. m <= rcvd' /\ m < aeadLen
  BY <1>2
<1>7. \A i \in 1..m : recvBuf'[i] = tx'[f + i]
  BY <1>2, <1>3
<1>8. ReaderInv'
  BY <1>2, <1>3, <1>4, <1>5, <1>6, <1>7 DEF ReaderInv
<1>9. /\ rcvd' \in 0..Len(tx) /\ want' \in 0..MaxRead /\ recvP' \in Nat /\ recvL' \in Nat
      /\ readBuf' \in Seq(Nat) /\ readPos' \in 0..Len(readBuf') /\ delivered' \in Seq(Nat)
      /\ aeadLen' \in Nat /\ recvBuf' \in Seq(Cell)
  BY <1>1, <1>2, <1>3, LenProperties DEF TypeOK
<1>10. outcome' = outcome /\ Len(delivered) <= Len(delivered')
  BY <1>1, <1>3, LenProperties DEF TypeOK
<1> QED BY <1>3, <1>4, <1>8, <1>9, <1>10, ReaderStep

\* A whole body authenticates.
LEMMA BodyAuthentic ==
    ASSUME NEW b \in Seq(Cell), NEW x \in Cell, x.ctr = recvP, x.off = LenBytes,
           NEW m \in Nat, m > 0, Len(b) = m, m = Overhead + x.size,
           \A i \in 1..m : b[i] = After(x, i)
    PROVE  /\ Authentic(b)
           /\ b[1].ignore = x.ignore /\ b[1].from = x.from /\ b[1].size = x.size
<1>1. ASSUME NEW i \in 1..m
      PROVE  /\ b[i].ctr = x.ctr /\ b[i].off = LenBytes + 1 + i - 1
             /\ b[i].size = x.size /\ b[i].from = x.from /\ b[i].ignore = x.ignore
  <2>1. i \in Nat /\ b[i] = After(x, i)
    OBVIOUS
  <2>2. /\ After(x, i).ctr = x.ctr /\ After(x, i).off = x.off + i
        /\ After(x, i).size = x.size /\ After(x, i).from = x.from
        /\ After(x, i).ignore = x.ignore
    BY <2>1, AfterFields
  <2>3. LenBytes + 1 + i - 1 = LenBytes + i
    BY <2>1, StreamAssumption
  <2> QED BY <2>1, <2>2, <2>3
<1>2. 1 \in 1..m
  OBVIOUS
<1>3. Genuine(b, LenBytes + 1, recvP)
  BY <1>1 DEF Genuine
<1> QED BY <1>1, <1>2, <1>3 DEF Authentic

\* The reader gets bytes from+1 .. from+n, which continue what it has.
LEMMA DeliverRun ==
    ASSUME NEW d \in Seq(Nat), NEW n \in Nat, \A i \in 1..Len(d) : d[i] = i
    PROVE  /\ d \o Bytes(Len(d), n) \in Seq(Nat)
           /\ Len(d \o Bytes(Len(d), n)) = Len(d) + n
           /\ \A i \in 1..Len(d) + n : (d \o Bytes(Len(d), n))[i] = i
<1>1. PICK l \in Nat : l = Len(d)
  BY LenProperties
<1>2. PICK r \in Seq(Nat) : r = Bytes(l, n) /\ Len(r) = n /\ \A i \in 1..n : r[i] = l + i
  BY RunOfBytes
<1>3. PICK v : v = d \o r
  OBVIOUS
<1>4. /\ v \in Seq(Nat) /\ Len(v) = l + n
      /\ \A i \in 1..l + n : v[i] = IF i <= l THEN d[i] ELSE r[i - l]
  BY <1>1, <1>2, <1>3, ConcatProperties
<1>5. ASSUME NEW i \in 1..l + n
      PROVE  v[i] = i
  <2>1. CASE i <= l
    BY <1>1, <1>4, <2>1
  <2>2. CASE i > l
    <3>1. i - l \in 1..n /\ l + (i - l) = i
      BY <2>2
    <3>2. v[i] = r[i - l] /\ r[i - l] = l + (i - l)
      BY <1>2, <1>4, <2>2, <3>1
    <3> QED BY <3>1, <3>2
  <2> QED BY <2>1, <2>2
<1> QED BY <1>1, <1>2, <1>3, <1>4, <1>5

\* The body is whole: it opens, and the next field is a length field.
LEMMA ReadBodyWhole ==
    ASSUME IInv, NEW k \in 1..NetCap, ReadBody(k), Len(Taken(k)) = aeadLen
    PROVE  IInv'
<1>1. /\ TypeOK /\ ReaderInv /\ PlaintextInv /\ NeverDesynchronised
  BY IInvParts
<1>2. PICK f \in Nat, x \in Cell, m \in Nat :
          /\ f > 0 /\ m > 0 /\ rcvd' = f + m /\ f + m <= Len(tx)
          /\ x.ctr = recvP /\ x.from = Opened /\ x.off = LenBytes
          /\ aeadLen = Overhead + x.size /\ Left(x) = aeadLen /\ recvL = recvP + 1
          /\ Taken(k) \in Seq(Cell) /\ Len(Taken(k)) = m
          /\ \A i \in 1..m : Taken(k)[i] = After(x, i) /\ tx[f + i] = After(x, i)
          /\ x.from + Carried(x) <= written
          /\ x.ignore = 1 \/ x.size > 0
  BY ReadBodyFacts, ZenonT(60)
<1>3. m = aeadLen /\ m = Overhead + x.size /\ m = Left(x)
  BY <1>2
<1>4. /\ Authentic(Taken(k))
      /\ Taken(k)[1].ignore = x.ignore /\ Taken(k)[1].from = x.from
      /\ Taken(k)[1].size = x.size
  BY <1>2, <1>3, BodyAuthentic
<1>5. /\ recvP' = recvP + 1 /\ recvBuf' = <<>> /\ aeadLen' = 0 /\ want > 0
      /\ UNCHANGED <<writerVars, tx, link, recvL, written, flushed>>
      /\ IF x.ignore = 1
         THEN /\ recvState' = "ReadingLength"
              /\ UNCHANGED <<readBuf, readPos, want, outcome, delivered>>
         ELSE /\ recvState' = "Idle"
              /\ readBuf' = Bytes(x.from, x.size)
              /\ readPos' = Min(want, x.size)
              /\ delivered' = delivered \o Bytes(x.from, Min(want, x.size))
              /\ want' = 0
              /\ outcome' = IF Min(want, x.size) = 0 THEN "zero" ELSE outcome
  <2>1. ~ (Len(Taken(k)) < aeadLen)
    BY <1>2, <1>3
  <2> QED BY <1>4, <2>1 DEF ReadBody
<1>6. /\ want \in Nat /\ want \in 0..MaxRead /\ recvP \in Nat /\ readPos = Len(readBuf)
      /\ readBuf \in Seq(Nat) /\ delivered \in Seq(Nat) /\ recvState # "Idle"
      /\ Len(readBuf) \in Nat /\ Len(delivered) \in Nat
      /\ \A i \in 1..Len(delivered) : delivered[i] = i
  BY <1>1, <1>5, LenProperties, StreamAssumption DEF TypeOK, PlaintextInv
<1>7. Opened = Len(delivered) /\ x.from = Len(delivered)
  BY <1>2, <1>6 DEF Opened
<1>8. FieldStart' = f + m /\ Len(recvBuf') = 0
  BY <1>2, <1>5 DEF FieldStart
<1>9. BoundaryAt(tx, f + m, recvP + 1, x.from + Carried(x))
  <2>1. m \in 1..m /\ m \in Nat /\ f + m # 0
    BY <1>2
  <2>2. tx[f + m] = After(x, m)
    BY <1>2, <2>1
  <2>3. /\ Left(After(x, m)) = 0 /\ After(x, m).ctr = recvP /\ After(x, m).from = x.from
        /\ Carried(After(x, m)) = Carried(x)
    <3>1. /\ Left(After(x, m)) = Left(x) - m /\ After(x, m).ctr = x.ctr
          /\ After(x, m).from = x.from /\ Carried(After(x, m)) = Carried(x)
      BY AfterFields
    <3> QED BY <1>2, <1>3, <3>1
  <2> QED BY <2>1, <2>2, <2>3 DEF BoundaryAt
<1>10. ASSUME Opened' = x.from + Carried(x), recvState' # "ReadingBody"
       PROVE  ReaderInv'
  <2>1. recvL' = recvP' /\ BoundaryAt(tx', f + m, recvP', Opened')
    BY <1>2, <1>5, <1>9, <1>10
  <2>2. Len(recvBuf') <= rcvd' /\ Len(recvBuf') < LenBytes
    BY <1>2, <1>8, StreamAssumption
  <2> QED BY <1>5, <1>8, <1>10, <2>1, <2>2 DEF ReaderInv
<1>11. /\ rcvd' \in 0..Len(tx) /\ recvP' \in Nat /\ recvL' \in Nat /\ aeadLen' \in Nat
       /\ recvBuf' \in Seq(Cell)
  BY <1>1, <1>2, <1>5, <1>6, EmptySeq DEF TypeOK
<1>12. CASE x.ignore = 1
  <2>1. recvState' = "ReadingLength" /\ UNCHANGED <<readBuf, readPos, want, outcome, delivered>>
    BY <1>5, <1>12
  <2>2. Opened' = Opened /\ Opened' = x.from + Carried(x)
    BY <1>2, <1>6, <1>7, <1>12, <2>1 DEF Opened, Carried
  <2>3. PlaintextInv'
    BY <1>1, <1>5, <1>6, <2>1, <2>2 DEF PlaintextInv
  <2>4. ReaderInv'
    BY <1>10, <2>1, <2>2
  <2> QED BY <1>1, <1>5, <1>6, <1>11, <2>1, <2>3, <2>4, ReaderStep DEF TypeOK
<1>13. CASE x.ignore # 1
  <2>1. PICK s \in Nat : s = x.size /\ s > 0 /\ Carried(x) = s
    BY <1>2, <1>13, CellTypes DEF Carried
  <2>2. PICK v \in Nat : v = Min(want, s) /\ v <= s /\ v > 0
    BY <1>5, <1>6, <2>1 DEF Min
  <2>3. /\ recvState' = "Idle" /\ readBuf' = Bytes(Len(delivered), s) /\ readPos' = v
        /\ delivered' = delivered \o Bytes(Len(delivered), v) /\ want' = 0
        /\ outcome' = outcome
    BY <1>5, <1>7, <1>13, <2>1, <2>2
  <2>4. /\ delivered' \in Seq(Nat) /\ Len(delivered') = Len(delivered) + v
        /\ \A i \in 1..Len(delivered') : delivered'[i] = i
    BY <1>6, <2>3, DeliverRun
  <2>5. /\ readBuf' \in Seq(Nat) /\ Len(readBuf') = s
        /\ \A i \in 1..s : readBuf'[i] = Len(delivered) + i
    BY <1>6, <2>3, RunOfBytes
  <2>6. Opened' = Len(delivered) + s /\ Opened' = x.from + Carried(x)
    BY <1>6, <1>7, <2>1, <2>3, <2>4, <2>5 DEF Opened
  <2>7. PlaintextInv'
    <3>1. \A i \in 1..s : readBuf'[i] = i + Len(delivered') - readPos'
      <4>1. \A i \in 1..s : Len(delivered) + i = i + (Len(delivered) + v) - v
        BY <1>6
      <4> QED BY <2>3, <2>4, <2>5, <4>1
    <3>2. readPos' <= Len(delivered')
      BY <1>6, <2>3, <2>4
    <3>3. Opened' <= written'
      BY <1>2, <1>5, <2>6
    <3> QED BY <2>3, <2>4, <2>5, <3>1, <3>2, <3>3 DEF PlaintextInv
  <2>8. ReaderInv'
    BY <1>10, <2>3, <2>6
  <2>9. /\ readPos' \in 0..Len(readBuf') /\ Len(delivered) <= Len(delivered')
        /\ want' \in 0..MaxRead
    BY <1>6, <2>2, <2>3, <2>4, <2>5, StreamAssumption
  <2> QED BY <1>5, <1>11, <2>3, <2>4, <2>5, <2>7, <2>8, <2>9, ReaderStep
<1> QED BY <1>12, <1>13

\* The ReadingBody arm of poll_read preserves the invariant.
LEMMA ReadBodyStep ==
    ASSUME IInv, NEW k \in 1..NetCap, ReadBody(k)
    PROVE  IInv'
  BY ReadBodyPartial, ReadBodyWhole DEF ReadBody

\* Serving buffered plaintext continues what the reader has.
LEMMA ServeBuffered ==
    ASSUME NEW d \in Seq(Nat), NEW b \in Seq(Nat), NEW r \in Nat, NEW k \in Nat,
           r + k <= Len(b), r <= Len(d),
           \A i \in 1..Len(d) : d[i] = i,
           \A i \in 1..Len(b) : b[i] = i + Len(d) - r
    PROVE  /\ d \o SubSeq(b, r + 1, r + k) \in Seq(Nat)
           /\ Len(d \o SubSeq(b, r + 1, r + k)) = Len(d) + k
           /\ \A i \in 1..Len(d) + k : (d \o SubSeq(b, r + 1, r + k))[i] = i
<1>1. PICK l \in Nat : l = Len(d)
  BY LenProperties
<1>2. PICK v : v = d \o SubSeq(b, r + 1, r + k)
  OBVIOUS
<1>3. /\ v \in Seq(Nat) /\ Len(v) = l + k
      /\ \A i \in 1..l : v[i] = d[i]
      /\ \A i \in 1..k : v[l + i] = b[r + i]
  BY <1>1, <1>2, AppendSlice
<1>4. PICK m \in Nat : m = Len(b)
  BY LenProperties
<1>5. ASSUME NEW i \in 1..k
      PROVE  v[l + i] = l + i
  <2>1. r + i \in 1..m /\ (r + i) + l - r = l + i
    BY <1>4
  <2>2. b[r + i] = (r + i) + l - r
    BY <1>1, <1>4, <2>1
  <2> QED BY <1>3, <2>1, <2>2
<1>6. ASSUME NEW i \in 1..l + k
      PROVE  v[i] = i
  <2>1. CASE i <= l
    <3>1. i \in 1..l
      BY <2>1
    <3> QED BY <1>1, <1>3, <3>1
  <2>2. CASE i > l
    <3>1. i - l \in 1..k /\ l + (i - l) = i
      BY <2>2
    <3> QED BY <1>5, <3>1
  <2> QED BY <2>1, <2>2
<1> QED BY <1>1, <1>2, <1>3, <1>6

\* The start of poll_read preserves the invariant.
LEMMA PollReadStep ==
    ASSUME IInv, NEW n \in 1..MaxRead, PollRead(n)
    PROVE  IInv'
<1>1. /\ TypeOK /\ ReaderInv /\ PlaintextInv
  BY IInvParts
<1>2. /\ want = 0
      /\ UNCHANGED <<writerVars, tx, rcvd, link, aeadLen, recvL, recvP, readBuf,
                     outcome, written, flushed>>
  BY DEF PollRead
<1>3. PICK b \in Nat, l \in Nat :
          b = Len(readBuf) /\ l = Len(delivered) /\ readPos \in Nat /\ readPos <= b /\ readPos <= l
  BY <1>1, LenProperties DEF TypeOK, PlaintextInv
<1>4. /\ rcvd' \in 0..Len(tx) /\ aeadLen' \in Nat /\ recvL' \in Nat /\ recvP' \in Nat
      /\ readBuf' \in Seq(Nat) /\ outcome' = outcome
      /\ readBuf \in Seq(Nat) /\ delivered \in Seq(Nat) /\ recvBuf \in Seq(Cell)
  BY <1>1, <1>2 DEF TypeOK
<1>5. CASE readPos < b
  <2>1. PICK k \in Nat : k = Min(n, b - readPos) /\ readPos + k <= b
    <3>1. PICK r \in Nat : r = b - readPos /\ readPos + r = b
      <4>1. b - readPos \in Nat /\ readPos + (b - readPos) = b
        BY <1>3, <1>5
      <4> QED BY <4>1
    <3>2. n \in Nat
      BY StreamAssumption
    <3>3. Min(n, r) \in Nat /\ Min(n, r) <= r
      BY <3>1, <3>2 DEF Min
    <3>4. readPos + Min(n, r) <= b
      BY <1>3, <3>1, <3>3
    <3> QED BY <3>1, <3>3, <3>4
  <2>2. /\ delivered' = delivered \o SubSeq(readBuf, readPos + 1, readPos + k)
        /\ readPos' = readPos + k
        /\ UNCHANGED <<want, recvState, recvBuf>>
    BY <1>3, <1>5, <2>1 DEF PollRead
  <2>3. /\ \A i \in 1..l : delivered[i] = i
        /\ \A i \in 1..b : readBuf[i] = i + l - readPos
    BY <1>1, <1>3 DEF PlaintextInv
  <2>4. /\ delivered' \in Seq(Nat) /\ Len(delivered') = l + k
        /\ \A i \in 1..l + k : delivered'[i] = i
    <3>1. PICK r \in Nat : r = readPos /\ r + k <= Len(readBuf) /\ r <= Len(delivered)
      BY <1>3, <2>1
    <3>2. /\ \A i \in 1..Len(delivered) : delivered[i] = i
          /\ \A i \in 1..Len(readBuf) : readBuf[i] = i + Len(delivered) - r
      BY <1>3, <2>3, <3>1
    <3>3. delivered' = delivered \o SubSeq(readBuf, r + 1, r + k)
      BY <2>2, <3>1
    <3>4. /\ delivered \o SubSeq(readBuf, r + 1, r + k) \in Seq(Nat)
          /\ Len(delivered \o SubSeq(readBuf, r + 1, r + k)) = Len(delivered) + k
          /\ \A i \in 1..Len(delivered) + k :
                 (delivered \o SubSeq(readBuf, r + 1, r + k))[i] = i
      <4>1. /\ delivered \in Seq(Nat) /\ readBuf \in Seq(Nat)
            /\ r + k <= Len(readBuf) /\ r <= Len(delivered)
        BY <1>4, <3>1
      <4> QED BY <3>2, <4>1, ServeBuffered, ZenonT(30)
    <3> QED BY <1>3, <3>3, <3>4
  <2>5. Opened' = Opened
    BY <1>2, <1>3, <2>1, <2>2, <2>4 DEF Opened
  <2>6. \A i \in 1..b : i + l - readPos = i + (l + k) - (readPos + k)
    BY <1>3, <2>1
  <2>7. /\ readPos' <= Len(delivered') /\ readPos' \in 0..Len(readBuf')
        /\ Len(delivered) <= Len(delivered')
    BY <1>2, <1>3, <2>1, <2>2, <2>4, SMTT(30)
  <2>8. PlaintextInv'
    <3>1. \A i \in 1..Len(delivered') : delivered'[i] = i
      BY <2>4
    <3>2. \A i \in 1..Len(readBuf') : readBuf'[i] = i + Len(delivered') - readPos'
      <4>1. Len(readBuf') = b /\ readBuf' = readBuf
        BY <1>2, <1>3
      <4>2. ASSUME NEW i \in 1..b
            PROVE  readBuf'[i] = i + Len(delivered') - readPos'
        <5>1. readBuf'[i] = i + l - readPos
          BY <2>3, <4>1
        <5>2. i + l - readPos = i + (l + k) - (readPos + k)
          BY <2>6
        <5> QED BY <2>2, <2>4, <5>1, <5>2
      <4> QED BY <4>1, <4>2
    <3>3. Opened' <= written' /\ ~(want' > 0)
      BY <1>1, <1>2, <2>2, <2>5 DEF PlaintextInv
    <3> QED BY <2>7, <3>1, <3>2, <3>3 DEF PlaintextInv
  <2>9. ReaderInv'
    BY <1>1, <1>2, <2>2, <2>5 DEF ReaderInv, FieldStart
  <2> QED BY <1>1, <1>2, <1>4, <2>2, <2>4, <2>7, <2>8, <2>9, ReaderStep DEF TypeOK
<1>6. CASE ~(readPos < b)
  <2>1. /\ want' = n /\ readPos' = readPos /\ delivered' = delivered
        /\ IF recvState = "Idle"
           THEN recvState' = "ReadingLength" /\ recvBuf' = <<>>
           ELSE UNCHANGED <<recvState, recvBuf>>
    BY <1>3, <1>6 DEF PollRead
  <2>2. recvState' # "Idle" /\ recvState' \in {"Idle", "ReadingLength", "ReadingBody"}
    BY <1>1, <2>1 DEF TypeOK
  <2>3. recvBuf' = recvBuf
    BY <1>1, <2>1 DEF ReaderInv
  <2>4. Opened' = Opened /\ FieldStart' = FieldStart
    BY <1>2, <2>1, <2>3 DEF Opened, FieldStart
  <2>5. PlaintextInv'
    BY <1>1, <1>2, <1>3, <1>6, <2>1, <2>2, <2>4 DEF PlaintextInv
  <2>6. ReaderInv'
    <3>1. recvState' = recvState \/ recvState = "Idle"
      BY <2>1
    <3>2. recvState = "Idle" => Len(recvBuf) = 0 /\ recvState' = "ReadingLength"
      BY <1>1, <2>1 DEF ReaderInv
    <3>3. 0 < LenBytes
      BY StreamAssumption
    <3> QED BY <1>1, <1>2, <2>2, <2>3, <2>4, <3>1, <3>2, <3>3 DEF ReaderInv
  <2>7. want' \in 0..MaxRead /\ readPos' \in 0..Len(readBuf') /\ Len(delivered) <= Len(delivered')
    BY <1>2, <1>3, <2>1, StreamAssumption
  <2> QED BY <1>2, <1>4, <2>1, <2>2, <2>3, <2>5, <2>6, <2>7, ReaderStep
<1> QED BY <1>5, <1>6

\* A Pending read preserves the invariant: it keeps all that was taken.
LEMMA ReadPendingStep ==
    ASSUME IInv, ReadPending
    PROVE  IInv'
<1>1. /\ TypeOK /\ ReaderInv /\ PlaintextInv
  BY IInvParts
<1>2. /\ want' = 0
      /\ UNCHANGED <<writerVars, tx, rcvd, link, recvVars, outcome, written, flushed, delivered>>
  BY DEF ReadPending, ghostVars
<1>3. Opened' = Opened /\ FieldStart' = FieldStart
  BY <1>2 DEF Opened, FieldStart, recvVars
<1>4. ReaderInv' /\ PlaintextInv'
  BY <1>1, <1>2, <1>3 DEF ReaderInv, PlaintextInv, recvVars
<1>5. want' \in 0..MaxRead /\ Len(delivered) <= Len(delivered')
  BY <1>1, <1>2, LenProperties, StreamAssumption DEF TypeOK
<1> QED BY <1>1, <1>2, <1>4, <1>5, ReaderStep DEF TypeOK, recvVars

\* At the end of tx, the reader has opened every whole packet.
LEMMA AllOpened ==
    ASSUME IInv, recvState # "Idle", rcvd = Len(tx)
    PROVE  Whole(tx, Len(tx)) = Opened
<1>1. /\ TypeOK /\ WireInv /\ ReaderInv
  BY IInvParts
<1>2. PICK f \in Nat, l \in Nat :
          /\ f = FieldStart /\ l = Len(recvBuf) /\ f + l = rcvd
          /\ \A i \in 1..l : recvBuf[i] = tx[f + i]
  BY <1>1, FieldFacts
<1>3. PICK n \in Nat : n = Len(tx) /\ n = f + l
  BY <1>2, LenProperties, <1>1 DEF TypeOK
<1>4. SUFFICES Whole(tx, n) = Opened
  BY <1>3
<1>5. CASE recvState = "ReadingLength"
  <2>1. l < LenBytes /\ BoundaryAt(tx, f, recvP, Opened)
    BY <1>1, <1>2, <1>5 DEF ReaderInv
  <2>2. CASE l = 0
    <3>1. n = f
      BY <1>3, <2>2
    <3> QED BY <2>1, <3>1, WholeBoundary
  <2>3. CASE l > 0
    <3>1. PICK x \in Cell :
              /\ x.from = Opened
              /\ Left(x) = LenBytes + Overhead + x.size - 1
              /\ \A i \in 1..l : tx[f + i] = After(x, i - 1)
      BY <1>1, <1>3, <2>1, <2>3, LengthAhead, StreamAssumption
    <3>2. PICK d \in Nat : d = l - 1
      BY <2>3
    <3>3. tx[n] = After(x, d)
      <4>1. l \in 1..l
        BY <2>3
      <4> QED BY <1>3, <3>1, <3>2, <4>1
    <3>4. Left(After(x, d)) = Left(x) - d /\ After(x, d).from = x.from
      BY AfterFields
    <3>5. Left(x) - d # 0
      <4>1. x.size \in Nat
        BY CellTypes
      <4> QED BY <2>1, <3>1, <3>2, <4>1, StreamAssumption
    <3> QED BY <1>3, <2>3, <3>1, <3>3, <3>4, <3>5 DEF Whole
  <2> QED BY <2>2, <2>3
<1>6. CASE recvState = "ReadingBody"
  <2>1. /\ f > 0 /\ tx[f].off = LenBytes /\ tx[f].from = Opened
        /\ aeadLen = Overhead + tx[f].size /\ l < aeadLen
    BY <1>1, <1>2, <1>6 DEF ReaderInv
  <2>2. PICK x \in Cell : x = tx[f] /\ x.from = Opened /\ x.off = LenBytes
    <3>1. f \in 1..Len(tx)
      BY <1>3, <2>1
    <3>2. tx[f] \in Cell
      BY <1>1, <3>1, ElementOfSeq DEF TypeOK
    <3> QED BY <2>1, <3>2
  <2>3. PICK s \in Nat : s = x.size
    BY CellTypes
  <2>4. l <= Overhead + tx[f].size /\ l < Overhead + s
    BY <2>1, <2>2, <2>3, StreamAssumption
  <2>5. /\ Left(x) = Overhead + s
        /\ \A i \in 1..l : tx[f + i] = After(x, i)
    BY <1>1, <1>3, <2>1, <2>2, <2>3, <2>4, BodyAhead
  <2>6. tx[n] = After(x, l)
    <3>1. CASE l = 0
      BY <1>3, <2>2, <3>1, AfterZero
    <3>2. CASE l > 0
      <4>1. l \in 1..l
        BY <3>2
      <4> QED BY <1>3, <2>5, <4>1
    <3> QED BY <3>1, <3>2
  <2>7. Left(After(x, l)) = Left(x) - l /\ After(x, l).from = x.from
    BY AfterFields
  <2>8. Left(x) - l # 0
    BY <2>4, <2>5, StreamAssumption
  <2>9. n # 0
    BY <1>3, <2>1
  <2> QED BY <2>2, <2>6, <2>7, <2>8, <2>9 DEF Whole
<1> QED BY <1>1, <1>5, <1>6 DEF TypeOK

\* The end of the connection preserves the invariant.
LEMMA ReadClosedStep ==
    ASSUME IInv, ReadClosed
    PROVE  IInv'
<1>1. /\ TypeOK /\ ReaderInv /\ PlaintextInv /\ FlushInv
  BY IInvParts
<1>2. /\ want > 0 /\ want' = 0 /\ Avail = 0 /\ link # "up"
      /\ outcome' = IF link = "fin" THEN "eof" ELSE "reset"
      /\ UNCHANGED <<writerVars, tx, rcvd, link, recvVars, written, flushed, delivered>>
  BY DEF ReadClosed, ghostVars
<1>3. Opened' = Opened /\ FieldStart' = FieldStart
  BY <1>2 DEF Opened, FieldStart, recvVars
<1>4. ReaderInv' /\ PlaintextInv'
  BY <1>1, <1>2, <1>3 DEF ReaderInv, PlaintextInv, recvVars
<1>5. rcvd = Len(tx) /\ recvState # "Idle" /\ readPos = Len(readBuf)
  BY <1>1, <1>2, LenProperties DEF TypeOK, Avail, PlaintextInv
<1>6. Opened = Len(delivered)
  BY <1>1, <1>5, LenProperties DEF TypeOK, Opened
<1>7. link = "fin" => flushed <= Len(delivered')
  BY <1>1, <1>2, <1>5, <1>6, AllOpened DEF FlushInv
<1>8. outcome' = "reset" \/ (outcome' = "eof" /\ link = "fin" /\ flushed <= Len(delivered'))
  BY <1>2, <1>7
<1>9. want' \in 0..MaxRead
  BY <1>2, StreamAssumption
<1> QED BY <1>1, <1>2, <1>4, <1>8, <1>9, ReaderStep DEF TypeOK, recvVars

\* A step that changes no variable preserves the invariant.
LEMMA StutteringStep ==
    ASSUME IInv, UNCHANGED vars
    PROVE  IInv'
<1>1. /\ TypeOK /\ ReaderInv /\ PlaintextInv
  BY IInvParts
<1>2. Opened' = Opened /\ FieldStart' = FieldStart
  BY DEF Opened, FieldStart, vars
<1>3. ReaderInv' /\ PlaintextInv'
  BY <1>1, <1>2 DEF ReaderInv, PlaintextInv, vars
<1>4. Len(delivered) <= Len(delivered')
  BY <1>1, LenProperties DEF TypeOK, vars
<1> QED BY <1>1, <1>3, <1>4, ReaderStep DEF TypeOK, vars, writerVars

-----------------------------------------------------------------------------
(* The theorems.                                                           *)

\* Every step of the two ends, of the peer and of the network keeps the
\* invariant.
LEMMA NextStep ==
    ASSUME IInv, [Next]_vars
    PROVE  IInv'
<1>1. ASSUME NEW n \in 0..MaxWrite, NEW k \in 0..NetCap, PollWrite(n, k)
      PROVE  IInv'
  BY <1>1, PollWriteStep
<1>2. ASSUME NEW k \in 0..NetCap, PollWritePending(k)
      PROVE  IInv'
  BY <1>2, PollWritePendingStep
<1>3. ASSUME NEW k \in 0..NetCap, PollFlush(k)
      PROVE  IInv'
  BY <1>3, PollFlushStep
<1>4. CASE DropWriter
  BY <1>4, DropWriterStep
<1>5. ASSUME NEW n \in 0..MaxWrite, NEW k \in 0..NetCap, PeerDecoy(n, k)
      PROVE  IInv'
  BY <1>5, PeerDecoyStep
<1>6. CASE Reset
  BY <1>6, ResetStep
<1>7. ASSUME NEW n \in 1..MaxRead, PollRead(n)
      PROVE  IInv'
  BY <1>7, PollReadStep
<1>8. ASSUME NEW k \in 1..NetCap, ReadLength(k)
      PROVE  IInv'
  BY <1>8, ReadLengthStep
<1>9. ASSUME NEW k \in 1..NetCap, ReadBody(k)
      PROVE  IInv'
  BY <1>9, ReadBodyStep
<1>10. CASE ReadPending
  BY <1>10, ReadPendingStep
<1>11. CASE ReadClosed
  BY <1>11, ReadClosedStep
<1>12. CASE UNCHANGED vars
  BY <1>12, StutteringStep
<1> QED BY <1>1, <1>2, <1>3, <1>4, <1>5, <1>6, <1>7, <1>8, <1>9, <1>10, <1>11, <1>12
        DEF Next, Writer, Peer, Reader

(* The inductive invariant holds throughout: what is on the wire is the    *)
(* packets sealed so far, one after the other, the reader's state is a     *)
(* position in them, and its plaintext is theirs.                          *)
THEOREM IInvInvariant == Spec => []IInv
<1>1. Init => IInv
  BY InitIInv
<1>2. IInv /\ [Next]_vars => IInv'
  BY NextStep
<1> QED BY <1>1, <1>2, PTL DEF Spec

(* The state of both ends has the types their fields have in the source.   *)
THEOREM TypeCorrect == Spec => []TypeOK
<1>1. IInv => TypeOK
  BY DEF IInv
<1> QED BY <1>1, IInvInvariant, PTL

(* CANCEL SAFETY, mod.rs:24-29: whatever the sizes of packets, buffers and *)
(* TCP fragments and wherever polls are abandoned, the reader's ciphers    *)
(* never lose step with the sender's.                                      *)
THEOREM StaysSynchronised == Spec => []NeverDesynchronised
<1>1. IInv => NeverDesynchronised
  BY DEF IInv
<1> QED BY <1>1, IInvInvariant, PTL

(* The reader receives a prefix of what the writer wrote.                  *)
THEOREM DeliversPrefix == Spec => []DeliveredIsPrefix
<1>1. IInv => DeliveredIsPrefix
  <2> SUFFICES ASSUME IInv PROVE DeliveredIsPrefix
    OBVIOUS
  <2>1. TypeOK /\ PlaintextInv
    BY DEF IInv
  <2>2. /\ Len(delivered) \in Nat /\ Len(readBuf) \in Nat /\ readPos \in Nat
        /\ readPos <= Len(readBuf) /\ written \in Nat
    BY <2>1, LenProperties, StreamAssumption DEF TypeOK
  <2>3. Len(delivered) <= Opened
    <3>1. Len(readBuf) - readPos \in Nat
      BY <2>2
    <3> QED BY <2>2, <3>1 DEF Opened
  <2>4. Opened \in Int
    BY <2>2 DEF Opened
  <2> QED BY <2>1, <2>2, <2>3, <2>4 DEF PlaintextInv, DeliveredIsPrefix
<1> QED BY <1>1, IInvInvariant, PTL

(* What was flushed before the writer's stream was dropped reaches the     *)
(* reader before the end of file does.                                     *)
THEOREM FlushedIsKept == Spec => []FlushOutlivesWriter
<1>1. IInv => FlushOutlivesWriter
  BY DEF IInv
<1> QED BY <1>1, IInvInvariant, PTL

-----------------------------------------------------------------------------
(* Bip324Stream implements ByteChannel: each step of the two ends is a     *)
(* step of the channel or leaves its state unchanged.                      *)

\* No read is in progress once poll_read has failed.
PollOpen == want > 0 => outcome = "open"

ChanStep == [Chan!ChanNext]_(Chan!chanVars)

\* A step keeps reads from outliving the error of an earlier one.
LEMMA PollOpenStep ==
    ASSUME IInv, PollOpen, [Next]_vars
    PROVE  PollOpen'
<1>1. want \in Nat /\ want' \in Nat
  <2>1. IInv'
    BY NextStep
  <2> QED BY <2>1, StreamAssumption DEF IInv, TypeOK
<1>2. CASE UNCHANGED <<want, outcome>>
  BY <1>2 DEF PollOpen
<1>3. CASE want' = 0
  BY <1>3 DEF PollOpen
<1>4. CASE outcome' = "open"
  BY <1>4 DEF PollOpen
<1>5. CASE Writer
  BY <1>2, <1>5 DEF Writer, PollWrite, PollWritePending, PollFlush, DropWriter
<1>6. CASE Peer \/ Reset
  BY <1>2, <1>6 DEF Peer, PeerDecoy, Reset
<1>7. ASSUME NEW n \in 1..MaxRead, PollRead(n)
      PROVE  PollOpen'
  BY <1>4, <1>7 DEF PollRead
<1>8. ASSUME NEW k \in 1..NetCap, ReadLength(k)
      PROVE  PollOpen'
  BY <1>2, <1>8 DEF ReadLength
<1>9. ASSUME NEW k \in 1..NetCap, ReadBody(k)
      PROVE  PollOpen'
  BY <1>2, <1>3, <1>9 DEF ReadBody
<1>10. CASE ReadPending \/ ReadClosed
  BY <1>3, <1>10 DEF ReadPending, ReadClosed
<1>11. CASE UNCHANGED vars
  BY <1>2, <1>11 DEF vars
<1> QED BY <1>5, <1>6, <1>7, <1>8, <1>9, <1>10, <1>11 DEF Next, Reader

\* The plaintext of a state of the invariant.
Plain ==
    /\ delivered \in Seq(Nat) /\ Len(delivered) \in Nat
    /\ \A i \in 1..Len(delivered) : delivered[i] = i
    /\ Len(delivered) <= written
    /\ written \in 0..MaxBytes /\ written \in Nat /\ MaxBytes \in Nat
    /\ outcome # "auth" /\ outcome # "zero"

\* What the invariant says of the plaintext, in the form the steps need.
LEMMA PlaintextFacts == IInv => Plain
<1> SUFFICES ASSUME IInv PROVE Plain
  OBVIOUS
<1>1. TypeOK /\ PlaintextInv /\ NeverDesynchronised
  BY IInvParts
<1>2. /\ Len(delivered) \in Nat /\ Len(readBuf) \in Nat /\ readPos \in Nat
      /\ readPos <= Len(readBuf) /\ written \in Nat /\ MaxBytes \in Nat
  BY <1>1, LenProperties, StreamAssumption DEF TypeOK
<1>3. Len(delivered) <= written
  <2>1. Len(readBuf) - readPos \in Nat
    BY <1>2
  <2> QED BY <1>1, <1>2, <2>1 DEF Opened, PlaintextInv
<1> QED BY <1>1, <1>2, <1>3 DEF TypeOK, PlaintextInv, NeverDesynchronised, Plain

\* The same for the state after a step.
LEMMA PlaintextNext == IInv' => Plain'
  BY PlaintextFacts, PTL

\* A step that only lets the reader have more bytes is a Deliver.
LEMMA DeliverStep ==
    ASSUME IInv, IInv', outcome = "open",
           UNCHANGED <<written, flushed, link, outcome>>,
           Len(delivered) <= Len(delivered')
    PROVE  ChanStep
<1>1. /\ delivered \in Seq(Nat) /\ Len(delivered) \in Nat
      /\ \A i \in 1..Len(delivered) : delivered[i] = i
  BY PlaintextFacts, SMTT(30) DEF Plain
<1>2. /\ delivered' \in Seq(Nat) /\ Len(delivered') \in Nat
      /\ \A i \in 1..Len(delivered') : delivered'[i] = i
      /\ Len(delivered') <= written' /\ written' <= MaxBytes
      /\ written' \in Nat /\ MaxBytes \in Nat
  BY PlaintextNext, StreamAssumption, SMTT(30) DEF Plain
<1>3. PICK l \in Nat, v \in Nat : l = Len(delivered) /\ Len(delivered') = l + v
  <2>1. Len(delivered') - Len(delivered) \in Nat
    BY <1>1, <1>2
  <2>2. Len(delivered) + (Len(delivered') - Len(delivered)) = Len(delivered')
    BY <1>1, <1>2
  <2> QED BY <1>1, <2>1, <2>2
<1>4. /\ delivered \o Bytes(l, v) \in Seq(Nat)
      /\ Len(delivered \o Bytes(l, v)) = l + v
      /\ \A i \in 1..l + v : (delivered \o Bytes(l, v))[i] = i
  BY <1>1, <1>3, DeliverRun
<1>5. delivered' = delivered \o Bytes(l, v)
  BY <1>2, <1>3, <1>4, SeqEqual
<1>6. CASE v = 0
  <2>1. delivered' = delivered
    BY <1>1, <1>2, <1>3, <1>6, SeqEqual
  <2> QED BY <2>1 DEF ChanStep, Chan!chanVars
<1>7. CASE v > 0
  <2>1. v \in 1..MaxBytes /\ l + v <= written
    BY <1>2, <1>3, <1>7
  <2>2. delivered' = delivered \o Chan!Bytes(Len(delivered), v)
    BY <1>3, <1>5 DEF Bytes, Chan!Bytes
  <2>3. Chan!Deliver(v)
    BY <1>3, <2>1, <2>2 DEF Chan!Deliver
  <2> QED BY <2>1, <2>3 DEF ChanStep, Chan!ChanNext
<1> QED BY <1>6, <1>7

\* Appending to a sequence does not make it shorter.
LEMMA ConcatGrows ==
    ASSUME NEW d \in Seq(Nat), NEW e \in Seq(Nat)
    PROVE  Len(d) <= Len(d \o e)
<1>1. Len(d) \in Nat /\ Len(e) \in Nat /\ Len(d \o e) = Len(d) + Len(e)
  BY LenProperties, ConcatProperties
<1> QED BY <1>1

\* Each step of the writer's end, of the peer and of the network is a step of the
\* channel: sealing accepts bytes, a completed flush flushes them.
LEMMA WriterRefines ==
    ASSUME IInv, Writer \/ Peer \/ Reset
    PROVE  ChanStep
<1>1. /\ written \in Nat /\ MaxBytes \in Nat
  BY PlaintextFacts DEF Plain
<1>2. ASSUME NEW n \in 0..MaxWrite, NEW k \in 0..NetCap, PollWrite(n, k)
      PROVE  ChanStep
  <2>1. n \in 1..MaxBytes
    BY <1>1, <1>2, StreamAssumption DEF PollWrite
  <2>2. Chan!Accept(n)
    BY <1>2 DEF PollWrite, Chan!Accept
  <2> QED BY <2>1, <2>2 DEF ChanStep, Chan!ChanNext
<1>3. ASSUME NEW k \in 0..NetCap, PollWritePending(k)
      PROVE  ChanStep
  BY <1>3 DEF PollWritePending, ghostVars, ChanStep, Chan!chanVars
<1>4. ASSUME NEW k \in 0..NetCap, PollFlush(k)
      PROVE  ChanStep
  <2>1. CASE flushed' = written
    BY <1>4, <2>1 DEF PollFlush, ChanStep, Chan!ChanNext, Chan!Flush
  <2>2. CASE flushed' = flushed
    BY <1>4, <2>2 DEF PollFlush, ChanStep, Chan!chanVars
  <2> QED BY <1>4, <2>1, <2>2 DEF PollFlush
<1>5. CASE DropWriter \/ Reset
  BY <1>5 DEF DropWriter, Reset, ghostVars, ChanStep, Chan!ChanNext, Chan!Disconnect
<1>6. CASE Peer
  BY <1>6 DEF Peer, PeerDecoy, ghostVars, ChanStep, Chan!chanVars
<1> QED BY <1>2, <1>3, <1>4, <1>5, <1>6 DEF Writer

\* Serving buffered plaintext delivers the next bytes; starting a poll is a
\* stuttering step.
LEMMA PollReadRefines ==
    ASSUME IInv, IInv', NEW n \in 1..MaxRead, PollRead(n)
    PROVE  ChanStep
<1>1. /\ delivered \in Seq(Nat) /\ readBuf \in Seq(Nat) /\ readPos \in Nat
      /\ readPos <= Len(readBuf) /\ Len(readBuf) \in Nat /\ n \in Nat
  BY LenProperties, StreamAssumption DEF IInv, TypeOK
<1>2. outcome = "open" /\ UNCHANGED <<written, flushed, link, outcome>>
  BY DEF PollRead
<1>3. CASE readPos < Len(readBuf)
  <2>1. PICK r \in Nat : r = Len(readBuf) - readPos /\ readPos + r = Len(readBuf)
    <3>1. /\ Len(readBuf) - readPos \in Nat
          /\ readPos + (Len(readBuf) - readPos) = Len(readBuf)
      BY <1>1, <1>3
    <3> QED BY <3>1
  <2>2. PICK k \in Nat : k = Min(n, r) /\ readPos + k <= Len(readBuf)
    <3>1. Min(n, r) \in Nat /\ Min(n, r) <= r
      BY <1>1, <2>1 DEF Min
    <3>2. readPos + Min(n, r) <= Len(readBuf)
      BY <1>1, <2>1, <3>1
    <3> QED BY <3>1, <3>2
  <2>3. delivered' = delivered \o SubSeq(readBuf, readPos + 1, readPos + k)
    BY <1>3, <2>1, <2>2 DEF PollRead
  <2>4. Len(delivered \o SubSeq(readBuf, readPos + 1, readPos + k)) = Len(delivered) + k
    BY <1>1, <2>2, AppendSlice
  <2>5. Len(delivered) <= Len(delivered')
    BY <1>1, <2>2, <2>3, <2>4, LenProperties
  <2> QED BY <1>2, <2>5, DeliverStep
<1>4. CASE ~(readPos < Len(readBuf))
  <2>1. delivered' = delivered
    BY <1>4 DEF PollRead
  <2> QED BY <1>2, <2>1 DEF ChanStep, Chan!chanVars
<1> QED BY <1>3, <1>4

\* Opening a packet delivers its bytes, and dropping a decoy is a stuttering step.
LEMMA ReadBodyRefines ==
    ASSUME IInv, IInv', PollOpen, NEW k \in 1..NetCap, ReadBody(k)
    PROVE  ChanStep
<1>1. /\ outcome = "open" /\ UNCHANGED <<written, flushed, link>>
      /\ outcome' # "auth" /\ outcome' # "zero"
  BY PlaintextNext DEF ReadBody, PollOpen, Plain
<1>2. CASE UNCHANGED <<delivered, outcome>>
  BY <1>1, <1>2 DEF ChanStep, Chan!chanVars
<1>3. PICK b : b = Taken(k)
  OBVIOUS
<1>4. CASE delivered' = delivered \o Bytes(b[1].from, Min(want, b[1].size))
  <2>1. b[1] \in Cell
    <3>1. PICK m \in Nat : m > 0 /\ Taken(k) \in Seq(Cell) /\ Len(Taken(k)) = m
      BY ReadBodyFacts
    <3>2. 1 \in 1..m
      BY <3>1
    <3> QED BY <1>3, <3>1, <3>2, ElementOfSeq
  <2>2. PICK x \in Cell : x = b[1]
    BY <2>1
  <2>3. x.from \in Nat /\ x.size \in Nat
    BY CellTypes
  <2>4. want \in Nat
    BY StreamAssumption DEF IInv, TypeOK
  <2>5. Min(want, x.size) \in Nat
    BY <2>3, <2>4 DEF Min
  <2>6. Bytes(x.from, Min(want, x.size)) \in Seq(Nat)
    BY <2>3, <2>5, RunOfBytes
  <2>7. Len(delivered) <= Len(delivered')
    BY <1>4, <2>2, <2>6, ConcatGrows, PlaintextFacts DEF Plain
  <2>8. outcome' = outcome
    BY <1>1 DEF ReadBody
  <2> QED BY <1>1, <2>7, <2>8, DeliverStep
<1>5. \/ UNCHANGED <<delivered, outcome>>
      \/ delivered' = delivered \o Bytes(b[1].from, Min(want, b[1].size))
  BY <1>1, <1>3 DEF ReadBody
<1> QED BY <1>2, <1>4, <1>5

\* Each step of the reader's end is a step of the channel.
LEMMA ReaderRefines ==
    ASSUME IInv, IInv', PollOpen, Reader
    PROVE  ChanStep
<1>1. ASSUME NEW n \in 1..MaxRead, PollRead(n)
      PROVE  ChanStep
  BY <1>1, PollReadRefines
<1>2. ASSUME NEW k \in 1..NetCap, ReadLength(k)
      PROVE  ChanStep
  BY <1>2 DEF ReadLength, ghostVars, ChanStep, Chan!chanVars
<1>3. ASSUME NEW k \in 1..NetCap, ReadBody(k)
      PROVE  ChanStep
  BY <1>3, ReadBodyRefines
<1>4. CASE ReadPending
  BY <1>4 DEF ReadPending, ghostVars, ChanStep, Chan!chanVars
<1>5. CASE ReadClosed
  <2>1. /\ outcome = "open" /\ link # "up"
        /\ outcome' = IF link = "fin" THEN "eof" ELSE "reset"
        /\ UNCHANGED <<written, flushed, delivered, link>>
    BY <1>5 DEF ReadClosed, PollOpen, ghostVars
  <2>2. link \in {"up", "fin", "reset"}
    BY DEF IInv, TypeOK
  <2>3. outcome' = "eof" => flushed <= Len(delivered)
    BY <2>1 DEF IInv, FlushOutlivesWriter
  <2>4. Chan!EndOfStream
    BY <2>1, <2>2, <2>3 DEF Chan!EndOfStream
  <2> QED BY <2>4 DEF ChanStep, Chan!ChanNext
<1> QED BY <1>1, <1>2, <1>3, <1>4, <1>5 DEF Reader

(* Whatever TCP and the callers do, each direction of an encrypted stream  *)
(* is a reliable byte channel: what its users (the relay loops) may assume *)
(* of it is ByteChannel, packets, counters and partial reads hidden.       *)
THEOREM StreamImplementsChannel == Spec => ImplementsByteChannel
<1>1. Init => Chan!ChanInit
  BY DEF Init, Chan!ChanInit
<1>2. Init => PollOpen
  BY DEF Init, PollOpen
<1>3. IInv /\ PollOpen /\ [Next]_vars => PollOpen'
  BY PollOpenStep
<1>4. IInv /\ IInv' /\ PollOpen /\ [Next]_vars => ChanStep
  <2>1. ASSUME IInv, UNCHANGED vars
        PROVE  ChanStep
    BY <2>1 DEF vars, ChanStep, Chan!chanVars
  <2> QED BY <2>1, WriterRefines, ReaderRefines DEF Next
<1>5. IInv /\ IInv' /\ PollOpen /\ [Next]_vars => [Chan!ChanNext]_(Chan!chanVars)
  BY <1>4 DEF ChanStep
<1> QED BY <1>1, <1>2, <1>3, <1>5, IInvInvariant, PTL
        DEF Spec, ImplementsByteChannel, Chan!ChanSpec
=============================================================================
