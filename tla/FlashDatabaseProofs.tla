------------------------- MODULE FlashDatabaseProofs -------------------------
(***************************************************************************)
(* Proofs about FlashDatabase, for every size of its regions, any lengths  *)
(* of messages and restarts at any time.                                   *)
(***************************************************************************)
EXTENDS FlashDatabase, WellFoundedInduction, TLAPS

-----------------------------------------------------------------------------
(* Addresses in a region of blocks.                                        *)

LEMMA Division ==
  ASSUME NEW b \in Nat \ {0}, NEW a \in Nat
  PROVE  /\ a \div b \in Nat /\ a % b \in 0..(b - 1)
         /\ a = (a \div b) * b + (a % b)
<1>1. a % b \in 0..(b - 1) /\ a \div b \in Int /\ a = b * (a \div b) + (a % b)
  BY SMT
<1> DEFINE q == a \div b
           r == a % b
<1> HIDE DEF q, r
<1>2. q \in Int /\ r \in 0..(b - 1) /\ a = b * q + r
  BY <1>1 DEF q, r
<1>3. q \in Nat
  <2> SUFFICES ASSUME q < 0 PROVE FALSE
    BY <1>2
  <2>1. b * q <= b * (0 - 1)
    BY <1>2, SMT
  <2> QED  BY <1>2, <2>1, SMT
<1>4. b * q = q * b
  BY <1>2, <1>3, SMT
<1> QED  BY <1>2, <1>3, <1>4 DEF q, r

LEMMA BlockOf ==
  ASSUME NEW b \in Nat \ {0}, NEW a \in Nat, NEW q \in Nat, NEW r \in 0..(b - 1), a = q * b + r
  PROVE  a \div b = q /\ a % b = r
BY SMT

LEMMA BlocksApart ==
  ASSUME NEW b \in Nat \ {0}, NEW s \in Nat, NEW t \in Nat, s < t
  PROVE  s * b \in Nat /\ (s + 1) * b = s * b + b /\ (s + 1) * b <= t * b
<1>1. (s + 1) * b = s * b + b /\ s * b \in Nat
  BY SMT
<1>2. PICK d \in Nat : t = s + 1 + d
  <2>1. t - (s + 1) \in Nat /\ t = s + 1 + (t - (s + 1))
    OBVIOUS
  <2> QED  BY <2>1
<1>3. t * b = (s + 1) * b + d * b /\ d * b \in Nat
  BY <1>2, SMT
<1> QED  BY <1>1, <1>3

(* What checkEndsOfBlocks decides, for N blocks of b bytes and k bytes to  *)
(* be written at address c: they lie within one block, or a block is begun.*)
EndAt(c, k, b, N) == IF c + k > N * b THEN k ELSE c + k
Begins(c, k, b, N) ==
  \/ c + k > N * b
  \/ EndAt(c, k, b, N) % b # 0 /\ EndAt(c, k, b, N) % b < k

LEMMA EndsOfBlocks ==
  ASSUME NEW b \in Nat \ {0}, NEW k \in 1..(b - 1), NEW N \in Nat \ {0},
         NEW c \in Nat, c <= N * b
  PROVE  IF Begins(c, k, b, N)
         THEN \E s \in 0..(N - 1) : EndAt(c, k, b, N) - (EndAt(c, k, b, N) % b) = s * b
         ELSE c + k <= N * b /\ c \div b = (c + k - 1) \div b
<1> DEFINE e == EndAt(c, k, b, N)
<1>0. e = IF c + k > N * b THEN k ELSE c + k
  BY DEF EndAt
<1> SUFFICES IF c + k > N * b \/ (e % b # 0 /\ e % b < k)
             THEN \E s \in 0..(N - 1) : e - (e % b) = s * b
             ELSE c + k <= N * b /\ c \div b = (c + k - 1) \div b
  BY Zenon DEF Begins
<1> HIDE DEF e
<1>1. e \in Nat
  BY <1>0, SMT
<1> DEFINE q == e \div b
           r == e % b
<1>2. q \in Nat /\ r \in 0..(b - 1) /\ e = q * b + r
  BY <1>1, Division
<1>3. r = e % b
  OBVIOUS
<1> HIDE DEF q, r
<1>4. CASE c + k > N * b
  <2>1. k = 0 * b + k /\ k \in 0..(b - 1) /\ k \in Nat /\ 0 \in Nat
    BY SMT
  <2>2. e % b = k
    BY <1>0, <1>4, <2>1, BlockOf
  <2>3. 0 * b = 0
    BY SMT
  <2>4. e - (e % b) = 0 * b /\ 0 \in 0..(N - 1)
    BY <1>0, <1>4, <2>2, <2>3
  <2> QED  BY <1>4, <2>4
<1>5. CASE ~(c + k > N * b) /\ r # 0 /\ r < k
  <2>1. e - r = q * b /\ e <= N * b
    BY <1>0, <1>2, <1>5
  <2>2. q < N
    <3> SUFFICES ASSUME N <= q PROVE FALSE
      BY <1>2
    <3>1. CASE N = q
      BY <1>2, <1>5, <2>1, <3>1
    <3>2. CASE N < q
      <4>1. N * b + b <= q * b
        BY <1>2, <3>2, BlocksApart
      <4> QED  BY <1>2, <1>5, <2>1, <4>1
    <3> QED  BY <1>2, <3>1, <3>2
  <2>3. q \in 0..(N - 1) /\ e - (e % b) = q * b
    <3>1. q \in 0..(N - 1)
      BY <1>2, <2>2
    <3>2. e - (e % b) = q * b
      BY <1>3, <2>1, Zenon
    <3> QED  BY <3>1, <3>2
  <2>4. \E s \in 0..(N - 1) : e - (e % b) = s * b
    BY <2>3
  <2>5. e % b # 0 /\ e % b < k
    BY <1>3, <1>5
  <2> QED  BY <2>4, <2>5, Zenon
<1>6. CASE ~(c + k > N * b) /\ ~(r # 0 /\ r < k)
  <2>1. e = c + k
    BY <1>0, <1>6
  <2>2. CASE r = 0
    <3>1. q > 0
      <4> SUFFICES ASSUME q = 0 PROVE FALSE
        BY <1>2
      <4>1. 0 * b = 0
        BY SMT
      <4> QED  BY <1>2, <2>1, <2>2, <4>1
    <3>2. q - 1 \in Nat /\ q * b = (q - 1) * b + b /\ (q - 1) * b \in Nat
      <4>1. q - 1 \in Nat /\ (q - 1) + 1 = q
        BY <1>2, <3>1
      <4> DEFINE p == q - 1
      <4> HIDE DEF p
      <4>2. p \in Nat /\ q \in Nat /\ p < q /\ p + 1 = q
        BY <1>2, <4>1 DEF p
      <4>3. (p + 1) * b = p * b + b /\ p * b \in Nat
        BY <4>2, BlocksApart
      <4> QED  BY <4>2, <4>3 DEF p
    <3>3. c = (q - 1) * b + (b - k) /\ b - k \in 0..(b - 1)
      BY <1>2, <2>1, <2>2, <3>2
    <3>4. c + k - 1 = (q - 1) * b + (b - 1) /\ b - 1 \in 0..(b - 1) /\ c + k - 1 \in Nat
      BY <1>2, <2>1, <2>2, <3>2
    <3>5. c \div b = q - 1
      BY <3>2, <3>3, BlockOf
    <3>6. (c + k - 1) \div b = q - 1
      BY <3>2, <3>4, BlockOf
    <3> QED  BY <1>6, <1>3, <3>5, <3>6
  <2>3. CASE r >= k
    <3>1. q * b \in Nat
      BY <1>2, SMT
    <3>2. c = q * b + (r - k) /\ r - k \in 0..(b - 1)
      BY <1>2, <2>1, <2>3, <3>1
    <3>3. c + k - 1 = q * b + (r - 1) /\ r - 1 \in 0..(b - 1) /\ c + k - 1 \in Nat
      BY <1>2, <2>1, <2>3, <3>1
    <3>4. c \div b = q
      BY <1>2, <3>2, BlockOf
    <3>5. (c + k - 1) \div b = q
      BY <1>2, <3>3, BlockOf
    <3> QED  BY <1>6, <1>3, <3>4, <3>5
  <2> QED  BY <1>2, <1>6, <2>2, <2>3
<1> QED  BY <1>3, <1>4, <1>5, <1>6

-----------------------------------------------------------------------------
(* Sectors and slots of the FAT.                                           *)

LEMMA Layout ==
  /\ Sector \in Nat \ {0} /\ Sector >= 4 /\ Sector = 1 + 3 * RecordsPerSector
  /\ RecordLen = 3
  /\ FatEnd \in Nat \ {0} /\ DataEnd \in Nat \ {0}
<1>1. Sector \in Nat \ {0} /\ Sector >= 4 /\ Sector = 1 + 3 * RecordsPerSector
  BY FlashDatabaseAssumption DEF Sector, RecordLen
<1>2. \A a, b \in Nat \ {0} : a * b \in Nat \ {0}
  BY SMT
<1>3. FatEnd \in Nat \ {0}
  BY <1>1, <1>2, FlashDatabaseAssumption DEF FatEnd
<1>4. DataEnd \in Nat \ {0}
  BY <1>2, FlashDatabaseAssumption DEF DataEnd
<1> QED  BY <1>1, <1>3, <1>4 DEF RecordLen

LEMMA SectorAt ==
  ASSUME NEW s \in Sectors
  PROVE  /\ s \in Nat /\ s + 1 \in Nat
         /\ s * Sector \in Nat
         /\ (s + 1) * Sector = s * Sector + Sector
         /\ (s + 1) * Sector <= FatEnd
<1>1. s \in Nat /\ HeaderSectors \in Nat /\ s < HeaderSectors
  BY FlashDatabaseAssumption DEF Sectors
<1>2. /\ s * Sector \in Nat
      /\ (s + 1) * Sector = s * Sector + Sector
      /\ (s + 1) * Sector <= HeaderSectors * Sector
  BY <1>1, Layout, BlocksApart
<1> QED  BY <1>1, <1>2 DEF FatEnd

(* A cell of sector s is in no other.                                      *)
LEMMA SectorOf ==
  ASSUME NEW s \in Sectors, NEW a \in CellsOf(s)
  PROVE  /\ a \div Sector = s
         /\ a \in 0..(FatEnd - 1)
<1>1. /\ s \in Nat /\ s * Sector \in Nat /\ (s + 1) * Sector = s * Sector + Sector
      /\ (s + 1) * Sector <= FatEnd
  BY SectorAt
<1>2. Sector \in Nat \ {0} /\ FatEnd \in Nat
  BY Layout
<1> DEFINE base == s * Sector
           next == (s + 1) * Sector
<1>3. a \in base..(next - 1)
  BY DEF CellsOf
<1>4. base \in Nat /\ next = base + Sector /\ next <= FatEnd
  BY <1>1
<1> HIDE DEF base, next
<1>5. a - base \in 0..(Sector - 1) /\ a \in Nat /\ a = base + (a - base)
  BY <1>2, <1>3, <1>4
<1>6. a \div Sector = s
  BY <1>1, <1>2, <1>5, BlockOf DEF base
<1>7. a \in 0..(FatEnd - 1)
  BY <1>2, <1>3, <1>4
<1> QED  BY <1>6, <1>7

(* Every cell is in a sector.                                              *)
LEMMA InSector ==
  ASSUME NEW a \in 0..(FatEnd - 1)
  PROVE  a \div Sector \in Sectors /\ a \in CellsOf(a \div Sector)
<1> DEFINE q == a \div Sector
           r == a % Sector
<1>1. a \in Nat /\ Sector \in Nat \ {0} /\ FatEnd \in Nat /\ a < FatEnd
  BY Layout
<1>2. q \in Nat /\ r \in 0..(Sector - 1) /\ a = q * Sector + r
  BY <1>1, Division
<1> HIDE DEF q, r
<1>3. HeaderSectors \in Nat
  BY FlashDatabaseAssumption
<1>4. q < HeaderSectors
  <2> SUFFICES ASSUME HeaderSectors <= q PROVE FALSE
    BY <1>2, <1>3
  <2>1. CASE HeaderSectors = q
    BY <1>1, <1>2, <2>1 DEF FatEnd
  <2>2. CASE HeaderSectors < q
    <3>1. HeaderSectors * Sector + Sector <= q * Sector /\ q * Sector \in Nat
      BY <1>1, <1>2, <1>3, <2>2, BlocksApart
    <3> QED  BY <1>1, <1>2, <3>1 DEF FatEnd
  <2> QED  BY <1>2, <1>3, <2>1, <2>2
<1>5. q \in Sectors
  BY <1>2, <1>3, <1>4 DEF Sectors
<1>6. q * Sector \in Nat /\ (q + 1) * Sector = q * Sector + Sector
  BY <1>5, SectorAt
<1>7. a \in CellsOf(q)
  BY <1>1, <1>2, <1>6 DEF CellsOf
<1> QED  BY <1>5, <1>7 DEF q

LEMMA FirstCells ==
  /\ 0 \in Sectors /\ 0 * Sector = 0
  /\ CellsOf(0) = 0..(Sector - 1)
  /\ \A a \in 0..(Sector - 1) : a \in 0..(FatEnd - 1)
<1>1. 0 \in Sectors
  BY FlashDatabaseAssumption DEF Sectors
<1>2. Sector \in Nat
  BY Layout
<1>3. 0 * Sector = 0 /\ (0 + 1) * Sector = Sector
  BY <1>2, SMT
<1>4. CellsOf(0) = 0..(Sector - 1)
  BY <1>3 DEF CellsOf
<1>5. \A a \in 0..(Sector - 1) : a \in 0..(FatEnd - 1)
  BY <1>1, <1>4, SectorOf
<1> QED  BY <1>1, <1>3, <1>4, <1>5

LEMMA Slots ==
  ASSUME NEW s \in Sectors, NEW n \in 0..RecordsPerSector
  PROVE  /\ Slot(s, n) \in Nat
         /\ Slot(s, n) = s * Sector + 1 + 3 * n
         /\ Slot(s, n + 1) = Slot(s, n) + 3
         /\ Slot(s, RecordsPerSector) = (s + 1) * Sector
         /\ Slot(s, n) <= (s + 1) * Sector
         /\ n < RecordsPerSector => Slot(s, n) + 3 <= (s + 1) * Sector
         /\ \A i \in 0..(n - 1) : Slot(s, i) \in Nat /\ Slot(s, i) + 3 <= Slot(s, n)
         /\ \A i \in 0..(n - 1) : Slot(s, i) \in CellsOf(s) \ {s * Sector}
<1> DEFINE base == s * Sector
           next == (s + 1) * Sector
<1>1. base \in Nat /\ next = base + Sector /\ Sector = 1 + 3 * RecordsPerSector
  BY SectorAt, Layout
<1>2. RecordsPerSector \in Nat
  BY FlashDatabaseAssumption
<1>3. \A i \in Nat : Slot(s, i) = base + 1 + 3 * i
  BY <1>1 DEF Slot, RecordLen
<1>4. CellsOf(s) = base..(next - 1)
  BY DEF CellsOf
<1> HIDE DEF base, next
<1>5. n \in Nat /\ n + 1 \in Nat /\ n <= RecordsPerSector
  BY <1>2
<1>6. Slot(s, n) = base + 1 + 3 * n /\ Slot(s, n + 1) = Slot(s, n) + 3
  BY <1>1, <1>3, <1>5
<1>7. Slot(s, RecordsPerSector) = next
  BY <1>1, <1>2, <1>3
<1>8. \A i \in 0..(n - 1) : /\ Slot(s, i) \in Nat /\ Slot(s, i) + 3 <= Slot(s, n)
                            /\ Slot(s, i) \in CellsOf(s) \ {base}
  <2> TAKE i \in 0..(n - 1)
  <2>1. Slot(s, i) = base + 1 + 3 * i /\ i \in Nat /\ i < n
    BY <1>3, <1>5
  <2> QED  BY <1>1, <1>2, <1>4, <1>5, <1>6, <2>1
<1>9. /\ Slot(s, n) \in Nat /\ Slot(s, n) <= next
      /\ n < RecordsPerSector => Slot(s, n) + 3 <= next
  BY <1>1, <1>2, <1>5, <1>6
<1> QED  BY <1>6, <1>7, <1>8, <1>9 DEF base, next

LEMMA SectorCells ==
  ASSUME NEW s \in Sectors
  PROVE  /\ s * Sector \in CellsOf(s)
         /\ CellsOf(s) \subseteq 0..(FatEnd - 1)
         /\ (s + 1) * Sector - 1 \in CellsOf(s)
         /\ \A t \in Sectors : t # s => CellsOf(s) \intersect CellsOf(t) = {}
         /\ \A n \in 0..RecordsPerSector :
              Slot(s, n)..((s + 1) * Sector - 1) \subseteq CellsOf(s) \ {s * Sector}
<1> DEFINE base == s * Sector
           next == (s + 1) * Sector
<1>1. base \in Nat /\ next = base + Sector /\ Sector \in Nat /\ Sector >= 4
  BY SectorAt, Layout
<1>2. CellsOf(s) = base..(next - 1)
  BY DEF CellsOf
<1>3. ASSUME NEW n \in 0..RecordsPerSector
      PROVE  Slot(s, n)..(next - 1) \subseteq CellsOf(s) \ {base}
  <2>1. Slot(s, n) = base + 1 + 3 * n /\ n \in Nat
    BY Slots, FlashDatabaseAssumption
  <2> HIDE DEF base, next
  <2> QED  BY <1>1, <1>2, <2>1
<1>4. \A a \in CellsOf(s) : a \in 0..(FatEnd - 1)
  BY SectorOf
<1>5. \A t \in Sectors : t # s => CellsOf(s) \intersect CellsOf(t) = {}
  <2> SUFFICES ASSUME NEW t \in Sectors, t # s, NEW a \in CellsOf(s), a \in CellsOf(t)
               PROVE  FALSE
    OBVIOUS
  <2> QED  BY SectorOf
<1> HIDE DEF base, next
<1>6. base \in CellsOf(s) /\ next - 1 \in CellsOf(s)
  BY <1>1, <1>2
<1> QED  BY <1>3, <1>4, <1>5, <1>6 DEF base, next

-----------------------------------------------------------------------------
(* Contents of the cells.                                                  *)

LEMMA Kinds ==
  ASSUME NEW c, NEW m
  PROVE  /\ Header(c)[1] = "MSG" /\ Header(c)[2] = c
         /\ Erased[1] # "MSG" /\ Garbled[1] # "MSG" /\ Record(m)[1] # "MSG" /\ Rest(m)[1] # "MSG"
         /\ Erased # Garbled /\ Header(c) # Garbled /\ Record(m) # Garbled /\ Rest(m) # Garbled
         /\ Record(m) # Erased
         /\ Record(m)[2] = m
BY DEF Header, Erased, Garbled, Record, Rest

LEMMA InCells ==
  /\ Erased \in Cells /\ Garbled \in Cells
  /\ \A c \in 0..255 : Header(c) \in Cells
  /\ \A m \in 1..MaxMessages : Record(m) \in Cells /\ Rest(m) \in Cells
  /\ \A x \in Cells, y \in Cells : Program(x, y) \in Cells
  /\ \A x \in Cells : x[1] = "MSG" => \E c \in 0..255 : x = Header(c)
<1>1. /\ Erased \in Cells /\ Garbled \in Cells
      /\ \A c \in 0..255 : Header(c) \in Cells
      /\ \A m \in 1..MaxMessages : Record(m) \in Cells /\ Rest(m) \in Cells
  BY DEF Cells
<1>2. \A x \in Cells, y \in Cells : Program(x, y) \in Cells
  BY <1>1 DEF Program
<1>3. ASSUME NEW x \in Cells, x[1] = "MSG"
      PROVE  \E c \in 0..255 : x = Header(c)
  <2>1. CASE x \in {Erased, Garbled}
    BY <1>3, <2>1, Kinds
  <2>2. CASE x \in {Header(c) : c \in 0..255}
    BY <2>2
  <2>3. CASE x \in {Record(m) : m \in 1..MaxMessages}
    BY <1>3, <2>3, Kinds
  <2>4. CASE x \in {Rest(m) : m \in 1..MaxMessages}
    BY <1>3, <2>4, Kinds
  <2> QED  BY <2>1, <2>2, <2>3, <2>4 DEF Cells
<1> QED  BY <1>1, <1>2, <1>3

(* A sector that a step does not write to is what it was.                  *)
LEMMA Undisturbed ==
  ASSUME NEW s \in Sectors, \A a \in CellsOf(s) : fat'[a] = fat[a],
         1..Len(stored) \subseteq 1..Len(stored')
  PROVE  /\ IsInitialised(s)' = IsInitialised(s)
         /\ \A n \in 0..RecordsPerSector : Filled(s, n) => Filled(s, n)'
<1>1. s * Sector \in CellsOf(s)
  BY SectorCells
<1>2. IsInitialised(s)' = IsInitialised(s)
  BY <1>1 DEF IsInitialised
<1>3. ASSUME NEW n \in 0..RecordsPerSector, Filled(s, n)
      PROVE  Filled(s, n)'
  <2>1. \A i \in 0..(n - 1) : fat'[Slot(s, i)] = fat[Slot(s, i)]
    BY Slots
  <2>2. \A i \in 0..(n - 1) : \E m \in 1..Len(stored') : fat'[Slot(s, i)] = Record(m)
    BY <1>3, <2>1 DEF Filled
  <2>3. \A a \in Slot(s, n)..((s + 1) * Sector - 1) : fat'[a] = fat[a]
    BY SectorCells
  <2>4. \A a \in Slot(s, n)..((s + 1) * Sector - 1) : fat'[a] = Erased
    BY <1>3, <2>3 DEF Filled
  <2> QED  BY <2>2, <2>4 DEF Filled
<1> QED  BY <1>2, <1>3

(* The record of a message that was stored is a cell of a sector.          *)
LEMMA RecordAt ==
  ASSUME TypeOK, NEW m \in 1..Len(stored)
  PROVE  /\ stored[m] \in [header : 0..(FatEnd - 1), address : 0..(DataEnd - 1), length : Lengths]
         /\ stored[m].header \div Sector \in Sectors
         /\ stored[m].header \in CellsOf(stored[m].header \div Sector)
<1> DEFINE S == [header : 0..(FatEnd - 1), address : 0..(DataEnd - 1), length : Lengths]
<1>1. stored[m] \in S
  <2>1. stored \in Seq(S)
    BY DEF TypeOK
  <2> HIDE DEF S
  <2> QED  BY <2>1
<1> QED  BY <1>1, InSector

-----------------------------------------------------------------------------
(* What a restart finds.                                                   *)

LEMMA Least ==
  ASSUME NEW T \in SUBSET Nat, T # {}
  PROVE  \E x \in T : \A y \in T : x <= y
<1> DEFINE R == OpToRel(<, Nat)
<1>1. IsWellFoundedOn(R, Nat)
  BY NatLessThanWellFounded
<1>2. \A x, y \in Nat : y < x => <<y, x>> \in R
  BY Zenon DEF OpToRel
<1> HIDE DEF R
<1>3. PICK x \in T : \A y \in T : ~ (<<y, x>> \in R)
  BY <1>1, WFMin
<1>4. \A y \in T : ~(y < x)
  BY <1>2, <1>3, Zenon
<1> QED  BY <1>4

(* findCurrentBlock ends at a sector that has a header.                    *)
LEMMA ActiveSectorFound ==
  ASSUME IsInitialised(0)
  PROVE  ActiveSector \in Sectors /\ IsInitialised(ActiveSector)
<1> DEFINE T == {s \in Sectors : s = HeaderSectors - 1 \/ ~Consecutive(s + 1)}
<1>1. HeaderSectors \in Nat \ {0}
  BY FlashDatabaseAssumption
<1>2. T \in SUBSET Nat /\ HeaderSectors - 1 \in T
  BY <1>1 DEF Sectors
<1>3. PICK s \in T : \A t \in T : s <= t
  <2> HIDE DEF T
  <2> QED  BY <1>2, Least
<1>4. s \in Sectors /\ s \in Nat /\ (s = HeaderSectors - 1 \/ ~Consecutive(s + 1))
  BY <1>2, <1>3
<1>5. Consecutive(s)
  <2>1. CASE s = 0
    <3>1. \A t \in 0..s : t = 0
      BY <2>1
    <3>2. 1..s = {}
      BY <2>1
    <3> QED  BY <3>1, <3>2 DEF Consecutive
  <2>2. CASE s # 0
    <3>1. s - 1 \in Sectors /\ (s - 1) + 1 = s /\ ~(s <= s - 1)
      BY <1>1, <1>4, <2>2 DEF Sectors
    <3>2. s - 1 \notin T
      BY <1>3, <3>1
    <3>3. Consecutive((s - 1) + 1)
      BY <3>1, <3>2
    <3> QED  BY <3>1, <3>3
  <2> QED  BY <2>1, <2>2
<1>6. \E u \in 0..(HeaderSectors - 1) :
        /\ Consecutive(u)
        /\ u = HeaderSectors - 1 \/ ~Consecutive(u + 1)
  BY <1>4, <1>5 DEF Sectors
<1>7. ActiveSector \in 0..(HeaderSectors - 1) /\ Consecutive(ActiveSector)
  BY <1>6 DEF ActiveSector
<1>8. ActiveSector \in 0..ActiveSector
  BY <1>7
<1> QED  BY <1>7, <1>8 DEF Consecutive, Sectors

LEMMA RecordsInFilled ==
  ASSUME NEW s \in Sectors, NEW n \in 0..RecordsPerSector, Filled(s, n)
  PROVE  RecordsIn(s) = n
<1> DEFINE P(k) == /\ \A i \in 0..(k - 1) : fat[Slot(s, i)] # Erased
                   /\ k = RecordsPerSector \/ fat[Slot(s, k)] = Erased
<1>1. RecordsPerSector \in Nat /\ n \in Nat /\ n <= RecordsPerSector
  BY FlashDatabaseAssumption
<1>2. \A i \in 0..(n - 1) : fat[Slot(s, i)] # Erased
  BY Kinds DEF Filled
<1>3. n < RecordsPerSector => fat[Slot(s, n)] = Erased
  <2> SUFFICES ASSUME n < RecordsPerSector PROVE fat[Slot(s, n)] = Erased
    OBVIOUS
  <2>1. Slot(s, n) \in Nat /\ Slot(s, n) + 3 <= (s + 1) * Sector
    BY Slots
  <2>2. (s + 1) * Sector \in Nat
    BY SectorAt, Layout
  <2>3. Slot(s, n) \in Slot(s, n)..((s + 1) * Sector - 1)
    BY <2>1, <2>2
  <2> QED  BY <2>3 DEF Filled
<1>4. P(n)
  BY <1>1, <1>2, <1>3
<1>5. ASSUME NEW k \in 0..RecordsPerSector, P(k)
      PROVE  k = n
  <2>1. k \in Nat /\ k <= RecordsPerSector
    BY <1>1
  <2>2. ~(k < n)
    <3> SUFFICES ASSUME k < n PROVE FALSE
      OBVIOUS
    <3>1. k \in 0..(n - 1) /\ k # RecordsPerSector
      BY <1>1, <2>1
    <3> QED  BY <1>2, <1>5, <3>1
  <2>3. ~(n < k)
    <3> SUFFICES ASSUME n < k PROVE FALSE
      OBVIOUS
    <3>1. n \in 0..(k - 1) /\ n < RecordsPerSector
      BY <1>1, <2>1
    <3> QED  BY <1>3, <1>5, <3>1
  <2> QED  BY <1>1, <2>1, <2>2, <2>3
<1>6. RecordsIn(s) = CHOOSE k \in 0..RecordsPerSector : P(k)
  BY DEF RecordsIn
<1> HIDE DEF P
<1> QED  BY <1>4, <1>5, <1>6

(* The data go on behind the message of the last record.                   *)
LEMMA WriteAddressFound ==
  ASSUME TypeOK, StoringInv, NEW s \in Sectors, NEW n \in 0..RecordsPerSector, Filled(s, n)
  PROVE  WriteAddressAfter(s) \in 0..DataEnd
<1>1. RecordsIn(s) = n
  BY RecordsInFilled
<1>2. DataEnd \in Nat
  BY Layout
<1>3. CASE n = 0
  BY <1>1, <1>2, <1>3 DEF WriteAddressAfter
<1>4. CASE n # 0
  <2>1. n - 1 \in 0..(n - 1)
    BY <1>4, FlashDatabaseAssumption
  <2>2. PICK m \in 1..Len(stored) : fat[Slot(s, n - 1)] = Record(m)
    BY <2>1 DEF Filled
  <2>3. fat[Slot(s, n - 1)][2] = m
    BY <2>2, Kinds
  <2>4. WriteAddressAfter(s) = stored[m].address + stored[m].length
    BY <1>1, <1>4, <2>3 DEF WriteAddressAfter
  <2>5. stored[m].address \in Nat /\ stored[m].length \in Nat
    <3>1. stored[m].address \in 0..(DataEnd - 1) /\ stored[m].length \in Lengths
      BY RecordAt
    <3>2. \A l \in Lengths : l \in Nat
      BY FlashDatabaseAssumption
    <3> QED  BY <1>2, <3>1, <3>2
  <2>6. stored[m].address + stored[m].length <= DataEnd
    BY DEF StoringInv
  <2> QED  BY <1>2, <2>4, <2>5, <2>6
<1> QED  BY <1>3, <1>4

LEMMA BootStep ==
  ASSUME IInv, Boot
  PROVE  IInv'
<1>1. PICK s \in Sectors : s = ActiveSector /\ IsInitialised(s)
  BY ActiveSectorFound DEF Boot
<1>2. PICK n \in 0..RecordsPerSector : Filled(s, n)
  BY <1>1 DEF IInv, SectorsFilled
<1>3. curHeader' = Slot(s, n) /\ RecordsIn(s) = n
  BY <1>1, <1>2, RecordsInFilled DEF Boot
<1>4. Slot(s, n) \in 0..FatEnd
  BY <1>1, SectorAt, Slots, Layout
<1>5. curWrite' \in 0..DataEnd
  BY <1>1, <1>2, WriteAddressFound DEF Boot, IInv
<1>6. curCycle' \in 0..255
  <2>1. s * Sector \in 0..(FatEnd - 1)
    BY <1>1, SectorCells
  <2>2. fat[s * Sector] \in Cells
    BY <2>1 DEF IInv, TypeOK
  <2>3. PICK c \in 0..255 : fat[s * Sector] = Header(c)
    BY <1>1, <2>2, InCells DEF IsInitialised
  <2> QED  BY <2>3, <1>1, Kinds DEF Boot, Cycle
<1>7. pc = "off" /\ pc' = "idle"
      /\ UNCHANGED <<fat, data, length, searching, dbSleepEnabled, searchSector, stored, live,
                     activeSector>>
      /\ faults' \subseteq {"wentBack", "notErased"}
  BY DEF Boot, WentBack, flashVars, searchVars, histVars, IInv, TypeOK
<1>8. TypeOK'
  BY <1>3, <1>4, <1>5, <1>6, <1>7 DEF IInv, TypeOK, Cells
<1>9. SectorsFilled'
  BY <1>7 DEF IInv, SectorsFilled, IsInitialised, Filled
<1>10. PlaceInv'
  <2>1. IsInitialised(s)' /\ Filled(s, n)'
    BY <1>1, <1>2, <1>7 DEF IsInitialised, Filled
  <2>2. InHeadedSector'
    BY <1>1, <1>3, <2>1 DEF InHeadedSector, Slot
  <2> QED  BY <1>7, <2>2 DEF PlaceInv
<1>11. StoringInv'
  BY <1>7 DEF IInv, StoringInv
<1>12. RecordsKept' /\ FirstSectorEmpty'
  BY <1>7 DEF IInv, RecordsKept, FirstSectorEmpty, Readable, IsInitialised
<1>13. WritesInRegion' /\ FirstSectorClean'
  BY <1>7 DEF IInv, WritesInRegion, FirstSectorClean
<1> QED  BY <1>8, <1>9, <1>10, <1>11, <1>12, <1>13 DEF IInv

-----------------------------------------------------------------------------
(* A sector is begun: it is erased, and gets its header.                   *)

LEMMA Erasing ==
  ASSUME IInv, NEW s \in Sectors,
         fat' = [a \in 0..(FatEnd - 1) |-> IF a \in CellsOf(s) THEN Erased ELSE fat[a]],
         stored' = stored, live' \subseteq live, live' \intersect RecordedIn(s) = {},
         pc # "writeData", pc' # "writeData"
  PROVE  /\ fat' \in [0..(FatEnd - 1) -> Cells]
         /\ \A a \in CellsOf(s) : fat'[a] = Erased
         /\ SectorsFilled' /\ RecordsKept' /\ FirstSectorEmpty' /\ FirstSectorClean'
         /\ (live \intersect RecordedIn(s) = {})'
<1>1. fat' \in [0..(FatEnd - 1) -> Cells]
  BY InCells DEF IInv, TypeOK
<1>2. \A a \in CellsOf(s) : fat'[a] = Erased
  BY SectorCells
<1>3. ASSUME NEW t \in Sectors, t # s
      PROVE  /\ \A a \in CellsOf(t) : fat'[a] = fat[a]
             /\ IsInitialised(t)' = IsInitialised(t)
             /\ \A n \in 0..RecordsPerSector : Filled(t, n) => Filled(t, n)'
  <2>1. \A a \in CellsOf(t) : fat'[a] = fat[a]
    BY <1>3, SectorCells
  <2> QED  BY <2>1, Undisturbed
<1>4. ~IsInitialised(s)'
  BY <1>2, SectorCells, Kinds DEF IsInitialised
<1>5. SectorsFilled'
  <2> SUFFICES ASSUME NEW t \in Sectors, IsInitialised(t)'
               PROVE  \E n \in 0..RecordsPerSector : Filled(t, n)'
    BY DEF SectorsFilled, Sectors
  <2>1. t # s
    BY <1>4
  <2> QED  BY <1>3, <2>1 DEF IInv, SectorsFilled
<1>6. RecordsKept'
  <2> SUFFICES ASSUME NEW m \in live, m \in live', Readable(m)'
               PROVE  fat'[stored[m].header] = Record(m)
    BY DEF RecordsKept
  <2>1. m \in 1..Len(stored)
    BY DEF IInv, TypeOK
  <2>2. PICK t \in Sectors : t = stored[m].header \div Sector /\ stored[m].header \in CellsOf(t)
    BY <2>1, RecordAt DEF IInv
  <2>3. IsInitialised(t)'
    BY <2>2 DEF Readable, IsInitialised
  <2>4. t # s
    BY <1>4, <2>3 DEF IsInitialised
  <2>5. IsInitialised(t) /\ fat'[stored[m].header] = fat[stored[m].header]
    BY <1>3, <2>2, <2>3, <2>4 DEF IsInitialised
  <2> QED  BY <2>2, <2>5 DEF IInv, RecordsKept, Readable
<1>7. FirstSectorEmpty'
  <2> SUFFICES ASSUME ~IsInitialised(0)', NEW m \in live'
               PROVE  stored[m].header \div Sector # 0
    BY DEF FirstSectorEmpty
  <2>1. CASE s = 0
    <3>1. m \in 1..Len(stored)
      BY DEF IInv, TypeOK
    <3> QED  BY <2>1, <3>1 DEF RecordedIn
  <2>2. CASE s # 0
    <3>1. 0 \in Sectors
      BY FlashDatabaseAssumption DEF Sectors
    <3>2. ~IsInitialised(0)
      BY <1>3, <2>2, <3>1
    <3> QED  BY <3>2 DEF IInv, FirstSectorEmpty
  <2> QED  BY <2>1, <2>2
<1>8. FirstSectorClean'
  <2> SUFFICES ASSUME NEW a \in 0..(Sector - 1) PROVE fat'[a] # Garbled
    BY DEF FirstSectorClean
  <2>1. a \in 0..(FatEnd - 1)
    BY FirstCells
  <2> QED  BY <2>1, Kinds DEF IInv, FirstSectorClean
<1>9. (live \intersect RecordedIn(s) = {})'
  BY DEF RecordedIn
<1> QED  BY <1>1, <1>2, <1>5, <1>6, <1>7, <1>8, <1>9

LEMMA Heading ==
  ASSUME IInv, NEW s \in Sectors, Begun(s), NEW c \in 0..255,
         fat' = [fat EXCEPT ![s * Sector] = Program(fat[s * Sector], Header(c))],
         curHeader' = s * Sector + 1, stored' = stored, live' = live,
         pc # "writeData", pc' # "writeData"
  PROVE  /\ fat' \in [0..(FatEnd - 1) -> Cells]
         /\ SectorsFilled' /\ RecordsKept' /\ FirstSectorEmpty' /\ FirstSectorClean'
         /\ InHeadedSector'
<1>1. s * Sector \in CellsOf(s) /\ s * Sector \in 0..(FatEnd - 1)
  BY SectorCells
<1>2. fat[s * Sector] = Erased
  BY <1>1 DEF Begun
<1>3. fat' = [fat EXCEPT ![s * Sector] = Header(c)]
  BY <1>2 DEF Program
<1>4. fat' \in [0..(FatEnd - 1) -> Cells]
  <2>1. Header(c) \in Cells /\ fat \in [0..(FatEnd - 1) -> Cells]
    BY InCells DEF IInv, TypeOK
  <2> QED  BY <1>3, <2>1
<1>5. /\ fat'[s * Sector] = Header(c)
      /\ \A a \in 0..(FatEnd - 1) : a # s * Sector => fat'[a] = fat[a]
  BY <1>1, <1>3 DEF IInv, TypeOK
<1>6. IsInitialised(s)'
  BY <1>5, Kinds DEF IsInitialised
<1>7. Filled(s, 0)'
  <2>1. 0 \in 0..RecordsPerSector
    BY FlashDatabaseAssumption
  <2>2. Slot(s, 0)..((s + 1) * Sector - 1) \subseteq CellsOf(s) \ {s * Sector}
    BY <2>1, SectorCells
  <2>3. \A a \in Slot(s, 0)..((s + 1) * Sector - 1) : fat'[a] = Erased
    BY <1>5, <2>2, SectorCells DEF Begun
  <2>4. 0..(0 - 1) = {}
    OBVIOUS
  <2> QED  BY <2>3, <2>4 DEF Filled
<1>8. ASSUME NEW t \in Sectors, t # s
      PROVE  /\ \A a \in CellsOf(t) : fat'[a] = fat[a]
             /\ IsInitialised(t)' = IsInitialised(t)
             /\ \A n \in 0..RecordsPerSector : Filled(t, n) => Filled(t, n)'
  <2>1. \A a \in CellsOf(t) : a \in 0..(FatEnd - 1) /\ a # s * Sector
    BY <1>1, <1>8, SectorCells
  <2>2. \A a \in CellsOf(t) : fat'[a] = fat[a]
    BY <1>5, <2>1
  <2> QED  BY <2>2, Undisturbed
<1>9. SectorsFilled'
  <2> SUFFICES ASSUME NEW t \in Sectors, IsInitialised(t)'
               PROVE  \E n \in 0..RecordsPerSector : Filled(t, n)'
    BY DEF SectorsFilled, Sectors
  <2>1. CASE t = s
    BY <1>7, <2>1, FlashDatabaseAssumption
  <2>2. CASE t # s
    BY <1>8, <2>2 DEF IInv, SectorsFilled
  <2> QED  BY <2>1, <2>2
<1>10. RecordsKept'
  <2> SUFFICES ASSUME NEW m \in live, Readable(m)'
               PROVE  fat'[stored[m].header] = Record(m)
    BY DEF RecordsKept
  <2>1. m \in 1..Len(stored)
    BY DEF IInv, TypeOK
  <2>2. PICK t \in Sectors : t = stored[m].header \div Sector /\ stored[m].header \in CellsOf(t)
    BY <2>1, RecordAt DEF IInv
  <2>3. IsInitialised(t)'
    BY <2>2 DEF Readable, IsInitialised
  <2>4. t # s
    BY <2>1, <2>2 DEF Begun, RecordedIn
  <2>5. IsInitialised(t) /\ fat'[stored[m].header] = fat[stored[m].header]
    BY <1>8, <2>2, <2>3, <2>4 DEF IsInitialised
  <2> QED  BY <2>2, <2>5 DEF IInv, RecordsKept, Readable
<1>11. FirstSectorEmpty'
  <2> SUFFICES ASSUME ~IsInitialised(0)', NEW m \in live
               PROVE  stored[m].header \div Sector # 0
    BY DEF FirstSectorEmpty
  <2>1. 0 \in Sectors
    BY FlashDatabaseAssumption DEF Sectors
  <2>2. s # 0
    BY <1>6
  <2>3. ~IsInitialised(0)
    BY <1>8, <2>1, <2>2
  <2> QED  BY <2>3 DEF IInv, FirstSectorEmpty
<1>12. FirstSectorClean'
  <2> SUFFICES ASSUME NEW a \in 0..(Sector - 1) PROVE fat'[a] # Garbled
    BY DEF FirstSectorClean
  <2>1. a \in 0..(FatEnd - 1)
    BY FirstCells
  <2> QED  BY <1>5, <2>1, Kinds DEF IInv, FirstSectorClean
<1>13. InHeadedSector'
  <2>1. 0 \in 0..RecordsPerSector
    BY FlashDatabaseAssumption
  <2>2. Slot(s, 0) = s * Sector + 1
    <3>1. s * Sector \in Nat
      BY SectorAt
    <3> DEFINE base == s * Sector
    <3>2. Slot(s, 0) = base + 1 + 3 * 0
      BY <2>1, Slots
    <3> HIDE DEF base
    <3>3. base \in Nat
      BY <3>1 DEF base
    <3>4. Slot(s, 0) = base + 1
      BY <3>2, <3>3
    <3> QED  BY <3>4 DEF base
  <2> QED  BY <1>6, <1>7, <2>1, <2>2 DEF InHeadedSector, Slot
<1> QED  BY <1>4, <1>9, <1>10, <1>11, <1>12, <1>13

LEMMA SlotFits ==
  ASSUME NEW s \in Sectors, NEW n \in 0..(RecordsPerSector - 1)
  PROVE  /\ Slot(s, n) + RecordLen <= FatEnd
         /\ Slot(s, n) \div Sector = (Slot(s, n) + RecordLen - 1) \div Sector
         /\ Slot(s, n) \in 0..FatEnd
         /\ \A a \in Slot(s, n)..(Slot(s, n) + RecordLen - 1) : a \in CellsOf(s) \ {s * Sector}
<1> DEFINE c == Slot(s, n)
           next == (s + 1) * Sector
<1>1. n \in 0..RecordsPerSector /\ n < RecordsPerSector
  BY FlashDatabaseAssumption
<1>2. c \in Nat /\ c + 3 <= next /\ next <= FatEnd /\ next \in Nat /\ FatEnd \in Nat
  BY <1>1, Slots, SectorAt, Layout
<1>3. c..(next - 1) \subseteq CellsOf(s) \ {s * Sector}
  BY <1>1, SectorCells
<1> HIDE DEF c, next
<1>4. c \in c..(next - 1) /\ c + 3 - 1 \in c..(next - 1)
  BY <1>2
<1>5. c \div Sector = s /\ (c + 3 - 1) \div Sector = s
  BY <1>3, <1>4, SectorOf
<1>6. \A a \in c..(c + 3 - 1) : a \in c..(next - 1)
  BY <1>2
<1>7. c + 3 <= FatEnd /\ c \in 0..FatEnd
  BY <1>2
<1> QED  BY <1>3, <1>5, <1>6, <1>7 DEF c, RecordLen

LEMMA FirstSlot ==
  ASSUME NEW s \in Sectors
  PROVE  Slot(s, 0) = s * Sector + 1
<1>1. s * Sector \in Nat /\ 0 \in 0..RecordsPerSector
  BY SectorAt, FlashDatabaseAssumption
<1> DEFINE base == s * Sector
<1>2. Slot(s, 0) = base + 1 + 3 * 0 /\ base \in Nat
  BY <1>1, Slots
<1> HIDE DEF base
<1>3. Slot(s, 0) = base + 1
  BY <1>2
<1> QED  BY <1>3 DEF base

LEMMA BootEraseStep ==
  ASSUME IInv, BootErase
  PROVE  IInv'
<1>1. /\ pc = "off" /\ pc' = "bootInit" /\ ~IsInitialised(0)
      /\ fat' = [a \in 0..(FatEnd - 1) |-> IF a < Sector THEN Erased ELSE fat[a]]
      /\ UNCHANGED <<data, curHeader, curWrite, curCycle, length, searching, dbSleepEnabled,
                     searchSector, stored, live, activeSector, faults>>
  BY DEF BootErase, curVars, searchVars, histVars
<1>2. live \intersect RecordedIn(0) = {}
  BY <1>1 DEF IInv, FirstSectorEmpty, RecordedIn
<1>3. fat' = [a \in 0..(FatEnd - 1) |-> IF a \in CellsOf(0) THEN Erased ELSE fat[a]]
  <2>1. Sector \in Nat /\ FatEnd \in Nat
    BY Layout
  <2>2. \A a \in 0..(FatEnd - 1) : a < Sector <=> a \in 0..(Sector - 1)
    BY <2>1
  <2> QED  BY <1>1, <2>2, FirstCells
<1>4. /\ fat' \in [0..(FatEnd - 1) -> Cells]
      /\ \A a \in CellsOf(0) : fat'[a] = Erased
      /\ SectorsFilled' /\ RecordsKept' /\ FirstSectorEmpty' /\ FirstSectorClean'
      /\ (live \intersect RecordedIn(0) = {})'
  <2>1. 0 \in Sectors /\ pc # "writeData" /\ pc' # "writeData"
    BY <1>1, FirstCells
  <2>2. live' \intersect RecordedIn(0) = {} /\ live' \subseteq live /\ stored' = stored
    BY <1>1, <1>2
  <2> QED  BY <1>3, <2>1, <2>2, Erasing
<1>5. TypeOK'
  BY <1>1, <1>4 DEF IInv, TypeOK
<1>6. PlaceInv'
  <2>1. curHeader' = 0 /\ 0 * Sector = 0
    BY <1>1, FirstCells DEF IInv, PlaceInv
  <2>2. Begun(0)'
    BY <1>4, <2>1 DEF Begun, CellsOf
  <2> QED  BY <1>1, <2>1, <2>2 DEF PlaceInv
<1>7. StoringInv' /\ WritesInRegion'
  BY <1>1 DEF IInv, StoringInv, WritesInRegion
<1> QED  BY <1>4, <1>5, <1>6, <1>7 DEF IInv

LEMMA BootInitStep ==
  ASSUME IInv, BootInit
  PROVE  IInv'
<1>1. /\ pc = "bootInit" /\ pc' = "idle"
      /\ fat' = [fat EXCEPT ![0] = Program(fat[0], Header(0))]
      /\ curHeader' = 1 /\ activeSector' = 0
      /\ UNCHANGED <<data, curWrite, curCycle, length, searching, dbSleepEnabled,
                     searchSector, stored, live, faults>>
  BY DEF BootInit, curVars, searchVars, histVars
<1>2. Begun(0) /\ 0 \in Sectors /\ 0 * Sector = 0
  BY <1>1, FirstCells DEF IInv, PlaceInv
<1>3. /\ fat' \in [0..(FatEnd - 1) -> Cells]
      /\ SectorsFilled' /\ RecordsKept' /\ FirstSectorEmpty' /\ FirstSectorClean'
      /\ InHeadedSector'
  <2>1. pc # "writeData" /\ pc' # "writeData" /\ 0 \in 0..255 /\ curHeader' = 0 * Sector + 1
    BY <1>1, <1>2
  <2>2. fat' = [fat EXCEPT ![0 * Sector] = Program(fat[0 * Sector], Header(0))]
    BY <1>1, <1>2
  <2> QED  BY <1>1, <1>2, <2>1, <2>2, Heading
<1>4. TypeOK'
  <2>1. 1 \in 0..FatEnd /\ 0 \in 0..(HeaderSectors - 1)
    BY Layout, FlashDatabaseAssumption
  <2> QED  BY <1>1, <1>3, <2>1 DEF IInv, TypeOK
<1>5. PlaceInv'
  BY <1>1, <1>3 DEF PlaceInv
<1>6. StoringInv' /\ WritesInRegion'
  BY <1>1 DEF IInv, StoringInv, WritesInRegion
<1> QED  BY <1>3, <1>4, <1>5, <1>6 DEF IInv

LEMMA EraseFatStep ==
  ASSUME IInv, EraseFat
  PROVE  IInv'
<1>1. /\ pc = "eraseFat" /\ pc' = "initFat"
      /\ live' = live \ RecordedIn(curHeader \div Sector)
      /\ UNCHANGED <<data, curHeader, curWrite, curCycle, length, searching, dbSleepEnabled,
                     searchSector, stored, activeSector, faults>>
  BY DEF EraseFat, curVars, searchVars
<1>2. PICK s \in Sectors : curHeader = s * Sector
  BY <1>1 DEF IInv, PlaceInv
<1>3. curHeader \div Sector = s
  BY <1>2, SectorCells, SectorOf
<1>4. fat' = [a \in 0..(FatEnd - 1) |-> IF a \in CellsOf(s) THEN Erased ELSE fat[a]]
  <2>1. CellsOf(s) = curHeader..(curHeader + Sector - 1)
    <3> DEFINE next == (s + 1) * Sector
    <3>1. next = curHeader + Sector /\ curHeader \in Nat /\ Sector \in Nat
      BY <1>2, SectorAt, Layout
    <3>2. CellsOf(s) = curHeader..(next - 1)
      BY <1>2 DEF CellsOf
    <3> HIDE DEF next
    <3> QED  BY <3>1, <3>2
  <2> QED  BY <2>1 DEF EraseFat
<1>5. /\ fat' \in [0..(FatEnd - 1) -> Cells]
      /\ \A a \in CellsOf(s) : fat'[a] = Erased
      /\ SectorsFilled' /\ RecordsKept' /\ FirstSectorEmpty' /\ FirstSectorClean'
      /\ (live \intersect RecordedIn(s) = {})'
  <2>1. pc # "writeData" /\ pc' # "writeData"
    BY <1>1
  <2>2. live' \intersect RecordedIn(s) = {} /\ live' \subseteq live /\ stored' = stored
    BY <1>1, <1>3
  <2> QED  BY <1>4, <2>1, <2>2, Erasing
<1>6. TypeOK'
  BY <1>1, <1>5 DEF IInv, TypeOK
<1>7. PlaceInv'
  <2>1. Begun(s)'
    BY <1>1, <1>2, <1>5 DEF Begun, CellsOf
  <2> QED  BY <1>1, <2>1 DEF PlaceInv, Sectors, Begun, CellsOf, RecordedIn
<1>8. StoringInv' /\ WritesInRegion'
  BY <1>1 DEF IInv, StoringInv, WritesInRegion
<1> QED  BY <1>5, <1>6, <1>7, <1>8 DEF IInv

LEMMA InitFatStep ==
  ASSUME IInv, InitFat
  PROVE  IInv'
<1>1. /\ pc = "initFat" /\ pc' = "placeData"
      /\ curCycle' = (curCycle + 1) % 256
      /\ fat' = [fat EXCEPT ![curHeader] = Program(fat[curHeader], Header(curCycle'))]
      /\ activeSector' = curHeader \div Sector
      /\ curHeader' = curHeader + 1
      /\ UNCHANGED <<data, curWrite, length, searching, dbSleepEnabled,
                     searchSector, stored, live, faults>>
  BY DEF InitFat, searchVars
<1>2. PICK s \in Sectors : Begun(s)
  BY <1>1 DEF IInv, PlaceInv
<1>3. curHeader = s * Sector /\ curHeader \div Sector = s
  BY <1>2, SectorCells, SectorOf DEF Begun
<1>4. curCycle' \in 0..255
  <2>1. curCycle \in Nat
    BY DEF IInv, TypeOK
  <2> QED  BY <1>1, <2>1
<1>5. /\ fat' \in [0..(FatEnd - 1) -> Cells]
      /\ SectorsFilled' /\ RecordsKept' /\ FirstSectorEmpty' /\ FirstSectorClean'
      /\ InHeadedSector'
  <2>1. pc # "writeData" /\ pc' # "writeData" /\ curHeader' = s * Sector + 1
    BY <1>1, <1>3
  <2>2. fat' = [fat EXCEPT ![s * Sector] = Program(fat[s * Sector], Header(curCycle'))]
    BY <1>1, <1>3
  <2> QED  BY <1>1, <1>2, <1>4, <2>1, <2>2, Heading
<1>6. curHeader' = Slot(s, 0) /\ 0 \in 0..(RecordsPerSector - 1)
  BY <1>1, <1>3, FirstSlot, FlashDatabaseAssumption
<1>7. TypeOK'
  <2>1. curHeader' \in 0..FatEnd
    BY <1>6, SlotFits
  <2>2. activeSector' \in 0..(HeaderSectors - 1)
    BY <1>1, <1>3 DEF Sectors
  <2> QED  BY <1>1, <1>4, <1>5, <2>1, <2>2 DEF IInv, TypeOK
<1>8. PlaceInv'
  BY <1>1, <1>5 DEF PlaceInv
<1>9. StoringInv'
  <2>1. /\ curHeader' + RecordLen <= FatEnd
        /\ curHeader' \div Sector = (curHeader' + RecordLen - 1) \div Sector
    BY <1>6, SlotFits
  <2>2. Len(stored) < MaxMessages /\ length \in Lengths
    BY <1>1 DEF IInv, StoringInv
  <2>3. \A m \in 1..Len(stored) : stored[m].address + stored[m].length <= DataEnd
    BY DEF IInv, StoringInv
  <2>4. pc' # "writeData"
    BY <1>1
  <2>5. stored' = stored /\ length' = length
    BY <1>1
  <2> QED  BY <2>1, <2>2, <2>3, <2>4, <2>5 DEF StoringInv
<1>10. WritesInRegion'
  BY <1>1 DEF IInv, WritesInRegion
<1> QED  BY <1>5, <1>7, <1>8, <1>9, <1>10 DEF IInv

-----------------------------------------------------------------------------
(* A message is stored.                                                    *)

LEMMA StoreStep ==
  ASSUME IInv, NEW len \in Lengths, Store(len)
  PROVE  IInv'
<1>1. /\ pc = "idle" /\ Len(stored) < MaxMessages /\ length' = len
      /\ UNCHANGED <<fat, data, curWrite, curCycle, searching, dbSleepEnabled,
                     searchSector, stored, live, activeSector, faults>>
  BY DEF Store, flashVars, searchVars, histVars
<1>2. IF NewFatSector THEN \E s \in 0..(HeaderSectors - 1) : RecordEnd - (RecordEnd % Sector) = s * Sector
      ELSE /\ curHeader + RecordLen <= FatEnd
           /\ curHeader \div Sector = (curHeader + RecordLen - 1) \div Sector
  <2>1. Sector \in Nat \ {0} /\ 3 \in 1..(Sector - 1) /\ RecordLen = 3
    BY Layout
  <2>2. HeaderSectors \in Nat \ {0}
    BY FlashDatabaseAssumption
  <2>3. curHeader \in Nat /\ curHeader <= HeaderSectors * Sector
    BY Layout DEF IInv, TypeOK, FatEnd
  <2>4. IF Begins(curHeader, 3, Sector, HeaderSectors)
        THEN \E s \in 0..(HeaderSectors - 1) :
               EndAt(curHeader, 3, Sector, HeaderSectors)
                 - (EndAt(curHeader, 3, Sector, HeaderSectors) % Sector) = s * Sector
        ELSE curHeader + 3 <= HeaderSectors * Sector
             /\ curHeader \div Sector = (curHeader + 3 - 1) \div Sector
    BY <2>1, <2>2, <2>3, EndsOfBlocks
  <2>5. RecordEnd = EndAt(curHeader, 3, Sector, HeaderSectors)
    BY Zenon DEF RecordEnd, EndAt, FatWraps, RecordLen, FatEnd
  <2>6. NewFatSector = Begins(curHeader, 3, Sector, HeaderSectors)
    BY <2>5, Zenon DEF NewFatSector, Begins, FatWraps, RecordLen, FatEnd
  <2> QED  BY <2>4, <2>5, <2>6, Zenon DEF FatEnd, RecordLen
<1>3. FirstSectorEmpty' /\ RecordsKept' /\ SectorsFilled' /\ FirstSectorClean'
  <2>1. FirstSectorEmpty'
    <3>1. pc # "writeData" /\ pc' # "writeData"
      BY <1>1 DEF Store
    <3> QED  BY <1>1, <3>1 DEF IInv, FirstSectorEmpty, IsInitialised
  <2>2. RecordsKept'
    BY <1>1 DEF IInv, RecordsKept, Readable, IsInitialised
  <2>3. SectorsFilled'
    BY <1>1 DEF IInv, SectorsFilled, IsInitialised, Filled
  <2>4. FirstSectorClean'
    BY <1>1 DEF IInv, FirstSectorClean
  <2> QED  BY <2>1, <2>2, <2>3, <2>4
<1>4. CASE NewFatSector
  <2>1. curHeader' = RecordEnd - (RecordEnd % Sector) /\ pc' = "eraseFat"
    BY <1>4 DEF Store
  <2>2. PICK s \in Sectors : curHeader' = s * Sector
    BY <1>2, <1>4, <2>1 DEF Sectors
  <2>3. curHeader' \in 0..FatEnd
    BY <2>2, SectorAt, Layout
  <2>4. TypeOK'
    BY <1>1, <2>1, <2>3 DEF IInv, TypeOK
  <2>5. PlaceInv'
    BY <2>1, <2>2 DEF PlaceInv
  <2>6. StoringInv' /\ WritesInRegion'
    BY <1>1, <2>1 DEF IInv, StoringInv, WritesInRegion
  <2> QED  BY <1>3, <2>4, <2>5, <2>6 DEF IInv
<1>5. CASE ~NewFatSector
  <2>1. curHeader' = curHeader /\ pc' = "placeData"
    BY <1>5 DEF Store
  <2>2. TypeOK'
    BY <1>1, <2>1 DEF IInv, TypeOK
  <2>3. PlaceInv'
    <3>1. InHeadedSector \/ InHeadlessSector
      BY <1>1 DEF IInv, PlaceInv
    <3>2. InHeadedSector => InHeadedSector'
      BY <1>1, <2>1 DEF InHeadedSector, IsInitialised, Filled
    <3>3. InHeadlessSector => InHeadlessSector'
      BY <1>1, <2>1 DEF InHeadlessSector, IsInitialised
    <3> QED  BY <2>1, <3>1, <3>2, <3>3 DEF PlaceInv
  <2>4. StoringInv' /\ WritesInRegion'
    BY <1>1, <1>2, <1>5, <2>1 DEF IInv, StoringInv, WritesInRegion
  <2> QED  BY <1>3, <2>2, <2>3, <2>4 DEF IInv
<1> QED  BY <1>4, <1>5

(* What checkEndsOfBlocks decides for the data.                            *)
LEMMA DataEnds ==
  ASSUME IInv, pc = "placeData"
  PROVE  IF NewDataSector
         THEN \E s \in 0..(DataSectors - 1) :
                MessageEnd - (MessageEnd % DataSector) = s * DataSector
         ELSE /\ curWrite + length <= DataEnd
              /\ curWrite \div DataSector = (curWrite + length - 1) \div DataSector
<1>1. length \in 1..(DataSector - 1) /\ DataSector \in Nat \ {0} /\ DataSectors \in Nat \ {0}
  BY FlashDatabaseAssumption DEF IInv, StoringInv
<1>2. curWrite \in Nat /\ curWrite <= DataSectors * DataSector
  BY Layout DEF IInv, TypeOK, DataEnd
<1>3. IF Begins(curWrite, length, DataSector, DataSectors)
      THEN \E s \in 0..(DataSectors - 1) :
             EndAt(curWrite, length, DataSector, DataSectors)
               - (EndAt(curWrite, length, DataSector, DataSectors) % DataSector) = s * DataSector
      ELSE curWrite + length <= DataSectors * DataSector
           /\ curWrite \div DataSector = (curWrite + length - 1) \div DataSector
  BY <1>1, <1>2, EndsOfBlocks
<1>4. MessageEnd = EndAt(curWrite, length, DataSector, DataSectors)
  BY Zenon DEF MessageEnd, EndAt, DataWraps, DataEnd
<1>5. NewDataSector = Begins(curWrite, length, DataSector, DataSectors)
  BY <1>4, Zenon DEF NewDataSector, Begins, DataWraps, DataEnd
<1> QED  BY <1>3, <1>4, <1>5, Zenon DEF DataEnd

LEMMA PlaceDataStep ==
  ASSUME IInv, PlaceData
  PROVE  IInv'
<1>1. /\ pc = "placeData" /\ pc' = "writeRecord" /\ Len(stored) < MaxMessages /\ length \in Lengths
      /\ UNCHANGED <<fat, curHeader, curCycle, length, searching, dbSleepEnabled,
                     searchSector, stored, activeSector>>
      /\ faults' \subseteq {"wentBack", "notErased"}
  BY DEF PlaceData, DataNotErased, searchVars, TypeOK, IInv, StoringInv
<1>2. length \in 1..(DataSector - 1) /\ DataSector \in Nat \ {0} /\ DataSectors \in Nat \ {0}
  BY <1>1, FlashDatabaseAssumption
<1>3. IF NewDataSector
      THEN \E s \in 0..(DataSectors - 1) : MessageEnd - (MessageEnd % DataSector) = s * DataSector
      ELSE /\ curWrite + length <= DataEnd
           /\ curWrite \div DataSector = (curWrite + length - 1) \div DataSector
  BY <1>1, DataEnds
<1>4. /\ curWrite' \in 0..DataEnd
      /\ curWrite' + length <= DataEnd
      /\ curWrite' \div DataSector = (curWrite' + length - 1) \div DataSector
  <2>1. CASE NewDataSector
    <3>1. curWrite' = MessageEnd - (MessageEnd % DataSector)
      BY <2>1 DEF PlaceData
    <3>2. PICK s \in 0..(DataSectors - 1) : curWrite' = s * DataSector
      BY <1>3, <2>1, <3>1
    <3>3. s \in Nat /\ DataSectors \in Nat /\ s < DataSectors
      BY <1>2
    <3> DEFINE base == s * DataSector
    <3>4. base \in Nat /\ base + DataSector <= DataEnd /\ DataEnd \in Nat
      BY <1>2, <3>3, BlocksApart, Layout DEF DataEnd
    <3>5. curWrite' = base
      BY <3>2
    <3> HIDE DEF base
    <3>6. /\ base = base + 0 /\ 0 \in 0..(DataSector - 1)
          /\ base + length - 1 = base + (length - 1) /\ length - 1 \in 0..(DataSector - 1)
          /\ base + length - 1 \in Nat
      BY <1>2, <3>4
    <3>7. base \div DataSector = s /\ (base + length - 1) \div DataSector = s
      BY <1>2, <3>3, <3>4, <3>6, BlockOf DEF base
    <3>8. base \in 0..DataEnd /\ base + length <= DataEnd
      BY <1>2, <3>4
    <3> QED  BY <3>5, <3>7, <3>8
  <2>2. CASE ~NewDataSector
    <3>1. curWrite' = curWrite
      BY <2>2 DEF PlaceData
    <3> QED  BY <1>3, <2>2, <3>1 DEF IInv, TypeOK
  <2> QED  BY <2>1, <2>2
<1>5. data' \in [0..(DataEnd - 1) -> -1..MaxMessages] /\ live' \subseteq live
  <2>1. NoOne \in -1..MaxMessages
    BY FlashDatabaseAssumption DEF NoOne
  <2>2. data \in [0..(DataEnd - 1) -> -1..MaxMessages]
    BY DEF IInv, TypeOK
  <2> DEFINE start == MessageEnd - (MessageEnd % DataSector)
  <2>3. \/ /\ data' = [a \in 0..(DataEnd - 1) |->
                         IF a \in start..(start + DataSector - 1) THEN NoOne ELSE data[a]]
           /\ live' = live \ DataIn(start \div DataSector)
        \/ data' = data /\ live' = live
    BY DEF PlaceData
  <2> HIDE DEF start
  <2> QED  BY <2>1, <2>2, <2>3
<1>6. TypeOK'
  BY <1>1, <1>4, <1>5 DEF IInv, TypeOK
<1>7. PlaceInv'
  <2>1. InHeadedSector \/ InHeadlessSector
    BY <1>1 DEF IInv, PlaceInv
  <2>2. InHeadedSector => InHeadedSector'
    BY <1>1 DEF InHeadedSector, IsInitialised, Filled
  <2>3. InHeadlessSector => InHeadlessSector'
    BY <1>1 DEF InHeadlessSector, IsInitialised
  <2> QED  BY <1>1, <2>1, <2>2, <2>3 DEF PlaceInv
<1>8. StoringInv'
  BY <1>1 DEF IInv, StoringInv
<1>9. WritesInRegion'
  BY <1>1, <1>4 DEF IInv, StoringInv, WritesInRegion
<1>10. SectorsFilled' /\ FirstSectorClean'
  BY <1>1 DEF IInv, SectorsFilled, IsInitialised, Filled, FirstSectorClean
<1>11. RecordsKept' /\ FirstSectorEmpty'
  BY <1>1, <1>5 DEF IInv, RecordsKept, FirstSectorEmpty, Readable, IsInitialised
<1> QED  BY <1>6, <1>7, <1>8, <1>9, <1>10, <1>11 DEF IInv

(* What writing a record does to the FAT, wherever that is.                *)
LEMMA RecordWritten ==
  ASSUME IInv, WriteRecord
  PROVE  /\ stored' = Append(stored, [header |-> curHeader, address |-> curWrite, length |-> length])
         /\ Len(stored) \in Nat
         /\ Len(stored') = Len(stored) + 1 /\ Len(stored) + 1 \in 1..MaxMessages
         /\ \A k \in 1..Len(stored) : stored'[k] = stored[k]
         /\ stored'[Len(stored) + 1] = [header |-> curHeader, address |-> curWrite, length |-> length]
         /\ length \in Lengths /\ curWrite \in 0..(DataEnd - 1) /\ curWrite + length <= DataEnd
         /\ fat' \in [0..(FatEnd - 1) -> Cells]
         /\ curHeader \in 0..(FatEnd - 1)
         /\ \E t \in Sectors :
              /\ curHeader \div Sector = t
              /\ \A a \in curHeader..(curHeader + 2) : a \in CellsOf(t)
              /\ fat'[curHeader] = Program(fat[curHeader], Record(Len(stored) + 1))
              /\ \A a \in (curHeader + 1)..(curHeader + 2) :
                   fat'[a] = Program(fat[a], Rest(Len(stored) + 1))
              /\ \A a \in 0..(FatEnd - 1) :
                   a \notin curHeader..(curHeader + 2) => fat'[a] = fat[a]
<1> DEFINE r == [header |-> curHeader, address |-> curWrite, length |-> length]
           S == [header : 0..(FatEnd - 1), address : 0..(DataEnd - 1), length : Lengths]
           m == Len(stored) + 1
<1>1. stored \in Seq(S) /\ pc = "writeRecord" /\ length \in Lengths /\ Len(stored) < MaxMessages
  BY DEF IInv, TypeOK, StoringInv, WriteRecord
<1>2. stored' = Append(stored, r)
  BY DEF WriteRecord
<1>3. /\ Len(stored') = Len(stored) + 1 /\ Len(stored) \in Nat
      /\ \A k \in 1..Len(stored) : stored'[k] = stored[k]
      /\ stored'[Len(stored) + 1] = r
  <2> HIDE DEF r, S
  <2> QED  BY <1>1, <1>2
<1>4. m \in 1..MaxMessages
  BY <1>1, <1>3, FlashDatabaseAssumption
<1>5. FatEnd \in Nat /\ DataEnd \in Nat /\ curHeader \in Nat /\ curWrite \in Nat
  BY Layout DEF IInv, TypeOK
<1>6. curWrite + length <= DataEnd /\ curHeader + 3 <= FatEnd
      /\ curHeader \div Sector = (curHeader + 3 - 1) \div Sector
  BY <1>1 DEF IInv, WritesInRegion, RecordLen
<1>7. length \in Nat \ {0}
  BY <1>1, FlashDatabaseAssumption
<1>8. /\ curWrite \in 0..(DataEnd - 1) /\ curHeader \in 0..(FatEnd - 1)
      /\ curHeader + 3 - 1 \in 0..(FatEnd - 1)
  BY <1>5, <1>6, <1>7
<1>9. PICK t \in Sectors : /\ t = curHeader \div Sector
                           /\ curHeader \in CellsOf(t) /\ curHeader + 3 - 1 \in CellsOf(t)
  BY <1>6, <1>8, InSector
<1>10. \A a \in curHeader..(curHeader + 2) : a \in CellsOf(t)
  <2> DEFINE base == t * Sector
             next == (t + 1) * Sector
  <2>1. base \in Nat /\ next \in Nat
    BY SectorAt, Layout
  <2>2. CellsOf(t) = base..(next - 1)
    BY DEF CellsOf
  <2> HIDE DEF base, next
  <2> QED  BY <1>5, <1>9, <2>1, <2>2
<1>11. fat' = [a \in 0..(FatEnd - 1) |->
                 IF a = curHeader THEN Program(fat[a], Record(m))
                 ELSE IF a \in (curHeader + 1)..(curHeader + 2) THEN Program(fat[a], Rest(m))
                 ELSE fat[a]]
  <2>1. curHeader + RecordLen - 1 = curHeader + 2
    BY <1>5 DEF RecordLen
  <2> QED  BY <2>1 DEF WriteRecord
<1> HIDE DEF m
<1>12. fat' \in [0..(FatEnd - 1) -> Cells]
  <2>1. Record(m) \in Cells /\ Rest(m) \in Cells /\ fat \in [0..(FatEnd - 1) -> Cells]
    BY <1>4, InCells DEF IInv, TypeOK
  <2>2. ASSUME NEW a \in 0..(FatEnd - 1)
        PROVE  /\ Program(fat[a], Record(m)) \in Cells
               /\ Program(fat[a], Rest(m)) \in Cells
               /\ fat[a] \in Cells
    BY <2>1, InCells
  <2> QED  BY <1>11, <2>2
<1>13. /\ fat'[curHeader] = Program(fat[curHeader], Record(m))
       /\ \A a \in (curHeader + 1)..(curHeader + 2) : fat'[a] = Program(fat[a], Rest(m))
       /\ \A a \in 0..(FatEnd - 1) : a \notin curHeader..(curHeader + 2) => fat'[a] = fat[a]
  <2>1. \A a \in (curHeader + 1)..(curHeader + 2) :
          a # curHeader /\ a \in 0..(FatEnd - 1)
    BY <1>5, <1>6
  <2>2. \A a \in 0..(FatEnd - 1) :
          a \notin curHeader..(curHeader + 2) =>
            a # curHeader /\ a \notin (curHeader + 1)..(curHeader + 2)
    BY <1>5
  <2> QED  BY <1>8, <1>11, <2>1, <2>2
<1> QED  BY <1>1, <1>2, <1>3, <1>4, <1>6, <1>8, <1>9, <1>10, <1>12, <1>13 DEF m

LEMMA WriteRecordTypes ==
  ASSUME IInv, WriteRecord
  PROVE  /\ TypeOK' /\ WritesInRegion'
         /\ pc' = "writeData" /\ live' = live
         /\ curHeader' = curHeader + 3 /\ length' = length /\ curWrite' = curWrite
         /\ \A k \in 1..Len(stored') : stored'[k].address + stored'[k].length <= DataEnd
<1> DEFINE r == [header |-> curHeader, address |-> curWrite, length |-> length]
           S == [header : 0..(FatEnd - 1), address : 0..(DataEnd - 1), length : Lengths]
<1>1. /\ pc = "writeRecord" /\ pc' = "writeData" /\ curHeader' = curHeader + 3
      /\ activeSector' = curHeader \div Sector
      /\ UNCHANGED <<data, curWrite, curCycle, length, searching, dbSleepEnabled, searchSector,
                     live>>
      /\ faults' \subseteq {"wentBack", "notErased"}
  BY DEF WriteRecord, FatNotErased, searchVars, RecordLen, IInv, TypeOK
<1>2. stored' \in Seq(S)
  <2>1. r \in S /\ stored \in Seq(S) /\ stored' = Append(stored, r)
    BY RecordWritten DEF IInv, TypeOK
  <2> HIDE DEF r, S
  <2> QED  BY <2>1
<1>3. curHeader' \in 0..FatEnd
  BY <1>1, Layout DEF IInv, TypeOK, WritesInRegion
<1>4. activeSector' \in 0..(HeaderSectors - 1)
  BY <1>1, RecordWritten DEF Sectors
<1>5. Len(stored') <= MaxMessages /\ live \subseteq 1..Len(stored')
  <2>1. /\ Len(stored') = Len(stored) + 1 /\ Len(stored) + 1 \in 1..MaxMessages
        /\ live \subseteq 1..Len(stored) /\ Len(stored) \in Nat
    BY RecordWritten DEF IInv, TypeOK
  <2> QED  BY <2>1
<1>6. TypeOK'
  BY <1>1, <1>2, <1>3, <1>4, <1>5, RecordWritten DEF IInv, TypeOK
<1>7. WritesInRegion'
  BY <1>1 DEF IInv, WritesInRegion
<1>8. \A k \in 1..Len(stored') : stored'[k].address + stored'[k].length <= DataEnd
  <2> TAKE k \in 1..Len(stored')
  <2>1. Len(stored') = Len(stored) + 1 /\ Len(stored) \in Nat
    BY RecordWritten DEF IInv, TypeOK
  <2>2. CASE k \in 1..Len(stored)
    BY <2>2, RecordWritten DEF IInv, StoringInv
  <2>3. CASE k = Len(stored) + 1
    BY <2>3, RecordWritten
  <2> QED  BY <2>1, <2>2, <2>3
<1> QED  BY <1>1, <1>6, <1>7, <1>8

(* Where nothing is written, nothing is lost.                              *)
LEMMA OtherSectors ==
  ASSUME IInv, WriteRecord, NEW t \in Sectors, curHeader \div Sector = t,
         NEW u \in Sectors, u # t
  PROVE  /\ \A a \in CellsOf(u) : fat'[a] = fat[a]
         /\ IsInitialised(u)' = IsInitialised(u)
         /\ \A n \in 0..RecordsPerSector : Filled(u, n) => Filled(u, n)'
<1>1. \A a \in CellsOf(u) : a \in 0..(FatEnd - 1) /\ a \notin curHeader..(curHeader + 2)
  <2>1. \A a \in curHeader..(curHeader + 2) : a \in CellsOf(t)
    BY RecordWritten
  <2> QED  BY <2>1, SectorCells
<1>2. \A a \in CellsOf(u) : fat'[a] = fat[a]
  BY <1>1, RecordWritten
<1>3. 1..Len(stored) \subseteq 1..Len(stored')
  <2>1. Len(stored) \in Nat /\ Len(stored') = Len(stored) + 1
    BY RecordWritten
  <2> QED  BY <2>1
<1> QED  BY <1>2, <1>3, Undisturbed

(* A record written to a sector without a header, or over the beginning of *)
(* one: the sector has none then.                                          *)
LEMMA WriteHeadless ==
  ASSUME IInv, WriteRecord, NEW t \in Sectors, curHeader \div Sector = t,
         t # 0, ~IsInitialised(t)'
  PROVE  IInv'
<1> DEFINE m == Len(stored) + 1
<1>1. /\ TypeOK' /\ WritesInRegion'
      /\ pc' = "writeData" /\ live' = live
      /\ curHeader' = curHeader + 3 /\ length' = length
      /\ \A k \in 1..Len(stored') : stored'[k].address + stored'[k].length <= DataEnd
  BY WriteRecordTypes
<1>2. /\ Len(stored) \in Nat /\ Len(stored') = m /\ m \in 1..MaxMessages
      /\ \A k \in 1..Len(stored) : stored'[k] = stored[k]
      /\ stored'[m] = [header |-> curHeader, address |-> curWrite, length |-> length]
      /\ length \in Lengths
  BY RecordWritten
<1> HIDE DEF m
<1>3. stored'[m].header \div Sector = t
  BY <1>2
<1>4. SectorsFilled'
  <2> SUFFICES ASSUME NEW u \in Sectors, IsInitialised(u)'
               PROVE  \E n \in 0..RecordsPerSector : Filled(u, n)'
    BY DEF SectorsFilled, Sectors
  <2>1. u # t
    OBVIOUS
  <2> QED  BY <2>1, OtherSectors DEF IInv, SectorsFilled
<1>5. PlaceInv'
  <2>1. curHeader' \in (t * Sector + 1)..((t + 1) * Sector)
    <3> DEFINE base == t * Sector
               next == (t + 1) * Sector
    <3>1. base \in Nat /\ next \in Nat /\ curHeader \in Nat
      <4>1. base \in Nat /\ next \in Nat
        BY SectorAt, Layout
      <4>2. curHeader \in Nat
        BY RecordWritten
      <4> QED  BY <4>1, <4>2
    <3>2. CellsOf(t) = base..(next - 1)
      BY DEF CellsOf
    <3>3. curHeader \in CellsOf(t) /\ curHeader + 2 \in CellsOf(t)
      <4>1. curHeader \in curHeader..(curHeader + 2) /\ curHeader + 2 \in curHeader..(curHeader + 2)
        BY <3>1
      <4> QED  BY <4>1, RecordWritten
    <3> HIDE DEF base, next
    <3>4. curHeader' \in (base + 1)..next
      BY <1>1, <3>1, <3>2, <3>3
    <3> QED  BY <3>4 DEF base, next
  <2>2. InHeadlessSector'
    <3>1. t \in Sectors \ {0}
      OBVIOUS
    <3>2. \E u \in Sectors \ {0} :
            ~IsInitialised(u)' /\ curHeader' \in (u * Sector + 1)..((u + 1) * Sector)
      BY <2>1, <3>1
    <3> QED  BY <3>2 DEF InHeadlessSector, Sectors, Sector
  <2> QED  BY <1>1, <2>2 DEF PlaceInv
<1>6. StoringInv'
  <2>1. stored' # << >>
    BY <1>2
  <2>2. ~Readable(Len(stored))'
    BY <1>2, <1>3 DEF Readable, IsInitialised
  <2> QED  BY <1>1, <1>2, <2>1, <2>2 DEF StoringInv
<1>7. RecordsKept'
  <2> SUFFICES ASSUME NEW k \in live, Readable(k)'
               PROVE  fat'[stored'[k].header] = Record(k)
    BY <1>1 DEF RecordsKept
  <2>1. k \in 1..Len(stored) /\ stored'[k] = stored[k]
    BY <1>2 DEF IInv, TypeOK
  <2>2. PICK u \in Sectors : u = stored[k].header \div Sector /\ stored[k].header \in CellsOf(u)
    BY <2>1, RecordAt DEF IInv
  <2>3. IsInitialised(u)'
    BY <2>1, <2>2 DEF Readable, IsInitialised
  <2>4. u # t
    BY <2>3
  <2>5. IsInitialised(u) /\ fat'[stored[k].header] = fat[stored[k].header]
    BY <2>2, <2>3, <2>4, OtherSectors
  <2> QED  BY <2>1, <2>2, <2>5 DEF IInv, RecordsKept, Readable
<1>8. FirstSectorEmpty'
  <2> SUFFICES ASSUME ~IsInitialised(0)', NEW k \in live \union {m}
               PROVE  stored'[k].header \div Sector # 0
    BY <1>1, <1>2 DEF FirstSectorEmpty
  <2>1. CASE k = m
    BY <1>3, <2>1
  <2>2. CASE k \in live
    <3>1. ~IsInitialised(0)
      BY FirstCells, OtherSectors
    <3>2. stored'[k] = stored[k]
      BY <1>2, <2>2 DEF IInv, TypeOK
    <3> QED  BY <2>2, <3>1, <3>2 DEF IInv, FirstSectorEmpty
  <2> QED  BY <2>1, <2>2
<1>9. FirstSectorClean'
  <2>1. \A a \in CellsOf(0) : fat'[a] = fat[a]
    BY FirstCells, OtherSectors
  <2> QED  BY <2>1, FirstCells DEF IInv, FirstSectorClean
<1> QED  BY <1>1, <1>4, <1>5, <1>6, <1>7, <1>8, <1>9 DEF IInv

(* A record written to the next free slot of a sector with a header.       *)
LEMMA WriteHeaded ==
  ASSUME IInv, WriteRecord, NEW s \in Sectors, NEW n \in 0..(RecordsPerSector - 1),
         IsInitialised(s), Filled(s, n), curHeader = Slot(s, n)
  PROVE  IInv'
<1> DEFINE m == Len(stored) + 1
<1>1. /\ TypeOK' /\ WritesInRegion'
      /\ pc' = "writeData" /\ live' = live
      /\ curHeader' = curHeader + 3 /\ length' = length
      /\ \A k \in 1..Len(stored') : stored'[k].address + stored'[k].length <= DataEnd
  BY WriteRecordTypes
<1>2. /\ Len(stored) \in Nat /\ Len(stored') = m /\ m \in 1..MaxMessages
      /\ \A k \in 1..Len(stored) : stored'[k] = stored[k]
      /\ stored'[m] = [header |-> curHeader, address |-> curWrite, length |-> length]
      /\ length \in Lengths
      /\ curHeader \in 0..(FatEnd - 1)
  BY RecordWritten
<1>3. /\ \A a \in curHeader..(curHeader + 2) : a \in CellsOf(s) \ {s * Sector}
      /\ curHeader \div Sector = s
      /\ curHeader \in curHeader..(curHeader + 2)
  <2>1. \A a \in curHeader..(curHeader + 3 - 1) : a \in CellsOf(s) \ {s * Sector}
    BY SlotFits DEF RecordLen
  <2>2. /\ curHeader \in curHeader..(curHeader + 2) /\ curHeader + 3 - 1 = curHeader + 2
    BY <1>2
  <2>3. curHeader \in CellsOf(s)
    BY <2>1, <2>2
  <2> QED  BY <2>1, <2>2, <2>3, SectorOf
<1>4. n \in 0..RecordsPerSector /\ n + 1 \in 0..RecordsPerSector /\ n \in Nat
  BY FlashDatabaseAssumption
<1>5. /\ Slot(s, n + 1) = curHeader + 3
      /\ (s + 1) * Sector \in Nat
      /\ curHeader + 3 <= (s + 1) * Sector
  <2>1. n < RecordsPerSector
    BY FlashDatabaseAssumption
  <2> QED  BY <1>4, <2>1, Slots, SectorAt, Layout
<1>6. \A a \in curHeader..(curHeader + 2) : fat[a] = Erased
  <2> DEFINE next == (s + 1) * Sector
  <2>1. \A a \in curHeader..(next - 1) : fat[a] = Erased
    BY DEF Filled
  <2>2. curHeader + 3 <= next /\ next \in Nat /\ curHeader \in Nat
    BY <1>2, <1>5
  <2> HIDE DEF next
  <2>3. \A a \in curHeader..(curHeader + 2) : a \in curHeader..(next - 1)
    BY <2>2
  <2> QED  BY <2>1, <2>3
<1>7. /\ fat'[curHeader] = Record(m)
      /\ \A a \in (curHeader + 1)..(curHeader + 2) : fat'[a] = Rest(m)
      /\ \A a \in 0..(FatEnd - 1) : a \notin curHeader..(curHeader + 2) => fat'[a] = fat[a]
  <2>1. \A a \in (curHeader + 1)..(curHeader + 2) : a \in curHeader..(curHeader + 2)
    BY <1>2
  <2> QED  BY <1>3, <1>6, <2>1, RecordWritten DEF Program
<1> HIDE DEF m
<1>8. IsInitialised(s)'
  <2>1. s * Sector \in 0..(FatEnd - 1) /\ s * Sector \notin curHeader..(curHeader + 2)
    BY <1>3, SectorCells
  <2> QED  BY <1>7, <2>1 DEF IsInitialised
<1>9. Filled(s, n + 1)'
  <2>1. ASSUME NEW i \in 0..((n + 1) - 1)
        PROVE  \E k \in 1..Len(stored') : fat'[Slot(s, i)] = Record(k)
    <3>1. CASE i = n
      BY <1>2, <1>7, <3>1
    <3>2. CASE i # n
      <4>1. i \in 0..(n - 1)
        BY <1>4, <3>2
      <4>2. PICK k \in 1..Len(stored) : fat[Slot(s, i)] = Record(k)
        BY <4>1 DEF Filled
      <4>3. Slot(s, i) \in CellsOf(s) /\ Slot(s, i) \in Nat /\ Slot(s, i) + 3 <= curHeader
        BY <1>4, <4>1, Slots
      <4>4. Slot(s, i) \notin curHeader..(curHeader + 2)
        BY <1>2, <4>3
      <4>5. fat'[Slot(s, i)] = Record(k)
        BY <1>7, <4>2, <4>3, <4>4, SectorCells
      <4>6. k \in 1..Len(stored')
        BY <1>2 DEF m
      <4> QED  BY <4>5, <4>6
    <3> QED  BY <3>1, <3>2
  <2>2. ASSUME NEW a \in Slot(s, n + 1)..((s + 1) * Sector - 1)
        PROVE  fat'[a] = Erased
    <3> DEFINE next == (s + 1) * Sector
    <3>1. a \in (curHeader + 3)..(next - 1) /\ next \in Nat /\ curHeader \in Nat
      BY <1>2, <1>5, <2>2
    <3>2. \A b \in curHeader..(next - 1) : fat[b] = Erased
      BY DEF Filled
    <3>3. a \in CellsOf(s)
      BY <1>4, SectorCells
    <3> HIDE DEF next
    <3>4. a \in curHeader..(next - 1) /\ a \notin curHeader..(curHeader + 2)
      BY <3>1
    <3> QED  BY <1>7, <3>2, <3>3, <3>4, SectorCells
  <2> QED  BY <2>1, <2>2 DEF Filled
<1>10. SectorsFilled'
  <2> SUFFICES ASSUME NEW u \in Sectors, IsInitialised(u)'
               PROVE  \E k \in 0..RecordsPerSector : Filled(u, k)'
    BY DEF SectorsFilled, Sectors
  <2>1. CASE u = s
    BY <1>4, <1>9, <2>1
  <2>2. CASE u # s
    BY <1>3, <2>2, OtherSectors DEF IInv, SectorsFilled
  <2> QED  BY <2>1, <2>2
<1>11. PlaceInv'
  <2>1. curHeader' = Slot(s, n + 1)
    BY <1>1, <1>5
  <2>2. InHeadedSector'
    BY <1>4, <1>8, <1>9, <2>1 DEF InHeadedSector, Slot
  <2> QED  BY <1>1, <2>2 DEF PlaceInv
<1>12. StoringInv'
  <2>1. stored' # << >>
    BY <1>2
  <2>2. fat'[stored'[Len(stored')].header] = Record(Len(stored'))
    BY <1>2, <1>7
  <2> QED  BY <1>1, <1>2, <2>1, <2>2 DEF StoringInv
<1>13. RecordsKept'
  <2> SUFFICES ASSUME NEW k \in live, Readable(k)'
               PROVE  fat'[stored'[k].header] = Record(k)
    BY <1>1 DEF RecordsKept
  <2>1. k \in 1..Len(stored) /\ stored'[k] = stored[k]
    BY <1>2 DEF IInv, TypeOK
  <2>2. PICK u \in Sectors : u = stored[k].header \div Sector /\ stored[k].header \in CellsOf(u)
    BY <2>1, RecordAt DEF IInv
  <2>3. IsInitialised(u)'
    BY <2>1, <2>2 DEF Readable, IsInitialised
  <2>4. IsInitialised(u)
    BY <1>3, <2>3, OtherSectors
  <2>5. fat[stored[k].header] = Record(k)
    BY <2>2, <2>4 DEF IInv, RecordsKept, Readable
  <2>6. stored[k].header \in 0..(FatEnd - 1) /\ stored[k].header \notin curHeader..(curHeader + 2)
    BY <1>6, <2>2, <2>5, SectorCells, Kinds
  <2> QED  BY <1>7, <2>1, <2>5, <2>6
<1>14. FirstSectorEmpty'
  <2> SUFFICES ASSUME ~IsInitialised(0)', NEW k \in live \union {m}
               PROVE  stored'[k].header \div Sector # 0
    BY <1>1, <1>2 DEF FirstSectorEmpty
  <2>1. s # 0
    BY <1>8
  <2>2. CASE k = m
    BY <1>2, <1>3, <2>1, <2>2
  <2>3. CASE k \in live
    <3>1. ~IsInitialised(0)
      BY <1>3, <2>1, FirstCells, OtherSectors
    <3>2. stored'[k] = stored[k]
      BY <1>2, <2>3 DEF IInv, TypeOK
    <3> QED  BY <2>3, <3>1, <3>2 DEF IInv, FirstSectorEmpty
  <2> QED  BY <2>2, <2>3
<1>15. FirstSectorClean'
  <2> SUFFICES ASSUME NEW a \in 0..(Sector - 1)
               PROVE  fat'[a] # Garbled
    BY DEF FirstSectorClean
  <2>1. a \in 0..(FatEnd - 1) /\ fat[a] # Garbled
    BY FirstCells DEF IInv, FirstSectorClean
  <2>2. CASE a \in curHeader..(curHeader + 2)
    <3>1. a = curHeader \/ a \in (curHeader + 1)..(curHeader + 2)
      BY <1>2, <2>2
    <3> QED  BY <1>7, <3>1, Kinds
  <2>3. CASE a \notin curHeader..(curHeader + 2)
    BY <1>7, <2>1, <2>3
  <2> QED  BY <2>2, <2>3
<1> QED  BY <1>1, <1>10, <1>11, <1>12, <1>13, <1>14, <1>15 DEF IInv

LEMMA WriteRecordStep ==
  ASSUME IInv, WriteRecord
  PROVE  IInv'
<1>1. PICK t \in Sectors : curHeader \div Sector = t
                           /\ \A a \in curHeader..(curHeader + 2) : a \in CellsOf(t)
  BY RecordWritten
<1>2. curHeader \in Nat /\ curHeader \in CellsOf(t) /\ curHeader < FatEnd /\ FatEnd \in Nat
  <2>1. curHeader \in 0..(FatEnd - 1) /\ FatEnd \in Nat
    BY RecordWritten, Layout
  <2>2. curHeader \in curHeader..(curHeader + 2)
    BY <2>1
  <2> QED  BY <1>1, <2>1, <2>2
<1>3. fat'[curHeader] = Program(fat[curHeader], Record(Len(stored) + 1))
  BY RecordWritten
<1>4. InHeadedSector \/ InHeadlessSector
  BY DEF IInv, PlaceInv, WriteRecord
<1>5. ASSUME NEW s \in Sectors, curHeader = (s + 1) * Sector
      PROVE  IInv'
  <2>1. s \in Nat /\ s + 1 \in Nat /\ (s + 1) * Sector \in Nat /\ Sector \in Nat \ {0}
    BY SectorAt, Layout
  <2>2. curHeader \div Sector = s + 1
    <3> DEFINE q == s + 1
    <3>1. q \in Nat /\ q * Sector \in Nat /\ curHeader = q * Sector /\ 0 \in 0..(Sector - 1)
      BY <1>5, <2>1
    <3> HIDE DEF q
    <3>2. curHeader = q * Sector + 0
      BY <3>1
    <3>3. curHeader \div Sector = q
      BY <1>2, <2>1, <3>1, <3>2, BlockOf
    <3> QED  BY <3>3 DEF q
  <2>3. t = s + 1 /\ t # 0
    BY <1>1, <2>1, <2>2
  <2>4. fat'[curHeader][1] # "MSG"
    BY <1>3, Kinds DEF Program
  <2>5. ~IsInitialised(t)'
    BY <1>5, <2>3, <2>4 DEF IsInitialised
  <2> QED  BY <1>1, <2>3, <2>5, WriteHeadless
<1>6. CASE InHeadedSector
  <2>1. PICK s \in Sectors, n \in 0..RecordsPerSector :
          IsInitialised(s) /\ Filled(s, n) /\ curHeader = Slot(s, n)
    BY <1>6 DEF InHeadedSector
  <2>2. CASE n = RecordsPerSector
    BY <1>5, <2>1, <2>2, Slots
  <2>3. CASE n # RecordsPerSector
    <3>1. n \in 0..(RecordsPerSector - 1)
      BY <2>3, FlashDatabaseAssumption
    <3> QED  BY <2>1, <3>1, WriteHeaded
  <2> QED  BY <2>2, <2>3
<1>7. CASE InHeadlessSector
  <2>1. PICK s \in Sectors \ {0} :
          ~IsInitialised(s) /\ curHeader \in (s * Sector + 1)..((s + 1) * Sector)
    BY <1>7 DEF InHeadlessSector
  <2>2. CASE curHeader = (s + 1) * Sector
    BY <1>5, <2>1, <2>2
  <2>3. CASE curHeader # (s + 1) * Sector
    <3> DEFINE base == s * Sector
               next == (s + 1) * Sector
    <3>1. base \in Nat /\ next \in Nat
      BY <2>1, SectorAt, Layout
    <3>2. CellsOf(s) = base..(next - 1) /\ curHeader \in (base + 1)..next /\ curHeader # next
      BY <2>1, <2>3 DEF CellsOf
    <3> HIDE DEF base, next
    <3>3. curHeader \in CellsOf(s) /\ base \notin curHeader..(curHeader + 2)
      BY <1>2, <3>1, <3>2
    <3>4. t = s
      BY <1>1, <2>1, <3>3, SectorOf
    <3>5. fat'[base] = fat[base]
      BY <2>1, <3>3, SectorCells, RecordWritten DEF base
    <3>6. ~IsInitialised(t)'
      BY <2>1, <3>4, <3>5 DEF IsInitialised, base
    <3> QED  BY <1>1, <2>1, <3>4, <3>6, WriteHeadless
  <2> QED  BY <2>2, <2>3
<1> QED  BY <1>4, <1>6, <1>7

LEMMA WriteDataStep ==
  ASSUME IInv, WriteData
  PROVE  IInv'
<1>1. /\ pc = "writeData" /\ pc' = "idle" /\ length' = 0
      /\ curWrite' = curWrite + length
      /\ live' = live \union {Len(stored)}
      /\ UNCHANGED <<fat, curHeader, curCycle, searching, dbSleepEnabled, searchSector, stored,
                     activeSector, faults>>
  BY DEF WriteData, searchVars
<1>2. stored # << >> /\ length \in Lengths
  BY <1>1 DEF IInv, StoringInv
<1>3. Len(stored) \in 1..Len(stored) /\ Len(stored) \in Nat /\ Len(stored) <= MaxMessages
  <2> DEFINE S == [header : 0..(FatEnd - 1), address : 0..(DataEnd - 1), length : Lengths]
  <2>1. stored \in Seq(S) /\ Len(stored) <= MaxMessages
    BY DEF IInv, TypeOK
  <2> HIDE DEF S
  <2> QED  BY <1>2, <2>1
<1>4. curWrite' \in 0..DataEnd
  <2>1. length \in Nat /\ curWrite \in Nat /\ DataEnd \in Nat
    BY <1>2, FlashDatabaseAssumption, Layout DEF IInv, TypeOK
  <2>2. curWrite + length <= DataEnd
    BY <1>1 DEF IInv, WritesInRegion
  <2> QED  BY <1>1, <2>1, <2>2
<1>5. data' \in [0..(DataEnd - 1) -> -1..MaxMessages]
  <2>1. data \in [0..(DataEnd - 1) -> -1..MaxMessages]
    BY DEF IInv, TypeOK
  <2>2. data' = [a \in 0..(DataEnd - 1) |->
                   IF a \in curWrite..(curWrite + length - 1)
                     THEN ProgramByte(data[a], Len(stored)) ELSE data[a]]
    BY DEF WriteData
  <2>3. \A x : ProgramByte(x, Len(stored)) \in -1..MaxMessages
    BY <1>3, FlashDatabaseAssumption DEF ProgramByte, Nobody
  <2> DEFINE D == -1..MaxMessages
  <2> HIDE DEF D
  <2>4. data \in [0..(DataEnd - 1) -> D] /\ \A x : ProgramByte(x, Len(stored)) \in D
    BY <2>1, <2>3 DEF D
  <2>5. data' \in [0..(DataEnd - 1) -> D]
    BY <2>2, <2>4
  <2> QED  BY <2>5 DEF D
<1>6. TypeOK'
  BY <1>1, <1>3, <1>4, <1>5 DEF IInv, TypeOK
<1>7. PlaceInv'
  <2>1. InHeadedSector \/ InHeadlessSector
    BY <1>1 DEF IInv, PlaceInv
  <2>2. InHeadedSector => InHeadedSector'
    BY <1>1 DEF InHeadedSector, IsInitialised, Filled
  <2>3. InHeadlessSector => InHeadlessSector'
    BY <1>1 DEF InHeadlessSector, IsInitialised
  <2> QED  BY <1>1, <2>1, <2>2, <2>3 DEF PlaceInv
<1>8. StoringInv' /\ WritesInRegion'
  BY <1>1 DEF IInv, StoringInv, WritesInRegion
<1>9. SectorsFilled' /\ FirstSectorClean'
  BY <1>1 DEF IInv, SectorsFilled, IsInitialised, Filled, FirstSectorClean
<1>10. RecordsKept'
  <2> SUFFICES ASSUME NEW m \in live', Readable(m)
               PROVE  fat[stored[m].header] = Record(m)
    BY <1>1 DEF RecordsKept, Readable, IsInitialised
  <2>1. CASE m \in live
    BY <2>1 DEF IInv, RecordsKept
  <2>2. CASE m = Len(stored)
    BY <1>1, <2>2 DEF IInv, StoringInv
  <2> QED  BY <1>1, <2>1, <2>2
<1>11. FirstSectorEmpty'
  BY <1>1 DEF IInv, FirstSectorEmpty, IsInitialised
<1> QED  BY <1>6, <1>7, <1>8, <1>9, <1>10, <1>11 DEF IInv

LEMMA RestartStep ==
  ASSUME IInv, Restart
  PROVE  IInv'
<1>1. /\ curHeader' = 0 /\ curWrite' = 0 /\ curCycle' = 0 /\ pc' = "off" /\ length' = 0
      /\ searching' = FALSE /\ dbSleepEnabled' = "powerSave" /\ searchSector' = 0
      /\ UNCHANGED <<fat, data, stored, live, activeSector, faults>>
  BY DEF Restart, flashVars
<1>2. TypeOK'
  <2>1. 0 \in 0..FatEnd /\ 0 \in 0..DataEnd /\ 0 \in 0..255 /\ 0 \in 0..HeaderSectors
    BY Layout, FlashDatabaseAssumption
  <2> QED  BY <1>1, <2>1 DEF IInv, TypeOK
<1>3. PlaceInv'
  BY <1>1 DEF PlaceInv
<1>4. StoringInv' /\ WritesInRegion'
  BY <1>1 DEF IInv, StoringInv, WritesInRegion
<1>5. SectorsFilled' /\ FirstSectorClean'
  BY <1>1 DEF IInv, SectorsFilled, IsInitialised, Filled, FirstSectorClean
<1>6. RecordsKept' /\ FirstSectorEmpty'
  BY <1>1 DEF IInv, RecordsKept, FirstSectorEmpty, Readable, IsInitialised
<1> QED  BY <1>2, <1>3, <1>4, <1>5, <1>6 DEF IInv

(* Steps that leave the log and its addresses alone.                       *)
LEMMA LogUnchanged ==
  ASSUME IInv, UNCHANGED <<fat, data, curHeader, curWrite, curCycle, pc, length, stored, live,
                           activeSector, faults>>,
         searching' \in BOOLEAN, dbSleepEnabled' \in {"powerSave", "disabled"},
         searchSector' \in 0..HeaderSectors
  PROVE  IInv'
<1>1. TypeOK'
  BY DEF IInv, TypeOK
<1>2. PlaceInv'
  <2>1. InHeadedSector => InHeadedSector'
    BY DEF InHeadedSector, IsInitialised, Filled
  <2>2. InHeadlessSector => InHeadlessSector'
    BY DEF InHeadlessSector, IsInitialised
  <2>3. ASSUME NEW s \in Sectors, Begun(s)
        PROVE  Begun(s)'
    BY <2>3 DEF Begun, CellsOf, RecordedIn
  <2>4. 0 \in Sectors
    BY FirstCells
  <2>5. pc = "bootInit" => Begun(0)'
    BY <2>3, <2>4 DEF IInv, PlaceInv
  <2>6. pc = "initFat" => \E s \in Sectors : Begun(s)'
    BY <2>3 DEF IInv, PlaceInv
  <2>7. (InHeadedSector \/ InHeadlessSector) => (InHeadedSector \/ InHeadlessSector)'
    BY <2>1, <2>2
  <2> QED  BY <2>5, <2>6, <2>7 DEF IInv, PlaceInv, Sectors
<1>3. StoringInv' /\ WritesInRegion'
  BY DEF IInv, StoringInv, WritesInRegion, Readable, IsInitialised
<1>4. SectorsFilled' /\ FirstSectorClean'
  BY DEF IInv, SectorsFilled, IsInitialised, Filled, FirstSectorClean
<1>5. RecordsKept' /\ FirstSectorEmpty'
  BY DEF IInv, RecordsKept, FirstSectorEmpty, Readable, IsInitialised
<1> QED  BY <1>1, <1>2, <1>3, <1>4, <1>5 DEF IInv

LEMMA SearchStep ==
  ASSUME IInv, StartSearch \/ DoSearch
  PROVE  IInv'
<1>1. UNCHANGED <<fat, data, curHeader, curWrite, curCycle, pc, length, stored, live, activeSector,
                 faults>>
  BY DEF StartSearch, DoSearch, flashVars, curVars, histVars
<1>2. /\ searching' \in BOOLEAN /\ dbSleepEnabled' \in {"powerSave", "disabled"}
      /\ searchSector' \in 0..HeaderSectors
  <2>1. ~KeepsReading(0)
    BY DEF KeepsReading, maxProcessingTime
  <2>2. 0 \in 0..HeaderSectors
    BY FlashDatabaseAssumption
  <2> QED  BY <2>1, <2>2 DEF StartSearch, DoSearch, IInv, TypeOK
<1> QED  BY <1>1, <1>2, LogUnchanged

LEMMA InitInv == Init => IInv
<1> SUFFICES ASSUME Init PROVE IInv
  OBVIOUS
<1>1. /\ fat = [a \in 0..(FatEnd - 1) |-> Erased] /\ data = [a \in 0..(DataEnd - 1) |-> NoOne]
      /\ curHeader = 0 /\ curWrite = 0 /\ curCycle = 0 /\ pc = "off" /\ length = 0
      /\ searching = FALSE /\ dbSleepEnabled = "powerSave" /\ searchSector = 0
      /\ stored = << >> /\ live = {} /\ activeSector = 0 /\ faults = {}
  BY DEF Init
<1>2. TypeOK
  <2>1. 0 \in 0..FatEnd /\ 0 \in 0..DataEnd /\ 0 \in 0..255 /\ 0 \in 0..HeaderSectors
        /\ 0 \in 0..(HeaderSectors - 1) /\ NoOne \in -1..MaxMessages /\ 0 <= MaxMessages
    BY Layout, FlashDatabaseAssumption DEF NoOne
  <2>2. fat \in [0..(FatEnd - 1) -> Cells]
    BY <1>1, InCells
  <2>3. data \in [0..(DataEnd - 1) -> -1..MaxMessages]
    BY <1>1, <2>1
  <2>4. stored \in Seq([header : 0..(FatEnd - 1), address : 0..(DataEnd - 1), length : Lengths])
        /\ Len(stored) = 0
    BY <1>1
  <2> QED  BY <1>1, <2>1, <2>2, <2>3, <2>4 DEF TypeOK
<1>3. SectorsFilled
  <2> SUFFICES ASSUME NEW s \in Sectors PROVE ~IsInitialised(s)
    BY DEF SectorsFilled
  <2> QED  BY <1>1, SectorCells, Kinds DEF IsInitialised
<1>4. PlaceInv
  BY <1>1 DEF PlaceInv
<1>5. StoringInv
  <2>1. Len(stored) = 0
    BY <1>1
  <2> QED  BY <1>1, <2>1 DEF StoringInv
<1>6. RecordsKept /\ FirstSectorEmpty /\ WritesInRegion
  BY <1>1 DEF RecordsKept, FirstSectorEmpty, WritesInRegion
<1>7. FirstSectorClean
  BY <1>1, FirstCells, Kinds DEF FirstSectorClean
<1> QED  BY <1>2, <1>3, <1>4, <1>5, <1>6, <1>7 DEF IInv

LEMMA NextInv ==
  ASSUME IInv, [Next]_vars
  PROVE  IInv'
<1>1. CASE UNCHANGED vars
  <2>1. UNCHANGED <<fat, data, curHeader, curWrite, curCycle, pc, length, stored, live,
                    activeSector, faults, searching, dbSleepEnabled, searchSector>>
    BY <1>1 DEF vars, flashVars, curVars, searchVars, histVars
  <2>2. /\ searching' \in BOOLEAN /\ dbSleepEnabled' \in {"powerSave", "disabled"}
        /\ searchSector' \in 0..HeaderSectors
    BY <2>1 DEF IInv, TypeOK
  <2> QED  BY <2>1, <2>2, LogUnchanged
<1>2. CASE Next
  BY <1>2, BootStep, BootEraseStep, BootInitStep, RestartStep, StoreStep, EraseFatStep, InitFatStep,
     PlaceDataStep, WriteRecordStep, WriteDataStep, SearchStep DEF Next
<1> QED  BY <1>1, <1>2

-----------------------------------------------------------------------------
(* The types hold, and every sector with a header is a row of records with *)
(* nothing behind it, where writing goes on, whatever restarts there were. *)
THEOREM Invariance == Spec => []IInv
<1>1. Init => IInv
  BY InitInv
<1>2. IInv /\ [Next]_vars => IInv'
  BY NextInv
<1> QED  BY <1>1, <1>2, PTL DEF Spec

(* The addresses of the log stay within its regions.                       *)
THEOREM TypeCorrect == Spec => []TypeOK
<1>1. IInv => TypeOK
  BY DEF IInv
<1> QED  BY <1>1, Invariance, PTL

(* storeData never writes across the end of a sector or of a region.       *)
THEOREM RegionsKept == Spec => []WritesInRegion
<1>1. IInv => WritesInRegion
  BY DEF IInv
<1> QED  BY <1>1, Invariance, PTL

(* No cell of the first sector, where a restart begins to read, is written *)
(* twice.                                                                  *)
THEOREM FirstSectorReadable == Spec => []FirstSectorClean
<1>1. IInv => FirstSectorClean
  BY DEF IInv
<1> QED  BY <1>1, Invariance, PTL

(* A message that was stored has its record as long as the sector of that  *)
(* record has a header and is not erased: what Durable says whatever       *)
(* faults there were.                                                      *)
THEOREM RecordsFound == Spec => []RecordsKept
<1>1. IInv => RecordsKept
  BY DEF IInv
<1> QED  BY <1>1, Invariance, PTL
-----------------------------------------------------------------------------
(* The second sector of the FAT.                                           *)
(*                                                                         *)
(* Records end exactly where the first sector does, so the test of         *)
(* checkEndsOfBlocks never sees the second sector begin: it never gets a   *)
(* header, and findCurrentBlock never goes beyond the first sector.        *)

HeaderlessSecond == HeaderSectors > 1 => ~IsInitialised(1)
SecondNotBegun == pc \in {"eraseFat", "initFat"} => curHeader # Sector
SecondInv == HeaderlessSecond /\ SecondNotBegun

(* Writing goes on beyond the first cell of the second sector or at a slot *)
(* of the first.                                                           *)
LEMMA WhereWritingGoesOn ==
  ASSUME IInv, HeaderlessSecond, pc \in {"idle", "placeData", "writeRecord"}
  PROVE  curHeader > Sector \/ \E n \in Nat : curHeader = 1 + 3 * n
<1>0. Sector \in Nat /\ 0 * Sector = 0
  BY Layout, FirstCells
<1>1. ASSUME NEW s \in Sectors, s # 0
      PROVE  s * Sector \in Nat /\ s * Sector >= Sector
  <2>1. s \in Nat /\ 0 < s /\ 0 \in Nat
    BY <1>1, SectorAt
  <2>2. 0 * Sector + Sector <= s * Sector /\ s * Sector \in Nat
    BY <2>1, Layout, BlocksApart
  <2> QED  BY <1>0, <2>2
<1>2. CASE InHeadedSector
  <2>1. PICK s \in Sectors, n \in 0..RecordsPerSector :
          IsInitialised(s) /\ curHeader = Slot(s, n)
    BY <1>2 DEF InHeadedSector
  <2>2. curHeader = s * Sector + 1 + 3 * n /\ n \in Nat
    BY <2>1, Slots, FlashDatabaseAssumption
  <2>3. CASE s = 0
    BY <1>0, <2>2, <2>3
  <2>4. CASE s # 0
    <3> DEFINE base == s * Sector
    <3>1. base \in Nat /\ base >= Sector /\ curHeader = base + 1 + 3 * n
      BY <1>1, <2>2, <2>4
    <3> HIDE DEF base
    <3> QED  BY <1>0, <2>2, <3>1
  <2> QED  BY <2>3, <2>4
<1>3. CASE InHeadlessSector
  <2>1. PICK s \in Sectors \ {0} : curHeader \in (s * Sector + 1)..((s + 1) * Sector)
    BY <1>3 DEF InHeadlessSector
  <2> DEFINE base == s * Sector
             next == (s + 1) * Sector
  <2>2. curHeader \in (base + 1)..next
    BY <2>1
  <2>3. base \in Nat /\ base >= Sector /\ next = base + Sector
    BY <1>1, SectorAt
  <2> HIDE DEF base, next
  <2> QED  BY <1>0, <2>2, <2>3
<1> QED  BY <1>2, <1>3 DEF IInv, PlaceInv

LEMMA SecondNeverBegins ==
  ASSUME IInv, HeaderlessSecond, pc = "idle", NewFatSector
  PROVE  RecordEnd - (RecordEnd % Sector) # Sector
<1>1. Sector \in Nat \ {0} /\ Sector >= 4 /\ Sector = 1 + 3 * RecordsPerSector /\ RecordLen = 3
  BY Layout
<1>2. RecordsPerSector \in Nat /\ curHeader \in Nat
  BY FlashDatabaseAssumption, Layout DEF IInv, TypeOK
<1>3. CASE FatWraps
  <2>1. RecordEnd = 3
    BY <1>1, <1>3 DEF RecordEnd
  <2>2. 3 % Sector = 3
    BY <1>1, SMT
  <2> QED  BY <1>1, <2>1, <2>2
<1>4. CASE ~FatWraps
  <2>1. RecordEnd = curHeader + 3 /\ RecordEnd % Sector # 0 /\ RecordEnd % Sector < 3
    BY <1>1, <1>4 DEF RecordEnd, NewFatSector
  <2>0. RecordEnd \in Nat
    BY <1>2, <2>1
  <2> DEFINE r == RecordEnd % Sector
  <2>2. r \in 0..(Sector - 1)
    BY <1>1, <2>0, Division
  <2>3. r \in Nat /\ r # 0 /\ r < 3 /\ RecordEnd = curHeader + 3
    BY <1>1, <2>1, <2>2
  <2> HIDE DEF r
  <2> SUFFICES ASSUME RecordEnd - r = Sector PROVE FALSE
    BY DEF r
  <2>4. curHeader = Sector + r - 3
    BY <1>1, <1>2, <2>3
  <2>5. PICK n \in Nat : curHeader = 1 + 3 * n
    BY <1>1, <1>2, <2>3, <2>4, WhereWritingGoesOn
  <2> QED  BY <1>1, <1>2, <2>3, <2>4, <2>5
<1> QED  BY <1>3, <1>4

(* What a step leaves in the first cell of the second sector is what was   *)
(* there, or no header.                                                    *)
LEMMA SecondKept ==
  ASSUME HeaderlessSecond,
         HeaderSectors > 1 => fat'[1 * Sector] = fat[1 * Sector] \/ fat'[1 * Sector][1] # "MSG"
  PROVE  HeaderlessSecond'
BY DEF HeaderlessSecond, IsInitialised

LEMMA SecondStep ==
  ASSUME IInv, SecondInv, [Next]_vars
  PROVE  SecondInv'
<1> DEFINE second == 1 * Sector
<1>0. second = Sector /\ Sector \in Nat /\ Sector >= 4
  BY Layout
<1>1. HeaderSectors > 1 => second \in 0..(FatEnd - 1)
  <2> SUFFICES ASSUME HeaderSectors > 1 PROVE second \in 0..(FatEnd - 1)
    OBVIOUS
  <2>1. 1 \in Sectors
    BY FlashDatabaseAssumption DEF Sectors
  <2> QED  BY <2>1, SectorCells
<1>2. fat \in [0..(FatEnd - 1) -> Cells]
  BY DEF IInv, TypeOK
<1> HIDE DEF second
<1>3. ASSUME fat' = fat
      PROVE  HeaderlessSecond'
  BY <1>3, SecondKept DEF SecondInv
<1>4. CASE Boot \/ Restart \/ PlaceData \/ WriteData \/ StartSearch \/ DoSearch \/ UNCHANGED vars
  <2>1. fat' = fat
    BY <1>4 DEF Boot, Restart, PlaceData, WriteData, StartSearch, DoSearch, vars, flashVars
  <2>2. pc' \in {"idle", "off", "writeRecord"} \/ (pc' = pc /\ curHeader' = curHeader)
    BY <1>4 DEF Boot, Restart, PlaceData, WriteData, StartSearch, DoSearch, vars, curVars
  <2>3. SecondNotBegun'
    BY <2>2 DEF SecondInv, SecondNotBegun
  <2> QED  BY <1>3, <2>1, <2>3 DEF SecondInv
<1>5. CASE BootErase
  <2>1. HeaderSectors > 1 => fat'[second] = fat[second]
    BY <1>0, <1>1, <1>5 DEF BootErase
  <2>2. pc' = "bootInit"
    BY <1>5 DEF BootErase
  <2> QED  BY <2>1, <2>2, SecondKept DEF SecondInv, SecondNotBegun, second
<1>6. CASE BootInit
  <2>1. HeaderSectors > 1 => fat'[second] = fat[second]
    BY <1>0, <1>1, <1>2, <1>6 DEF BootInit
  <2>2. pc' = "idle"
    BY <1>6 DEF BootInit
  <2> QED  BY <2>1, <2>2, SecondKept DEF SecondInv, SecondNotBegun, second
<1>7. ASSUME NEW len \in Lengths, Store(len)
      PROVE  SecondInv'
  <2>1. fat' = fat /\ pc = "idle"
    BY <1>7 DEF Store, flashVars
  <2>2. CASE NewFatSector
    <3>1. curHeader' # Sector
      BY <1>7, <2>1, <2>2, SecondNeverBegins DEF Store, SecondInv
    <3> QED  BY <1>3, <2>1, <3>1 DEF SecondInv, SecondNotBegun, Sector, RecordLen
  <2>3. CASE ~NewFatSector
    <3>1. pc' = "placeData"
      BY <1>7, <2>3 DEF Store
    <3> QED  BY <1>3, <2>1, <3>1 DEF SecondInv, SecondNotBegun
  <2> QED  BY <2>2, <2>3
<1>8. CASE EraseFat
  <2>1. HeaderSectors > 1 => fat'[second] = fat[second] \/ fat'[second] = Erased
    BY <1>1, <1>8 DEF EraseFat
  <2>2. pc = "eraseFat" /\ curHeader' = curHeader
    BY <1>8 DEF EraseFat, curVars
  <2>3. HeaderlessSecond'
    BY <2>1, Kinds, SecondKept DEF SecondInv, second
  <2>4. curHeader # Sector
    BY <2>2 DEF SecondInv, SecondNotBegun
  <2> QED  BY <2>2, <2>3, <2>4 DEF SecondInv, SecondNotBegun, Sector, RecordLen
<1>9. CASE InitFat
  <2>1. curHeader # second
    BY <1>0, <1>9 DEF InitFat, SecondInv, SecondNotBegun
  <2>2. HeaderSectors > 1 => fat'[second] = fat[second]
    BY <1>1, <1>2, <1>9, <2>1 DEF InitFat
  <2>3. pc' = "placeData"
    BY <1>9 DEF InitFat
  <2> QED  BY <2>2, <2>3, SecondKept DEF SecondInv, SecondNotBegun, second
<1>10. CASE WriteRecord
  <2>1. PICK m \in {Len(stored) + 1} :
          fat' = [a \in 0..(FatEnd - 1) |->
                    IF a = curHeader THEN Program(fat[a], Record(m))
                    ELSE IF a \in (curHeader + 1)..(curHeader + RecordLen - 1)
                           THEN Program(fat[a], Rest(m))
                           ELSE fat[a]]
    BY <1>10 DEF WriteRecord
  <2>2. HeaderSectors > 1 =>
          fat'[second] \in {fat[second], Program(fat[second], Record(m)), Program(fat[second], Rest(m))}
    BY <1>1, <2>1
  <2>3. Program(fat[second], Record(m))[1] # "MSG" /\ Program(fat[second], Rest(m))[1] # "MSG"
    BY Kinds DEF Program
  <2>4. pc' = "writeData"
    BY <1>10 DEF WriteRecord
  <2> QED  BY <2>2, <2>3, <2>4, SecondKept DEF SecondInv, SecondNotBegun, second
<1> QED  BY <1>4, <1>5, <1>6, <1>7, <1>8, <1>9, <1>10 DEF Next

(* The second sector of the FAT never gets a header: its first record      *)
(* begins exactly where the sector does, which the test of                 *)
(* checkEndsOfBlocks (Database.cpp:219) does not see.                      *)
THEOREM SecondInvariance == Spec => []SecondInv
<1>1. Init => SecondInv
  <2> SUFFICES ASSUME Init PROVE SecondInv
    OBVIOUS
  <2>1. HeaderSectors > 1 => ~IsInitialised(1)
    <3> SUFFICES ASSUME HeaderSectors > 1 PROVE fat[1 * Sector][1] # "MSG"
      BY DEF IsInitialised
    <3>1. 1 \in Sectors
      BY FlashDatabaseAssumption DEF Sectors
    <3>2. 1 * Sector \in 0..(FatEnd - 1)
      BY <3>1, SectorCells
    <3> QED  BY <3>2, Kinds DEF Init
  <2> QED  BY <2>1 DEF Init, SecondInv, HeaderlessSecond, SecondNotBegun
<1>2. IInv /\ SecondInv /\ [Next]_vars => SecondInv'
  BY SecondStep
<1> QED  BY <1>1, <1>2, Invariance, PTL DEF Spec

(* Wherever the log was, a restart goes on in the first sector.            *)
LEMMA FirstFound ==
  ASSUME SecondInv, Boot
  PROVE  ActiveSector = 0
<1>1. HeaderSectors \in Nat \ {0} /\ 0 \in 0..(HeaderSectors - 1)
  BY FlashDatabaseAssumption
<1>2. ASSUME NEW s \in 0..(HeaderSectors - 1), Consecutive(s)
      PROVE  s = 0
  <2> SUFFICES ASSUME s # 0 PROVE FALSE
    OBVIOUS
  <2>1. 1 \in 0..s /\ HeaderSectors > 1
    BY <1>1
  <2> QED  BY <1>2, <2>1 DEF Consecutive, SecondInv, HeaderlessSecond
<1>3. IsInitialised(0)
  BY DEF Boot
<1>4. ActiveSector \in Sectors
  BY <1>3, ActiveSectorFound
<1>5. Consecutive(0)
  <2>1. 0..0 = {0} /\ 1..0 = {}
    OBVIOUS
  <2> QED  BY <1>3, <2>1 DEF Consecutive
<1>6. 0 = HeaderSectors - 1 \/ ~Consecutive(0 + 1)
  <2> SUFFICES ASSUME 0 # HeaderSectors - 1 PROVE ~Consecutive(1)
    OBVIOUS
  <2>1. 1 \in 0..(HeaderSectors - 1) /\ 1 # 0
    BY <1>1
  <2> QED  BY <1>2, <2>1
<1> QED  BY <1>1, <1>2, <1>5, <1>6 DEF ActiveSector

(* A restart therefore finds the first sector to be the active one         *)
(* (findCurrentBlock, Database.cpp:129-162), wherever the log was.         *)
THEOREM GoesBackToFirst == Spec => RestartsInFirstSector
<1>1. SecondInv /\ [Next]_vars => [Boot => ActiveSector = 0]_vars
  BY FirstFound
<1> QED  BY <1>1, SecondInvariance, PTL DEF Spec, RestartsInFirstSector

-----------------------------------------------------------------------------
(* Where nothing that garbles the log has happened.                        *)
(*                                                                         *)
(* Then the sector in use is erased from the place of the next record on,  *)
(* the last record of the first sector, from which a restart goes on, is   *)
(* that of the newest message, and the sector of data behind it is erased. *)

Newest == Len(stored)
EndOf(m) == stored[m].address + stored[m].length

LEMMA StoredAt ==
  ASSUME TypeOK, NEW m \in 1..Len(stored)
  PROVE  /\ stored[m].header \in Nat /\ stored[m].header \in 0..(FatEnd - 1)
         /\ stored[m].address \in Nat /\ stored[m].address < DataEnd
         /\ stored[m].length \in Nat \ {0}
         /\ EndOf(m) \in Nat /\ EndOf(m) > stored[m].address
<1>1. /\ stored[m].header \in 0..(FatEnd - 1) /\ stored[m].address \in 0..(DataEnd - 1)
      /\ stored[m].length \in Lengths
  BY RecordAt
<1>2. stored[m].length \in Nat \ {0}
  <2>1. \A l \in Lengths : l \in Nat \ {0}
    BY FlashDatabaseAssumption
  <2> QED  BY <1>1, <2>1
<1>3. FatEnd \in Nat /\ DataEnd \in Nat
  BY Layout
<1> DEFINE h == stored[m].header
           a == stored[m].address
           l == stored[m].length
<1>4. h \in 0..(FatEnd - 1) /\ a \in 0..(DataEnd - 1) /\ l \in Nat \ {0} /\ EndOf(m) = a + l
  BY <1>1, <1>2 DEF EndOf
<1> HIDE DEF h, a, l
<1>5. h \in Nat /\ a \in Nat /\ a < DataEnd /\ EndOf(m) \in Nat /\ EndOf(m) > a
  BY <1>3, <1>4
<1> QED  BY <1>4, <1>5 DEF h, a, l

LEMMA NewestStored ==
  ASSUME TypeOK
  PROVE  /\ Newest \in Nat /\ 1..Newest = 1..Len(stored)
         /\ stored # << >> => Newest \in 1..Len(stored)
         /\ stored = << >> => Newest = 0
<1> DEFINE S == [header : 0..(FatEnd - 1), address : 0..(DataEnd - 1), length : Lengths]
<1>1. stored \in Seq(S)
  BY DEF TypeOK
<1> HIDE DEF S
<1> QED  BY <1>1 DEF Newest

(* A fault is not taken back.                                              *)
LEMMA FaultsStay ==
  ASSUME [Next]_vars, faults' = {}
  PROVE  faults = {}
BY DEF Next, Boot, BootErase, BootInit, Restart, Store, EraseFat, InitFat, PlaceData, WriteRecord,
       WriteData, StartSearch, DoSearch, histVars, vars

Writing == {"idle", "placeData", "writeRecord", "writeData"}

ErasedOn ==
  pc \in Writing =>
    /\ curHeader \in (activeSector * Sector + 1)..((activeSector + 1) * Sector)
    /\ \A a \in CellsOf(activeSector) : a >= curHeader => fat[a] = Erased

(* The messages that have a record, whose data may still be written.       *)
Recorded == live \union (IF pc = "writeData" THEN {Newest} ELSE {})
RecordsStay == \A m \in Recorded : fat[stored[m].header] = Record(m)

NewestIsLast ==
  activeSector = 0 /\ IsInitialised(0) =>
    \A n \in 1..RecordsPerSector : Filled(0, n) => fat[Slot(0, n - 1)] = Record(Newest)

HeaderPart == ErasedOn /\ RecordsStay /\ NewestIsLast
HeaderInv == faults = {} => HeaderPart

LEMMA HeaderUnchanged ==
  ASSUME HeaderPart, UNCHANGED <<fat, stored, activeSector>>, Recorded' \subseteq Recorded,
         pc' \in Writing => pc \in Writing /\ curHeader' = curHeader
  PROVE  HeaderPart'
<1>1. ErasedOn'
  BY DEF HeaderPart, ErasedOn, CellsOf, Writing, Sector, RecordLen
<1>2. RecordsStay'
  BY DEF HeaderPart, RecordsStay
<1>3. NewestIsLast'
  BY DEF HeaderPart, NewestIsLast, IsInitialised, Filled, Newest, Slot, Sector, RecordLen
<1> QED  BY <1>1, <1>2, <1>3 DEF HeaderPart

(* A restart that finds the sector in use goes on behind its records.      *)
LEMMA HeaderBoot ==
  ASSUME IInv, SecondInv, HeaderPart, Boot, faults' = {}
  PROVE  HeaderPart'
<1>1. /\ pc = "off" /\ pc' = "idle" /\ IsInitialised(0)
      /\ UNCHANGED <<fat, stored, live, activeSector>>
  BY DEF Boot, flashVars
<1>2. ActiveSector = 0 /\ activeSector = 0
  BY FirstFound DEF Boot, WentBack
<1>3. PICK n \in 0..RecordsPerSector : Filled(0, n)
  BY <1>1, FirstCells DEF IInv, SectorsFilled
<1>4. curHeader' = Slot(0, n)
  BY <1>2, <1>3, RecordsInFilled, FirstCells DEF Boot
<1>5. ErasedOn'
  <2>1. Slot(0, n) = 1 + 3 * n /\ Slot(0, n) <= Sector /\ n \in Nat /\ Sector \in Nat
    <3>1. 0 * Sector = 0 /\ (0 + 1) * Sector = Sector /\ Sector \in Nat
      BY FirstCells, SectorAt, Layout
    <3>2. Slot(0, n) = 0 * Sector + 1 + 3 * n /\ Slot(0, n) <= (0 + 1) * Sector
      BY FirstCells, Slots
    <3>3. n \in Nat
      BY FlashDatabaseAssumption
    <3> QED  BY <3>1, <3>2, <3>3
  <2>2. ASSUME NEW a \in CellsOf(0), a >= Slot(0, n)
        PROVE  fat[a] = Erased
    <3>1. a \in 0..(Sector - 1)
      BY <2>2, FirstCells, Zenon
    <3>2. (0 + 1) * Sector = Sector
      BY <2>1
    <3>3. a \in Slot(0, n)..((0 + 1) * Sector - 1)
      BY <2>1, <2>2, <3>1, <3>2
    <3> QED  BY <1>3, <3>3 DEF Filled
  <2>3. 0 * Sector + 1 = 1 /\ (0 + 1) * Sector = Sector
    BY FirstCells, Layout
  <2>4. curHeader' \in (0 * Sector + 1)..((0 + 1) * Sector)
    BY <1>4, <2>1, <2>3
  <2> QED  BY <1>1, <1>2, <1>4, <2>2, <2>4 DEF ErasedOn, CellsOf, Sector, RecordLen
<1>6. RecordsStay'
  BY <1>1 DEF HeaderPart, RecordsStay, Recorded
<1>7. NewestIsLast'
  BY <1>1 DEF HeaderPart, NewestIsLast, IsInitialised, Filled, Newest, Slot, Sector, RecordLen
<1> QED  BY <1>5, <1>6, <1>7 DEF HeaderPart

(* The first sector keeps what it holds.                                   *)
LEMMA NewestIsLastKept ==
  ASSUME NewestIsLast, UNCHANGED <<stored, activeSector>>,
         \A a \in CellsOf(0) : fat'[a] = fat[a]
  PROVE  NewestIsLast'
<1> SUFFICES ASSUME activeSector = 0, IsInitialised(0)', NEW n \in 1..RecordsPerSector, Filled(0, n)'
             PROVE  fat'[Slot(0, n - 1)] = Record(Newest)
  BY DEF NewestIsLast, Newest, Slot, Sector, RecordLen
<1>1. n \in 0..RecordsPerSector /\ n - 1 \in 0..(n - 1) /\ 0 \in Sectors
  BY FlashDatabaseAssumption, FirstCells
<1>2. \A i \in 0..(n - 1) : fat'[Slot(0, i)] = fat[Slot(0, i)]
  BY <1>1, Slots
<1>3. \A a \in Slot(0, n)..((0 + 1) * Sector - 1) : fat'[a] = fat[a]
  BY <1>1, SectorCells
<1>4. Filled(0, n)
  <2>1. \A i \in 0..(n - 1) : \E m \in 1..Len(stored) : fat'[Slot(0, i)] = Record(m)
    BY DEF Filled, Slot, Sector, RecordLen
  <2>2. \A a \in Slot(0, n)..((0 + 1) * Sector - 1) : fat'[a] = Erased
    BY DEF Filled, Slot, Sector, RecordLen
  <2> QED  BY <1>2, <1>3, <2>1, <2>2 DEF Filled
<1>5. IsInitialised(0)
  <2>1. 0 * Sector \in CellsOf(0)
    BY <1>1, SectorCells
  <2>2. fat'[0 * Sector][1] = "MSG"
    BY DEF IsInitialised, Sector, RecordLen
  <2> QED  BY <2>1, <2>2 DEF IsInitialised
<1> QED  BY <1>1, <1>2, <1>4, <1>5 DEF NewestIsLast

(* A sector is erased: no record that is to stay lies in it.               *)
LEMMA HeaderErase ==
  ASSUME IInv, HeaderPart, NEW s \in Sectors,
         fat' = [a \in 0..(FatEnd - 1) |-> IF a \in CellsOf(s) THEN Erased ELSE fat[a]],
         UNCHANGED <<stored, activeSector>>, Recorded' \subseteq live,
         Recorded' \intersect RecordedIn(s) = {}, pc' \notin Writing
  PROVE  HeaderPart'
<1>1. ErasedOn'
  BY DEF ErasedOn, Writing
<1>2. RecordsStay'
  <2> SUFFICES ASSUME NEW m \in Recorded' PROVE fat'[stored[m].header] = Record(m)
    BY DEF RecordsStay
  <2>1. m \in live /\ m \in 1..Len(stored)
    BY DEF IInv, TypeOK
  <2>2. PICK t \in Sectors : t = stored[m].header \div Sector /\ stored[m].header \in CellsOf(t)
    BY <2>1, RecordAt DEF IInv
  <2>3. t # s
    BY <2>1, <2>2 DEF RecordedIn
  <2>4. fat'[stored[m].header] = fat[stored[m].header]
    BY <2>2, <2>3, SectorCells
  <2> QED  BY <2>1, <2>4 DEF HeaderPart, RecordsStay, Recorded
<1>3. NewestIsLast'
  <2>1. CASE s = 0
    <3>1. 0 * Sector \in CellsOf(0) /\ 0 * Sector \in 0..(FatEnd - 1)
      BY FirstCells, SectorCells
    <3>2. fat'[0 * Sector] = Erased
      BY <2>1, <3>1
    <3>3. ~IsInitialised(0)'
      BY <3>2, Kinds DEF IsInitialised
    <3> QED  BY <3>3 DEF NewestIsLast
  <2>2. CASE s # 0
    <3>1. \A a \in CellsOf(0) : fat'[a] = fat[a]
      BY <2>2, FirstCells, SectorCells
    <3> QED  BY <3>1, NewestIsLastKept DEF HeaderPart
  <2> QED  BY <2>1, <2>2
<1> QED  BY <1>1, <1>2, <1>3 DEF HeaderPart

(* A sector gets its header.                                               *)
LEMMA HeaderBegun ==
  ASSUME IInv, HeaderPart, NEW s \in Sectors, Begun(s), NEW c,
         fat' = [fat EXCEPT ![s * Sector] = Program(fat[s * Sector], Header(c))],
         curHeader' = s * Sector + 1, activeSector' = s, stored' = stored, Recorded' \subseteq live
  PROVE  HeaderPart'
<1>1. ASSUME NEW a \in 0..(FatEnd - 1), a # s * Sector
      PROVE  fat'[a] = fat[a]
  BY <1>1 DEF IInv, TypeOK
<1>2. s * Sector \in Nat /\ (s + 1) * Sector = s * Sector + Sector /\ Sector \in Nat /\ Sector >= 4
  BY SectorAt, Layout
<1>3. ASSUME NEW a \in CellsOf(s), a # s * Sector
      PROVE  fat'[a] = Erased
  BY <1>1, <1>3, SectorCells DEF Begun
<1>4. ErasedOn'
  <2> DEFINE base == s * Sector
             next == (s + 1) * Sector
  <2>1. base \in Nat /\ next = base + Sector /\ curHeader' = base + 1 /\ Sector \in Nat /\ Sector >= 4
    BY <1>2
  <2>2. \A a \in CellsOf(s) : a # base => fat'[a] = Erased
    BY <1>3
  <2> HIDE DEF base, next
  <2>3. curHeader' \in (base + 1)..next
    BY <2>1
  <2>4. \A a \in CellsOf(s) : a >= curHeader' => fat'[a] = Erased
    BY <2>1, <2>2
  <2> QED  BY <2>3, <2>4 DEF ErasedOn, CellsOf, Sector, RecordLen, base, next
<1>5. RecordsStay'
  <2> SUFFICES ASSUME NEW m \in Recorded' PROVE fat'[stored[m].header] = Record(m)
    BY DEF RecordsStay
  <2>1. m \in live /\ m \in 1..Len(stored)
    BY DEF IInv, TypeOK
  <2>2. PICK t \in Sectors : t = stored[m].header \div Sector /\ stored[m].header \in CellsOf(t)
    BY <2>1, RecordAt DEF IInv
  <2>3. t # s
    BY <2>1, <2>2 DEF RecordedIn, Begun
  <2>4. stored[m].header \in 0..(FatEnd - 1) /\ stored[m].header # s * Sector
    BY <2>2, <2>3, SectorCells
  <2> QED  BY <1>1, <2>1, <2>4 DEF HeaderPart, RecordsStay, Recorded
<1>6. NewestIsLast'
  <2> SUFFICES ASSUME s = 0, NEW n \in 1..RecordsPerSector, Filled(0, n)'
               PROVE  FALSE
    BY DEF NewestIsLast
  <2>1. n \in 0..RecordsPerSector /\ 0 \in 0..(n - 1)
    BY FlashDatabaseAssumption
  <2>2. Slot(0, 0) \in CellsOf(0) /\ Slot(0, 0) # 0 * Sector
    BY <2>1, FirstCells, Slots
  <2>3. fat'[Slot(0, 0)] = Erased
    BY <1>3, <2>2
  <2>4. \E m \in 1..Len(stored') : fat'[Slot(0, 0)] = Record(m)
    BY <2>1 DEF Filled, Slot, Sector, RecordLen
  <2> QED  BY <2>3, <2>4, Kinds
<1> QED  BY <1>4, <1>5, <1>6 DEF HeaderPart

(* Where a record is written, its sector is erased from there on: it is the*)
(* sector in use, or one that begins there.                                *)
LEMMA AheadErased ==
  ASSUME IInv, HeaderPart, WriteRecord, faults' = {}, NEW t \in Sectors, curHeader \div Sector = t
  PROVE  /\ \A a \in CellsOf(t) : a >= curHeader => fat[a] = Erased
         /\ t = 0 => activeSector = 0
<1>1. /\ curHeader \in (activeSector * Sector + 1)..((activeSector + 1) * Sector)
      /\ \A a \in CellsOf(activeSector) : a >= curHeader => fat[a] = Erased
      /\ activeSector \in Sectors
  BY DEF HeaderPart, ErasedOn, Writing, WriteRecord, IInv, TypeOK, Sectors
<1> DEFINE base == activeSector * Sector
           next == (activeSector + 1) * Sector
<1>2. /\ base \in Nat /\ next = base + Sector /\ Sector \in Nat \ {0} /\ activeSector \in Nat
      /\ next \in Nat /\ curHeader \in (base + 1)..next /\ CellsOf(activeSector) = base..(next - 1)
  BY <1>1, SectorAt, Layout DEF CellsOf
<1>3. CASE curHeader # next
  <2> HIDE DEF base, next
  <2>1. curHeader \in CellsOf(activeSector)
    BY <1>2, <1>3
  <2>2. t = activeSector
    BY <1>1, <2>1, SectorOf
  <2> QED  BY <1>1, <2>2
<1>4. CASE curHeader = next
  <2> DEFINE q == activeSector + 1
  <2>1. q \in Nat /\ q # 0 /\ next = q * Sector
    BY <1>2
  <2> HIDE DEF q, base, next
  <2>2. next = q * Sector + 0 /\ 0 \in 0..(Sector - 1)
    BY <1>2, <2>1
  <2>3. next \div Sector = q /\ next % Sector = 0
    BY <1>2, <2>1, <2>2, BlockOf
  <2>4. t = q
    BY <1>4, <2>3
  <2>5. FatNotErased = {}
    BY DEF WriteRecord
  <2>6. \A a \in curHeader..(curHeader + Sector - 1) : fat[a] = Erased
    BY <1>4, <2>3, <2>5 DEF FatNotErased
  <2>7. t * Sector = curHeader
    BY <1>4, <2>1, <2>4, Zenon
  <2>8. (t + 1) * Sector = t * Sector + Sector /\ t * Sector = curHeader
    BY <2>7, SectorAt, Zenon
  <2>9. CellsOf(t) = curHeader..(curHeader + Sector - 1)
    <3> DEFINE after == (t + 1) * Sector
    <3>1. CellsOf(t) = (t * Sector)..(after - 1)
      BY DEF CellsOf
    <3>2. t * Sector = curHeader /\ after = curHeader + Sector
      BY <2>7, <2>8, Zenon
    <3> HIDE DEF after
    <3>3. CellsOf(t) = curHeader..(curHeader + Sector - 1)
      BY <1>2, <1>4, <3>1, <3>2
    <3> QED  BY <3>3
  <2> QED  BY <2>1, <2>4, <2>6, <2>9
<1> QED  BY <1>3, <1>4

LEMMA HeaderWriteRecord ==
  ASSUME IInv, HeaderPart, WriteRecord, faults' = {}
  PROVE  HeaderPart'
<1> DEFINE new == Len(stored) + 1
<1>1. PICK t \in Sectors :
        /\ curHeader \div Sector = t
        /\ \A a \in curHeader..(curHeader + 2) : a \in CellsOf(t)
        /\ fat'[curHeader] = Program(fat[curHeader], Record(new))
        /\ \A a \in (curHeader + 1)..(curHeader + 2) : fat'[a] = Program(fat[a], Rest(new))
        /\ \A a \in 0..(FatEnd - 1) : a \notin curHeader..(curHeader + 2) => fat'[a] = fat[a]
  BY RecordWritten
<1>2. /\ pc = "writeRecord" /\ pc' = "writeData" /\ live' = live /\ curHeader' = curHeader + 3
      /\ activeSector' = t /\ curHeader \in Nat
  <2>1. curHeader \in 0..(FatEnd - 1)
    BY RecordWritten
  <2>2. curHeader \in Nat
    BY <2>1, Layout
  <2> QED  BY <1>1, <2>2 DEF WriteRecord, RecordLen
<1>3. /\ Len(stored) \in Nat /\ Newest' = new /\ \A k \in 1..Len(stored) : stored'[k] = stored[k]
      /\ stored'[new].header = curHeader /\ live \subseteq 1..Len(stored)
  <2>1. /\ Len(stored') = new /\ Len(stored) \in Nat
        /\ \A k \in 1..Len(stored) : stored'[k] = stored[k]
        /\ stored'[new] = [header |-> curHeader, address |-> curWrite, length |-> length]
    BY RecordWritten
  <2>2. live \subseteq 1..Len(stored)
    BY DEF IInv, TypeOK
  <2> QED  BY <2>1, <2>2 DEF Newest
<1>4. /\ \A a \in CellsOf(t) : a >= curHeader => fat[a] = Erased
      /\ t = 0 => activeSector = 0
  BY <1>1, AheadErased
<1>5. \A a \in curHeader..(curHeader + 2) : a \in CellsOf(t) /\ fat[a] = Erased
  BY <1>1, <1>2, <1>4
<1>6. /\ fat'[curHeader] = Record(new)
      /\ \A a \in (curHeader + 1)..(curHeader + 2) : fat'[a] = Rest(new)
  BY <1>1, <1>2, <1>5 DEF Program
<1> DEFINE base == t * Sector
           next == (t + 1) * Sector
<1>7. /\ base \in Nat /\ next = base + Sector /\ Sector \in Nat /\ next <= FatEnd /\ FatEnd \in Nat
      /\ CellsOf(t) = base..(next - 1)
  BY SectorAt, Layout DEF CellsOf
<1>8. curHeader \in base..(next - 1) /\ curHeader + 2 \in base..(next - 1)
  <2> HIDE DEF base, next
  <2>1. curHeader \in curHeader..(curHeader + 2) /\ curHeader + 2 \in curHeader..(curHeader + 2)
    BY <1>2
  <2> QED  BY <1>5, <1>7, <2>1
<1>9. ErasedOn'
  <2>1. curHeader + 3 \in (base + 1)..next
    <3> HIDE DEF base, next
    <3> QED  BY <1>7, <1>8
  <2>2. ASSUME NEW a \in CellsOf(t), a >= curHeader + 3
        PROVE  fat'[a] = Erased
    <3>1. a \in 0..(FatEnd - 1)
      BY <2>2, SectorCells
    <3>2. a \notin curHeader..(curHeader + 2) /\ a >= curHeader
      BY <1>2, <2>2, <3>1
    <3> QED  BY <1>1, <1>4, <2>2, <3>1, <3>2
  <2> QED  BY <1>2, <2>1, <2>2 DEF ErasedOn, CellsOf, Sector, RecordLen
<1>10. RecordsStay'
  <2>1. Recorded' = live \union {new}
    BY <1>2, <1>3 DEF Recorded
  <2> SUFFICES ASSUME NEW m \in live \union {new} PROVE fat'[stored'[m].header] = Record(m)
    BY <2>1 DEF RecordsStay
  <2>2. CASE m = new
    BY <1>3, <1>6, <2>2
  <2>3. CASE m \in live
    <3>1. m \in 1..Len(stored) /\ stored'[m] = stored[m] /\ fat[stored[m].header] = Record(m)
      BY <1>3, <2>3 DEF HeaderPart, RecordsStay, Recorded
    <3>2. stored[m].header \in 0..(FatEnd - 1)
      BY <3>1, StoredAt DEF IInv
    <3>3. stored[m].header \notin curHeader..(curHeader + 2)
      BY <1>5, <3>1, Kinds
    <3> QED  BY <1>1, <3>1, <3>2, <3>3
  <2> QED  BY <2>2, <2>3
<1>11. NewestIsLast'
  <2>1. CASE t # 0
    BY <1>2, <2>1 DEF NewestIsLast
  <2>2. CASE t = 0
    <3> SUFFICES ASSUME NEW n \in 1..RecordsPerSector, Filled(0, n)'
                 PROVE  fat'[Slot(0, n - 1)] = Record(new)
      BY <1>2, <1>3 DEF NewestIsLast, Slot, Sector, RecordLen
    <3>1. /\ n \in 0..RecordsPerSector /\ n - 1 \in 0..(n - 1) /\ n - 1 \in 0..RecordsPerSector
          /\ (n - 1) + 1 = n
      BY FlashDatabaseAssumption
    <3>2. /\ Slot(0, n) \in Nat /\ Slot(0, n - 1) \in Nat /\ Slot(0, n) = Slot(0, n - 1) + 3
          /\ Slot(0, n - 1) \in CellsOf(0) /\ Slot(0, n) <= next
      BY <2>2, <3>1, FirstCells, Slots
    <3>3. PICK m : fat'[Slot(0, n - 1)] = Record(m)
      BY <3>1 DEF Filled, Slot, Sector, RecordLen
    <3>4. \A a \in Slot(0, n)..(next - 1) : fat'[a] = Erased
      BY <2>2 DEF Filled, Slot, Sector, RecordLen
    <3> DEFINE x == Slot(0, n - 1)
    <3>5. /\ x \in Nat /\ x \in base..(next - 1) /\ fat'[x] = Record(m) /\ x + 3 <= next
          /\ \A a \in (x + 3)..(next - 1) : fat'[a] = Erased
      BY <1>7, <2>2, <3>2, <3>3, <3>4
    <3>6. \A a \in CellsOf(t) : a >= curHeader + 3 => fat'[a] = Erased
      BY <1>2, <1>9 DEF ErasedOn, CellsOf, Sector, RecordLen, Writing
    <3>7. \A a \in base..(next - 1) : a >= curHeader + 3 => fat'[a] = Erased
      BY <1>7, <3>6
    <3> HIDE DEF x, base, next, new
    <3>8. x < curHeader + 3
      BY <1>2, <3>5, <3>7, Kinds
    <3>9. ~(x + 3 <= curHeader)
      <4> SUFFICES ASSUME x + 3 <= curHeader PROVE FALSE
        OBVIOUS
      <4>1. curHeader \in (x + 3)..(next - 1)
        BY <1>2, <1>7, <1>8, <3>5
      <4> QED  BY <1>6, <3>5, <4>1, Kinds
    <3>10. x # curHeader + 1 /\ x # curHeader + 2
      <4>1. curHeader + 1 \in (curHeader + 1)..(curHeader + 2)
            /\ curHeader + 2 \in (curHeader + 1)..(curHeader + 2)
        BY <1>2
      <4> QED  BY <1>6, <3>5, <4>1, Kinds DEF Record, Rest
    <3>11. x # curHeader - 1 /\ x # curHeader - 2
      <4> SUFFICES ASSUME x = curHeader - 1 \/ x = curHeader - 2 PROVE FALSE
        OBVIOUS
      <4>1. curHeader + 2 \in (x + 3)..(next - 1) /\ curHeader + 2 \in (curHeader + 1)..(curHeader + 2)
        BY <1>2, <1>7, <1>8, <3>5
      <4> QED  BY <1>6, <3>5, <4>1, Kinds DEF Erased, Rest
    <3>12. x = curHeader
      BY <1>2, <3>5, <3>8, <3>9, <3>10, <3>11
    <3> QED  BY <1>6, <3>12 DEF x
  <2> QED  BY <2>1, <2>2
<1> QED  BY <1>9, <1>10, <1>11 DEF HeaderPart

LEMMA HeaderStep ==
  ASSUME IInv, SecondInv, HeaderInv, [Next]_vars
  PROVE  HeaderInv'
<1> SUFFICES ASSUME faults' = {} PROVE HeaderPart'
  BY DEF HeaderInv
<1>1. HeaderPart
  BY FaultsStay DEF HeaderInv
<1>2. CASE Boot
  BY <1>1, <1>2, HeaderBoot
<1>3. CASE BootErase
  <2>1. /\ pc = "off" /\ pc' = "bootInit" /\ ~IsInitialised(0) /\ UNCHANGED <<stored, live, activeSector>>
        /\ fat' = [a \in 0..(FatEnd - 1) |-> IF a < Sector THEN Erased ELSE fat[a]]
    BY <1>3 DEF BootErase, histVars
  <2>2. live \intersect RecordedIn(0) = {}
    BY <2>1 DEF IInv, FirstSectorEmpty, RecordedIn
  <2>3. fat' = [a \in 0..(FatEnd - 1) |-> IF a \in CellsOf(0) THEN Erased ELSE fat[a]]
    <3>1. Sector \in Nat /\ FatEnd \in Nat
      BY Layout
    <3>2. \A a \in 0..(FatEnd - 1) : a < Sector <=> a \in 0..(Sector - 1)
      BY <3>1
    <3> QED  BY <2>1, <3>2, FirstCells
  <2>4. Recorded' = live /\ pc' \notin Writing
    BY <2>1 DEF Recorded, Writing
  <2> QED  BY <1>1, <2>1, <2>2, <2>3, <2>4, FirstCells, HeaderErase
<1>4. CASE BootInit
  <2>1. /\ pc = "bootInit" /\ pc' = "idle" /\ curHeader' = 1 /\ activeSector' = 0
        /\ fat' = [fat EXCEPT ![0] = Program(fat[0], Header(0))] /\ UNCHANGED <<stored, live>>
    BY <1>4 DEF BootInit
  <2>2. Begun(0) /\ 0 \in Sectors /\ 0 * Sector = 0
    BY <2>1, FirstCells DEF IInv, PlaceInv
  <2>3. fat' = [fat EXCEPT ![0 * Sector] = Program(fat[0 * Sector], Header(0))]
        /\ curHeader' = 0 * Sector + 1
    <3>1. 0 * Sector + 1 = 1
      BY <2>2
    <3> QED  BY <2>1, <2>2, <3>1, Zenon
  <2>4. Recorded' = live
    BY <2>1 DEF Recorded
  <2> QED  BY <1>1, <2>1, <2>2, <2>3, <2>4, HeaderBegun
<1>5. CASE Restart \/ (\E len \in Lengths : Store(len)) \/ PlaceData \/ WriteData \/ StartSearch
           \/ DoSearch \/ UNCHANGED vars
  <2>1. UNCHANGED <<fat, stored, activeSector>>
    BY <1>5 DEF Restart, Store, PlaceData, WriteData, StartSearch, DoSearch, flashVars, histVars, vars
  <2>2. Recorded' \subseteq Recorded
    <3>1. CASE WriteData
      BY <3>1 DEF WriteData, Recorded, Newest
    <3>2. CASE PlaceData
      BY <3>2 DEF PlaceData, Recorded
    <3>3. CASE Restart \/ (\E len \in Lengths : Store(len)) \/ StartSearch \/ DoSearch \/ UNCHANGED vars
      BY <3>3 DEF Restart, Store, StartSearch, DoSearch, Recorded, Newest, flashVars, histVars, vars
    <3> QED  BY <1>5, <3>1, <3>2, <3>3
  <2>3. pc' \in Writing => pc \in Writing /\ curHeader' = curHeader
    BY <1>5 DEF Restart, Store, PlaceData, WriteData, StartSearch, DoSearch, curVars, vars, Writing
  <2> QED  BY <1>1, <2>1, <2>2, <2>3, HeaderUnchanged
<1>6. CASE EraseFat
  <2>1. /\ pc = "eraseFat" /\ pc' = "initFat" /\ UNCHANGED <<stored, activeSector, curHeader>>
        /\ live' = live \ RecordedIn(curHeader \div Sector)
    BY <1>6 DEF EraseFat, curVars
  <2>2. PICK s \in Sectors : curHeader = s * Sector
    BY <2>1 DEF IInv, PlaceInv
  <2>3. curHeader \div Sector = s
    BY <2>2, SectorCells, SectorOf
  <2>4. fat' = [a \in 0..(FatEnd - 1) |-> IF a \in CellsOf(s) THEN Erased ELSE fat[a]]
    <3>1. CellsOf(s) = curHeader..(curHeader + Sector - 1)
      <4> DEFINE next == (s + 1) * Sector
      <4>1. next = curHeader + Sector /\ curHeader \in Nat /\ Sector \in Nat
        BY <2>2, SectorAt, Layout
      <4>2. CellsOf(s) = curHeader..(next - 1)
        BY <2>2 DEF CellsOf
      <4> HIDE DEF next
      <4> QED  BY <4>1, <4>2
    <3> QED  BY <1>6, <3>1 DEF EraseFat
  <2>5. Recorded' = live \ RecordedIn(s) /\ pc' \notin Writing
    BY <2>1, <2>3 DEF Recorded, Writing
  <2> QED  BY <1>1, <2>1, <2>4, <2>5, HeaderErase
<1>7. CASE InitFat
  <2>1. /\ pc = "initFat" /\ pc' = "placeData" /\ activeSector' = curHeader \div Sector
        /\ curHeader' = curHeader + 1 /\ UNCHANGED <<stored, live>>
        /\ fat' = [fat EXCEPT ![curHeader] = Program(fat[curHeader], Header(curCycle'))]
    BY <1>7 DEF InitFat
  <2>2. PICK s \in Sectors : Begun(s)
    BY <2>1 DEF IInv, PlaceInv
  <2>3. curHeader = s * Sector /\ curHeader \div Sector = s
    BY <2>2, SectorCells, SectorOf DEF Begun
  <2>4. Recorded' = live
    BY <2>1 DEF Recorded
  <2>5. PICK c : c = curCycle'
    OBVIOUS
  <2> QED  BY <1>1, <2>1, <2>2, <2>3, <2>4, <2>5, HeaderBegun
<1>8. CASE WriteRecord
  BY <1>1, <1>8, HeaderWriteRecord
<1> QED  BY <1>2, <1>3, <1>4, <1>5, <1>6, <1>7, <1>8 DEF Next

LEMMA HeaderInit == Init => HeaderInv
<1> SUFFICES ASSUME Init PROVE HeaderPart
  BY DEF HeaderInv
<1>1. pc = "off" /\ live = {} /\ fat = [a \in 0..(FatEnd - 1) |-> Erased]
  BY DEF Init
<1>2. ErasedOn /\ RecordsStay
  BY <1>1 DEF ErasedOn, Writing, RecordsStay, Recorded
<1>3. ~IsInitialised(0)
  BY <1>1, FirstCells, SectorCells, Kinds DEF IsInitialised
<1> QED  BY <1>2, <1>3 DEF HeaderPart, NewestIsLast

(* As long as no fault has happened, storeData finds the place of the      *)
(* next record erased and restarts from the record of the newest message.  *)
THEOREM HeaderInvariance == Spec => []HeaderInv
<1>1. IInv /\ SecondInv /\ HeaderInv /\ [Next]_vars => HeaderInv'
  BY HeaderStep
<1> QED  BY <1>1, HeaderInit, Invariance, SecondInvariance, PTL DEF Spec

-----------------------------------------------------------------------------
(* The same for the data.                                                  *)

(* A message lies in one sector of the data region, and the one whose data *)
(* are to be written is the newest.                                        *)
PlacedWell ==
  /\ \A m \in 1..Len(stored) :
       stored[m].address \div DataSector = (EndOf(m) - 1) \div DataSector
  /\ pc = "writeData" => /\ stored # << >>
                         /\ curWrite = stored[Newest].address /\ length = stored[Newest].length

Committed == {"writeRecord", "writeData"}

(* The data go on behind the newest message or, after a restart that finds *)
(* no record, at the beginning of the region.                              *)
GoesOn == curWrite = 0 \/ (stored # << >> /\ curWrite = EndOf(Newest))

(* In data sector s, every byte from c on is erased.                       *)
ErasedFrom(c, s) ==
  \A a \in 0..(DataEnd - 1) : a >= c /\ a \div DataSector = s => data[a] = NoOne

ErasedBehind ==
  stored # << >> => ErasedFrom(EndOf(Newest), stored[Newest].address \div DataSector)
ErasedAhead == pc \in Committed => ErasedFrom(curWrite, curWrite \div DataSector)

BytesOf(m) == stored[m].address..(EndOf(m) - 1)
DataStay == \A m \in live : \A a \in BytesOf(m) : data[a] = m

DataPart == (pc \notin Committed => GoesOn) /\ ErasedBehind /\ ErasedAhead /\ DataStay
DataInv == PlacedWell /\ (faults = {} => DataPart)

(* Nothing is written to the data region.                                  *)
LEMMA DataUnchanged ==
  ASSUME DataInv, UNCHANGED <<data, stored>>, live' \subseteq live, pc' \notin Committed,
         faults' = {} => faults = {} /\ GoesOn'
  PROVE  DataInv'
<1>1. PlacedWell'
  BY DEF DataInv, PlacedWell, EndOf, Committed
<1> SUFFICES ASSUME faults' = {} PROVE DataPart'
  BY <1>1 DEF DataInv
<1>2. DataPart /\ GoesOn'
  BY DEF DataInv
<1>3. ErasedBehind'
  BY <1>2 DEF DataPart, ErasedBehind, ErasedFrom, EndOf, Newest, DataEnd
<1>4. ErasedAhead'
  BY DEF ErasedAhead
<1>5. DataStay'
  BY <1>2 DEF DataPart, DataStay, BytesOf, EndOf
<1> QED  BY <1>2, <1>3, <1>4, <1>5 DEF DataPart

(* A restart that finds the sector in use goes on behind the newest        *)
(* message, or finds no record.                                            *)
LEMMA DataBoot ==
  ASSUME IInv, SecondInv, HeaderInv, DataInv, Boot
  PROVE  DataInv'
<1>1. pc = "off" /\ pc' = "idle" /\ IsInitialised(0) /\ UNCHANGED <<data, stored, live>>
  BY DEF Boot, flashVars
<1>2. ASSUME faults' = {}
      PROVE  faults = {} /\ GoesOn'
  <2>1. faults = {} /\ ActiveSector = 0 /\ activeSector = 0
    BY <1>2, FirstFound DEF Boot, WentBack
  <2>2. PICK n \in 0..RecordsPerSector : Filled(0, n)
    BY <1>1, FirstCells DEF IInv, SectorsFilled
  <2>3. curWrite' = WriteAddressAfter(0) /\ RecordsIn(0) = n
    BY <2>1, <2>2, RecordsInFilled, FirstCells DEF Boot
  <2>4. CASE n = 0
    BY <2>1, <2>3, <2>4 DEF WriteAddressAfter, GoesOn
  <2>5. CASE n # 0
    <3>1. n \in 1..RecordsPerSector /\ n - 1 \in 0..(n - 1)
      BY <2>5, FlashDatabaseAssumption
    <3>2. fat[Slot(0, n - 1)] = Record(Newest)
      BY <1>1, <2>1, <2>2, <3>1 DEF HeaderInv, HeaderPart, NewestIsLast
    <3>3. fat[Slot(0, n - 1)][2] = Newest
      BY <3>2, Kinds
    <3>4. curWrite' = EndOf(Newest)
      BY <2>3, <2>5, <3>3 DEF WriteAddressAfter, EndOf
    <3>5. stored # << >>
      <4>1. \E m \in 1..Len(stored) : TRUE
        BY <2>2, <3>1 DEF Filled
      <4> QED  BY <4>1
    <3> QED  BY <1>1, <2>1, <3>4, <3>5 DEF GoesOn, EndOf, Newest
  <2> QED  BY <2>4, <2>5
<1> QED  BY <1>1, <1>2, DataUnchanged DEF Committed

LEMMA Between ==
  ASSUME NEW d \in Nat \ {0}, NEW b \in Nat, NEW a \in Nat, NEW e \in Nat, b <= a, a <= e,
         b \div d = e \div d
  PROVE  a \div d = b \div d
<1> DEFINE q == b \div d
           x == b % d
           y == e % d
<1>1. /\ q \in Nat /\ x \in 0..(d - 1) /\ y \in 0..(d - 1)
      /\ b = q * d + x /\ e = q * d + y
  BY Division
<1> DEFINE base == q * d
<1>2. base \in Nat /\ b = base + x /\ e = base + y
  <2> HIDE DEF q, x, y
  <2> QED  BY <1>1, SMT
<1>3. a - base \in 0..(d - 1) /\ a = base + (a - base)
  <2>1. x \in 0..(d - 1) /\ y \in 0..(d - 1)
    BY <1>1
  <2> HIDE DEF base, x, y, q
  <2> QED  BY <1>2, <2>1
<1> HIDE DEF q
<1>4. a \div d = q
  BY <1>1, <1>3, BlockOf
<1> QED  BY <1>4 DEF q

LEMMA BytesInRegion ==
  ASSUME IInv, NEW m \in 1..Len(stored), NEW a \in BytesOf(m)
  PROVE  a \in 0..(DataEnd - 1)
<1>1. EndOf(m) <= DataEnd
  BY DEF IInv, StoringInv, EndOf
<1>2. stored[m].address \in Nat /\ EndOf(m) \in Nat /\ DataEnd \in Nat
  BY StoredAt, Layout DEF IInv
<1> QED  BY <1>1, <1>2 DEF BytesOf

(* The bytes of a message lie in the sector of its address.                *)
LEMMA BytesTogether ==
  ASSUME TypeOK, PlacedWell, NEW m \in 1..Len(stored), NEW a \in BytesOf(m)
  PROVE  a \in Nat /\ a \div DataSector = stored[m].address \div DataSector
<1> DEFINE b == stored[m].address
           e == EndOf(m) - 1
<1>0. DataSector \in Nat \ {0}
  BY FlashDatabaseAssumption
<1>1. b \in Nat /\ e \in Nat /\ b <= e
  BY StoredAt
<1>2. b \div DataSector = e \div DataSector
  BY DEF PlacedWell
<1>3. a \in Int /\ b <= a /\ a <= e
  BY <1>1 DEF BytesOf
<1> HIDE DEF b, e
<1>4. a \in Nat
  BY <1>1, <1>3
<1>5. a \div DataSector = b \div DataSector
  BY <1>0, <1>1, <1>2, <1>3, <1>4, Between
<1> QED  BY <1>4, <1>5 DEF b

LEMMA InBlock ==
  ASSUME NEW b \in Nat \ {0}, NEW a \in Nat
  PROVE  /\ a \div b \in Nat /\ (a \div b) * b \in Nat
         /\ (a \div b) * b <= a /\ a < (a \div b) * b + b
         /\ a % b = 0 => a = (a \div b) * b
         /\ a % b # 0 => a - 1 \in Nat /\ (a - 1) \div b = a \div b
<1> DEFINE q == a \div b
           r == a % b
<1>1. q \in Nat /\ r \in 0..(b - 1) /\ a = q * b + r
  BY Division
<1> DEFINE base == q * b
<1>2. base \in Nat /\ a = base + r
  <2> HIDE DEF q, r
  <2> QED  BY <1>1, SMT
<1>3. base <= a /\ a < base + b /\ (r = 0 => a = base)
  <2> HIDE DEF base, q, r
  <2> QED  BY <1>1, <1>2
<1>4. ASSUME r # 0
      PROVE  a - 1 \in Nat /\ (a - 1) \div b = q
  <2>1. a - 1 \in Nat /\ a - 1 = base + (r - 1) /\ r - 1 \in 0..(b - 1)
    <3> HIDE DEF base, q, r
    <3> QED  BY <1>1, <1>2, <1>4
  <2> HIDE DEF q, r
  <2>2. (a - 1) \div b = q
    BY <1>1, <2>1, BlockOf
  <2> QED  BY <2>1, <2>2
<1> QED  BY <1>1, <1>2, <1>3, <1>4

(* A message is placed: what comes behind it in its sector is erased, as   *)
(* the sector is begun here, or goes on behind the newest message, or      *)
(* begins here and was erased before.                                      *)
LEMMA DataPlaced ==
  ASSUME IInv, DataInv, PlaceData
  PROVE  DataInv'
<1>0. TypeOK /\ PlacedWell /\ DataSector \in Nat \ {0} /\ curWrite \in Nat /\ DataEnd \in Nat
  BY FlashDatabaseAssumption, Layout DEF IInv, TypeOK, DataInv
<1>1. pc = "placeData" /\ pc' = "writeRecord" /\ stored' = stored /\ live' \subseteq live
      /\ (faults' = {} => faults = {})
  BY DEF PlaceData
<1>2. PlacedWell'
  BY <1>1 DEF DataInv, PlacedWell, EndOf
<1> SUFFICES ASSUME faults' = {} PROVE DataPart'
  BY <1>2 DEF DataInv
<1>3. DataPart /\ GoesOn
  BY <1>1 DEF DataInv, DataPart, Committed
<1>4. CASE NewDataSector
  <2>1. PICK s \in 0..(DataSectors - 1) : MessageEnd - (MessageEnd % DataSector) = s * DataSector
    BY <1>1, <1>4, DataEnds
  <2>2. s \in Nat
    BY FlashDatabaseAssumption
  <2> DEFINE base == s * DataSector
  <2>3. base \in Nat /\ base \div DataSector = s
    <3>1. base \in Nat /\ base = s * DataSector + 0 /\ 0 \in 0..(DataSector - 1)
      BY <1>0, <2>2, SMT
    <3> HIDE DEF base
    <3> QED  BY <1>0, <2>2, <3>1, BlockOf
  <2>4. /\ curWrite' = base
        /\ data' = [a \in 0..(DataEnd - 1) |->
                      IF a \in base..(base + DataSector - 1) THEN NoOne ELSE data[a]]
        /\ live' = live \ DataIn(s)
    <3>1. /\ curWrite' = s * DataSector
          /\ data' = [a \in 0..(DataEnd - 1) |->
                        IF a \in (s * DataSector)..(s * DataSector + DataSector - 1)
                          THEN NoOne ELSE data[a]]
          /\ live' = live \ DataIn((s * DataSector) \div DataSector)
      BY <1>4, <2>1 DEF PlaceData
    <3> QED  BY <2>3, <3>1
  <2>5. ASSUME NEW a \in Nat
        PROVE  a \div DataSector = s <=> a \in base..(base + DataSector - 1)
    <3>1. CASE a \div DataSector = s
      <4>1. s * DataSector <= a /\ a < s * DataSector + DataSector
        BY <1>0, <3>1, InBlock
      <4>2. base <= a /\ a < base + DataSector
        BY <4>1
      <4> HIDE DEF base
      <4> QED  BY <1>0, <2>3, <3>1, <4>2
    <3>2. CASE a \in base..(base + DataSector - 1)
      <4>1. base <= a /\ a - base \in 0..(DataSector - 1) /\ a = base + (a - base)
        <5> HIDE DEF base
        <5> QED  BY <1>0, <2>3, <3>2
      <4>2. a \div DataSector = s
        BY <1>0, <2>2, <4>1, BlockOf
      <4> QED  BY <3>2, <4>2
    <3> QED  BY <3>1, <3>2
  <2> HIDE DEF base
  <2>6. ErasedBehind'
    BY <1>1, <1>3, <2>4 DEF DataPart, ErasedBehind, ErasedFrom, EndOf, Newest, DataEnd
  <2>7. ErasedAhead'
    <3>1. ASSUME NEW a \in 0..(DataEnd - 1), a \div DataSector = s
          PROVE  data'[a] = NoOne
      <4>1. a \in Nat
        BY <1>0, <3>1
      <4> QED  BY <2>4, <2>5, <3>1, <4>1
    <3> QED  BY <2>3, <2>4, <3>1 DEF ErasedAhead, ErasedFrom, DataEnd
  <2>8. DataStay'
    <3> SUFFICES ASSUME NEW m \in live', NEW a \in BytesOf(m) PROVE data'[a] = m
      BY <1>1 DEF DataStay, BytesOf, EndOf
    <3>1. m \in live /\ m \in 1..Len(stored) /\ stored[m].address \div DataSector # s
      BY <1>0, <2>4 DEF TypeOK, DataIn
    <3>2. a \in Nat /\ a \div DataSector # s
      BY <1>0, <3>1, BytesTogether
    <3>3. a \notin base..(base + DataSector - 1)
      BY <2>5, <3>2
    <3>4. data[a] = m
      BY <1>3, <3>1 DEF DataPart, DataStay
    <3>5. a \in 0..(DataEnd - 1)
      BY <3>1, BytesInRegion
    <3> QED  BY <2>4, <3>3, <3>4, <3>5
  <2> QED  BY <1>1, <2>6, <2>7, <2>8 DEF DataPart, Committed
<1>5. CASE ~NewDataSector
  <2>1. UNCHANGED <<data, curWrite, live>> /\ DataNotErased = {}
    BY <1>5 DEF PlaceData
  <2>2. ErasedBehind' /\ DataStay'
    BY <1>1, <1>3, <2>1
       DEF DataPart, ErasedBehind, ErasedFrom, EndOf, Newest, DataEnd, DataStay, BytesOf
  <2>3. ErasedFrom(curWrite, curWrite \div DataSector)
    <3>1. CASE curWrite % DataSector = 0
      <4>1. \A a \in curWrite..(curWrite + DataSector - 1) : data[a] = NoOne
        BY <2>1, <3>1 DEF DataNotErased
      <4> SUFFICES ASSUME NEW a \in 0..(DataEnd - 1), a >= curWrite,
                          a \div DataSector = curWrite \div DataSector
                   PROVE  data[a] = NoOne
        BY DEF ErasedFrom
      <4>2. a \in Nat
        BY <1>0
      <4> DEFINE base == (curWrite \div DataSector) * DataSector
      <4>3. base \in Nat /\ a < base + DataSector /\ curWrite = base
        BY <1>0, <3>1, <4>2, InBlock
      <4> HIDE DEF base
      <4>4. a \in curWrite..(curWrite + DataSector - 1)
        BY <1>0, <4>2, <4>3
      <4> QED  BY <4>1, <4>4
    <3>2. CASE curWrite % DataSector # 0
      <4>1. 0 % DataSector = 0
        BY <1>0, SMT
      <4>2. stored # << >> /\ curWrite = EndOf(Newest)
        BY <1>3, <3>2, <4>1 DEF GoesOn
      <4>3. (curWrite - 1) \div DataSector = curWrite \div DataSector
        BY <1>0, <3>2, InBlock
      <4>4. stored[Newest].address \div DataSector = curWrite \div DataSector
        BY <1>0, <4>2, <4>3, NewestStored DEF PlacedWell
      <4> QED  BY <1>3, <4>2, <4>4 DEF DataPart, ErasedBehind
    <3> QED  BY <3>1, <3>2
  <2>4. ErasedAhead'
    BY <2>1, <2>3 DEF ErasedAhead, ErasedFrom, DataEnd
  <2> QED  BY <1>1, <2>2, <2>4 DEF DataPart, Committed
<1> QED  BY <1>4, <1>5

(* The record of a message: it becomes the newest, and what is behind it   *)
(* is erased.                                                              *)
LEMMA DataRecorded ==
  ASSUME IInv, DataInv, WriteRecord
  PROVE  DataInv'
<1>0. TypeOK
  BY DEF IInv
<1>1. pc = "writeRecord" /\ pc' = "writeData" /\ UNCHANGED <<data, curWrite, length, live>>
      /\ (faults' = {} => faults = {})
  BY DEF WriteRecord
<1>a. PICK n : n = Len(stored) + 1
  OBVIOUS
<1>2. /\ n \in Nat /\ Len(stored) \in Nat /\ Len(stored') = n /\ Newest' = n /\ stored' # << >>
      /\ \A k \in 1..Len(stored) : stored'[k] = stored[k]
      /\ stored'[n] = [header |-> curHeader, address |-> curWrite, length |-> length]
  <2>1. stored' # << >>
    BY RecordWritten
  <2> QED  BY <1>a, <2>1, RecordWritten DEF Newest
<1>3. 1..Len(stored') = 1..Len(stored) \union {n} /\ n \notin 1..Len(stored)
  BY <1>2, <1>a
<1>4. \A k \in 1..Len(stored) : EndOf(k)' = EndOf(k)
  BY <1>2, <1>3 DEF EndOf
<1>5. EndOf(n)' = curWrite + length /\ stored'[n].address = curWrite /\ stored'[n].length = length
  BY <1>2 DEF EndOf
<1>b. length \in Nat /\ curWrite \in Nat /\ DataEnd \in Nat
  BY <1>0, <1>1, FlashDatabaseAssumption, Layout DEF IInv, TypeOK
<1>6. PlacedWell'
  <2>1. curWrite \div DataSector = (curWrite + length - 1) \div DataSector
    BY <1>1 DEF IInv, WritesInRegion
  <2>2. ASSUME NEW m \in 1..Len(stored')
        PROVE  stored'[m].address \div DataSector = (EndOf(m)' - 1) \div DataSector
    <3>1. CASE m = n
      <4>1. EndOf(m)' = curWrite + length /\ stored'[m].address = curWrite
        BY <1>5, <3>1 DEF EndOf
      <4>2. curWrite + length - 1 = (curWrite + length) - 1
        BY <1>b
      <4> QED  BY <2>1, <4>1, <4>2
    <3>2. CASE m \in 1..Len(stored)
      BY <1>2, <1>4, <3>2 DEF DataInv, PlacedWell
    <3> QED  BY <1>3, <3>1, <3>2
  <2> QED  BY <1>1, <1>2, <1>5, <2>2 DEF PlacedWell
<1> SUFFICES ASSUME faults' = {} PROVE DataPart'
  BY <1>6 DEF DataInv
<1>7. DataPart
  BY <1>1 DEF DataInv
<1>8. ErasedFrom(curWrite, curWrite \div DataSector)
  BY <1>1, <1>7 DEF DataPart, ErasedAhead, Committed
<1>9. ErasedAhead'
  BY <1>1, <1>8 DEF ErasedAhead, ErasedFrom, DataEnd
<1>10. ErasedBehind'
  <2>1. \A a \in 0..(DataEnd - 1) :
          a >= curWrite + length /\ a \div DataSector = curWrite \div DataSector => data[a] = NoOne
    BY <1>b, <1>8 DEF ErasedFrom
  <2>2. EndOf(Newest)' = curWrite + length /\ stored'[Newest'].address = curWrite
    BY <1>2, <1>5 DEF EndOf
  <2> QED  BY <1>1, <2>1, <2>2 DEF ErasedBehind, ErasedFrom, DataEnd
<1>11. DataStay'
  <2> SUFFICES ASSUME NEW m \in live, NEW a \in BytesOf(m)' PROVE data[a] = m
    BY <1>1 DEF DataStay
  <2>1. m \in 1..Len(stored)
    BY <1>0 DEF TypeOK
  <2>2. a \in BytesOf(m)
    BY <1>2, <1>4, <2>1 DEF BytesOf
  <2> QED  BY <1>7, <2>2 DEF DataPart, DataStay
<1> QED  BY <1>1, <1>9, <1>10, <1>11 DEF DataPart, Committed

(* The bytes of a message: they were erased, so they are not those of      *)
(* another that is to stay.                                                *)
LEMMA DataWritten ==
  ASSUME IInv, DataInv, WriteData
  PROVE  DataInv'
<1>0. TypeOK /\ PlacedWell /\ DataEnd \in Nat
  BY Layout DEF IInv, DataInv
<1>1. /\ pc = "writeData" /\ pc' = "idle" /\ stored' = stored
      /\ curWrite' = curWrite + length /\ live' = live \union {Newest}
      /\ data' = [a \in 0..(DataEnd - 1) |->
                    IF a \in curWrite..(curWrite + length - 1)
                      THEN ProgramByte(data[a], Newest) ELSE data[a]]
      /\ (faults' = {} => faults = {})
  BY DEF WriteData, Newest
<1>2. /\ Newest \in 1..Len(stored) /\ stored # << >> /\ curWrite \in Nat
      /\ curWrite = stored[Newest].address /\ curWrite + length = EndOf(Newest)
      /\ EndOf(Newest) \in Nat /\ length \in Nat
  BY <1>0, <1>1, NewestStored, StoredAt DEF PlacedWell, EndOf
<1>3. /\ \A m : EndOf(m)' = EndOf(m) /\ BytesOf(m)' = BytesOf(m)
      /\ Newest' = Newest
  BY <1>1 DEF EndOf, BytesOf, Newest
<1>4. curWrite..(curWrite + length - 1) = BytesOf(Newest)
  BY <1>2 DEF BytesOf
<1>5. PlacedWell'
  BY <1>1, <1>3 DEF DataInv, PlacedWell
<1> SUFFICES ASSUME faults' = {} PROVE DataPart'
  BY <1>5 DEF DataInv
<1>6. DataPart /\ ErasedFrom(curWrite, curWrite \div DataSector)
  BY <1>1 DEF DataInv, DataPart, ErasedAhead, Committed
<1>7. ASSUME NEW a \in BytesOf(Newest)
      PROVE  a \in 0..(DataEnd - 1) /\ data[a] = NoOne
  <2>1. a \in Nat /\ a \div DataSector = curWrite \div DataSector
    BY <1>0, <1>2, <1>7, BytesTogether
  <2>2. a \in 0..(DataEnd - 1)
    BY <1>2, <1>7, BytesInRegion
  <2>3. a >= curWrite
    BY <1>2, <1>4, <1>7
  <2> QED  BY <1>6, <2>1, <2>2, <2>3 DEF ErasedFrom
<1>8. GoesOn'
  BY <1>1, <1>2, <1>3 DEF GoesOn
<1>9. ErasedBehind'
  <2>1. ErasedFrom(EndOf(Newest), stored[Newest].address \div DataSector)
    BY <1>2, <1>6 DEF DataPart, ErasedBehind
  <2>2. ASSUME NEW a \in 0..(DataEnd - 1), a >= EndOf(Newest),
               a \div DataSector = stored[Newest].address \div DataSector
        PROVE  data'[a] = NoOne
    <3>1. a \notin BytesOf(Newest)
      BY <1>2, <2>2 DEF BytesOf
    <3> QED  BY <1>1, <1>4, <2>1, <2>2, <3>1 DEF ErasedFrom
  <2> QED  BY <1>1, <1>3, <2>2 DEF ErasedBehind, ErasedFrom, DataEnd
<1>10. DataStay'
  <2> SUFFICES ASSUME NEW m \in live \union {Newest}, NEW a \in BytesOf(m) PROVE data'[a] = m
    BY <1>1, <1>3 DEF DataStay
  <2>1. m \in 1..Len(stored)
    BY <1>0, <1>2 DEF TypeOK
  <2>2. a \in 0..(DataEnd - 1)
    BY <2>1, BytesInRegion
  <2>3. CASE m = Newest
    BY <1>1, <1>4, <1>7, <2>2, <2>3 DEF ProgramByte
  <2>4. CASE m # Newest
    <3>1. data[a] = m
      BY <1>6, <2>4 DEF DataPart, DataStay
    <3>2. m # NoOne
      BY <2>1 DEF NoOne
    <3>3. a \notin BytesOf(Newest)
      BY <1>7, <3>1, <3>2
    <3> QED  BY <1>1, <1>4, <2>2, <3>1, <3>3
  <2> QED  BY <2>3, <2>4
<1> QED  BY <1>1, <1>8, <1>9, <1>10 DEF DataPart, ErasedAhead, Committed

LEMMA DataStep ==
  ASSUME IInv, SecondInv, HeaderInv, DataInv, [Next]_vars
  PROVE  DataInv'
<1>1. CASE BootErase \/ BootInit \/ (\E len \in Lengths : Store(len)) \/ EraseFat \/ InitFat
           \/ StartSearch \/ DoSearch
  <2>1. UNCHANGED <<data, curWrite, stored, faults>> /\ live' \subseteq live
    BY <1>1 DEF BootErase, BootInit, Store, EraseFat, InitFat, StartSearch, DoSearch,
                flashVars, curVars, histVars
  <2>2. pc \notin Committed /\ pc' \notin Committed
    BY <1>1 DEF BootErase, BootInit, Store, EraseFat, InitFat, StartSearch, DoSearch, Committed
  <2>3. faults' = {} => faults = {} /\ GoesOn'
    BY <2>1, <2>2 DEF DataInv, DataPart, GoesOn, EndOf, Newest
  <2> QED  BY <2>1, <2>2, <2>3, DataUnchanged
<1>2. CASE Restart
  <2>1. UNCHANGED <<data, stored, live, faults>> /\ curWrite' = 0 /\ pc' \notin Committed
    BY <1>2 DEF Restart, flashVars, Committed
  <2> QED  BY <2>1, DataUnchanged DEF GoesOn
<1>3. CASE UNCHANGED vars
  BY <1>3 DEF vars, flashVars, curVars, histVars, DataInv, PlacedWell, DataPart, GoesOn, ErasedBehind,
              ErasedAhead, ErasedFrom, DataStay, EndOf, BytesOf, Newest, DataEnd
<1> QED  BY <1>1, <1>2, <1>3, DataBoot, DataPlaced, DataRecorded, DataWritten DEF Next

LEMMA DataInit == Init => DataInv
<1> SUFFICES ASSUME Init PROVE DataInv
  OBVIOUS
<1>1. stored = << >> /\ Len(stored) = 0 /\ live = {} /\ pc = "off" /\ curWrite = 0
  BY DEF Init
<1> QED  BY <1>1 DEF DataInv, PlacedWell, DataPart, GoesOn, ErasedBehind, ErasedAhead, DataStay, Committed

(* As long as no fault has happened, storeData finds the place of the      *)
(* next data erased, and live messages keep theirs.                        *)
THEOREM DataInvariance == Spec => []DataInv
<1>1. IInv /\ SecondInv /\ HeaderInv /\ DataInv /\ [Next]_vars => DataInv'
  BY DataStep
<1> QED  BY <1>1, DataInit, Invariance, SecondInvariance, HeaderInvariance, PTL DEF Spec

(* The log goes on behind the records of the sector in use.                *)
LEMMA GoesOnBehind ==
  ASSUME IInv, HeaderPart, pc = "idle", NEW m \in live, stored[m].header \div Sector = activeSector
  PROVE  stored[m].header < curHeader
<1>1. m \in 1..Len(stored) /\ fat[stored[m].header] = Record(m)
  BY DEF IInv, TypeOK, HeaderPart, RecordsStay, Recorded
<1>2. stored[m].header \in CellsOf(activeSector) /\ stored[m].header \in Nat
  BY <1>1, RecordAt, StoredAt DEF IInv
<1>3. ~(stored[m].header >= curHeader)
  BY <1>1, <1>2, Kinds DEF HeaderPart, ErasedOn, Writing
<1>4. curHeader \in Nat
  BY Layout DEF IInv, TypeOK
<1> QED  BY <1>2, <1>3, <1>4

(* Whatever is stored stays, and the log goes on behind it, in front of    *)
(* any command and after any number of restarts, sectors and uses of them, *)
(* as long as no restart went back from the sector in use and nothing was  *)
(* written to a sector that begins there without having been erased.       *)
THEOREM Durability == Spec => []Durable
<1>1. IInv /\ HeaderInv /\ DataInv => Durable
  <2> SUFFICES ASSUME IInv, HeaderInv, DataInv PROVE Durable
    OBVIOUS
  <2>1. RecordsKept
    BY DEF IInv
  <2>2. ASSUME faults = {}, NEW m \in live
        PROVE  /\ fat[stored[m].header] = Record(m)
               /\ \A a \in stored[m].address..(stored[m].address + stored[m].length - 1) : data[a] = m
               /\ pc = "idle" /\ stored[m].header \div Sector = activeSector
                    => stored[m].header < curHeader
    <3>1. HeaderPart /\ DataPart
      BY <2>2 DEF HeaderInv, DataInv
    <3>2. m \in 1..Len(stored)
      BY DEF IInv, TypeOK
    <3>3. BytesOf(m) = stored[m].address..(stored[m].address + stored[m].length - 1)
      <4>1. stored[m].address \in Nat /\ stored[m].length \in Nat
        BY <3>2, StoredAt DEF IInv
      <4> QED  BY <4>1 DEF BytesOf, EndOf
    <3> QED  BY <3>1, <3>3, GoesOnBehind DEF HeaderPart, RecordsStay, Recorded, DataPart, DataStay
  <2> QED  BY <2>1, <2>2 DEF Durable
<1> QED  BY <1>1, Invariance, HeaderInvariance, DataInvariance, PTL
=============================================================================
