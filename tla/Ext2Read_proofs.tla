--------------------------- MODULE Ext2Read_proofs ---------------------------
(***************************************************************************)
(* Theorems about ext2fs_read_file, for every geometry, every file system, *)
(* every sequence of requests and any number of failing reads.             *)
(***************************************************************************)
EXTENDS Ext2Read, TLAPS

-----------------------------------------------------------------------------
(* Arithmetic *)

LEMMA Division ==
    ASSUME NEW a \in Nat, NEW b \in Nat \ {0}
    PROVE  /\ a \div b \in Nat /\ a % b \in 0 .. b - 1
           /\ a = b * (a \div b) + (a % b)
BY SMT

LEMMA Quotient ==
    ASSUME NEW a \in Nat, NEW b \in Nat \ {0}, NEW q \in Nat, NEW r \in 0 .. b - 1, a = b * q + r
    PROVE  a \div b = q /\ a % b = r
BY SMT

LEMMA Product ==
    ASSUME NEW m \in Nat, NEW n \in Nat, NEW b \in Nat \ {0}
    PROVE  /\ m * b \in Nat /\ m * b = b * m
           /\ m < n => m * b + b <= n * b
           /\ m <= n => m * b <= n * b
           /\ m * b < n * b => m < n
           /\ (m + 1) * b = m * b + b
           /\ (m + n) * b = m * b + n * b
BY SMT

LEMMA Sizes ==
    /\ SectorSize \in Nat \ {0} /\ SectorsPerBlock \in Nat \ {0}
    /\ BlockSize \in Nat \ {0} /\ BlockSize = SectorsPerBlock * SectorSize
    /\ PartitionBlocks \in Nat \ {0} /\ Room \in Nat \ {0}
BY GeometryAssumption DEF BlockSize
-----------------------------------------------------------------------------
(* ext2fs_devread *)

\* Head, whole sectors and tail follow each other without a seam.
LEMMA Straight ==
    ASSUME NEW d \in Delayed, NEW k \in 0 .. d.extent - 1
    PROVE  Delivered(d, k) = d.start * SectorSize + d.skip + k
<1> DEFINE s == SectorSize
           q == d.skip \div s
           r == d.skip % s
<1>1. /\ d.start \in Nat /\ d.skip \in Nat /\ d.extent \in Nat /\ k \in Nat /\ k < d.extent
      /\ s \in Nat \ {0}
  BY Sizes DEF Delayed
<1>2. q \in Nat /\ r \in 0 .. s - 1 /\ d.skip = s * q + r
  BY <1>1, Division
<1>3. (d.start + q) * s = d.start * s + s * q /\ (d.start + q + 1) * s = d.start * s + s * q + s
  <2> HIDE DEF q, s
  <2>. QED  BY <1>1, <1>2, Product
<1>4. HeadLen(d) = IF r = 0 THEN 0 ELSE IF s - r < d.extent THEN s - r ELSE d.extent
  BY DEF HeadLen, Least
<1>5. FirstSector(d) = d.start + q /\ WholeSector(d) = d.start + q + (IF r = 0 THEN 0 ELSE 1)
  BY DEF FirstSector, WholeSector
<1>6. PICK h : h = HeadLen(d)
  OBVIOUS
<1>7. h \in Nat /\ d.extent - h \in Nat
  <2> HIDE DEF q, r, s
  <2>. QED  BY <1>1, <1>2, <1>4, <1>6
<1>8. PICK w : w = (d.extent - h) \div s
  OBVIOUS
<1>9. w \in Nat /\ w * s \in Nat
  BY <1>1, <1>7, <1>8, Division, Product
<1>10. WholeLen(d) = w * s /\ TailStart(d) = h + w * s
  BY <1>6, <1>8 DEF WholeLen, TailStart
<1>11. WholeLen(d) \div s = w
  <2>1. w * s = s * w + 0 /\ 0 \in 0 .. s - 1
    BY <1>1, <1>9, Product
  <2>. QED  BY <2>1, <1>1, <1>9, <1>10, Quotient
<1>12. TailSector(d) = WholeSector(d) + w
  BY <1>11 DEF TailSector
<1>13. (d.start + q + w) * s = d.start * s + s * q + w * s
       /\ (d.start + q + 1 + w) * s = d.start * s + s * q + s + w * s
  <2> HIDE DEF q, s
  <2>1. (d.start + q + w) * s = (d.start + q) * s + w * s
    BY <1>1, <1>2, <1>9, Product
  <2>2. (d.start + q + 1 + w) * s = (d.start + q + 1) * s + w * s
    BY <1>1, <1>2, <1>9, Product
  <2>. QED  BY <2>1, <2>2, <1>3
<1>14. PICK x : x = Delivered(d, k)
  OBVIOUS
<1>15. x = CASE k < h -> FirstSector(d) * s + r + k
             [] h <= k /\ k < h + w * s -> WholeSector(d) * s + k - h
             [] OTHER -> TailSector(d) * s + k - (h + w * s)
  BY <1>6, <1>10, <1>14 DEF Delivered
<1> HIDE DEF q, r, s
<1>16. CASE r = 0
  BY <1>16, <1>1, <1>2, <1>3, <1>4, <1>5, <1>6, <1>7, <1>9, <1>12, <1>13, <1>14, <1>15 DEF s
<1>17. CASE r # 0 /\ s - r < d.extent
  <2>1. h = s - r
    BY <1>17, <1>4, <1>6
  <2>. QED
    BY <1>17, <2>1, <1>1, <1>2, <1>3, <1>5, <1>7, <1>9, <1>12, <1>13, <1>14, <1>15 DEF s
<1>18. CASE r # 0 /\ ~(s - r < d.extent)
  <2>1. h = d.extent
    BY <1>18, <1>4, <1>6
  <2>. QED
    BY <1>18, <2>1, <1>1, <1>2, <1>3, <1>5, <1>14, <1>15 DEF s
<1>. QED  BY <1>16, <1>17, <1>18

\* "Check partition boundaries" keeps every byte inside the partition.
LEMMA InPartition ==
    ASSUME NEW d \in Delayed, NEW k \in 0 .. d.extent - 1, ~Outside(d)
    PROVE  Delivered(d, k) \in Addresses
<1> DEFINE s == SectorSize
           x == d.skip + d.extent - 1
           q == x \div s
           p == PartitionBlocks * SectorsPerBlock
<1>1. d.start \in Nat /\ d.skip \in Nat /\ x \in Nat /\ k \in Nat /\ d.skip + k <= x
  BY DEF Delayed
<1>2. q \in Nat /\ x % s \in 0 .. s - 1 /\ x = s * q + (x % s)
  BY <1>1, Sizes, Division
<1>3. p \in Nat /\ p * s = BlockSize * PartitionBlocks
  BY Sizes
<1>4. d.start + q < p
  BY <1>1, <1>2, <1>3 DEF Outside
<1>5. (d.start + q) * s + s <= p * s /\ (d.start + q) * s = d.start * s + s * q
  <2> HIDE DEF q, p, s
  <2>1. s \in Nat \ {0}
    BY Sizes DEF s
  <2>. QED  BY <2>1, <1>1, <1>2, <1>3, <1>4, Product
<1>6. d.start * s \in Nat
  BY <1>1, Sizes, Product
<1>7. Delivered(d, k) = d.start * s + d.skip + k
  BY Straight
<1>8. BlockSize * PartitionBlocks \in Nat
  BY Sizes
<1>9. s \in Nat \ {0}
  BY Sizes
<1> HIDE DEF q, p, s, x
<1>10. d.start * s + x < p * s
  <2>1. PICK a : a = d.start * s
    OBVIOUS
  <2>2. PICK b : b = s * q
    OBVIOUS
  <2>3. PICK c : c = p * s
    OBVIOUS
  <2>4. PICK r : r = x % s
    OBVIOUS
  <2>5. a \in Nat /\ c \in Nat /\ b \in Nat /\ r \in 0 .. s - 1
    BY <1>2, <1>3, <1>6, <1>8, <1>9, <2>1, <2>2, <2>3, <2>4
  <2>6. x = b + r /\ a + b + s <= c
    BY <1>2, <1>5, <2>1, <2>2, <2>3, <2>4
  <2>. QED  BY <1>1, <1>9, <2>1, <2>3, <2>5, <2>6
<1>11. d.start * s + d.skip + k \in Nat /\ d.start * s + d.skip + k <= d.start * s + x
  BY <1>1, <1>6
<1>12. PICK v : v = Delivered(d, k)
  OBVIOUS
<1>13. PICK c : c = BlockSize * PartitionBlocks
  OBVIOUS
<1>14. v \in Nat /\ c \in Nat /\ v < c
  <2>1. PICK y : y = d.start * s + x
    OBVIOUS
  <2>2. v \in Nat /\ v <= y
    BY <1>7, <1>11, <1>12, <2>1
  <2>3. c \in Nat /\ y < c
    BY <1>3, <1>8, <1>10, <1>13, <2>1
  <2>4. y \in Nat
    BY <1>1, <1>6, <2>1
  <2>. QED  BY <2>2, <2>3, <2>4
<1>. QED  BY <1>12, <1>13, <1>14 DEF Addresses

LEMMA CutsInside ==
    ASSUME NEW d \in Delayed, NEW n \in Cuts(d)
    PROVE  n \in 0 .. d.extent
<1> DEFINE s == SectorSize
           r == d.skip % s
           h == HeadLen(d)
           w == (d.extent - h) \div s
<1>1. d.skip \in Nat /\ d.extent \in Nat /\ s \in Nat \ {0}
  BY Sizes DEF Delayed
<1>2. r \in 0 .. s - 1
  BY <1>1, Division
<1>3. h \in Nat /\ d.extent - h \in Nat
  <2>1. h = IF r = 0 THEN 0 ELSE IF s - r < d.extent THEN s - r ELSE d.extent
    BY DEF HeadLen, Least
  <2> HIDE DEF r, h, s
  <2>. QED  BY <2>1, <1>1, <1>2
<1>4. w \in Nat /\ d.extent - h = s * w + ((d.extent - h) % s) /\ (d.extent - h) % s \in Nat
  <2>1. PICK e : e = d.extent - h
    OBVIOUS
  <2>2. e \in Nat /\ w = e \div s
    BY <1>3, <2>1
  <2> HIDE DEF h, s, w
  <2>3. w \in Nat /\ e = s * w + (e % s) /\ e % s \in Nat
    BY <1>1, <2>2, Division
  <2>. QED  BY <2>1, <2>3
<1>5. WholeLen(d) = w * s /\ TailStart(d) = h + w * s
  BY DEF WholeLen, TailStart
<1>6. WholeLen(d) \div s = w
  <2>1. w * s = s * w + 0 /\ 0 \in 0 .. s - 1 /\ w * s \in Nat
    BY <1>1, <1>4, Product
  <2>. QED  BY <2>1, <1>1, <1>4, <1>5, Quotient
<1>7. w * s = s * w
  BY <1>1, <1>4, Product
<1>8. n = 0 \/ n = h + w * s \/ \E m \in 0 .. w - 1 : n = h + m * s
  BY <1>5, <1>6 DEF Cuts
<1> HIDE DEF h, w, s, r
<1>9. CASE n = 0 \/ n = h + w * s
  BY <1>9, <1>1, <1>3, <1>4, <1>7
<1>10. ASSUME NEW m \in 0 .. w - 1, n = h + m * s PROVE n \in 0 .. d.extent
  <2>1. m * s + s <= w * s /\ m * s \in Nat
    BY <1>1, <1>4, Product
  <2>. QED  BY <2>1, <1>10, <1>1, <1>3, <1>4, <1>7
<1>. QED  BY <1>8, <1>9, <1>10

\* What a read that is inside the partition makes of the memory.
LEMMA StoredIs ==
    ASSUME TypeOK, NEW d \in Delayed, ~Outside(d), NEW n \in 0 .. d.extent
    PROVE  /\ Stored(d, n) \in [0 .. Room - 1 -> Addresses \union {Untouched, Zero}]
           /\ \A k \in 0 .. Room - 1 :
                 /\ k - d.buf \in 0 .. n - 1 =>
                       Stored(d, n)[k] = d.start * SectorSize + d.skip + (k - d.buf)
                 /\ k - d.buf \in 0 .. n - 1 => Stored(d, n)[k] \in Addresses
                 /\ k - d.buf \notin 0 .. n - 1 => Stored(d, n)[k] = mem[k]
<1>1. mem \in [0 .. Room - 1 -> Addresses \union {Untouched, Zero}]
  BY DEF TypeOK
<1>2. \A k \in 0 .. n - 1 : k \in 0 .. d.extent - 1
  BY DEF Delayed
<1>3. \A k \in 0 .. n - 1 : /\ Delivered(d, k) \in Addresses
                             /\ Delivered(d, k) = d.start * SectorSize + d.skip + k
  BY <1>2, InPartition, Straight
<1>. QED  BY <1>1, <1>3 DEF Stored
-----------------------------------------------------------------------------
(* The blocks of a request and their places in the buffer *)

End == req.pos + req.len
First == req.pos \div BlockSize
PlaceOf(n) == IF n = First THEN 0 ELSE n * BlockSize - req.pos

\* What the callers make sure of, and the adjusted length.
Asking ==
    /\ req.pos \in Nat /\ req.len \in Nat
    /\ req.len + 2 * BlockSize <= Room
    /\ End <= req.file.size
    /\ req.pos # 0 => req.len # 0

LEMMA Counting == Asking =>
           /\ BlockCount \in Nat /\ First \in Nat /\ First <= BlockCount
           /\ End <= BlockCount * BlockSize /\ BlockCount * BlockSize < End + BlockSize
           /\ First * BlockSize <= req.pos /\ req.pos < First * BlockSize + BlockSize
           /\ req.pos % BlockSize = req.pos - First * BlockSize
<1> SUFFICES ASSUME Asking
             PROVE  /\ BlockCount \in Nat /\ First \in Nat /\ First <= BlockCount
                    /\ End <= BlockCount * BlockSize /\ BlockCount * BlockSize < End + BlockSize
                    /\ First * BlockSize <= req.pos /\ req.pos < First * BlockSize + BlockSize
                    /\ req.pos % BlockSize = req.pos - First * BlockSize
  OBVIOUS
<1>1. /\ BlockSize \in Nat \ {0} /\ req.pos \in Nat /\ req.len \in Nat
      /\ End = req.pos + req.len
  BY Sizes DEF Asking, End
<1>2. PICK x : x = req.len + req.pos + BlockSize - 1
  OBVIOUS
<1>3. /\ BlockCount \in Nat /\ x % BlockSize \in 0 .. BlockSize - 1
      /\ x = BlockSize * BlockCount + (x % BlockSize)
  <2>1. BlockCount = x \div BlockSize
    BY <1>2 DEF BlockCount
  <2>2. x \in Nat
    BY <1>1, <1>2
  <2>3. BlockSize \in Nat \ {0}
    BY <1>1
  <2>. QED  BY <2>1, <2>2, <2>3, Division
<1>4. /\ First \in Nat /\ req.pos % BlockSize \in 0 .. BlockSize - 1
      /\ req.pos = BlockSize * First + (req.pos % BlockSize)
  <2>1. First = req.pos \div BlockSize
    BY DEF First
  <2>. QED  BY <2>1, <1>1, Division
<1>5. PICK b : b = BlockCount * BlockSize
  OBVIOUS
<1>6. PICK f : f = First * BlockSize
  OBVIOUS
<1>7. BlockSize \in Nat \ {0}
  BY <1>1
<1>8. b \in Nat /\ BlockSize * BlockCount = b
  BY <1>3, <1>5, <1>7
<1>9. f \in Nat /\ BlockSize * First = f
  BY <1>4, <1>6, <1>7
<1>10. End <= b /\ b < End + BlockSize
  <2>1. PICK r : r = x % BlockSize
    OBVIOUS
  <2>2. r \in 0 .. BlockSize - 1 /\ x = b + r
    BY <1>3, <1>8, <2>1
  <2>. QED  BY <2>2, <1>1, <1>2, <1>8
<1>11. f <= req.pos /\ req.pos < f + BlockSize /\ req.pos % BlockSize = req.pos - f
  <2>1. PICK r : r = req.pos % BlockSize
    OBVIOUS
  <2>2. r \in 0 .. BlockSize - 1 /\ req.pos = f + r
    BY <1>4, <1>9, <2>1
  <2>. QED  BY <2>1, <2>2, <1>1, <1>9
<1>12. First <= BlockCount
  <2>1. BlockCount < First => b + BlockSize <= f
    BY <1>3, <1>4, <1>5, <1>6, <1>7, Product
  <2>. QED  BY <2>1, <1>1, <1>3, <1>4, <1>8, <1>9, <1>10, <1>11
<1>. QED  BY <1>3, <1>4, <1>5, <1>6, <1>10, <1>11, <1>12

\* A block ends where the next one begins, the last one with the request.
LEMMA BlockEnds ==
    ASSUME Asking, i \in Nat, First <= i, i < BlockCount
    PROVE  /\ i * BlockSize < End
           /\ i + 1 < BlockCount => (i + 1) * BlockSize < End
           /\ i + 1 = BlockCount => End <= (i + 1) * BlockSize
           /\ Skipfirst \in 0 .. BlockSize - 1
           /\ Blockend \in 1 .. BlockSize - Skipfirst
           /\ PlaceOf(i) \in 0 .. req.len - 1
           /\ PlaceOf(i + 1) = PlaceOf(i) + BlockSize - Skipfirst
           /\ i + 1 < BlockCount => /\ Blockend = BlockSize - Skipfirst
                                    /\ PlaceOf(i + 1) < req.len
           /\ i + 1 = BlockCount => /\ PlaceOf(i) + Blockend = req.len
                                    /\ req.len <= PlaceOf(i + 1)
           /\ Skipfirst # 0 => i = First /\ PlaceOf(i) = 0
           /\ i * BlockSize + Skipfirst = req.pos + PlaceOf(i)
<1>1. /\ BlockSize \in Nat \ {0} /\ req.pos \in Nat /\ req.len \in Nat
      /\ End = req.pos + req.len /\ (req.pos # 0 => req.len # 0)
  BY Sizes DEF Asking, End
<1>2. /\ BlockCount \in Nat /\ First \in Nat
      /\ End <= BlockCount * BlockSize /\ BlockCount * BlockSize < End + BlockSize
      /\ First * BlockSize <= req.pos /\ req.pos < First * BlockSize + BlockSize
      /\ req.pos % BlockSize = req.pos - First * BlockSize
  BY Counting
<1>3. PICK b : b = BlockCount * BlockSize
  OBVIOUS
<1>4. PICK f : f = First * BlockSize
  OBVIOUS
<1>5. PICK c : c = i * BlockSize
  OBVIOUS
<1>6. b \in Nat /\ f \in Nat /\ c \in Nat /\ (i + 1) * BlockSize = c + BlockSize
  BY <1>1, <1>2, <1>3, <1>4, <1>5, Product
<1>7. c + BlockSize <= b /\ (i + 1 < BlockCount => c + BlockSize + BlockSize <= b)
  <2>1. i + 1 < BlockCount => (i + 1) * BlockSize + BlockSize <= BlockCount * BlockSize
    BY <1>1, <1>2, Product
  <2>2. i * BlockSize + BlockSize <= BlockCount * BlockSize
    BY <1>1, <1>2, Product
  <2>. QED  BY <2>1, <2>2, <1>3, <1>5, <1>6
<1>8. f <= c /\ (i # First => f + BlockSize <= c)
  <2>1. i # First => First * BlockSize + BlockSize <= i * BlockSize
    BY <1>1, <1>2, Product
  <2>. QED  BY <2>1, <1>1, <1>4, <1>5, <1>6
<1>9. End <= b /\ b < End + BlockSize /\ f <= req.pos /\ req.pos < f + BlockSize
  BY <1>2, <1>3, <1>4
<1>10. c < End /\ (i + 1 < BlockCount => c + BlockSize < End)
  BY <1>1, <1>6, <1>7, <1>9
<1>11. i + 1 = BlockCount => b = c + BlockSize
  BY <1>3, <1>6
<1>12. Skipfirst = IF i = First THEN req.pos - f ELSE 0
  <2>1. req.pos % BlockSize = req.pos - f
    BY <1>2, <1>4
  <2>. QED  BY <2>1 DEF Skipfirst, First
<1>13. PlaceOf(i) = (IF i = First THEN 0 ELSE c - req.pos) /\ PlaceOf(i + 1) = c + BlockSize - req.pos
  <2>1. i + 1 # First
    BY <1>2
  <2>2. PlaceOf(i) = IF i = First THEN 0 ELSE c - req.pos
    BY <1>5 DEF PlaceOf
  <2>3. PICK d : d = (i + 1) * BlockSize
    OBVIOUS
  <2>4. PlaceOf(i + 1) = d - req.pos
    BY <2>1, <2>3 DEF PlaceOf
  <2>5. d = c + BlockSize
    BY <2>3, <1>6
  <2>6. PlaceOf(i + 1) = c + BlockSize - req.pos
    BY <2>4, <2>5, <1>1, <1>6
  <2>. QED  BY <2>2, <2>6, Zenon
<1>14. i = First => f = c
  BY <1>4, <1>5
<1>15. i + 1 = BlockCount =>
          (IF End % BlockSize # 0 THEN End % BlockSize ELSE BlockSize) = End - c
  <2>1. ASSUME i + 1 = BlockCount PROVE End - c \in 1 .. BlockSize
    BY <2>1, <1>1, <1>6, <1>9, <1>10, <1>11
  <2>2. CASE i + 1 = BlockCount /\ End - c = BlockSize
    <3>1. End = BlockSize * (i + 1) + 0 /\ 0 \in 0 .. BlockSize - 1 /\ i + 1 \in Nat
      BY <2>2, <1>1, <1>6
    <3>2. End \in Nat /\ BlockSize \in Nat \ {0}
      BY <1>1
    <3>3. End % BlockSize = 0
      BY <3>1, <3>2, Quotient
    <3>. QED  BY <2>2, <3>3
  <2>3. CASE i + 1 = BlockCount /\ End - c # BlockSize
    <3>1. PICK r : r = End - c
      OBVIOUS
    <3>2. r \in 0 .. BlockSize - 1 /\ r # 0 /\ End = BlockSize * i + r
      BY <2>1, <2>3, <3>1, <1>1, <1>5, <1>6
    <3>3. End \in Nat /\ BlockSize \in Nat \ {0}
      BY <1>1
    <3>4. End % BlockSize = r
      BY <3>2, <3>3, Quotient
    <3>. QED  BY <3>1, <3>2, <3>4
  <2>. QED  BY <2>2, <2>3
<1>16. Blockend = (IF i + 1 = BlockCount THEN End - c ELSE BlockSize) - Skipfirst
  <2>1. req.len + req.pos = End
    BY <1>1
  <2>2. CASE i + 1 = BlockCount
    <3>1. i = BlockCount - 1
      BY <2>2, <1>2
    <3>. QED  BY <3>1, <2>1, <2>2, <1>15 DEF Blockend
  <2>3. CASE i + 1 # BlockCount
    <3>1. i # BlockCount - 1
      BY <2>3, <1>2
    <3>. QED  BY <3>1, <2>3 DEF Blockend
  <2>. QED  BY <2>2, <2>3
<1>17. PICK p, q, k, e :
          p = PlaceOf(i) /\ q = PlaceOf(i + 1) /\ k = Skipfirst /\ e = Blockend
  OBVIOUS
<1>18. BlockCount \in Nat
  BY <1>2
<1>19. k \in 0 .. BlockSize - 1 /\ p \in 0 .. req.len - 1 /\ q = p + BlockSize - k
  BY <1>1, <1>6, <1>8, <1>9, <1>10, <1>12, <1>13, <1>14, <1>17
<1>20. i + 1 < BlockCount => e = BlockSize - k /\ q < req.len
  BY <1>1, <1>6, <1>10, <1>13, <1>16, <1>17, <1>18, <1>19
<1>21. i + 1 = BlockCount => p + e = req.len /\ req.len <= q
  BY <1>1, <1>6, <1>9, <1>10, <1>11, <1>12, <1>13, <1>14, <1>16, <1>17, <1>19
<1>22. e \in 1 .. BlockSize - k
  <2>1. e \in Int
    BY <1>1, <1>6, <1>16, <1>17, <1>19
  <2>2. i + 1 < BlockCount \/ i + 1 = BlockCount
    BY <1>18
  <2>3. CASE i + 1 < BlockCount
    BY <2>1, <2>3, <1>1, <1>19, <1>20
  <2>4. CASE i + 1 = BlockCount
    BY <2>1, <2>4, <1>1, <1>19, <1>21
  <2>. QED  BY <2>2, <2>3, <2>4
<1>23. (k # 0 => i = First /\ p = 0) /\ c + k = req.pos + p
  BY <1>1, <1>6, <1>12, <1>13, <1>14, <1>17
<1>24. i + 1 = BlockCount => End <= c + BlockSize
  BY <1>9, <1>11
<1>. QED
  BY <1>5, <1>6, <1>10, <1>17, <1>19, <1>20, <1>21, <1>22, <1>23, <1>24
-----------------------------------------------------------------------------
(* Types, and where the walk over the blocks stands *)

Placed ==
    /\ Asking
    /\ pc \in {"lookup", "place"} => i < BlockCount
    /\ pc = "flush" => i = BlockCount
    /\ pc # "idle" => First <= i /\ buf = PlaceOf(i)
    /\ delayed.on => /\ delayed.extent > 0
                     /\ delayed.buf + delayed.extent = Least(buf, req.len)

LEMMA AdjustedIs ==
    ASSUME NEW r \in Requests
    PROVE  /\ Adjusted(r) \in [file: Files, pos: Nat, len: Nat]
           /\ Adjusted(r).pos = r.pos
           /\ Adjusted(r).len + 2 * BlockSize <= Room
           /\ Adjusted(r).pos + Adjusted(r).len <= Adjusted(r).file.size
           /\ Adjusted(r).pos # 0 => Adjusted(r).len # 0
<1>1. /\ r \in [file: Files, pos: Nat, len: Nat \ {0}] /\ r.file.size \in Nat
      /\ r.pos = 0 \/ r.pos + r.len <= r.file.size
      /\ r.len + 2 * BlockSize <= Room
  BY FilesAssumption DEF Inode
<1>2. BlockSize \in Nat /\ Room \in Nat
  BY Sizes
<1>. QED  BY <1>1, <1>2 DEF Adjusted

LEMMA InitPlaced == Init => TypeOK /\ Placed
<1> SUFFICES ASSUME Init PROVE TypeOK /\ Placed
  OBVIOUS
<1>1. PICK r \in Requests : req = Adjusted(r)
  BY DEF Init
<1>2. Asking
  BY <1>1, AdjustedIs, FilesAssumption DEF Asking, End
<1>3. BlockCount \in Nat
  BY <1>2, Counting
<1>4. Placed
  BY <1>2 DEF Init, Placed, NoDelay
<1>5. req \in [file: Files, pos: Nat, len: Nat] /\ req.len <= req.file.size
  <2>1. req.file.size \in Nat
    BY <1>1, AdjustedIs, FilesAssumption DEF Inode
  <2>. QED  BY <1>1, <1>2, <2>1, AdjustedIs DEF Asking, End
<1>6. NoDelay \in Delayed
  BY Sizes DEF NoDelay, Delayed
<1>7. NoCache \in Cache
  BY GeometryAssumption DEF NoCache, Cache, Entries
<1>8. i \in 0 .. BlockCount
  BY <1>3 DEF Init
<1>9. /\ buf \in 0 .. Room /\ faults \in 0 .. MaxFaults
      /\ mem \in [0 .. Room - 1 -> Addresses \union {Untouched, Zero}]
  BY GeometryAssumption DEF Init
<1>10. /\ pc = "idle" /\ blknr = 0 /\ delayed = NoDelay /\ indir1 = NoCache /\ indir2 = NoCache
       /\ result = 0 /\ torn = FALSE
  BY DEF Init
<1>11. TypeOK
  BY <1>5, <1>6, <1>7, <1>8, <1>9, <1>10, Zenon DEF TypeOK
<1>. QED  BY <1>4, <1>11

LEMMA CallStep ==
    ASSUME TypeOK, Placed, NEW r \in Requests, Call(r)
    PROVE  TypeOK' /\ Placed'
<1>1. req' = Adjusted(r)
  BY DEF Call
<1>2. Asking'
  BY <1>1, AdjustedIs, FilesAssumption DEF Asking, End
<1>3. BlockCount' \in Nat /\ First' \in Nat /\ First' <= BlockCount'
  <2>1. Asking' => (BlockCount \in Nat /\ First \in Nat /\ First <= BlockCount)'
    BY Counting, PTL
  <2>. QED  BY <1>2, <2>1
<1>4. i' = First'
  BY <1>1, AdjustedIs DEF Call, First
<1>5. /\ buf' = 0 /\ delayed' = NoDelay /\ blknr' = 0 /\ result' = 0
      /\ mem' = [k \in 0 .. Room - 1 |-> Untouched]
      /\ pc' = IF i' < BlockCount' THEN "lookup" ELSE "flush"
      /\ UNCHANGED <<indir1, indir2, faults, torn>>
  BY DEF Call
<1>7. Placed'
  <2>1. /\ pc' \in {"lookup", "place"} => i' < BlockCount'
        /\ pc' = "flush" => i' = BlockCount'
    BY <1>3, <1>4, <1>5
  <2>2. First' <= i'
    BY <1>3, <1>4
  <2>3. ~delayed'.on
    BY <1>5 DEF NoDelay
  <2>4. PlaceOf(i)' = 0
    BY <1>4 DEF PlaceOf
  <2>. QED  BY <1>2, <1>5, <2>1, <2>2, <2>3, <2>4 DEF Placed
<1>8. req' \in [file: Files, pos: Nat, len: Nat] /\ req'.len <= req'.file.size
  <2>1. req'.file.size \in Nat
    BY <1>1, AdjustedIs, FilesAssumption DEF Inode
  <2>. QED  BY <1>1, <1>2, <2>1, AdjustedIs DEF Asking, End
<1>9. NoDelay \in Delayed
  BY Sizes DEF NoDelay, Delayed
<1>10. i' \in 0 .. BlockCount'
  BY <1>3, <1>4
<1>11. pc' \in {"lookup", "flush"} /\ buf' \in 0 .. Room
  BY <1>5, Sizes
<1>. QED
  BY <1>5, <1>7, <1>8, <1>9, <1>10, <1>11 DEF TypeOK

Memory == [0 .. Room - 1 -> Addresses \union {Untouched, Zero}]

LEMMA SameRequest ==
    ASSUME req' = req
    PROVE  /\ BlockCount' = BlockCount /\ First' = First /\ End' = End
           /\ Asking => Asking'
BY DEF BlockCount, First, End, Asking

LEMMA FoundStep ==
    ASSUME TypeOK, Placed, pc = "lookup", NEW b \in Nat, Found(b),
           indir1' \in Cache, indir2' \in Cache, faults' \in 0 .. MaxFaults, torn' \in BOOLEAN
    PROVE  TypeOK' /\ Placed'
<1>1. /\ UNCHANGED <<req, i, buf, delayed, mem, result>>
      /\ pc' = "place" /\ blknr' = b
  BY DEF Found
<1>2. BlockCount' = BlockCount /\ First' = First /\ Asking'
  BY <1>1, SameRequest DEF Placed
<1>3. PlaceOf(i)' = PlaceOf(i)
  BY <1>1, <1>2 DEF PlaceOf
<1>4. Placed'
  BY <1>1, <1>2, <1>3 DEF Placed
<1>5. TypeOK'
  BY <1>1, <1>2, Zenon DEF TypeOK
<1>. QED  BY <1>4, <1>5

LEMMA FailStep ==
    ASSUME TypeOK, Placed, pc # "idle", Fail, mem' \in Memory,
           indir1' \in Cache, indir2' \in Cache, faults' \in 0 .. MaxFaults, torn' \in BOOLEAN
    PROVE  TypeOK' /\ Placed'
<1>1. /\ UNCHANGED <<req, i, blknr, buf, delayed>>
      /\ pc' = "done" /\ result' = -1
  BY DEF Fail
<1>2. BlockCount' = BlockCount /\ First' = First /\ Asking'
  BY <1>1, SameRequest DEF Placed
<1>3. PlaceOf(i)' = PlaceOf(i)
  BY <1>1, <1>2 DEF PlaceOf
<1>4. Placed'
  BY <1>1, <1>2, <1>3 DEF Placed
<1>5. TypeOK'
  BY <1>1, <1>2, Zenon DEF TypeOK, Memory
<1>. QED  BY <1>4, <1>5

LEMMA CacheStep ==
    ASSUME TypeOK, Placed, UNCHANGED <<pc, walk>>,
           indir1' \in Cache, indir2' \in Cache, faults' \in 0 .. MaxFaults, torn' \in BOOLEAN
    PROVE  TypeOK' /\ Placed'
<1>1. UNCHANGED <<pc, req, i, blknr, buf, delayed, mem, result>>
  BY DEF walk
<1>2. BlockCount' = BlockCount /\ First' = First /\ Asking'
  BY <1>1, SameRequest DEF Placed
<1>3. PlaceOf(i)' = PlaceOf(i)
  BY <1>1, <1>2 DEF PlaceOf
<1>4. Placed'
  BY <1>1, <1>2, <1>3 DEF Placed
<1>5. TypeOK'
  BY <1>1, <1>2, Zenon DEF TypeOK
<1>. QED  BY <1>4, <1>5

LEMMA AdvanceStep ==
    ASSUME TypeOK, Placed, pc = "place", Advance, mem' \in Memory, delayed' \in Delayed,
           delayed'.on => /\ delayed'.extent > 0
                          /\ delayed'.buf + delayed'.extent = Least(buf', req.len)
    PROVE  TypeOK' /\ Placed'
<1>1. /\ UNCHANGED <<req, blknr, result, indir1, indir2, faults, torn>>
      /\ i' = i + 1 /\ buf' = buf + BlockSize - Skipfirst
      /\ pc' = IF i + 1 < BlockCount THEN "lookup" ELSE "flush"
  BY DEF Advance
<1>2. BlockCount' = BlockCount /\ First' = First /\ Asking'
  BY <1>1, SameRequest DEF Placed
<1>3. /\ Asking /\ i \in Nat /\ First <= i /\ i < BlockCount /\ buf = PlaceOf(i)
  BY DEF Placed, TypeOK
<1>4. First \in Nat /\ BlockCount \in Nat
  BY <1>3, Counting
<1>5. buf' = PlaceOf(i + 1)
  BY <1>1, <1>3, BlockEnds
<1>6. PlaceOf(i)' = PlaceOf(i + 1)
  BY <1>1, <1>2 DEF PlaceOf
<1>7. /\ pc' \in {"lookup", "place"} => i' < BlockCount
      /\ pc' = "flush" => i' = BlockCount
      /\ First <= i' /\ i' \in 0 .. BlockCount
  BY <1>1, <1>3, <1>4
<1>8. buf' \in 0 .. Room
  <2>1. PICK p, k : p = PlaceOf(i) /\ k = Skipfirst
    OBVIOUS
  <2>2. p \in 0 .. req.len - 1 /\ k \in 0 .. BlockSize - 1
    BY <1>3, <2>1, BlockEnds
  <2>3. req.len \in Nat /\ req.len + 2 * BlockSize <= Room
    BY <1>3 DEF Asking
  <2>. QED  BY <1>1, <1>3, <2>1, <2>2, <2>3, Sizes
<1>9. Placed'
  BY <1>1, <1>2, <1>5, <1>6, <1>7 DEF Placed
<1>10. pc' \in {"lookup", "flush"}
  BY <1>1
<1>11. TypeOK'
  BY <1>1, <1>2, <1>7, <1>8, <1>10, Zenon DEF TypeOK, Memory
<1>. QED  BY <1>9, <1>11

\* The indices ext2fs_read_block takes from the tables are inside them.
LEMMA DoubleIndex ==
    ASSUME NEW n \in Nat, Direct + PerBlock <= n, n < Direct + PerBlock * (PerBlock + 1)
    PROVE  /\ (n - (Direct + PerBlock)) \div PerBlock \in 0 .. PerBlock - 1
           /\ (n - (Direct + PerBlock)) % PerBlock \in 0 .. PerBlock - 1
<1>1. Direct \in Nat /\ PerBlock \in Nat \ {0}
  BY GeometryAssumption
<1>2. PICK r : r = n - (Direct + PerBlock)
  OBVIOUS
<1>3. PICK p : p = PerBlock * PerBlock
  OBVIOUS
<1>4. p \in Nat /\ PerBlock * (PerBlock + 1) = p + PerBlock
  BY <1>1, <1>3
<1>5. r \in Nat /\ r < p
  BY <1>1, <1>2, <1>4
<1>6. /\ r \div PerBlock \in Nat /\ r % PerBlock \in 0 .. PerBlock - 1
      /\ r = PerBlock * (r \div PerBlock) + (r % PerBlock)
  BY <1>1, <1>5, Division
<1>7. PICK q : q = r \div PerBlock
  OBVIOUS
<1>8. PICK m : m = r % PerBlock
  OBVIOUS
<1>9. q \in Nat /\ m \in 0 .. PerBlock - 1 /\ r = q * PerBlock + m
  BY <1>1, <1>6, <1>7, <1>8
<1>10. q * PerBlock < PerBlock * PerBlock
  <2>1. q * PerBlock \in Nat
    BY <1>1, <1>9, Product
  <2>. QED  BY <2>1, <1>1, <1>3, <1>4, <1>5, <1>9
<1>11. q < PerBlock
  BY <1>1, <1>9, <1>10, Product
<1>. QED  BY <1>1, <1>2, <1>7, <1>8, <1>9, <1>11

LEMMA CacheTypes ==
    /\ \A b \in Blocks : Loaded(b) \in Cache
    /\ \A c \in Cache, b \in Blocks, k \in 0 .. PerBlock - 1 : Half(c, b, k) \in Cache
<1>1. \A b \in Blocks : Table[b] \in [0 .. PerBlock - 1 -> Nat]
  BY FilesAssumption DEF Entries
<1>2. \A b \in Blocks : Loaded(b) \in Cache
  BY <1>1 DEF Loaded, Cache, Entries
<1>3. ASSUME NEW c \in Cache, NEW b \in Blocks, NEW k \in 0 .. PerBlock - 1
      PROVE  Half(c, b, k) \in Cache
  <2>1. PICK t : t = [n \in 0 .. PerBlock - 1 |-> IF n < k THEN Table[b][n] ELSE c.tab[n]]
    OBVIOUS
  <2>2. Half(c, b, k) = [c EXCEPT !.tab = t]
    BY <2>1 DEF Half
  <2>3. c.tab \in [0 .. PerBlock - 1 -> Nat]
    BY DEF Cache, Entries
  <2>4. t \in [0 .. PerBlock - 1 -> Nat]
    BY <1>1, <2>1, <2>3
  <2>. QED  BY <2>2, <2>4 DEF Cache, Entries
<1>. QED  BY <1>2, <1>3

\* Tables hold numbers, and every lookup finds one.
LEMMA FoundIsNat ==
    ASSUME TypeOK
    PROVE  /\ i < Direct => req.file.dir[i] \in Nat
           /\ Single => indir1.tab[i - Direct] \in Nat
           /\ Double => indir2.tab[Rblock % PerBlock] \in Nat /\ Want2 \in Nat
<1>1. /\ i \in Nat /\ req.file \in Inode
      /\ indir1.tab \in [0 .. PerBlock - 1 -> Nat] /\ indir2.tab \in [0 .. PerBlock - 1 -> Nat]
  BY FilesAssumption DEF TypeOK, Cache, Entries
<1>2. Direct \in Nat /\ PerBlock \in Nat
  BY GeometryAssumption
<1>3. i < Direct => req.file.dir[i] \in Nat
  BY <1>1, <1>2 DEF Inode, Entries
<1>4. Single => indir1.tab[i - Direct] \in Nat
  BY <1>1, <1>2 DEF Single
<1>5. ASSUME Double PROVE indir2.tab[Rblock % PerBlock] \in Nat /\ Want2 \in Nat
  <2>1. Rblock \div PerBlock \in 0 .. PerBlock - 1 /\ Rblock % PerBlock \in 0 .. PerBlock - 1
    BY <1>1, <1>5, DoubleIndex DEF Double, Rblock
  <2>. QED  BY <1>1, <2>1 DEF Want2
<1>. QED  BY <1>3, <1>4, <1>5

LEMMA UnreadType ==
    ASSUME NEW c \in Cache, NEW c1, NEW b, Unread(c, c1, b), TypeOK
    PROVE  c1 \in Cache /\ torn' = TRUE /\ faults' \in 0 .. MaxFaults
<1>1. CASE b \notin Blocks /\ c1 = c /\ NoFault
  BY <1>1 DEF Unread, NoFault, TypeOK
<1>2. CASE b \in Blocks /\ Fault /\ \E k \in 0 .. PerBlock - 1 : c1 = Half(c, b, k)
  <2>1. c1 \in Cache
    BY <1>2, CacheTypes
  <2>2. faults' \in 0 .. MaxFaults
    BY <1>2, GeometryAssumption DEF Fault, TypeOK
  <2>. QED  BY <2>1, <2>2 DEF Unread
<1>. QED  BY <1>1, <1>2 DEF Unread

LEMMA LookupStep ==
    ASSUME TypeOK, Placed, Lookup
    PROVE  TypeOK' /\ Placed'
<1>1. /\ indir1 \in Cache /\ indir2 \in Cache /\ faults \in 0 .. MaxFaults /\ torn \in BOOLEAN
      /\ mem \in Memory
  BY Zenon DEF TypeOK, Memory
<1>2. UNCHANGED <<indir1, indir2, faults, torn>> /\ pc = "lookup"
  BY DEF Lookup, LookupDirect, Lookup1, Lookup2, LookupTriple
<1>3. /\ indir1' \in Cache /\ indir2' \in Cache /\ faults' \in 0 .. MaxFaults
      /\ torn' \in BOOLEAN
  BY <1>1, <1>2, Zenon
<1>4. CASE LookupTriple
  <2>1. Fail /\ mem' \in Memory
    BY <1>1, <1>4 DEF LookupTriple
  <2>. QED  BY <1>2, <1>3, <2>1, FailStep
<1>5. CASE ~LookupTriple
  <2>1. PICK b \in Nat : Found(b)
    BY <1>5, FoundIsNat DEF Lookup, LookupDirect, Lookup1, Lookup2
  <2>. QED  BY <1>2, <1>3, <2>1, FoundStep
<1>. QED  BY <1>4, <1>5

LEMMA FetchStep ==
    ASSUME TypeOK, Placed, Fetch
    PROVE  TypeOK' /\ Placed'
<1>1. /\ indir1 \in Cache /\ indir2 \in Cache /\ faults \in 0 .. MaxFaults /\ torn \in BOOLEAN
      /\ mem \in Memory
  BY Zenon DEF TypeOK, Memory
<1>2. pc = "lookup"
  BY DEF Fetch, Fetch1, Fetch1Fails, Fetch2, Fetch2Fails
<1>3. CASE Fetch1
  <2>1. indir1' \in Cache /\ UNCHANGED <<pc, walk>> /\ UNCHANGED <<indir2, faults, torn>>
    BY <1>3, CacheTypes DEF Fetch1
  <2>2. indir2' \in Cache /\ faults' \in 0 .. MaxFaults /\ torn' \in BOOLEAN
    BY <1>1, <2>1, Zenon
  <2>. QED  BY <2>1, <2>2, CacheStep
<1>4. CASE Fetch2
  <2>1. indir2' \in Cache /\ UNCHANGED <<pc, walk>> /\ UNCHANGED <<indir1, faults, torn>>
    BY <1>4, CacheTypes DEF Fetch2
  <2>2. indir1' \in Cache /\ faults' \in 0 .. MaxFaults /\ torn' \in BOOLEAN
    BY <1>1, <2>1, Zenon
  <2>. QED  BY <2>1, <2>2, CacheStep
<1>5. CASE Fetch1Fails
  <2>1. Unread(indir1, indir1', Want1) /\ indir2' = indir2
    BY <1>5 DEF Fetch1Fails
  <2>2. indir1' \in Cache /\ torn' = TRUE /\ faults' \in 0 .. MaxFaults /\ indir2' \in Cache
    BY <1>1, <2>1, UnreadType
  <2>3. CASE Found(0)
    BY <1>2, <2>2, <2>3, FoundStep
  <2>4. CASE Fail /\ UNCHANGED mem
    <3>1. mem' \in Memory
      BY <1>1, <2>4
    <3>. QED  BY <1>2, <2>2, <2>4, <3>1, FailStep
  <2>. QED  BY <1>5, <2>3, <2>4, Zenon DEF Fetch1Fails
<1>6. CASE Fetch2Fails
  <2>1. Unread(indir2, indir2', Want2) /\ indir1' = indir1 /\ Fail /\ mem' \in Memory
    BY <1>1, <1>6 DEF Fetch2Fails
  <2>2. indir2' \in Cache /\ torn' = TRUE /\ faults' \in 0 .. MaxFaults /\ indir1' \in Cache
    BY <1>1, <2>1, UnreadType
  <2>. QED  BY <1>2, <2>1, <2>2, FailStep
<1>. QED  BY <1>3, <1>4, <1>5, <1>6 DEF Fetch

\* A failing ext2fs_devread, and where it leaves the memory.
LEMMA DevreadFailsType ==
    ASSUME TypeOK, NEW d \in Delayed, DevreadFails(d)
    PROVE  Fail /\ mem' \in Memory /\ faults' \in 0 .. MaxFaults
<1>1. CASE Outside(d) /\ NoFault /\ UNCHANGED mem
  BY <1>1 DEF DevreadFails, NoFault, TypeOK, Memory
<1>2. CASE ~Outside(d) /\ Fault /\ \E n \in Cuts(d) : mem' = Stored(d, n)
  <2>1. mem' \in Memory
    BY <1>2, CutsInside, StoredIs DEF Memory
  <2>2. faults' \in 0 .. MaxFaults
    BY <1>2, GeometryAssumption DEF Fault, TypeOK
  <2>. QED  BY <2>1, <2>2 DEF DevreadFails
<1>. QED  BY <1>1, <1>2 DEF DevreadFails

\* What the block in hand contributes to a delayed read.
LEMMA BegunType ==
    ASSUME TypeOK, Placed, pc = "place"
    PROVE  /\ Begun \in Delayed /\ Begun.on /\ Begun.extent > 0
           /\ Begun.buf + Begun.extent = Least(buf + BlockSize - Skipfirst, req.len)
<1>1. /\ Asking /\ i \in Nat /\ First <= i /\ i < BlockCount /\ buf = PlaceOf(i)
      /\ blknr \in Nat
  BY DEF Placed, TypeOK
<1>2. /\ Skipfirst \in 0 .. BlockSize - 1 /\ Blockend \in 1 .. BlockSize - Skipfirst
      /\ PlaceOf(i) \in 0 .. req.len - 1
      /\ PlaceOf(i + 1) = PlaceOf(i) + BlockSize - Skipfirst
      /\ i + 1 < BlockCount => Blockend = BlockSize - Skipfirst /\ PlaceOf(i + 1) < req.len
      /\ i + 1 = BlockCount => PlaceOf(i) + Blockend = req.len /\ req.len <= PlaceOf(i + 1)
  BY <1>1, BlockEnds
<1>3. req.len \in Nat /\ req.len + 2 * BlockSize <= Room /\ BlockSize \in Nat /\ Room \in Nat
  BY <1>1, Sizes DEF Asking
<1>4. BlockCount \in Nat
  BY <1>1, Counting
<1>5. i + 1 < BlockCount \/ i + 1 = BlockCount
  BY <1>1, <1>4
<1>6. PICK p, q, k, e :
          p = PlaceOf(i) /\ q = PlaceOf(i + 1) /\ k = Skipfirst /\ e = Blockend
  OBVIOUS
<1>7. /\ k \in 0 .. BlockSize - 1 /\ e \in 1 .. BlockSize - k /\ p \in 0 .. req.len - 1
      /\ q = p + BlockSize - k /\ buf = p
  BY <1>1, <1>2, <1>6
<1>8. p + e = Least(q, req.len)
  <2>1. CASE i + 1 < BlockCount
    <3>1. e = BlockSize - k /\ q < req.len
      BY <1>2, <1>6, <2>1
    <3>. QED  BY <3>1, <1>3, <1>7 DEF Least
  <2>2. CASE i + 1 = BlockCount
    <3>1. p + e = req.len /\ req.len <= q
      BY <1>2, <1>6, <2>2
    <3>. QED  BY <3>1, <1>3, <1>7 DEF Least
  <2>. QED  BY <1>5, <2>1, <2>2
<1>9. Sector \in Nat /\ Sector + Blockend \div SectorSize \in Nat
  <2>1. Sector \in Nat
    BY <1>1, Sizes DEF Sector
  <2>2. Blockend \div SectorSize \in Nat
    <3>1. Blockend \in Nat
      BY <1>3, <1>6, <1>7
    <3>. QED  BY <3>1, Sizes, Division
  <2>. QED  BY <2>1, <2>2
<1>10. /\ Begun.on = TRUE /\ Begun.start = Sector /\ Begun.skip = k /\ Begun.extent = e
       /\ Begun.buf = p
  BY <1>6, <1>7 DEF Begun
<1>11. e \in 0 .. Room /\ p \in 0 .. Room /\ k \in 0 .. BlockSize
  BY <1>3, <1>7
<1>12. Begun \in Delayed
  BY <1>6, <1>7, <1>9, <1>11 DEF Begun, Delayed
<1>13. buf + BlockSize - Skipfirst = q
  BY <1>6, <1>7
<1>14. Begun.extent > 0
  BY <1>3, <1>7, <1>10
<1>. QED  BY <1>8, <1>10, <1>12, <1>13, <1>14

LEMMA ExtendType ==
    ASSUME TypeOK, Placed, pc = "place", delayed.on,
           NEW d, d = [delayed EXCEPT !.extent = @ + Blockend,
                                      !.next = @ + Blockend \div SectorSize]
    PROVE  /\ d \in Delayed /\ d.extent > 0
           /\ d.buf + d.extent = Least(buf + BlockSize - Skipfirst, req.len)
<1>1. /\ Begun.buf + Begun.extent = Least(buf + BlockSize - Skipfirst, req.len)
      /\ Begun.extent \in 0 .. Room /\ Begun.extent > 0 /\ Begun.buf = buf
      /\ Begun.extent = Blockend
  BY BegunType DEF Delayed, Begun
<1>2. /\ delayed \in Delayed /\ delayed.extent > 0
      /\ delayed.buf + delayed.extent = Least(buf, req.len)
  BY DEF TypeOK, Placed
<1>3. buf \in 0 .. req.len
  <2>1. Asking /\ i \in Nat /\ First <= i /\ i < BlockCount /\ buf = PlaceOf(i)
    BY DEF Placed, TypeOK
  <2>2. PlaceOf(i) \in 0 .. req.len - 1 /\ req.len \in Nat
    BY <2>1, BlockEnds DEF Asking
  <2>. QED  BY <2>1, <2>2
<1>4. req.len \in Nat /\ req.len <= Room /\ Room \in Nat
  BY Sizes DEF Placed, Asking
<1>5. Least(buf, req.len) = buf
  BY <1>3, <1>4 DEF Least
<1>6. d.extent = delayed.extent + Blockend /\ d.buf = delayed.buf
  BY <1>2 DEF Delayed
<1>7. d.buf + d.extent = Least(buf + BlockSize - Skipfirst, req.len)
  BY <1>1, <1>2, <1>3, <1>4, <1>5, <1>6 DEF Delayed
<1>8. Least(buf + BlockSize - Skipfirst, req.len) <= req.len
  <2>1. Skipfirst \in 0 .. BlockSize - 1
    BY BlockEnds DEF Placed, TypeOK
  <2>. QED  BY <2>1, <1>3, <1>4, Sizes DEF Least
<1>9. d.extent \in 0 .. Room /\ d.extent > 0
  BY <1>1, <1>2, <1>4, <1>6, <1>7, <1>8 DEF Delayed
<1>10. delayed.next + Blockend \div SectorSize \in Nat
  <2>1. Blockend \in Nat
    BY <1>1, Sizes
  <2>2. Blockend \div SectorSize \in Nat
    BY <2>1, Sizes, Division
  <2>. QED  BY <2>2, <1>2 DEF Delayed
<1>. QED  BY <1>2, <1>6, <1>7, <1>9, <1>10 DEF Delayed

LEMMA ZeroFilledType ==
    ASSUME TypeOK, NEW m \in Memory
    PROVE  ZeroFilled(m) \in Memory
BY DEF ZeroFilled, Memory

LEMMA PlaceStep ==
    ASSUME TypeOK, Placed, Begin \/ Extend \/ Spill \/ Hole
    PROVE  TypeOK' /\ Placed'
<1>1. /\ pc = "place" /\ Advance /\ buf' = buf + BlockSize - Skipfirst
      /\ delayed \in Delayed /\ mem \in Memory
      /\ buf' = buf + BlockSize - Skipfirst
  BY DEF Begin, Extend, Spill, Hole, Advance, TypeOK, Memory
<1>2. CASE Begin
  <2>1. delayed' = Begun /\ mem' = mem
    BY <1>2 DEF Begin
  <2>. QED  BY <1>1, <2>1, BegunType, AdvanceStep
<1>3. CASE Extend
  <2>1. /\ delayed.on /\ mem' = mem
        /\ delayed' = [delayed EXCEPT !.extent = @ + Blockend,
                                      !.next = @ + Blockend \div SectorSize]
    BY <1>3 DEF Extend
  <2>. QED  BY <1>1, <2>1, ExtendType, AdvanceStep
<1>4. CASE Spill
  <2>1. /\ delayed' = Begun /\ mem' = Stored(delayed, delayed.extent) /\ ~Outside(delayed)
    BY <1>4 DEF Spill
  <2>2. delayed.extent \in 0 .. delayed.extent
    BY <1>1 DEF Delayed
  <2>3. mem' \in Memory
    BY <1>1, <2>1, <2>2, StoredIs DEF Memory
  <2>. QED  BY <1>1, <2>1, <2>3, BegunType, AdvanceStep
<1>5. CASE Hole
  <2>1. /\ delayed.on => ~Outside(delayed)
        /\ mem' = ZeroFilled(IF delayed.on THEN Stored(delayed, delayed.extent) ELSE mem)
        /\ delayed' = [delayed EXCEPT !.on = FALSE]
    BY <1>5 DEF Hole
  <2>2. delayed.extent \in 0 .. delayed.extent
    BY <1>1 DEF Delayed
  <2>3. delayed.on => Stored(delayed, delayed.extent) \in Memory
    BY <1>1, <2>1, <2>2, StoredIs DEF Memory
  <2>4. mem' \in Memory
    BY <1>1, <2>1, <2>3, ZeroFilledType
  <2>5. delayed' \in Delayed /\ ~delayed'.on
    BY <1>1, <2>1 DEF Delayed
  <2>. QED  BY <1>1, <2>4, <2>5, AdvanceStep
<1>. QED  BY <1>2, <1>3, <1>4, <1>5

LEMMA FlushStep ==
    ASSUME TypeOK, Placed, Flush
    PROVE  TypeOK' /\ Placed'
<1>1. /\ pc = "flush" /\ pc' = "done" /\ result' = req.len
      /\ UNCHANGED <<req, i, blknr, buf, delayed, indir1, indir2, faults, torn>>
      /\ delayed.on => ~Outside(delayed)
      /\ mem' = IF delayed.on THEN Stored(delayed, delayed.extent) ELSE mem
  BY DEF Flush
<1>2. BlockCount' = BlockCount /\ First' = First /\ Asking'
  BY <1>1, SameRequest DEF Placed
<1>3. PlaceOf(i)' = PlaceOf(i)
  BY <1>1, <1>2 DEF PlaceOf
<1>4. Placed'
  BY <1>1, <1>2, <1>3 DEF Placed
<1>5. delayed \in Delayed /\ mem \in Memory /\ req.len \in Nat
  BY DEF TypeOK, Memory
<1>6. delayed.extent \in 0 .. delayed.extent
  BY <1>5 DEF Delayed
<1>7. mem' \in Memory
  BY <1>1, <1>5, <1>6, StoredIs DEF Memory
<1>8. TypeOK'
  BY <1>1, <1>2, <1>5, <1>7, Zenon DEF TypeOK, Memory
<1>. QED  BY <1>4, <1>8

LEMMA FailedStep ==
    ASSUME TypeOK, Placed, PlaceFails \/ FlushFails
    PROVE  TypeOK' /\ Placed'
<1>1. /\ pc # "idle" /\ DevreadFails(delayed) /\ UNCHANGED <<indir1, indir2, torn>>
  BY DEF PlaceFails, FlushFails
<1>2. delayed \in Delayed /\ indir1 \in Cache /\ indir2 \in Cache /\ torn \in BOOLEAN
  BY Zenon DEF TypeOK
<1>3. Fail /\ mem' \in Memory /\ faults' \in 0 .. MaxFaults
  BY <1>1, <1>2, DevreadFailsType
<1>4. indir1' \in Cache /\ indir2' \in Cache /\ torn' \in BOOLEAN
  BY <1>1, <1>2, Zenon
<1>. QED  BY <1>1, <1>3, <1>4, FailStep

LEMMA TypeStep == TypeOK /\ Placed /\ [Next]_vars => TypeOK' /\ Placed'
<1>1. ASSUME TypeOK, Placed, UNCHANGED vars PROVE TypeOK' /\ Placed'
  <2>1. UNCHANGED <<pc, walk>> /\ UNCHANGED <<indir1, indir2, faults, torn>>
    BY <1>1 DEF vars
  <2>2. /\ indir1' \in Cache /\ indir2' \in Cache /\ faults' \in 0 .. MaxFaults
        /\ torn' \in BOOLEAN
    BY <1>1, <2>1, Zenon DEF TypeOK
  <2>. QED  BY <1>1, <2>1, <2>2, CacheStep
<1>. QED
  BY <1>1, CallStep, LookupStep, FetchStep, PlaceStep, FlushStep, FailedStep DEF Next, Place

-----------------------------------------------------------------------------
(* Nothing is written behind the request *)

Clean(m) == \A k \in 0 .. Room - 1 : k >= req.len => m[k] = Untouched

\* A delayed read lies inside the request.
LEMMA DelayedInside ==
    ASSUME TypeOK, Placed, delayed.on, ~Outside(delayed), NEW n \in 0 .. delayed.extent
    PROVE  \A k \in 0 .. Room - 1 : k >= req.len => Stored(delayed, n)[k] = mem[k]
<1>1. /\ delayed \in Delayed /\ delayed.extent > 0
      /\ delayed.buf + delayed.extent = Least(buf, req.len)
      /\ buf \in Int /\ req.len \in Nat
  BY DEF TypeOK, Placed
<1>2. delayed.buf \in Nat /\ delayed.extent \in Nat
  BY <1>1 DEF Delayed
<1>3. delayed.buf + delayed.extent <= req.len
  BY <1>1 DEF Least
<1>4. \A k \in 0 .. Room - 1 : k >= req.len => k - delayed.buf \notin 0 .. n - 1
  BY <1>1, <1>2, <1>3
<1>. QED  BY <1>1, <1>4, StoredIs

LEMMA CleanBefore ==
    ASSUME TypeOK, Placed, StaysInside, pc \in {"lookup", "place"}
    PROVE  Clean(mem) /\ ~EndsInHole
<1>1. i < BlockCount /\ i \in Int /\ BlockCount \in Int
  BY Counting DEF Placed, TypeOK
<1>2. ~EndsInHole
  BY <1>1 DEF EndsInHole
<1>. QED  BY <1>2 DEF StaysInside, Clean

LEMMA CleanAfter ==
    ASSUME Clean(mem'), req' = req
    PROVE  StaysInside'
BY DEF Clean, StaysInside

LEMMA SameInside ==
    ASSUME StaysInside, UNCHANGED <<mem, req, i, blknr>>
    PROVE  StaysInside'
<1>1. BlockCount' = BlockCount /\ (EndsInHole' <=> EndsInHole)
  BY DEF BlockCount, EndsInHole
<1>. QED  BY <1>1 DEF StaysInside

LEMMA DevreadFailsInside ==
    ASSUME TypeOK, Placed, StaysInside, delayed.on, DevreadFails(delayed)
    PROVE  StaysInside'
<1>1. UNCHANGED <<req, i, blknr>> /\ delayed \in Delayed
  BY DEF DevreadFails, Fail, TypeOK
<1>2. \A k \in 0 .. Room - 1 : k >= req.len => mem'[k] = mem[k]
  <2>1. CASE UNCHANGED mem
    BY <2>1
  <2>2. CASE ~Outside(delayed) /\ \E n \in Cuts(delayed) : mem' = Stored(delayed, n)
    BY <1>1, <2>2, CutsInside, DelayedInside
  <2>. QED  BY <2>1, <2>2 DEF DevreadFails
<1>3. BlockCount' = BlockCount /\ (EndsInHole' <=> EndsInHole)
  BY <1>1 DEF BlockCount, EndsInHole
<1>. QED  BY <1>1, <1>2, <1>3 DEF StaysInside

LEMMA HoleInside ==
    ASSUME TypeOK, Placed, StaysInside, Hole
    PROVE  StaysInside'
<1>1. /\ pc = "place" /\ blknr = 0 /\ blknr' = blknr /\ req' = req /\ i' = i + 1
      /\ delayed.on => ~Outside(delayed)
      /\ mem' = ZeroFilled(IF delayed.on THEN Stored(delayed, delayed.extent) ELSE mem)
      /\ delayed \in Delayed
  BY DEF Hole, Advance, TypeOK
<1>2. Clean(mem)
  BY <1>1, CleanBefore
<1>3. PICK m : m = IF delayed.on THEN Stored(delayed, delayed.extent) ELSE mem
  OBVIOUS
<1>4. Clean(m)
  <2>1. delayed.extent \in 0 .. delayed.extent
    BY <1>1 DEF Delayed
  <2>. QED  BY <1>1, <1>2, <1>3, <2>1, DelayedInside DEF Clean
<1>5. /\ Asking /\ i \in Nat /\ First <= i /\ i < BlockCount /\ buf = PlaceOf(i)
      /\ req.len \in Nat /\ req.pos \in Nat
  BY <1>1 DEF Placed, TypeOK, Asking
<1>6. BlockCount \in Nat /\ First \in Nat
  BY <1>5, Counting
<1>7. PICK q : q = PlaceOf(i + 1)
  OBVIOUS
<1>8. /\ buf + BlockSize - Skipfirst = q
      /\ Skipfirst \in 0 .. BlockSize - 1 /\ buf \in 0 .. req.len - 1
      /\ i + 1 < BlockCount => q < req.len
  BY <1>5, <1>7, BlockEnds
<1>9. q \in Int
  BY <1>5, <1>8, Sizes
<1>10. \A k \in 0 .. Room - 1 : mem'[k] = IF k - buf \in 0 .. BlockSize - Skipfirst - 1 THEN Zero ELSE m[k]
  BY <1>1, <1>3 DEF ZeroFilled
<1>11. \A k \in 0 .. Room - 1 : k - buf \in 0 .. BlockSize - Skipfirst - 1 => k < q
  <2>1. PICK s : s = Skipfirst
    OBVIOUS
  <2>. QED  BY <1>5, <1>8, <1>9, <2>1, Sizes
<1>12. \A k \in 0 .. Room - 1 : k >= req.len =>
           mem'[k] = Untouched \/ (mem'[k] = Zero /\ k < q)
  BY <1>4, <1>10, <1>11 DEF Clean
<1>13. CASE i + 1 < BlockCount
  <2>1. \A k \in 0 .. Room - 1 : k >= req.len => ~(k < q)
    BY <1>5, <1>8, <1>9, <1>13
  <2>2. Clean(mem')
    BY <1>12, <2>1 DEF Clean
  <2>. QED  BY <1>1, <2>2, CleanAfter
<1>14. CASE i + 1 = BlockCount
  <2>1. i' = BlockCount' /\ BlockCount' = BlockCount
    BY <1>1, <1>14, SameRequest
  <2>2. EndsInHole'
    BY <1>1, <2>1 DEF EndsInHole
  <2>3. q = BlockCount * BlockSize - req.pos
    <3>1. i + 1 # First
      BY <1>5, <1>6
    <3>. QED  BY <1>7, <1>14, <3>1 DEF PlaceOf
  <2>. QED  BY <1>1, <1>12, <2>1, <2>2, <2>3 DEF StaysInside
<1>15. i + 1 < BlockCount \/ i + 1 = BlockCount
  BY <1>5, <1>6
<1>. QED  BY <1>13, <1>14, <1>15

LEMMA InsideStep == TypeOK /\ Placed /\ StaysInside /\ [Next]_vars => StaysInside'
<1>. SUFFICES ASSUME TypeOK, Placed, StaysInside, [Next]_vars PROVE StaysInside'
  OBVIOUS
<1>1. CASE UNCHANGED vars \/ Fetch1 \/ Fetch2
  <2>1. UNCHANGED <<mem, req, i, blknr>>
    BY <1>1 DEF vars, walk, Fetch1, Fetch2
  <2>. QED  BY <2>1, SameInside
<1>2. ASSUME NEW r \in Requests, Call(r) PROVE StaysInside'
  BY <1>2 DEF Call, StaysInside
<1>3. CASE Lookup \/ Fetch1Fails \/ Fetch2Fails
  <2>1. pc = "lookup" /\ UNCHANGED <<mem, req>>
    BY <1>3 DEF Lookup, LookupDirect, Lookup1, Lookup2, LookupTriple, Fetch1Fails, Fetch2Fails,
                Found, Fail
  <2>2. Clean(mem')
    BY <2>1, CleanBefore
  <2>. QED  BY <2>1, <2>2, CleanAfter
<1>4. CASE Begin \/ Extend \/ Spill
  <2>1. pc = "place" /\ req' = req /\ delayed \in Delayed
    BY <1>4 DEF Begin, Extend, Spill, Advance, TypeOK
  <2>2. Clean(mem)
    BY <2>1, CleanBefore
  <2>3. mem' = mem \/ (delayed.on /\ ~Outside(delayed) /\ mem' = Stored(delayed, delayed.extent))
    BY <1>4 DEF Begin, Extend, Spill
  <2>4. delayed.extent \in 0 .. delayed.extent
    BY <2>1 DEF Delayed
  <2>5. Clean(mem')
    BY <2>2, <2>3, <2>4, DelayedInside DEF Clean
  <2>. QED  BY <2>1, <2>5, CleanAfter
<1>5. CASE Hole
  BY <1>5, HoleInside
<1>6. CASE Flush
  <2>1. /\ UNCHANGED <<req, i, blknr>> /\ delayed \in Delayed
        /\ mem' = mem \/ (delayed.on /\ ~Outside(delayed) /\ mem' = Stored(delayed, delayed.extent))
    BY <1>6 DEF Flush, TypeOK
  <2>2. delayed.extent \in 0 .. delayed.extent
    BY <2>1 DEF Delayed
  <2>3. \A k \in 0 .. Room - 1 : k >= req.len => mem'[k] = mem[k]
    BY <2>1, <2>2, DelayedInside
  <2>4. BlockCount' = BlockCount /\ (EndsInHole' <=> EndsInHole)
    BY <2>1 DEF BlockCount, EndsInHole
  <2>. QED  BY <2>1, <2>3, <2>4 DEF StaysInside
<1>7. CASE PlaceFails \/ FlushFails
  BY <1>7, DevreadFailsInside DEF PlaceFails, FlushFails
<1>. QED  BY <1>1, <1>2, <1>3, <1>4, <1>5, <1>6, <1>7 DEF Next, Fetch, Place

-----------------------------------------------------------------------------
(* Every byte is the file's *)

\* The tables in the caches are what their numbers say: no table was torn, or
\* every failure was a number outside the partition.
Healthy == ~torn \/ faults = 0
Cached ==
    Healthy => /\ indir1.no # NoBlock => indir1.tab = Table[indir1.no]
               /\ indir2.no # NoBlock => indir2.tab = Table[indir2.no]

Trusted == Healthy /\ Sound(req.file)

LookedUp == pc = "place" => blknr = BlockOf(req.file, i)

\* A delayed read gives the bytes of its place in the file.
Given(d) ==
    \A k \in 0 .. d.extent - 1 :
        d.start * SectorSize + d.skip + k = ByteOf(req.file, req.pos + d.buf + k)

\* The sector that would continue it: behind its last byte, or, if it began
\* inside a block, still in that block.
Straddles ==
    /\ i = First + 1 /\ delayed.skip \in 1 .. BlockSize - 1
    /\ BlockOf(req.file, First) # 0
    /\ delayed.next = BlockOf(req.file, First) * SectorsPerBlock
                          + (BlockSize - delayed.skip) \div SectorSize
Continues ==
    /\ delayed.next * SectorSize = delayed.start * SectorSize + delayed.skip + delayed.extent
    /\ i > First
Follows == Continues \/ Straddles

Content == \A k \in Asked : mem[k] \in {Untouched, ByteOf(req.file, req.pos + k)}

Right ==
    /\ Cached
    /\ Trusted => /\ LookedUp /\ Content
                  /\ delayed.on /\ pc # "done" => Given(delayed)
                  /\ delayed.on /\ pc \in {"lookup", "place"} => Follows

\* All that lies before the block in hand and before the delayed read.
Filled ==
    pc \in {"lookup", "place", "flush"} =>
        \A k \in Asked : k < (IF delayed.on THEN delayed.buf ELSE buf) => mem[k] # Untouched

LEMMA InSpan ==
    ASSUME Asking, req.file.size \in Nat, NEW n \in Nat, n < BlockCount
    PROVE  n \in Span(req.file)
<1>1. PICK z : z = req.file.size + BlockSize - 1
  OBVIOUS
<1>2. BlockSize \in Nat \ {0} /\ z \in Nat
  BY <1>1, Sizes
<1>3. PICK q : q = z \div BlockSize
  OBVIOUS
<1>4. PICK r : r = z % BlockSize
  OBVIOUS
<1>5. q \in Nat /\ r \in 0 .. BlockSize - 1 /\ z = BlockSize * q + r
  BY <1>2, <1>3, <1>4, Division
<1>6. PICK b : b = BlockCount * BlockSize
  OBVIOUS
<1>7. BlockCount \in Nat /\ b < End + BlockSize
  BY <1>6, Counting
<1>8. b \in Nat
  BY <1>2, <1>6, <1>7, Product
<1>9. End \in Nat /\ End <= req.file.size
  BY DEF Asking, End
<1>10. b <= z
  BY <1>1, <1>2, <1>7, <1>8, <1>9
<1>11. PICK c : c = q * BlockSize
  OBVIOUS
<1>12. c \in Nat /\ z = c + r
  BY <1>2, <1>5, <1>11
<1>13. BlockCount <= q
  <2>1. q < BlockCount => c + BlockSize <= b
    BY <1>2, <1>5, <1>6, <1>7, <1>11, Product
  <2>. QED  BY <2>1, <1>2, <1>5, <1>7, <1>8, <1>10, <1>12
<1>14. n \in 0 .. q - 1
  BY <1>5, <1>7, <1>13
<1>15. Span(req.file) = 0 .. q - 1
  BY <1>1, <1>3 DEF Span
<1>. QED  BY <1>14, <1>15

\* The bytes of the block in hand.
LEMMA ByteAt ==
    ASSUME Asking, i \in Nat, First <= i, i < BlockCount, BlockOf(req.file, i) \in Nat,
           NEW j \in 0 .. BlockSize - Skipfirst - 1
    PROVE  ByteOf(req.file, req.pos + PlaceOf(i) + j) =
               IF BlockOf(req.file, i) = 0 THEN Zero
               ELSE BlockOf(req.file, i) * BlockSize + Skipfirst + j
<1>1. PICK o : o = req.pos + PlaceOf(i) + j
  OBVIOUS
<1>2. PICK k : k = Skipfirst
  OBVIOUS
<1>3. PICK c : c = i * BlockSize
  OBVIOUS
<1>4. PICK p : p = PlaceOf(i)
  OBVIOUS
<1>5. BlockSize \in Nat \ {0} /\ req.pos \in Nat /\ req.len \in Nat
  BY Sizes DEF Asking
<1>6. c \in Nat
  BY <1>3, <1>5, Product
<1>7. k \in 0 .. BlockSize - 1 /\ p \in 0 .. req.len - 1 /\ c + k = req.pos + p
  BY <1>2, <1>3, <1>4, BlockEnds
<1>8. PICK r : r = k + j
  OBVIOUS
<1>9. r \in 0 .. BlockSize - 1
  BY <1>2, <1>5, <1>7, <1>8
<1>10. o = c + r /\ o \in Nat
  BY <1>1, <1>2, <1>4, <1>5, <1>6, <1>7, <1>8
<1>11. o = BlockSize * i + r
  BY <1>3, <1>5, <1>10
<1>12. o \div BlockSize = i /\ o % BlockSize = r
  BY <1>5, <1>9, <1>10, <1>11, Quotient
<1>13. ByteOf(req.file, o) = IF BlockOf(req.file, i) = 0 THEN Zero
                             ELSE BlockOf(req.file, i) * BlockSize + r
  BY <1>12 DEF ByteOf
<1>14. BlockOf(req.file, i) * BlockSize + r = BlockOf(req.file, i) * BlockSize + Skipfirst + j
  <2>1. PICK x : x = BlockOf(req.file, i) * BlockSize
    OBVIOUS
  <2>2. x \in Nat
    BY <2>1, <1>5, Product
  <2>. QED  BY <2>1, <2>2, <1>2, <1>5, <1>7, <1>8
<1>. QED  BY <1>1, <1>13, <1>14

\* What a sound file says of the block in hand and of the first two.
LEMMA SoundBlock ==
    ASSUME TypeOK, Asking, Sound(req.file), i < BlockCount
    PROVE  /\ Mapped(req.file, i) /\ BlockOf(req.file, i) \in Blocks /\ BlockOf(req.file, i) \in Nat
           /\ i = First + 1 => ~Repeated(req.file, First)
<1>1. i \in Nat /\ req.file.size \in Nat
  BY FilesAssumption DEF TypeOK, Inode
<1>2. i \in Span(req.file)
  BY <1>1, InSpan
<1>3. Mapped(req.file, i)
  BY <1>2 DEF Sound
<1>4. BlockOf(req.file, i) \in Blocks
  BY <1>3, Zenon DEF Mapped
<1>5. BlockOf(req.file, i) \in Nat
  BY <1>4 DEF Blocks
<1>6. ASSUME i = First + 1 PROVE ~Repeated(req.file, First)
  <2>1. First \in Nat /\ First < BlockCount /\ First + 1 \in Nat
    BY <1>1, <1>6, Counting
  <2>2. First \in Span(req.file) /\ First + 1 \in Span(req.file)
    BY <1>2, <1>6, <1>1, <2>1, InSpan
  <2>. QED  BY <2>2 DEF Sound
<1>. QED  BY <1>3, <1>4, <1>5, <1>6

\* A delayed read of trusted bytes does not leave the partition.
LEMMA GivenInside ==
    ASSUME TypeOK, Placed, Sound(req.file), delayed.on, Given(delayed), pc # "idle"
    PROVE  ~Outside(delayed)
<1> DEFINE s == SectorSize
           k == delayed.extent - 1
           o == req.pos + delayed.buf + k
           x == delayed.skip + delayed.extent - 1
           q == x \div s
           r == x % s
           p == PartitionBlocks * SectorsPerBlock
           b == BlockOf(req.file, o \div BlockSize)
<1>1. /\ delayed \in Delayed /\ delayed.extent > 0
      /\ delayed.buf + delayed.extent = Least(buf, req.len)
      /\ buf \in Int /\ req.len \in Nat /\ req.pos \in Nat /\ Asking
  BY DEF TypeOK, Placed
<1>2. /\ delayed.buf \in Nat /\ delayed.extent \in Nat /\ delayed.start \in Nat
      /\ delayed.skip \in Nat
  BY <1>1 DEF Delayed
<1>3. delayed.buf + delayed.extent <= req.len
  BY <1>1 DEF Least
<1>4. k \in 0 .. delayed.extent - 1 /\ o \in Nat /\ o < End
  BY <1>1, <1>2, <1>3 DEF End
<1>5. BlockSize \in Nat \ {0} /\ s \in Nat \ {0}
  BY Sizes
<1>6. delayed.start * s + delayed.skip + k = ByteOf(req.file, o)
  BY <1>4 DEF Given
<1>7. /\ o \div BlockSize \in Nat /\ o % BlockSize \in 0 .. BlockSize - 1
      /\ o = BlockSize * (o \div BlockSize) + (o % BlockSize)
  BY <1>4, <1>5, Division
<1>8. o \div BlockSize < BlockCount
  <2>1. PICK n : n = o \div BlockSize
    OBVIOUS
  <2>2. PICK c : c = n * BlockSize
    OBVIOUS
  <2>3. PICK m : m = BlockCount * BlockSize
    OBVIOUS
  <2>4. BlockCount \in Nat /\ End <= m
    BY <1>1, <2>3, Counting
  <2>5. n \in Nat /\ BlockSize * n = c /\ c \in Nat
    <3>1. n \in Nat
      BY <1>7, <2>1
    <3>. QED  BY <3>1, <1>5, <2>2, Product
  <2>6. c <= o
    <3>1. PICK t : t = o % BlockSize
      OBVIOUS
    <3>2. t \in Nat /\ o = c + t
      BY <1>5, <1>7, <2>1, <2>5, <3>1
    <3> HIDE DEF o
    <3>. QED  BY <2>5, <3>2
  <2>7. m \in Nat
    BY <1>5, <2>3, <2>4, Product
  <2>8. c < m
    <3>1. End \in Nat
      BY <1>1 DEF End
    <3> HIDE DEF o
    <3>. QED  BY <1>4, <2>4, <2>5, <2>6, <2>7, <3>1
  <2>. QED  BY <1>5, <2>1, <2>2, <2>3, <2>4, <2>5, <2>8, Product
<1>9. b \in Blocks
  <2>1. req.file.size \in Nat
    BY FilesAssumption DEF TypeOK, Inode
  <2>2. o \div BlockSize \in Span(req.file)
    <3> HIDE DEF o
    <3>. QED  BY <1>1, <1>7, <1>8, <2>1, InSpan
  <2> HIDE DEF o
  <2>. QED  BY <2>2, Zenon DEF Sound, Mapped
<1>10. delayed.start * s \in Nat
  BY <1>2, <1>5, Product
<1>11. b # 0
  <2>1. delayed.start * s + delayed.skip + k \in Nat
    BY <1>1, <1>2, <1>10
  <2>2. ByteOf(req.file, o) # Zero
    <3> HIDE DEF s, o, k
    <3>. QED  BY <1>6, <2>1 DEF Zero
  <2> HIDE DEF o
  <2>. QED  BY <2>2 DEF ByteOf
<1>12. ByteOf(req.file, o) < PartitionBlocks * BlockSize
  <2>1. PICK t : t = o % BlockSize
    OBVIOUS
  <2>2. t \in 0 .. BlockSize - 1
    BY <1>7, <2>1
  <2>3. ByteOf(req.file, o) = b * BlockSize + t
    BY <1>11, <2>1 DEF ByteOf
  <2>4. b \in Nat /\ b < PartitionBlocks
    BY <1>9, Sizes DEF Blocks
  <2> HIDE DEF b, o
  <2>5. b * BlockSize + BlockSize <= PartitionBlocks * BlockSize /\ b * BlockSize \in Nat
    BY <1>5, <2>4, Sizes, Product
  <2>6. PICK y, z : y = b * BlockSize /\ z = PartitionBlocks * BlockSize
    OBVIOUS
  <2>7. z \in Nat
    BY <1>5, <2>6, Sizes, Product
  <2>. QED  BY <1>5, <2>2, <2>3, <2>5, <2>6, <2>7
<1>13. p \in Nat /\ p * s = PartitionBlocks * BlockSize
  BY Sizes
<1>14. x \in Nat /\ q \in Nat /\ r \in 0 .. s - 1 /\ x = s * q + r
  <2>1. x \in Nat
    BY <1>1, <1>2
  <2> HIDE DEF x
  <2>. QED  BY <1>5, <2>1, Division
<1>15. delayed.start * s + x < p * s
  <2>1. delayed.start * s + delayed.skip + k = delayed.start * s + x
    BY <1>1, <1>2, <1>10
  <2>. QED  BY <1>6, <1>12, <1>13, <2>1
<1>16. (delayed.start + q) * s < p * s
  <2>1. (delayed.start + q) * s = delayed.start * s + q * s /\ q * s = s * q
    <3> HIDE DEF q, s
    <3>. QED  BY <1>2, <1>5, <1>14, Product
  <2>2. PICK u, v, w : u = delayed.start * s /\ v = s * q /\ w = p * s
    OBVIOUS
  <2>3. u \in Nat /\ v \in Nat /\ w \in Nat
    <3> HIDE DEF q, s, p, r, x
    <3>. QED  BY <1>5, <1>10, <1>13, <1>14, <2>2, Product
  <2>4. u + x < w /\ x = v + r
    BY <1>14, <1>15, <2>2
  <2> HIDE DEF q, s, p, x, r
  <2>5. r \in Nat
    BY <1>5, <1>14
  <2>6. u + v < w
    BY <2>3, <2>4, <2>5
  <2>7. (delayed.start + q) * s = u + v
    BY <2>1, <2>2
  <2>. QED  BY <2>2, <2>6, <2>7
<1>17. delayed.start + q < p
  <2> HIDE DEF q, s, p
  <2>. QED  BY <1>2, <1>5, <1>13, <1>14, <1>16, Product
<1>. QED  BY <1>2, <1>13, <1>14, <1>17 DEF Outside

-----------------------------------------------------------------------------
(* The steps *)

\* Neither a torn table nor a failure is forgotten.
LEMMA HealthyBefore ==
    ASSUME TypeOK, [Next]_vars, Healthy'
    PROVE  Healthy
<1>1. faults \in Nat /\ MaxFaults \in Nat
  BY GeometryAssumption DEF TypeOK
<1>2. torn' = torn \/ torn' = TRUE
  BY Zenon DEF Next, Lookup, LookupDirect, Lookup1, Lookup2, LookupTriple,
               Fetch, Fetch1, Fetch1Fails, Fetch2, Fetch2Fails, Unread,
               Place, Begin, Extend, Spill, Hole, PlaceFails, Flush, FlushFails, Advance, Call, vars
<1>3. faults' = faults \/ faults' = faults + 1
  BY DEF Next, Lookup, LookupDirect, Lookup1, Lookup2, LookupTriple,
               Fetch, Fetch1, Fetch1Fails, Fetch2, Fetch2Fails, Unread, DevreadFails, Fault, NoFault,
               Place, Begin, Extend, Spill, Hole, PlaceFails, Flush, FlushFails, Advance, Call, vars
<1>4. faults' = 0 => faults = 0
  BY <1>1, <1>3
<1>5. torn \in BOOLEAN
  BY Zenon DEF TypeOK
<1>. QED  BY <1>2, <1>4, <1>5, Zenon DEF Healthy

\* A table that is not in the partition is the only failure that leaves the
\* caches healthy, and leaves them alone.
LEMMA UnreadHealthy ==
    ASSUME TypeOK, NEW c, NEW c1, NEW b, Unread(c, c1, b), Healthy'
    PROVE  b \notin Blocks /\ c1 = c /\ faults' = faults /\ faults = 0
<1>1. faults' = 0
  BY Zenon DEF Unread, Healthy
<1>2. faults \in Nat
  BY GeometryAssumption DEF TypeOK
<1>3. ~Fault
  BY <1>1, <1>2 DEF Fault
<1>. QED  BY <1>1, <1>3 DEF Unread, NoFault

LEMMA CachedStep ==
    ASSUME TypeOK, Cached, [Next]_vars
    PROVE  Cached'
<1> SUFFICES ASSUME Healthy'
             PROVE  /\ indir1'.no # NoBlock => indir1'.tab = Table[indir1'.no]
                    /\ indir2'.no # NoBlock => indir2'.tab = Table[indir2'.no]
  BY DEF Cached
<1>1. /\ indir1.no # NoBlock => indir1.tab = Table[indir1.no]
      /\ indir2.no # NoBlock => indir2.tab = Table[indir2.no]
  BY HealthyBefore DEF Cached
<1>2. indir1' = indir1 \/ \E b : indir1' = Loaded(b)
  BY UnreadHealthy
     DEF Next, Lookup, LookupDirect, Lookup1, Lookup2, LookupTriple,
         Fetch, Fetch1, Fetch1Fails, Fetch2, Fetch2Fails,
         Place, Begin, Extend, Spill, Hole, PlaceFails, Flush, FlushFails, Advance, Call, vars
<1>3. indir2' = indir2 \/ \E b : indir2' = Loaded(b)
  BY UnreadHealthy
     DEF Next, Lookup, LookupDirect, Lookup1, Lookup2, LookupTriple,
         Fetch, Fetch1, Fetch1Fails, Fetch2, Fetch2Fails,
         Place, Begin, Extend, Spill, Hole, PlaceFails, Flush, FlushFails, Advance, Call, vars
<1>. QED  BY <1>1, <1>2, <1>3 DEF Loaded

\* ext2fs_read_block finds the block of a sound file, and does not fail.
LEMMA FoundRight ==
    ASSUME TypeOK, Placed, Cached, Trusted', pc = "lookup", Lookup \/ Fetch
    PROVE  LookedUp' /\ pc' # "done"
<1>1. req' = req /\ i' = i
  BY DEF Lookup, LookupDirect, Lookup1, Lookup2, LookupTriple,
         Fetch, Fetch1, Fetch1Fails, Fetch2, Fetch2Fails, Found, Fail, walk
<1>2. Healthy /\ Healthy' /\ Sound(req.file)
  <2>1. Next
    BY DEF Next
  <2>. QED  BY <1>1, <2>1, HealthyBefore DEF Trusted
<1>3. /\ indir1.no # NoBlock => indir1.tab = Table[indir1.no]
      /\ indir2.no # NoBlock => indir2.tab = Table[indir2.no]
  BY <1>2, Zenon DEF Cached
<1>4. i \in Nat /\ i < BlockCount /\ Asking
  BY DEF TypeOK, Placed
<1>5. Mapped(req.file, i)
  BY <1>2, <1>4, SoundBlock
<1>6. Direct \in Nat /\ PerBlock \in Nat
  BY GeometryAssumption
<1>7. NoBlock \notin There /\ There \subseteq Blocks /\ 0 \notin There
  BY Sizes DEF There, Blocks, NoBlock
<1>8. PICK last : last = Direct + PerBlock * (PerBlock + 1)
  OBVIOUS
<1>9. i < last
  BY <1>5, <1>8 DEF Mapped
<1>10. Single => Want1 = req.file.ind /\ Want1 \in There
  BY <1>5 DEF Mapped, Single, Want1
<1>11. Double => ~Single /\ Want1 = req.file.dbl /\ Want1 \in There
  <2>1. Double => ~Single /\ Direct + PerBlock <= i
    BY <1>4, <1>6 DEF Double, Single
  <2>. QED  BY <2>1, <1>5 DEF Mapped, Want1
<1>12. ~LookupTriple
  <2>1. last \in Int
    BY <1>6, <1>8
  <2>. QED  BY <1>4, <1>8, <1>9, <2>1 DEF LookupTriple
<1>13. ~Fetch1Fails
  BY <1>2, <1>7, <1>10, <1>11, UnreadHealthy DEF Fetch1Fails
<1>14. Double /\ indir1.no = Want1 =>
           Want2 = Table[req.file.dbl][Rblock \div PerBlock] /\ Want2 \in There
  <2>1. ASSUME Double, indir1.no = Want1
        PROVE  Want2 = Table[req.file.dbl][Rblock \div PerBlock] /\ Want2 \in There
    <3>1. indir1.tab = Table[req.file.dbl]
      BY <2>1, <1>3, <1>7, <1>11
    <3>2. Direct + PerBlock <= i /\ i - Direct - PerBlock = Rblock
      BY <2>1, <1>4, <1>6 DEF Double, Rblock
    <3>3. Table[req.file.dbl][Rblock \div PerBlock] \in There
      BY <3>2, <1>5 DEF Mapped
    <3>. QED  BY <3>1, <3>3 DEF Want2
  <2>. QED  BY <2>1
<1>15. ~Fetch2Fails
  BY <1>2, <1>7, <1>14, UnreadHealthy DEF Fetch2Fails
<1>16. CASE Fetch1 \/ Fetch2
  BY <1>16 DEF Fetch1, Fetch2, LookedUp
<1>17. CASE LookupDirect
  <2>1. blknr' = req.file.dir[i] /\ pc' = "place" /\ i < Direct
    BY <1>17 DEF LookupDirect, Found
  <2>2. ~(Direct <= i)
    BY <2>1, <1>4, <1>6
  <2>3. BlockOf(req.file, i) = req.file.dir[i]
    BY <2>1, <2>2 DEF BlockOf
  <2>. QED  BY <1>1, <2>1, <2>3 DEF LookedUp
<1>18. CASE Lookup1
  <2>1. /\ blknr' = indir1.tab[i - Direct] /\ pc' = "place" /\ Single /\ indir1.no = Want1
    BY <1>18 DEF Lookup1, Found
  <2>2. indir1.tab = Table[req.file.ind] /\ req.file.ind # 0
    BY <2>1, <1>3, <1>7, <1>10
  <2>3. ~(i < Direct) /\ Direct <= i /\ i < Direct + PerBlock
    BY <2>1, <1>4, <1>6 DEF Single
  <2>4. BlockOf(req.file, i) = Table[req.file.ind][i - Direct]
    BY <2>2, <2>3 DEF BlockOf, Entry
  <2>. QED  BY <1>1, <2>1, <2>2, <2>4 DEF LookedUp
<1>19. CASE Lookup2
  <2>1. /\ blknr' = indir2.tab[Rblock % PerBlock] /\ pc' = "place" /\ Double
        /\ indir1.no = Want1 /\ indir2.no = Want2
    BY <1>19 DEF Lookup2, Found
  <2>2. Want2 = Table[req.file.dbl][Rblock \div PerBlock] /\ Want2 \in There
    BY <2>1, <1>14
  <2>3. indir2.tab = Table[Want2] /\ Want2 # 0 /\ req.file.dbl # 0
    BY <2>1, <2>2, <1>3, <1>7, <1>11
  <2>4. ~(i < Direct) /\ ~(Direct <= i /\ i < Direct + PerBlock)
    BY <2>1, <1>4, <1>6 DEF Double
  <2>5. BlockOf(req.file, i) = Entry(Entry(req.file.dbl, Rblock \div PerBlock), Rblock % PerBlock)
    BY <2>4 DEF BlockOf, Rblock
  <2>6. BlockOf(req.file, i) = Table[Want2][Rblock % PerBlock]
    BY <2>2, <2>3, <2>5 DEF Entry
  <2>. QED  BY <1>1, <2>1, <2>3, <2>6 DEF LookedUp
<1>. QED
  BY <1>12, <1>13, <1>15, <1>16, <1>17, <1>18, <1>19 DEF Lookup, Fetch

Correct(m) == \A k \in Asked : m[k] \in {Untouched, ByteOf(req.file, req.pos + k)}

LEMMA StoredCorrect ==
    ASSUME TypeOK, Placed, Content, delayed.on, Given(delayed), ~Outside(delayed),
           NEW n \in 0 .. delayed.extent
    PROVE  Correct(Stored(delayed, n))
<1>1. /\ delayed \in Delayed /\ req.pos \in Nat /\ req.len \in Nat
      /\ req.len + 2 * BlockSize <= Room /\ BlockSize \in Nat /\ Room \in Nat
  BY Sizes DEF TypeOK, Placed, Asking
<1>2. delayed.buf \in Nat /\ delayed.extent \in Nat
  BY <1>1 DEF Delayed
<1>3. \A k \in Asked : k \in 0 .. Room - 1 /\ k \in Nat
  BY <1>1 DEF Asked
<1>4. ASSUME NEW k \in Asked, k - delayed.buf \in 0 .. n - 1
      PROVE  Stored(delayed, n)[k] = ByteOf(req.file, req.pos + k)
  <2>1. PICK j : j = k - delayed.buf
    OBVIOUS
  <2>2. j \in 0 .. delayed.extent - 1 /\ req.pos + delayed.buf + j = req.pos + k
    BY <1>1, <1>2, <1>3, <1>4, <2>1
  <2>3. delayed.start * SectorSize + delayed.skip + j = ByteOf(req.file, req.pos + k)
    BY <2>2 DEF Given
  <2>4. Stored(delayed, n)[k] = delayed.start * SectorSize + delayed.skip + j
    BY <1>1, <1>3, <1>4, <2>1, StoredIs
  <2>. QED  BY <2>3, <2>4
<1>5. ASSUME NEW k \in Asked, k - delayed.buf \notin 0 .. n - 1
      PROVE  Stored(delayed, n)[k] = mem[k]
  BY <1>1, <1>3, <1>5, StoredIs
<1>. QED  BY <1>4, <1>5 DEF Content, Correct

LEMMA ContentAfter ==
    ASSUME req' = req, Correct(mem')
    PROVE  Content'
BY DEF Correct, Content, Asked

\* The block in hand, as the beginning of a delayed read.
LEMMA BegunGiven ==
    ASSUME TypeOK, Placed, Sound(req.file), LookedUp, pc = "place", blknr # 0
    PROVE  Given(Begun)
<1>1. /\ Asking /\ i \in Nat /\ First <= i /\ i < BlockCount /\ buf = PlaceOf(i)
      /\ blknr = BlockOf(req.file, i) /\ blknr \in Nat
  BY DEF Placed, TypeOK, LookedUp
<1>2. Skipfirst \in 0 .. BlockSize - 1 /\ Blockend \in 1 .. BlockSize - Skipfirst
  BY <1>1, BlockEnds
<1>3. Begun.start = Sector /\ Begun.skip = Skipfirst /\ Begun.extent = Blockend /\ Begun.buf = buf
  BY DEF Begun
<1>4. Sector * SectorSize = blknr * BlockSize
  BY <1>1, Sizes DEF Sector
<1>5. ASSUME NEW k \in 0 .. Blockend - 1
      PROVE  blknr * BlockSize + Skipfirst + k = ByteOf(req.file, req.pos + buf + k)
  <2>1. k \in 0 .. BlockSize - Skipfirst - 1
    BY <1>2, <1>5, Sizes
  <2>. QED  BY <1>1, <2>1, ByteAt
<1>. QED  BY <1>3, <1>4, <1>5 DEF Given

LEMMA BegunFollows ==
    ASSUME TypeOK, Placed, Sound(req.file), LookedUp, pc = "place", blknr # 0,
           i + 1 < BlockCount
    PROVE  IF Skipfirst = 0
             THEN Begun.next * SectorSize = Begun.start * SectorSize + Begun.skip + Begun.extent
             ELSE /\ i = First /\ Skipfirst \in 1 .. BlockSize - 1
                  /\ Begun.next = BlockOf(req.file, First) * SectorsPerBlock
                                      + (BlockSize - Skipfirst) \div SectorSize
<1>1. /\ Asking /\ i \in Nat /\ First <= i /\ i < BlockCount /\ buf = PlaceOf(i)
      /\ blknr = BlockOf(req.file, i) /\ blknr \in Nat
  BY DEF Placed, TypeOK, LookedUp
<1>2. /\ Skipfirst \in 0 .. BlockSize - 1 /\ Blockend = BlockSize - Skipfirst
      /\ Skipfirst # 0 => i = First
  BY <1>1, BlockEnds
<1>3. /\ Begun.start = Sector /\ Begun.skip = Skipfirst /\ Begun.extent = Blockend
      /\ Begun.next = Sector + Blockend \div SectorSize
  BY DEF Begun
<1>4. CASE Skipfirst # 0
  <2>1. Skipfirst \in 1 .. BlockSize - 1
    BY <1>2, <1>4, Sizes
  <2>2. Begun.next = BlockOf(req.file, First) * SectorsPerBlock + (BlockSize - Skipfirst) \div SectorSize
    BY <1>1, <1>2, <1>3, <1>4 DEF Sector
  <2>. QED  BY <1>2, <1>4, <2>1, <2>2
<1>5. CASE Skipfirst = 0
  <2>1. Blockend = BlockSize
    BY <1>2, <1>5, Sizes
  <2>2. BlockSize \div SectorSize = SectorsPerBlock
    <3>1. BlockSize = SectorSize * SectorsPerBlock + 0 /\ 0 \in 0 .. SectorSize - 1
      BY Sizes
    <3>. QED  BY <3>1, Sizes, Quotient
  <2>3. Sector \in Nat
    BY <1>1, Sizes, Product DEF Sector
  <2>4. (Sector + SectorsPerBlock) * SectorSize = Sector * SectorSize + SectorsPerBlock * SectorSize
    BY <2>3, Sizes, Product
  <2>5. Begun.next * SectorSize = Sector * SectorSize + BlockSize
    BY <1>3, <2>1, <2>2, <2>4, Sizes
  <2>6. Sector * SectorSize \in Nat
    BY <2>3, Sizes, Product
  <2>7. Begun.start * SectorSize + Begun.skip + Begun.extent = Sector * SectorSize + 0 + BlockSize
    BY <1>3, <1>5, <2>1
  <2>. QED  BY <1>5, <2>5, <2>6, <2>7, Sizes
<1>. QED  BY <1>4, <1>5

\* A read that began inside a block is not continued by the next one.
LEMMA NeverStraddles ==
    ASSUME TypeOK, Placed, Sound(req.file), LookedUp, pc = "place", blknr # 0,
           delayed.next = Sector
    PROVE  ~Straddles
<1> SUFFICES ASSUME Straddles PROVE FALSE
  OBVIOUS
<1>1. /\ Asking /\ i \in Nat /\ First <= i /\ i < BlockCount /\ i = First + 1
      /\ blknr = BlockOf(req.file, i) /\ blknr \in Nat
  BY DEF Placed, TypeOK, LookedUp, Straddles
<1>2. ~Repeated(req.file, First)
  BY <1>1, SoundBlock
<1>3. PICK b : b = BlockOf(req.file, First)
  OBVIOUS
<1>4. b # blknr /\ b # 0
  BY <1>1, <1>2, <1>3 DEF Repeated, Straddles
<1>5. b \in Nat
  <2>1. First \in Nat /\ First < BlockCount /\ req.file.size \in Nat
    BY <1>1, Counting, FilesAssumption DEF TypeOK, Inode
  <2>2. First \in Span(req.file)
    BY <1>1, <2>1, InSpan
  <2>3. b \in Blocks
    BY <1>3, <2>2, Zenon DEF Sound, Mapped
  <2>. QED  BY <2>3 DEF Blocks
<1>6. PICK e : e = BlockSize - delayed.skip
  OBVIOUS
<1>7. e \in Nat /\ e < BlockSize
  BY <1>6, Sizes DEF Straddles
<1>8. PICK j : j = e \div SectorSize
  OBVIOUS
<1>9. j \in 0 .. SectorsPerBlock - 1
  <2>1. /\ j \in Nat /\ e % SectorSize \in 0 .. SectorSize - 1
        /\ e = SectorSize * j + (e % SectorSize)
    BY <1>7, <1>8, Sizes, Division
  <2>2. PICK t, r : t = j * SectorSize /\ r = e % SectorSize
    OBVIOUS
  <2>3. t \in Nat /\ SectorSize * j = t
    BY <2>1, <2>2, Sizes, Product
  <2>4. t <= e
    BY <1>7, <2>1, <2>2, <2>3, Sizes
  <2>5. j * SectorSize < SectorsPerBlock * SectorSize
    BY <1>7, <2>2, <2>3, <2>4, Sizes
  <2>6. j < SectorsPerBlock
    BY <2>1, <2>5, Sizes, Product
  <2>. QED  BY <2>1, <2>6, Sizes
<1>10. delayed.next = b * SectorsPerBlock + j
  BY <1>3, <1>6, <1>8 DEF Straddles
<1>11. Sector = SectorsPerBlock * blknr + 0 /\ Sector \in Nat
  BY <1>1, Sizes DEF Sector
<1>12. Sector = SectorsPerBlock * b + j
  BY <1>5, <1>9, <1>10, Sizes
<1>13. Sector \div SectorsPerBlock = blknr
  <2>1. 0 \in 0 .. SectorsPerBlock - 1
    BY Sizes
  <2>. QED  BY <1>1, <1>11, <2>1, Sizes, Quotient
<1>14. Sector \div SectorsPerBlock = b
  BY <1>5, <1>9, <1>11, <1>12, Sizes, Quotient
<1>. QED  BY <1>4, <1>13, <1>14

\* A block behind the delayed read continues it.
LEMMA ExtendRight ==
    ASSUME TypeOK, Placed, Sound(req.file), LookedUp, pc = "place", blknr # 0,
           delayed.on, delayed.next = Sector, Given(delayed), Continues,
           NEW d, d = [delayed EXCEPT !.extent = @ + Blockend,
                                      !.next = @ + Blockend \div SectorSize]
    PROVE  /\ Given(d)
           /\ i + 1 < BlockCount =>
                  d.next * SectorSize = d.start * SectorSize + d.skip + d.extent
<1>1. /\ Asking /\ i \in Nat /\ First <= i /\ i < BlockCount /\ buf = PlaceOf(i) /\ i # First
      /\ blknr = BlockOf(req.file, i) /\ blknr \in Nat /\ delayed \in Delayed
      /\ req.len \in Nat /\ req.pos \in Nat
      /\ delayed.buf + delayed.extent = Least(buf, req.len)
  BY DEF Placed, TypeOK, LookedUp, Continues, Asking
<1>2. Blockend \in 1 .. BlockSize /\ Skipfirst = 0 /\ PlaceOf(i) \in 0 .. req.len - 1
  <2>1. /\ Skipfirst \in 0 .. BlockSize - 1 /\ Blockend \in 1 .. BlockSize - Skipfirst
        /\ Skipfirst # 0 => i = First /\ PlaceOf(i) \in 0 .. req.len - 1
        /\ PlaceOf(i) \in 0 .. req.len - 1
    BY <1>1, BlockEnds
  <2>. QED  BY <1>1, <2>1, Sizes
<1>3. delayed.buf + delayed.extent = buf /\ buf \in Nat
  BY <1>1, <1>2 DEF Least
<1>4. /\ delayed.start \in Nat /\ delayed.skip \in Nat /\ delayed.extent \in Nat
      /\ delayed.buf \in Nat /\ delayed.next \in Nat
  BY <1>1 DEF Delayed
<1>5. /\ d.start = delayed.start /\ d.skip = delayed.skip /\ d.buf = delayed.buf
      /\ d.extent = delayed.extent + Blockend
      /\ d.next = delayed.next + Blockend \div SectorSize
  BY <1>1 DEF Delayed
<1>6. Sector * SectorSize = blknr * BlockSize
  BY <1>1, Sizes DEF Sector
<1>7. PICK x, y : x = blknr * BlockSize /\ y = delayed.start * SectorSize
  OBVIOUS
<1>8. x \in Nat /\ y \in Nat
  BY <1>1, <1>4, <1>7, Sizes, Product
<1>9. x = y + delayed.skip + delayed.extent
  BY <1>6, <1>7 DEF Continues
<1>10. ASSUME NEW k \in 0 .. d.extent - 1
       PROVE  d.start * SectorSize + d.skip + k = ByteOf(req.file, req.pos + d.buf + k)
  <2>1. CASE k < delayed.extent
    <3>1. k \in 0 .. delayed.extent - 1
      BY <1>4, <2>1
    <3>. QED  BY <3>1, <1>5 DEF Given
  <2>2. CASE ~(k < delayed.extent)
    <3>1. PICK j : j = k - delayed.extent
      OBVIOUS
    <3>2. j \in 0 .. Blockend - 1
      BY <1>2, <1>4, <1>5, <2>2, <3>1, Sizes
    <3>3. j \in 0 .. BlockSize - Skipfirst - 1
      BY <1>2, <3>2, Sizes
    <3>4. x + Skipfirst + j = ByteOf(req.file, req.pos + buf + j)
      BY <1>1, <1>7, <3>3, ByteAt
    <3>5. req.pos + buf + j = req.pos + d.buf + k
      BY <1>1, <1>3, <1>4, <1>5, <3>1, <3>2
    <3>6. x + Skipfirst + j = y + delayed.skip + k
      BY <1>2, <1>4, <1>8, <1>9, <3>1, <3>2
    <3>. QED  BY <1>5, <1>7, <3>4, <3>5, <3>6
  <2>. QED  BY <2>1, <2>2
<1>11. ASSUME i + 1 < BlockCount
       PROVE  d.next * SectorSize = d.start * SectorSize + d.skip + d.extent
  <2>1. Blockend = BlockSize
    <3>1. Blockend = BlockSize - Skipfirst
      BY <1>1, <1>11, BlockEnds
    <3>. QED  BY <3>1, <1>2, Sizes
  <2>2. BlockSize \div SectorSize = SectorsPerBlock
    <3>1. BlockSize = SectorSize * SectorsPerBlock + 0 /\ 0 \in 0 .. SectorSize - 1
      BY Sizes
    <3>. QED  BY <3>1, Sizes, Quotient
  <2>3. d.next = delayed.next + SectorsPerBlock
    BY <1>5, <2>1, <2>2
  <2>4. (delayed.next + SectorsPerBlock) * SectorSize
            = delayed.next * SectorSize + SectorsPerBlock * SectorSize
    BY <1>4, Sizes, Product
  <2>5. d.next * SectorSize = x + BlockSize
    BY <1>6, <1>7, <2>3, <2>4, Sizes
  <2>. QED  BY <1>4, <1>5, <1>7, <1>8, <1>9, <2>1, <2>5, Sizes
<1>. QED  BY <1>10, <1>11 DEF Given

LEMMA HoleCorrect ==
    ASSUME TypeOK, Placed, Sound(req.file), LookedUp, pc = "place", blknr = 0,
           NEW m, Correct(m)
    PROVE  Correct(ZeroFilled(m))
<1>1. /\ Asking /\ i \in Nat /\ First <= i /\ i < BlockCount /\ buf = PlaceOf(i)
      /\ BlockOf(req.file, i) = 0 /\ req.pos \in Nat /\ req.len \in Nat
      /\ req.len + 2 * BlockSize <= Room /\ buf \in 0 .. Room
  BY DEF Placed, TypeOK, LookedUp, Asking
<1>2. \A k \in Asked : k \in 0 .. Room - 1 /\ k \in Nat
  BY <1>1, Sizes DEF Asked
<1>3. ASSUME NEW k \in Asked, k - buf \in 0 .. BlockSize - Skipfirst - 1
      PROVE  ByteOf(req.file, req.pos + k) = Zero
  <2>1. PICK j : j = k - buf
    OBVIOUS
  <2>2. req.pos + PlaceOf(i) + j = req.pos + k
    BY <1>1, <1>2, <2>1, Sizes
  <2>3. ByteOf(req.file, req.pos + PlaceOf(i) + j) = Zero
    BY <1>1, <1>3, <2>1, ByteAt
  <2>. QED  BY <2>2, <2>3
<1>. QED  BY <1>2, <1>3 DEF Correct, ZeroFilled

LEMMA GivenAfter ==
    ASSUME req' = req, NEW d, delayed' = d, Given(d)
    PROVE  Given(delayed)'
BY DEF Given

\* The next block after one that begins a delayed read.
LEMMA BegunFollowsAfter ==
    ASSUME TypeOK, Placed, Sound(req.file), LookedUp, pc = "place", blknr # 0,
           delayed' = Begun, Advance, pc' = "lookup"
    PROVE  Follows'
<1>1. req' = req /\ i' = i + 1 /\ i + 1 < BlockCount
  BY DEF Advance
<1>2. First' = First
  BY <1>1, SameRequest
<1>3. i \in Nat /\ First \in Nat /\ First <= i
  BY Counting DEF TypeOK, Placed
<1>4. i' > First'
  BY <1>1, <1>2, <1>3
<1>5. Begun.skip = Skipfirst
  BY DEF Begun
<1>6. CASE Skipfirst = 0
  <2>1. Begun.next * SectorSize = Begun.start * SectorSize + Begun.skip + Begun.extent
    BY <1>1, <1>6, BegunFollows
  <2>. QED  BY <1>4, <2>1 DEF Follows, Continues
<1>7. CASE Skipfirst # 0
  <2>1. /\ i = First /\ Skipfirst \in 1 .. BlockSize - 1
        /\ Begun.next = BlockOf(req.file, First) * SectorsPerBlock
                            + (BlockSize - Skipfirst) \div SectorSize
    BY <1>1, <1>7, BegunFollows
  <2>2. BlockOf(req.file, First) # 0
    BY <2>1 DEF LookedUp
  <2>3. i' = First' + 1
    BY <1>1, <1>2, <2>1
  <2>. QED  BY <1>1, <1>2, <1>5, <2>1, <2>2, <2>3 DEF Follows, Straddles
<1>. QED  BY <1>6, <1>7

LEMMA PlaceRight ==
    ASSUME TypeOK, Placed, Sound(req.file), LookedUp, Content,
           delayed.on => Given(delayed) /\ Follows,
           Begin \/ Extend \/ Spill \/ Hole
    PROVE  /\ LookedUp' /\ Content'
           /\ delayed'.on => Given(delayed)'
           /\ delayed'.on /\ pc' = "lookup" => Follows'
<1>1. /\ pc = "place" /\ Advance /\ req' = req /\ i' = i + 1 /\ delayed \in Delayed
      /\ pc' = IF i + 1 < BlockCount THEN "lookup" ELSE "flush"
  BY DEF Begin, Extend, Spill, Hole, Advance, TypeOK
<1>2. LookedUp'
  BY <1>1 DEF LookedUp
<1>3. Correct(mem)
  BY DEF Content, Correct
<1>4. delayed.extent \in 0 .. delayed.extent
  BY <1>1 DEF Delayed
<1>5. delayed.on /\ ~Outside(delayed) => Correct(Stored(delayed, delayed.extent))
  BY <1>4, StoredCorrect
<1>6. CASE Begin \/ Spill
  <2>1. /\ blknr # 0 /\ delayed' = Begun
        /\ mem' = mem \/ (delayed.on /\ ~Outside(delayed) /\ mem' = Stored(delayed, delayed.extent))
    BY <1>6 DEF Begin, Spill
  <2>2. Content'
    BY <1>1, <1>3, <1>5, <2>1, ContentAfter
  <2>3. Given(delayed)'
    BY <1>1, <2>1, BegunGiven, GivenAfter
  <2>4. pc' = "lookup" => Follows'
    BY <1>1, <2>1, BegunFollowsAfter
  <2>. QED  BY <1>2, <2>2, <2>3, <2>4
<1>7. CASE Extend
  <2>1. /\ blknr # 0 /\ delayed.on /\ delayed.next = Sector /\ mem' = mem
        /\ delayed' = [delayed EXCEPT !.extent = @ + Blockend,
                                      !.next = @ + Blockend \div SectorSize]
    BY <1>7 DEF Extend
  <2>2. Content'
    BY <1>1, <1>3, <2>1, ContentAfter
  <2>3. Continues
    BY <1>1, <2>1, NeverStraddles DEF Follows
  <2>4. /\ Given(delayed')
        /\ i + 1 < BlockCount => delayed'.next * SectorSize
               = delayed'.start * SectorSize + delayed'.skip + delayed'.extent
    BY <1>1, <2>1, <2>3, ExtendRight
  <2>5. Given(delayed)'
    BY <1>1, <2>4, GivenAfter
  <2>6. First' = First /\ i' > First'
    <3>1. First' = First
      BY <1>1, SameRequest
    <3>2. i \in Nat /\ First \in Nat /\ First <= i
      BY <1>1, Counting DEF TypeOK, Placed
    <3>. QED  BY <1>1, <3>1, <3>2
  <2>7. pc' = "lookup" => Follows'
    BY <1>1, <2>4, <2>6 DEF Follows, Continues
  <2>. QED  BY <1>2, <2>2, <2>5, <2>7
<1>8. CASE Hole
  <2>1. /\ blknr = 0 /\ delayed' = [delayed EXCEPT !.on = FALSE]
        /\ delayed.on => ~Outside(delayed)
        /\ mem' = ZeroFilled(IF delayed.on THEN Stored(delayed, delayed.extent) ELSE mem)
    BY <1>8 DEF Hole
  <2>2. Correct(mem')
    BY <1>1, <1>3, <1>5, <2>1, HoleCorrect
  <2>3. Content'
    BY <1>1, <2>2, ContentAfter
  <2>4. ~delayed'.on
    BY <1>1, <2>1 DEF Delayed
  <2>. QED  BY <1>2, <2>3, <2>4
<1>. QED  BY <1>6, <1>7, <1>8

\* The end of a call, with or without a failing read.
LEMMA EndRight ==
    ASSUME TypeOK, Placed, Content, delayed.on => Given(delayed), Flush \/ PlaceFails \/ FlushFails
    PROVE  Content' /\ pc' = "done"
<1>1. req' = req /\ pc' = "done" /\ delayed \in Delayed
  BY DEF Flush, PlaceFails, FlushFails, DevreadFails, Fail, TypeOK
<1>2. Correct(mem)
  BY DEF Content, Correct
<1>3. mem' = mem \/ (delayed.on /\ ~Outside(delayed)
                      /\ \E n \in 0 .. delayed.extent : mem' = Stored(delayed, n))
  <2>1. delayed.extent \in 0 .. delayed.extent
    BY <1>1 DEF Delayed
  <2>. QED  BY <1>1, <2>1, CutsInside DEF Flush, PlaceFails, FlushFails, DevreadFails
<1>. QED  BY <1>1, <1>2, <1>3, StoredCorrect, ContentAfter

LEMMA RightStep == TypeOK /\ Placed /\ Right /\ [Next]_vars => Right'
<1>. SUFFICES ASSUME TypeOK, Placed, Right, [Next]_vars PROVE Right'
  OBVIOUS
<1>1. Cached /\ Cached'
  BY CachedStep DEF Right
<1>. SUFFICES ASSUME Trusted'
              PROVE  /\ LookedUp' /\ Content'
                     /\ delayed'.on /\ pc' # "done" => Given(delayed)'
                     /\ delayed'.on /\ pc' \in {"lookup", "place"} => Follows'
  BY <1>1 DEF Right
<1>2. Healthy
  BY HealthyBefore DEF Trusted
<1>3. req' = req => /\ Sound(req.file) /\ LookedUp /\ Content
                    /\ delayed.on /\ pc # "done" => Given(delayed)
                    /\ delayed.on /\ pc \in {"lookup", "place"} => Follows
  BY <1>2 DEF Right, Trusted
<1>4. CASE UNCHANGED vars
  <2>1. UNCHANGED <<pc, req, i, blknr, buf, delayed, mem>>
    BY <1>4 DEF vars, walk
  <2>2. First' = First /\ Asked' = Asked
    BY <2>1 DEF First, Asked
  <2>3. LookedUp' /\ Content'
    BY <1>3, <2>1, <2>2 DEF LookedUp, Content
  <2>4. (Given(delayed)' <=> Given(delayed)) /\ (Follows' <=> Follows)
    BY <2>1, <2>2 DEF Given, Follows, Continues, Straddles
  <2>. QED  BY <1>3, <2>1, <2>3, <2>4
<1>5. ASSUME NEW r \in Requests, Call(r)
      PROVE  /\ LookedUp' /\ Content' /\ ~delayed'.on
  <2>1. /\ pc' # "place" /\ delayed' = NoDelay /\ req' = Adjusted(r)
        /\ mem' = [k \in 0 .. Room - 1 |-> Untouched]
    BY <1>5 DEF Call
  <2>2. \A k \in Asked' : k \in 0 .. Room - 1
    BY <2>1, AdjustedIs, Sizes DEF Asked
  <2>. QED  BY <2>1, <2>2 DEF LookedUp, Content, NoDelay
<1>6. CASE Lookup \/ Fetch
  <2>1. /\ pc = "lookup" /\ UNCHANGED <<req, i, buf, delayed, mem>>
    BY <1>6 DEF Lookup, LookupDirect, Lookup1, Lookup2, LookupTriple,
                Fetch, Fetch1, Fetch1Fails, Fetch2, Fetch2Fails, Found, Fail, walk
  <2>2. LookedUp' /\ pc' # "done"
    BY <1>1, <1>6, <2>1, FoundRight
  <2>3. First' = First /\ Asked' = Asked
    BY <2>1 DEF First, Asked
  <2>4. Content'
    BY <1>3, <2>1, <2>3 DEF Content
  <2>5. (Given(delayed)' <=> Given(delayed)) /\ (Follows' <=> Follows)
    BY <2>1, <2>3 DEF Given, Follows, Continues, Straddles
  <2>. QED  BY <1>3, <2>1, <2>2, <2>4, <2>5
<1>7. CASE Begin \/ Extend \/ Spill \/ Hole
  <2>1. pc = "place" /\ req' = req /\ pc' \in {"lookup", "flush"}
    BY <1>7 DEF Begin, Extend, Spill, Hole, Advance
  <2>2. /\ LookedUp' /\ Content'
        /\ delayed'.on => Given(delayed)'
        /\ delayed'.on /\ pc' = "lookup" => Follows'
    BY <1>3, <1>7, <2>1, PlaceRight
  <2>. QED  BY <2>1, <2>2
<1>8. CASE Flush \/ PlaceFails \/ FlushFails
  <2>1. pc # "done" /\ req' = req
    BY <1>8 DEF Flush, PlaceFails, FlushFails, DevreadFails, Fail
  <2>2. Content' /\ pc' = "done"
    BY <1>3, <1>8, <2>1, EndRight
  <2>3. LookedUp'
    BY <2>2 DEF LookedUp
  <2>. QED  BY <2>2, <2>3
<1>. QED  BY <1>4, <1>5, <1>6, <1>7, <1>8 DEF Next, Place

-----------------------------------------------------------------------------
(* All that was asked for *)

LEMMA StoredFills ==
    ASSUME TypeOK, Placed, Filled, pc \in {"place", "flush"}, delayed.on, ~Outside(delayed)
    PROVE  \A k \in Asked : k < Least(buf, req.len) =>
               Stored(delayed, delayed.extent)[k] # Untouched
<1>1. /\ delayed \in Delayed /\ req.len \in Nat /\ buf \in Nat
      /\ req.len + 2 * BlockSize <= Room /\ BlockSize \in Nat /\ Room \in Nat
      /\ delayed.buf + delayed.extent = Least(buf, req.len)
  BY Sizes DEF TypeOK, Placed, Asking
<1>2. delayed.buf \in Nat /\ delayed.extent \in Nat
  BY <1>1 DEF Delayed
<1>3. delayed.extent \in 0 .. delayed.extent
  BY <1>2
<1>4. \A k \in Asked : k \in 0 .. Room - 1 /\ k \in Nat
  BY <1>1 DEF Asked
<1>5. ASSUME NEW k \in Asked, k < delayed.buf
      PROVE  Stored(delayed, delayed.extent)[k] # Untouched
  <2>1. k - delayed.buf \notin 0 .. delayed.extent - 1
    BY <1>2, <1>4, <1>5
  <2>2. mem[k] # Untouched
    BY <1>5 DEF Filled
  <2>. QED  BY <1>1, <1>3, <1>4, <2>1, <2>2, StoredIs
<1>6. ASSUME NEW k \in Asked, ~(k < delayed.buf), k < Least(buf, req.len)
      PROVE  Stored(delayed, delayed.extent)[k] # Untouched
  <2>1. k - delayed.buf \in 0 .. delayed.extent - 1
    BY <1>1, <1>2, <1>4, <1>6
  <2>2. Stored(delayed, delayed.extent)[k] \in Addresses
    BY <1>1, <1>3, <1>4, <2>1, StoredIs
  <2>3. Untouched \notin Addresses
    BY Sizes DEF Untouched, Addresses
  <2>. QED  BY <2>2, <2>3
<1>. QED  BY <1>5, <1>6

LEMMA FilledStep == TypeOK /\ Placed /\ Filled /\ [Next]_vars => Filled'
<1>. SUFFICES ASSUME TypeOK, Placed, Filled, [Next]_vars PROVE Filled'
  OBVIOUS
<1>1. CASE UNCHANGED vars \/ Lookup \/ Fetch
  <2>1. /\ UNCHANGED <<req, buf, delayed, mem>>
        /\ pc' \in {"lookup", "place", "flush"} => pc \in {"lookup", "place", "flush"}
    BY <1>1 DEF Lookup, LookupDirect, Lookup1, Lookup2, LookupTriple,
                Fetch, Fetch1, Fetch1Fails, Fetch2, Fetch2Fails, Found, Fail, walk, vars
  <2>. QED  BY <2>1 DEF Filled, Asked
<1>2. ASSUME NEW r \in Requests, Call(r) PROVE Filled'
  <2>1. buf' = 0 /\ delayed' = NoDelay /\ req' = Adjusted(r)
    BY <1>2 DEF Call
  <2>2. \A k \in Asked' : ~(k < 0)
    BY <2>1, AdjustedIs DEF Asked
  <2>. QED  BY <2>1, <2>2 DEF Filled, NoDelay
<1>3. CASE Flush \/ PlaceFails \/ FlushFails
  <2>1. pc' = "done"
    BY <1>3 DEF Flush, PlaceFails, FlushFails, DevreadFails, Fail
  <2>. QED  BY <2>1 DEF Filled
<1>4. CASE Begin \/ Extend \/ Spill \/ Hole
  <2>1. /\ pc = "place" /\ req' = req /\ buf' = buf + BlockSize - Skipfirst
        /\ delayed \in Delayed /\ buf \in 0 .. Room /\ req.len \in Nat
        /\ req.len + 2 * BlockSize <= Room /\ Room \in Nat /\ BlockSize \in Nat
    BY <1>4, Sizes DEF Begin, Extend, Spill, Hole, Advance, TypeOK, Placed, Asking
  <2>2. Asked' = Asked /\ \A k \in Asked : k \in 0 .. Room - 1 /\ k \in Nat /\ k < req.len
    BY <2>1 DEF Asked
  <2>3. \A k \in Asked : k < (IF delayed.on THEN delayed.buf ELSE buf) => mem[k] # Untouched
    BY <2>1 DEF Filled
  <2>4. \A k \in Asked : k < buf => k < Least(buf, req.len)
    BY <2>1, <2>2 DEF Least
  <2>5. CASE Begin
    <3>1. ~delayed.on /\ mem' = mem /\ delayed' = Begun
      BY <2>5 DEF Begin
    <3>. QED  BY <2>2, <2>3, <3>1 DEF Filled, Begun
  <2>6. CASE Extend
    <3>1. delayed.on /\ mem' = mem /\ delayed'.on /\ delayed'.buf = delayed.buf
      BY <2>1, <2>6 DEF Extend, Delayed
    <3>. QED  BY <2>2, <2>3, <3>1 DEF Filled
  <2>7. CASE Spill
    <3>1. /\ delayed.on /\ ~Outside(delayed) /\ delayed' = Begun
          /\ mem' = Stored(delayed, delayed.extent)
      BY <2>7 DEF Spill
    <3>2. \A k \in Asked : k < buf => mem'[k] # Untouched
      BY <2>1, <2>4, <3>1, StoredFills
    <3>. QED  BY <2>2, <3>1, <3>2 DEF Filled, Begun
  <2>8. CASE Hole
    <3>1. /\ ~delayed'.on /\ (delayed.on => ~Outside(delayed))
          /\ mem' = ZeroFilled(IF delayed.on THEN Stored(delayed, delayed.extent) ELSE mem)
      BY <2>1, <2>8 DEF Hole, Delayed
    <3>2. PICK m : m = IF delayed.on THEN Stored(delayed, delayed.extent) ELSE mem
      OBVIOUS
    <3>3. \A k \in Asked : k < buf => m[k] # Untouched
      BY <2>1, <2>3, <2>4, <3>1, <3>2, StoredFills
    <3>4. \A k \in Asked : mem'[k] = IF k - buf \in 0 .. BlockSize - Skipfirst - 1
                                     THEN Zero ELSE m[k]
      BY <2>2, <3>1, <3>2 DEF ZeroFilled
    <3>5. Skipfirst \in 0 .. BlockSize - 1
      BY <2>1, BlockEnds DEF Placed, TypeOK
    <3>6. \A k \in Asked : k < buf' => k < buf \/ k - buf \in 0 .. BlockSize - Skipfirst - 1
      BY <2>1, <2>2, <3>5
    <3>7. \A k \in Asked : k < buf' => mem'[k] # Untouched
      BY <3>3, <3>4, <3>6 DEF Zero, Untouched
    <3>. QED  BY <2>2, <3>1, <3>7 DEF Filled
  <2>. QED  BY <1>4, <2>5, <2>6, <2>7, <2>8
<1>. QED  BY <1>1, <1>2, <1>3, <1>4 DEF Next, Place

\* Nothing fails without a fault in a sound file.
LEMMA SoundIsRead ==
    ASSUME TypeOK, Placed, Right, Next, pc' = "done", faults' = 0, Sound(req.file)
    PROVE  Flush
<1>1. Trusted /\ Healthy' /\ faults = 0
  <2>1. Healthy'
    BY DEF Healthy
  <2>2. Healthy
    BY <2>1, HealthyBefore
  <2>3. faults = 0
    <3>1. faults' = faults \/ faults' = faults + 1
      BY DEF Next, Lookup, LookupDirect, Lookup1, Lookup2, LookupTriple,
               Fetch, Fetch1, Fetch1Fails, Fetch2, Fetch2Fails, Unread, DevreadFails, Fault, NoFault,
               Place, Begin, Extend, Spill, Hole, PlaceFails, Flush, FlushFails, Advance, Call, vars
    <3>2. faults \in Nat
      BY GeometryAssumption DEF TypeOK
    <3>. QED  BY <3>1, <3>2
  <2>. QED  BY <2>1, <2>2, <2>3 DEF Trusted
<1>2. ~(\E r \in Requests : Call(r))
  BY DEF Call
<1>3. ~(Lookup \/ Fetch)
  <2>1. Lookup \/ Fetch => pc = "lookup" /\ req' = req
    BY DEF Lookup, LookupDirect, Lookup1, Lookup2, LookupTriple,
           Fetch, Fetch1, Fetch1Fails, Fetch2, Fetch2Fails, Found, Fail, walk
  <2>2. Lookup \/ Fetch => Trusted'
    BY <1>1, <2>1 DEF Trusted
  <2>. QED  BY <2>1, <2>2, FoundRight DEF Right
<1>4. ~(Begin \/ Extend \/ Spill \/ Hole)
  BY DEF Begin, Extend, Spill, Hole, Advance
<1>5. ~(PlaceFails \/ FlushFails)
  <2>1. PlaceFails \/ FlushFails => pc # "done" /\ pc # "idle" /\ delayed.on /\ DevreadFails(delayed)
    BY DEF PlaceFails, FlushFails
  <2>2. ~Fault
    <3>1. faults' # faults + 1
      BY <1>1
    <3>. QED  BY <3>1 DEF Fault
  <2>3. PlaceFails \/ FlushFails => Outside(delayed)
    BY <2>1, <2>2 DEF DevreadFails
  <2>4. PlaceFails \/ FlushFails => Given(delayed)
    BY <1>1, <2>1 DEF Right
  <2>. QED  BY <2>1, <2>3, <2>4, GivenInside
<1>. QED  BY <1>2, <1>3, <1>4, <1>5 DEF Next, Place

LEMMA WholeStep ==
    TypeOK /\ Placed /\ Right /\ Filled /\ ReadsWhole /\ [Next]_vars => ReadsWhole'
<1>. SUFFICES ASSUME TypeOK, Placed, Right, Filled, ReadsWhole, [Next]_vars, pc' = "done"
              PROVE  /\ result' >= 0 => /\ result' = req'.len
                                        /\ \A k \in Asked' : mem'[k] # Untouched
                     /\ (faults' = 0 /\ Sound(req'.file)) => result' = req'.len
  BY DEF ReadsWhole
<1>1. CASE UNCHANGED vars
  <2>1. UNCHANGED <<pc, req, mem, result, faults>> /\ Asked' = Asked
    BY <1>1 DEF vars, walk, Asked
  <2>. QED  BY <2>1 DEF ReadsWhole
<1>2. CASE Next /\ ~Flush
  <2>1. req' = req /\ result' = -1
    BY <1>2 DEF Next, Lookup, LookupDirect, Lookup1, Lookup2, LookupTriple,
                Fetch, Fetch1, Fetch1Fails, Fetch2, Fetch2Fails, DevreadFails, Found, Fail, walk,
                Place, Begin, Extend, Spill, Hole, PlaceFails, FlushFails, Advance, Call
  <2>2. ~(faults' = 0 /\ Sound(req'.file))
    BY <1>2, <2>1, SoundIsRead
  <2>. QED  BY <2>1, <2>2
<1>3. CASE Flush
  <2>1. /\ pc = "flush" /\ req' = req /\ result' = req.len /\ delayed \in Delayed
        /\ delayed.on => ~Outside(delayed)
        /\ mem' = IF delayed.on THEN Stored(delayed, delayed.extent) ELSE mem
    BY <1>3 DEF Flush, TypeOK
  <2>2. Asked' = Asked
    BY <2>1 DEF Asked
  <2>3. Asking /\ i = BlockCount /\ buf = PlaceOf(i) /\ buf \in Nat /\ req.len \in Nat /\ req.pos \in Nat
    BY <2>1 DEF Placed, TypeOK, Asking
  <2>4. req.len <= buf
    <3>1. PICK m : m = BlockCount * BlockSize
      OBVIOUS
    <3>2. End <= m /\ BlockCount \in Nat /\ First * BlockSize <= req.pos
      BY <2>3, <3>1, Counting
    <3>3. m \in Nat
      BY <3>1, <3>2, Sizes, Product
    <3>4. CASE i = First
      <4>1. m <= req.pos
        BY <2>3, <3>1, <3>2, <3>4
      <4>. QED  BY <2>3, <3>2, <3>3, <4>1 DEF End
    <3>5. CASE i # First
      <4>1. buf = m - req.pos
        BY <2>3, <3>1, <3>5 DEF PlaceOf
      <4>. QED  BY <2>3, <3>2, <3>3, <4>1 DEF End
    <3>. QED  BY <3>4, <3>5
  <2>5. \A k \in Asked : k < req.len /\ k < buf /\ k < Least(buf, req.len)
    BY <2>3, <2>4 DEF Asked, Least
  <2>6. CASE delayed.on
    BY <2>1, <2>2, <2>5, <2>6, StoredFills
  <2>7. CASE ~delayed.on
    <3>1. \A k \in Asked : k < buf => mem[k] # Untouched
      BY <2>1, <2>7 DEF Filled
    <3>. QED  BY <2>1, <2>2, <2>5, <2>7, <3>1
  <2>. QED  BY <2>6, <2>7
<1>. QED  BY <1>1, <1>2, <1>3
-----------------------------------------------------------------------------
IInv ==
    /\ TypeOK /\ Placed /\ StaysInside
    /\ Right /\ Filled /\ ReadsWhole

LEMMA Inductive == Spec => []IInv
<1>1. Init => IInv
  <2>. SUFFICES ASSUME Init PROVE IInv
    OBVIOUS
  <2>1. TypeOK /\ Placed
    BY InitPlaced
  <2>2. /\ pc = "idle" /\ mem = [k \in 0 .. Room - 1 |-> Untouched]
        /\ ~delayed.on /\ indir1.no = NoBlock /\ indir2.no = NoBlock
    BY DEF Init, NoDelay, NoCache
  <2>3. StaysInside
    BY <2>2 DEF StaysInside
  <2>4. \A k \in Asked : k \in 0 .. Room - 1
    BY <2>1, Sizes DEF Asked, Placed, Asking
  <2>5. Right
    BY <2>2, <2>4 DEF Right, Cached, LookedUp, Content
  <2>. QED  BY <2>1, <2>2, <2>3, <2>5 DEF IInv, Filled, ReadsWhole
<1>2. IInv /\ [Next]_vars => IInv'
  BY TypeStep, InsideStep, RightStep, FilledStep, WholeStep DEF IInv
<1>. QED  BY <1>1, <1>2, PTL DEF Spec

\* The state of a read keeps its type: what it reads lies in the partition, what
\* it writes in the memory behind the buffer (dev.c:40, ext2.c:403-476).
THEOREM TypeCorrect == Spec => []TypeOK
<1>1. IInv => TypeOK
  BY DEF IInv
<1>. QED  BY <1>1, Inductive, PTL

\* ext2.c:473: behind the bytes that were asked for only the rest of a last
\* block without a number is written, with zeros.
THEOREM StaysInRequest == Spec => []StaysInside
<1>1. IInv => StaysInside
  BY DEF IInv
<1>. QED  BY <1>1, Inductive, PTL

\* ext2.c:428-474, dev.c:58-119: no byte that was asked for is ever another
\* byte than the file's.
THEOREM BytesAreTheFiles == Spec => []NeverWrong
<1>1. IInv => NeverWrong
  BY DEF IInv, Right, Trusted, Healthy, Content, NeverWrong
<1>. QED  BY <1>1, Inductive, PTL

\* ext2.c:488: a read that returns a length has written all of it, and without
\* a fault a sound file is read.
THEOREM LengthIsWritten == Spec => []ReadsWhole
<1>1. IInv => ReadsWhole
  BY DEF IInv
<1>. QED  BY <1>1, Inductive, PTL
=============================================================================
