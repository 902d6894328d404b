---------------------------- MODULE ImageProofs ----------------------------
(***************************************************************************)
(* Proofs about Image, for every image and every block size: read_data     *)
(* returns as many bytes as are asked for and left, and they are the bytes *)
(* of the file, unless a short read goes from a block to one that is not   *)
(* next to it in the image.                                                *)
(***************************************************************************)
EXTENDS Image, SetInduction, SequenceTheorems

\* What a read of length bytes at offset delivers.
ReadSize(inode, offset, length) ==
    IF offset >= length_in_b[inode] THEN 0 ELSE Shrunk(inode, offset, length)

\* The blocks of the file follow each other in the image.
Contiguous(inode) ==
    \A i \in 1 .. Len(data_block_number[inode]) - 1 :
        data_block_number[inode][i + 1] = data_block_number[inode][i] + 1

\* The reads whose first round ends inside its block: long ones, short ones that
\* do not reach the end of the block, and any where the next block is adjacent.
InPlace(inode, offset, n) ==
    \/ n >= block_size
    \/ (offset % block_size) + n <= block_size
    \/ Contiguous(inode)

----------------------------------------------------------------------------
(***************************************************************************)
(* Division.                                                               *)
(***************************************************************************)
\* A number is its quotient times the divisor and its remainder.
LEMMA DivisionIs ==
    ASSUME NEW a \in Nat, NEW b \in Nat \ {0}
    PROVE  /\ a \div b \in Nat /\ a % b \in Nat /\ a % b < b
           /\ a = (a \div b) * b + (a % b)
  <1>1. a \in Int /\ b \in Int /\ b > 0
    OBVIOUS
  <1>2. a = (a \div b) * b + (a % b)
    BY <1>1
  <1>3. a \div b \in Int /\ a \div b >= 0 /\ a % b \in 0 .. b - 1
    OBVIOUS
  <1> QED  BY <1>2, <1>3

\* A longer way has at least as many steps more.
LEMMA TimesMonotone ==
    ASSUME NEW b \in Nat \ {0}, NEW p \in Int, NEW q \in Int, p >= q + 1
    PROVE  p * b >= q * b + b /\ p * b \in Int /\ q * b \in Int
  <1>1. p * b >= (q + 1) * b
    OBVIOUS
  <1>2. (q + 1) * b = q * b + b
    OBVIOUS
  <1> QED  BY <1>1, <1>2

\* Quotient and remainder are the only ones.
LEMMA DivisionUnique ==
    ASSUME NEW b \in Nat \ {0}, NEW a \in Nat, NEW q \in Int, NEW r \in Nat, r < b, a = q * b + r
    PROVE  a \div b = q /\ a % b = r
  <1> DEFINE p == a \div b
             s == a % b
  <1>1. p \in Int /\ s \in Nat /\ s < b /\ p * b + s = q * b + r
    BY DivisionIs
  <1> HIDE DEF p, s
  <1>2. CASE p >= q + 1
    BY <1>1, <1>2, TimesMonotone
  <1>3. CASE q >= p + 1
    BY <1>1, <1>3, TimesMonotone
  <1>4. p = q /\ s = r
    BY <1>1, <1>2, <1>3
  <1> QED  BY <1>4 DEF p, s

----------------------------------------------------------------------------
(***************************************************************************)
(* The loop of read_data.  After k rounds the first bytes of the read are  *)
(* in buf; unless it is complete, the next one is the first of a block, or *)
(* no round was made.                                                      *)
(***************************************************************************)
Copied(inode, offset, n, k, s) ==
    /\ s.offset \in Nat /\ s.length \in Nat
    /\ s.offset >= offset /\ s.offset + s.length = offset + n
    /\ s.buf \in Seq(Nat) /\ Len(s.buf) = s.offset - offset
    /\ s.length # 0 => s.offset = IF k = 0 THEN offset
                                  ELSE ((offset \div block_size) + k) * block_size
    /\ InPlace(inode, offset, n) =>
           \A j \in 1 .. Len(s.buf) : s.buf[j] = ByteOf(inode, offset + j - 1)

\* A byte before the end of a file is in one of its blocks.
LEMMA BlockOfByte ==
    ASSUME NEW inode \in DOMAIN length_in_b, NEW x \in Nat, x < length_in_b[inode]
    PROVE  (x \div block_size) + 1 \in 1 .. Len(data_block_number[inode])
  <1> DEFINE q == x \div block_size
             blocks == Len(data_block_number[inode])
  <1>1. block_size \in Nat \ {0}
    BY BlockAssumption
  <1>2. q \in Nat /\ x >= q * block_size /\ q * block_size \in Nat
    BY <1>1, DivisionIs
  <1>3. blocks \in Nat /\ length_in_b[inode] \in Nat /\ length_in_b[inode] <= blocks * block_size
    BY InodeAssumption
  <1> HIDE DEF q, blocks
  <1>4. ASSUME q >= blocks PROVE FALSE
    <2>1. q * block_size >= blocks * block_size
      BY <1>1, <1>2, <1>3, <1>4
    <2>2. blocks * block_size \in Nat
      BY <1>1, <1>3
    <2> QED  BY <1>2, <1>3, <2>1, <2>2
  <1>5. q + 1 \in 1 .. blocks
    BY <1>2, <1>3, <1>4
  <1> QED  BY <1>5 DEF q, blocks

\* memcpy gives n places, one after the other.
LEMMA CopyFromType ==
    ASSUME NEW block \in Nat, NEW offset \in Nat, NEW n \in Nat
    PROVE  CopyFrom(block, offset, n) \in Seq(Nat) /\ Len(CopyFrom(block, offset, n)) = n
  <1>1. offset % block_size \in Nat /\ block * block_size \in Nat
    BY BlockAssumption, DivisionIs
  <1>2. \A k \in 1 .. n : block * block_size + (offset % block_size) + k - 1 \in Nat
    BY <1>1
  <1>3. CopyFrom(block, offset, n) \in [1 .. n -> Nat]
    BY <1>2 DEF CopyFrom
  <1> QED  BY <1>3

\* Each byte is the one at its place in the block.
LEMMA CopyFromPlace ==
    ASSUME NEW block, NEW offset, NEW n, NEW k \in 1 .. n
    PROVE  CopyFrom(block, offset, n)[k] = block * block_size + (offset % block_size) + k - 1
  BY DEF CopyFrom

\* The places from a place on are those of the bytes from a byte on: in the
\* same block, or in the next one when that is adjacent.
LEMMA PlacesAreBytes ==
    ASSUME NEW inode \in DOMAIN length_in_b, NEW offset \in Nat, NEW m \in Nat,
           offset + m < length_in_b[inode], m < block_size,
           Contiguous(inode) \/ (offset % block_size) + m < block_size
    PROVE  ByteOf(inode, offset + m) =
               data_block_number[inode][(offset \div block_size) + 1] * block_size
                   + (offset % block_size) + m
  <1> DEFINE q == offset \div block_size
             r == offset % block_size
  <1>1. block_size \in Nat \ {0}
    BY BlockAssumption
  <1>2. q \in Nat /\ r \in Nat /\ r < block_size /\ offset = q * block_size + r
        /\ q * block_size \in Nat
    BY <1>1, DivisionIs
  <1>3. length_in_b[inode] \in Nat /\ data_block_number[inode] \in Seq(Nat)
    BY InodeAssumption
  <1>4. offset < length_in_b[inode] /\ offset + m \in Nat
    BY <1>3
  <1>5. q + 1 \in 1 .. Len(data_block_number[inode])
    BY <1>4, BlockOfByte
  <1>6. data_block_number[inode][q + 1] \in Nat
    BY <1>3, <1>5
  <1>7. Contiguous(inode) \/ r + m < block_size
    OBVIOUS
  <1> HIDE DEF q, r
  <1>8. CASE r + m < block_size
    <2>1. offset + m = q * block_size + (r + m) /\ r + m \in Nat /\ q \in Int
      BY <1>2
    <2>2. (offset + m) \div block_size = q /\ (offset + m) % block_size = r + m
      BY <1>1, <1>2, <1>4, <1>8, <2>1, DivisionUnique
    <2>3. ByteOf(inode, offset + m) = data_block_number[inode][q + 1] * block_size + (r + m)
      BY <2>2 DEF ByteOf
    <2>4. data_block_number[inode][q + 1] * block_size \in Nat
      BY <1>1, <1>6
    <2>5. ByteOf(inode, offset + m) = data_block_number[inode][q + 1] * block_size + r + m
      BY <1>2, <2>3, <2>4
    <2> QED  BY <2>5 DEF q, r
  <1>9. CASE r + m >= block_size
    <2>1. (q + 1) * block_size = q * block_size + block_size
      BY <1>1, <1>2
    <2>2. /\ offset + m = (q + 1) * block_size + (r + m - block_size)
          /\ r + m - block_size \in Nat /\ r + m - block_size < block_size
      BY <1>1, <1>2, <1>9, <2>1
    <2>3. /\ (offset + m) \div block_size = q + 1
          /\ (offset + m) % block_size = r + m - block_size
      <3>1. q + 1 \in Int
        BY <1>2
      <3> QED  BY <1>1, <1>4, <2>2, <3>1, DivisionUnique
    <2>4. q + 2 \in 1 .. Len(data_block_number[inode])
      <3>1. ((offset + m) \div block_size) + 1 \in 1 .. Len(data_block_number[inode])
        BY <1>4, BlockOfByte
      <3> QED  BY <1>2, <2>3, <3>1
    <2>5. data_block_number[inode][q + 2] = data_block_number[inode][q + 1] + 1
      <3>1. Contiguous(inode)
        BY <1>1, <1>2, <1>7, <1>9
      <3>2. q + 1 \in 1 .. Len(data_block_number[inode]) - 1 /\ (q + 1) + 1 = q + 2
        <4>1. q \in Nat /\ q + 2 \in 1 .. Len(data_block_number[inode])
              /\ Len(data_block_number[inode]) \in Nat
          BY <1>2, <1>3, <2>4
        <4> QED  BY ONLY <4>1
      <3> QED  BY <3>1, <3>2 DEF Contiguous
    <2>6. ByteOf(inode, offset + m) =
              (data_block_number[inode][q + 1] + 1) * block_size + (r + m - block_size)
      <3>1. (q + 1) + 1 = q + 2
        BY <1>2
      <3> QED  BY <2>3, <2>5, <3>1 DEF ByteOf
    <2>7. (data_block_number[inode][q + 1] + 1) * block_size =
              data_block_number[inode][q + 1] * block_size + block_size
          /\ data_block_number[inode][q + 1] * block_size \in Nat
      BY <1>1, <1>6
    <2>8. ByteOf(inode, offset + m) = data_block_number[inode][q + 1] * block_size + r + m
      BY <1>1, <1>2, <2>6, <2>7
    <2> QED  BY <2>8 DEF q, r
  <1> QED  BY <1>1, <1>2, <1>8, <1>9

\* A round of the loop.
LEMMA RoundCopies ==
    ASSUME NEW inode \in DOMAIN length_in_b, NEW offset \in Nat, NEW n \in Nat,
           offset + n <= length_in_b[inode], NEW k \in Nat,
           NEW s, Copied(inode, offset, n, k, s)
    PROVE  Copied(inode, offset, n, k + 1, CopyBlock(inode, (offset \div block_size) + k, s))
  <1> DEFINE i == (offset \div block_size) + k
             c == byte_to_copy(s.offset, s.length)
             t == CopyBlock(inode, i, s)
             r == s.offset % block_size
             block == data_block_number[inode][i + 1]
             copied == CopyFrom(block, s.offset, c)
  <1>1. block_size \in Nat \ {0} /\ length_in_b[inode] \in Nat
    BY BlockAssumption, InodeAssumption
  <1>2. /\ s.offset \in Nat /\ s.length \in Nat
        /\ s.offset >= offset /\ s.offset + s.length = offset + n
        /\ s.buf \in Seq(Nat) /\ Len(s.buf) = s.offset - offset
    BY DEF Copied
  <1>3. r \in Nat /\ r < block_size
    BY <1>1, <1>2, DivisionIs
  <1>4. s.offset = (s.offset \div block_size) * block_size + r
    BY <1>1, <1>2, DivisionIs
  <1>5. i \in Nat /\ offset \div block_size \in Nat
    BY <1>1, DivisionIs
  <1>6. i + 1 \in Nat
    BY <1>5
  <1>7. c = IF s.length >= block_size THEN block_size - r ELSE s.length
    BY DEF byte_to_copy
  <1>8. /\ t.offset = s.offset + c /\ t.length = s.length - c
        /\ t.buf = IF c = 0 THEN s.buf ELSE s.buf \o copied
    BY DEF CopyBlock
  <1>9. s.length # 0 => s.offset \div block_size = i /\ (k # 0 => r = 0)
    <2> SUFFICES ASSUME s.length # 0
                 PROVE  s.offset \div block_size = i /\ (k # 0 => r = 0)
      OBVIOUS
    <2>1. CASE k = 0
      BY <1>5, <2>1 DEF Copied
    <2>2. CASE k # 0
      <3>1. s.offset = i * block_size
        BY <2>2 DEF Copied
      <3>2. s.offset = i * block_size + 0 /\ i \in Int /\ 0 < block_size
        BY <1>1, <1>2, <1>5, <3>1
      <3> HIDE DEF i
      <3> QED  BY <1>1, <1>2, <3>2, DivisionUnique
    <2> QED  BY <2>1, <2>2
  <1> HIDE DEF c, t, r, i, block, copied
  <1>10. c \in Nat /\ c <= s.length /\ c <= block_size /\ (c = 0 <=> s.length = 0)
    <2>1. CASE s.length >= block_size
      BY <1>1, <1>2, <1>3, <1>7, <2>1
    <2>2. CASE s.length < block_size
      BY <1>1, <1>2, <1>7, <2>2
    <2> QED  BY <1>1, <1>2, <2>1, <2>2
  <1>11. t.offset \in Nat /\ t.length \in Nat /\ t.offset >= offset /\ t.offset + t.length = offset + n
    <2>1. /\ s.offset \in Nat /\ s.length \in Nat /\ c \in Nat /\ c <= s.length
          /\ s.offset >= offset /\ s.offset + s.length = offset + n
          /\ t.offset = s.offset + c /\ t.length = s.length - c
      BY <1>2, <1>8, <1>10
    <2> QED  BY ONLY <2>1, offset \in Nat, n \in Nat
  <1>12. t.length # 0 => t.offset = (i + 1) * block_size
    <2> SUFFICES ASSUME t.length # 0 PROVE t.offset = (i + 1) * block_size
      OBVIOUS
    <2>1. s.length >= block_size /\ s.length # 0
      BY <1>1, <1>2, <1>7, <1>8
    <2>2. s.offset = i * block_size + r
      BY <1>4, <1>9, <2>1
    <2>3. (i + 1) * block_size = i * block_size + block_size /\ i * block_size \in Nat
      BY <1>1, <1>5
    <2> QED  BY <1>1, <1>3, <1>7, <1>8, <2>1, <2>2, <2>3
  <1>13. c # 0 => block \in Nat
    <2> SUFFICES ASSUME c # 0 PROVE block \in Nat
      OBVIOUS
    <2>1. s.offset < length_in_b[inode] /\ s.offset \div block_size = i
      BY <1>1, <1>2, <1>10, <1>9
    <2>2. i + 1 \in 1 .. Len(data_block_number[inode])
      BY <1>2, <2>1, BlockOfByte
    <2> QED  BY <2>2, InodeAssumption DEF block
  <1>14. c # 0 => \A h \in 1 .. c : copied[h] = block * block_size + r + h - 1
    <2> SUFFICES ASSUME NEW h \in 1 .. c PROVE copied[h] = block * block_size + r + h - 1
      OBVIOUS
    <2> QED  BY CopyFromPlace DEF copied, r
  <1>15. c # 0 => copied \in Seq(Nat) /\ Len(copied) = c
    <2> SUFFICES ASSUME c # 0 PROVE copied \in Seq(Nat) /\ Len(copied) = c
      OBVIOUS
    <2>1. block \in Nat /\ s.offset \in Nat /\ c \in Nat
      BY <1>2, <1>10, <1>13
    <2> QED  BY ONLY <2>1, CopyFromType DEF copied
  <1>16. Len(s.buf) \in Nat
    BY <1>2
  <1>17. t.buf \in Seq(Nat) /\ Len(t.buf) = Len(s.buf) + c
    <2>1. CASE c = 0
      BY <1>2, <1>8, <2>1
    <2>2. CASE c # 0
      <3>1. t.buf = s.buf \o copied
        BY <1>8, <2>2
      <3>2. s.buf \in Seq(Nat) /\ copied \in Seq(Nat) /\ Len(copied) = c
        BY <1>2, <1>15, <2>2
      <3> QED  BY ONLY <3>1, <3>2, ConcatProperties
    <2> QED  BY <2>1, <2>2
  <1>18. Len(t.buf) = t.offset - offset
    BY <1>2, <1>10, <1>8, <1>17
  <1>19. ASSUME InPlace(inode, offset, n), NEW j \in 1 .. Len(t.buf)
         PROVE  t.buf[j] = ByteOf(inode, offset + j - 1)
    <2>0. Len(s.buf) \in Nat /\ j \in Nat /\ j >= 1 /\ j <= Len(s.buf) + c
      BY <1>16, <1>10, <1>17
    <2>1. \A h \in 1 .. Len(s.buf) : s.buf[h] = ByteOf(inode, offset + h - 1)
      BY <1>19 DEF Copied
    <2>2. CASE j <= Len(s.buf)
      <3>1. t.buf[j] = s.buf[j]
        <4>1. CASE c = 0
          BY <1>8, <4>1
        <4>2. CASE c # 0
          BY <1>2, <1>8, <1>15, <2>0, <2>2, <4>2
        <4> QED  BY <4>1, <4>2
      <3>2. j \in 1 .. Len(s.buf)
        BY <2>0, <2>2
      <3> QED  BY <2>1, <3>1, <3>2
    <2>3. CASE j > Len(s.buf)
      <3> DEFINE m == j - Len(s.buf) - 1
      <3>1. c # 0 /\ m \in Nat /\ m < c /\ m + 1 \in 1 .. c /\ m + 1 = j - Len(s.buf)
        BY <1>10, <2>0, <2>3
      <3>2. t.buf[j] = copied[j - Len(s.buf)]
        <4>1. t.buf = s.buf \o copied /\ j \in 1 .. Len(s.buf) + Len(copied) /\ ~(j <= Len(s.buf))
          <5>1. t.buf = s.buf \o copied /\ Len(copied) = c
            BY <1>8, <1>15, <3>1
          <5> QED  BY <1>10, <2>0, <2>3, <5>1
        <4> QED  BY <1>2, <1>15, <3>1, <4>1, ConcatProperties
      <3>3. offset + j - 1 = s.offset + m
        BY <1>2, <2>0
      <3> HIDE DEF m
      <3>4. t.buf[j] = block * block_size + r + (m + 1) - 1
        BY ONLY <1>14, <3>1, <3>2
      <3>5. s.offset + m < length_in_b[inode] /\ s.offset \div block_size = i
        <4>1. s.length # 0
          BY <1>10, <3>1
        <4>2. /\ s.offset \in Nat /\ s.length \in Nat /\ c \in Nat /\ c <= s.length
              /\ s.offset + s.length = offset + n /\ m \in Nat /\ m < c /\ length_in_b[inode] \in Nat
          BY <1>1, <1>2, <1>10, <3>1
        <4>3. s.offset + m < length_in_b[inode]
          BY ONLY <4>2, offset \in Nat, n \in Nat, offset + n <= length_in_b[inode]
        <4> QED  BY ONLY <1>9, <4>1, <4>3
      <3>6. m < block_size
        BY <1>1, <1>10, <3>1
      <3>7. Contiguous(inode) \/ r + m < block_size
        <4>1. CASE s.length >= block_size
          BY <1>1, <1>3, <1>7, <3>1, <4>1
        <4>2. CASE s.length < block_size /\ k # 0
          BY <1>1, <1>3, <1>10, <1>9, <3>1, <3>6, <4>2
        <4>3. CASE s.length < block_size /\ k = 0
          <5>1. s.offset = offset /\ s.length = n
            BY <1>2, <1>10, <3>1, <4>3 DEF Copied
          <5>2. Contiguous(inode) \/ r + n <= block_size
            BY <1>1, <1>2, <1>19, <4>3, <5>1 DEF InPlace, r
          <5> QED  BY <1>1, <1>2, <1>3, <1>10, <3>1, <5>1, <5>2
        <4> QED  BY <1>1, <1>2, <4>1, <4>2, <4>3
      <3>8. ByteOf(inode, s.offset + m) = block * block_size + r + m
        <4>1. s.offset \in Nat /\ m \in Nat
          BY <1>2, <3>1
        <4>2. ByteOf(inode, s.offset + m) =
                  data_block_number[inode][(s.offset \div block_size) + 1] * block_size + r + m
          BY ONLY <3>5, <3>6, <3>7, <4>1, inode \in DOMAIN length_in_b, PlacesAreBytes DEF r
        <4> QED  BY <3>5, <4>2 DEF block
      <3>9. block * block_size \in Nat
        BY <1>1, <1>13, <3>1
      <3> HIDE DEF block
      <3>10. block * block_size + r + (m + 1) - 1 = block * block_size + r + m
        BY <1>3, <3>1, <3>9
      <3> QED  BY <3>4, <3>3, <3>8, <3>10
    <2> QED  BY <2>0, <2>2, <2>3
  <1>20. (offset \div block_size) + (k + 1) = i + 1
    BY <1>5 DEF i
  <1>21. Copied(inode, offset, n, k + 1, t)
    BY <1>11, <1>12, <1>17, <1>18, <1>19, <1>20 DEF Copied
  <1> QED  BY <1>21 DEF t, i

\* The function by which read_data is defined exists: one for fewer rounds can
\* be continued by a round.
LEMMA RoundsDefined ==
    ASSUME NEW inode, NEW first, NEW start, NEW rounds \in Nat
    PROVE  LET F(f) == [k \in 0 .. rounds |->
                           IF k = 0 THEN start ELSE CopyBlock(inode, first + k - 1, f[k - 1])]
               after == CHOOSE f : f = F(f)
           IN  after = F(after)
  <1> DEFINE Is(f, n) == f = [k \in 0 .. n |->
                              IF k = 0 THEN start ELSE CopyBlock(inode, first + k - 1, f[k - 1])]
             S == {n \in Nat : \E f : Is(f, n)}
  <1>1. 0 \in S
    <2>1. Is([k \in 0 .. 0 |-> start], 0)
      OBVIOUS
    <2> QED  BY <2>1
  <1>2. ASSUME NEW n \in Nat, n \in S PROVE n + 1 \in S
    <2>1. PICK f : Is(f, n)
      BY <1>2
    <2> DEFINE g == [k \in 0 .. n + 1 |->
                        IF k = n + 1 THEN CopyBlock(inode, first + (n + 1) - 1, f[n]) ELSE f[k]]
    <2>2. \A k \in 0 .. n :
              g[k] = f[k] /\ f[k] = IF k = 0 THEN start ELSE CopyBlock(inode, first + k - 1, f[k - 1])
      BY <2>1
    <2>3. ASSUME NEW k \in 0 .. n + 1
          PROVE  g[k] = IF k = 0 THEN start ELSE CopyBlock(inode, first + k - 1, g[k - 1])
      <3>1. CASE k = n + 1
        BY <2>2, <3>1
      <3>2. CASE k # n + 1
        BY <2>2, <3>2
      <3> QED  BY <3>1, <3>2
    <2>4. g = [k \in 0 .. n + 1 |-> g[k]]
      OBVIOUS
    <2> HIDE DEF g
    <2>5. Is(g, n + 1)
      BY <2>3, <2>4
    <2> QED  BY <2>5
  <1>3. Nat \subseteq S
    <2> HIDE DEF S
    <2> QED  BY <1>1, <1>2, NatSetInduction
  <1>4. \E f : Is(f, rounds)
    BY <1>3
  <1> QED  BY <1>4

\* What read_data returns, by the loop: as many bytes as can be read, and the
\* bytes of the file.
LEMMA ReadCopies ==
    ASSUME NEW inode \in DOMAIN length_in_b, NEW offset \in Nat, NEW length \in Nat,
           offset < length_in_b[inode], NEW n, n = Shrunk(inode, offset, length)
    PROVE  /\ read_data(inode, offset, length) \in Seq(Nat)
           /\ Len(read_data(inode, offset, length)) = n
           /\ InPlace(inode, offset, n) =>
                  \A j \in 1 .. n : read_data(inode, offset, length)[j] = ByteOf(inode, offset + j - 1)
  <1> DEFINE first == offset \div block_size
             last == LastBlock(offset, n)
             rounds == last - first + 1
             start == [offset |-> offset, length |-> n, buf |-> <<>>]
             F(f) == [k \in 0 .. rounds |->
                         IF k = 0 THEN start ELSE CopyBlock(inode, first + k - 1, f[k - 1])]
             after == CHOOSE f : f = F(f)
  <1>1. length_in_b[inode] \in Nat /\ block_size \in Nat \ {0}
    BY InodeAssumption, BlockAssumption
  <1>2. n \in Nat /\ offset + n <= length_in_b[inode]
    BY <1>1 DEF Shrunk
  <1>3. first \in Nat
    BY <1>1, DivisionIs
  <1>4. last \in Nat /\ offset + n < (last + 1) * block_size
    <2>1. offset + n \in Nat
      BY <1>2
    <2> DEFINE q == (offset + n) \div block_size
               r == (offset + n) % block_size
    <2>2. q \in Nat /\ r \in Nat /\ r < block_size /\ offset + n = q * block_size + r
      BY <1>1, <2>1, DivisionIs
    <2> HIDE DEF q, r
    <2>3. (q + 1) * block_size = q * block_size + block_size /\ q * block_size \in Nat
      BY <1>1, <2>2
    <2>4. offset + n < (q + 1) * block_size
      BY <1>1, <2>1, <2>2, <2>3
    <2> QED  BY <2>2, <2>4 DEF q, LastBlock
  <1>5. first <= last
    <2> DEFINE r == offset % block_size
    <2>1. r \in Nat /\ offset = first * block_size + r
      BY <1>1, DivisionIs
    <2> HIDE DEF first, last, r
    <2>2. ASSUME first >= last + 1 PROVE FALSE
      <3>1. first * block_size >= (last + 1) * block_size
        BY <1>1, <1>3, <1>4, <2>2
      <3>2. first * block_size \in Nat /\ (last + 1) * block_size \in Nat
        BY <1>1, <1>3, <1>4
      <3> QED  BY <1>2, <1>4, <2>1, <3>1, <3>2
    <2> QED  BY <1>3, <1>4, <2>2
  <1>6. rounds \in Nat /\ first + rounds = last + 1 /\ rounds # 0
    BY <1>3, <1>4, <1>5
  <1>7. read_data(inode, offset, length) = after[rounds].buf
    <2>1. ~(offset >= length_in_b[inode])
      BY <1>1
    <2> QED  BY ONLY <2>1, n = Shrunk(inode, offset, length), Zenon DEF read_data
  <1>8. after = F(after)
    <2> HIDE DEF first, start, rounds
    <2> QED  BY ONLY <1>6, RoundsDefined
  <1> HIDE DEF after, last
  <1>9. \A k \in 0 .. rounds :
            after[k] = IF k = 0 THEN start ELSE CopyBlock(inode, first + k - 1, after[k - 1])
    <2> HIDE DEF rounds, start, first
    <2> QED  BY <1>8
  <1> HIDE DEF F, rounds
  <1> DEFINE S == {k \in Nat : k <= rounds => Copied(inode, offset, n, k, after[k])}
  <1>10. 0 \in S
    <2>1. after[0] = start
      BY <1>6, <1>9
    <2>2. Copied(inode, offset, n, 0, start)
      BY <1>2 DEF Copied
    <2> QED  BY <2>1, <2>2
  <1>11. ASSUME NEW k \in Nat, k \in S PROVE k + 1 \in S
    <2> SUFFICES ASSUME k + 1 <= rounds PROVE Copied(inode, offset, n, k + 1, after[k + 1])
      OBVIOUS
    <2>1. Copied(inode, offset, n, k, after[k])
      BY <1>6, <1>11
    <2>2. after[k + 1] = CopyBlock(inode, first + k, after[k])
      <3>1. k + 1 \in 0 .. rounds /\ k + 1 # 0 /\ (k + 1) - 1 = k /\ first + (k + 1) - 1 = first + k
        BY <1>3, <1>6
      <3> HIDE DEF first, start
      <3> QED  BY <1>9, <3>1
    <2>3. Copied(inode, offset, n, k + 1, CopyBlock(inode, first + k, after[k]))
      BY <1>2, <2>1, RoundCopies
    <2> QED  BY <2>2, <2>3
  <1>12. Nat \subseteq S
    <2> HIDE DEF S
    <2> QED  BY <1>10, <1>11, NatSetInduction
  <1> DEFINE s == after[rounds]
  <1>13. Copied(inode, offset, n, rounds, s)
    BY <1>6, <1>12
  <1> HIDE DEF s, first
  <1>14. s.offset \in Nat /\ s.length \in Nat /\ s.offset + s.length = offset + n
         /\ s.buf \in Seq(Nat) /\ Len(s.buf) = s.offset - offset
    BY <1>13 DEF Copied
  <1>15. ASSUME s.length # 0 PROVE FALSE
    <2>1. s.offset = (first + rounds) * block_size
      BY <1>6, <1>13, <1>15 DEF Copied, first
    <2>2. s.offset = (last + 1) * block_size
      BY <1>6, <2>1
    <2>3. s.offset <= offset + n
      BY <1>2, <1>14
    <2> QED  BY <1>2, <1>4, <1>14, <2>2, <2>3
  <1>16. Len(s.buf) = n
    BY <1>2, <1>14, <1>15
  <1>17. InPlace(inode, offset, n) => \A j \in 1 .. n : s.buf[j] = ByteOf(inode, offset + j - 1)
    BY <1>13, <1>16 DEF Copied
  <1>18. read_data(inode, offset, length) = s.buf
    BY <1>7 DEF s
  <1> QED  BY <1>14, <1>16, <1>17, <1>18

\* A read delivers as many bytes as are asked for and left, and never goes past
\* the end of the file.
THEOREM ReadLength ==
    ASSUME NEW inode \in DOMAIN length_in_b, NEW offset \in Nat, NEW length \in Nat
    PROVE  /\ read_data(inode, offset, length) \in Seq(Nat)
           /\ Len(read_data(inode, offset, length)) = ReadSize(inode, offset, length)
           /\ ReadSize(inode, offset, length) \in Nat
           /\ offset <= length_in_b[inode] =>
                  offset + ReadSize(inode, offset, length) <= length_in_b[inode]
  <1>1. length_in_b[inode] \in Nat
    BY InodeAssumption
  <1>2. CASE offset >= length_in_b[inode]
    <2>1. read_data(inode, offset, length) = <<>> /\ ReadSize(inode, offset, length) = 0
      BY <1>2 DEF read_data, ReadSize
    <2> QED  BY <1>1, <2>1
  <1>3. CASE offset < length_in_b[inode]
    <2>1. ReadSize(inode, offset, length) = Shrunk(inode, offset, length)
      BY <1>1, <1>3 DEF ReadSize
    <2>2. Shrunk(inode, offset, length) \in Nat
          /\ offset + Shrunk(inode, offset, length) <= length_in_b[inode]
      BY <1>1, <1>3 DEF Shrunk
    <2> QED  BY <1>3, <2>1, <2>2, ReadCopies
  <1> QED  BY <1>1, <1>2, <1>3

\* The loop over the blocks of read_data delivers the bytes of the file from
\* the offset on, for a read of any length at any offset of a contiguous file,
\* and for any file when the read starts with a block, as the loading of a
\* program does.
THEOREM ReadsTheFile ==
    ASSUME NEW inode \in DOMAIN length_in_b, NEW offset \in Nat, NEW length \in Nat,
           Contiguous(inode) \/ offset % block_size = 0
    PROVE  read_data(inode, offset, length) =
               [k \in 1 .. ReadSize(inode, offset, length) |-> ByteOf(inode, offset + k - 1)]
  <1> DEFINE n == ReadSize(inode, offset, length)
             bytes == read_data(inode, offset, length)
  <1>1. length_in_b[inode] \in Nat /\ block_size \in Nat \ {0}
    BY InodeAssumption, BlockAssumption
  <1>2. bytes \in Seq(Nat) /\ Len(bytes) = n /\ n \in Nat
    BY ReadLength
  <1>3. \A j \in 1 .. n : bytes[j] = ByteOf(inode, offset + j - 1)
    <2>1. CASE offset >= length_in_b[inode]
      <3>1. n = 0
        BY <2>1 DEF ReadSize
      <3> HIDE DEF n, bytes
      <3> QED  BY <3>1
    <2>2. CASE offset < length_in_b[inode]
      <3>1. n = Shrunk(inode, offset, length)
        BY <1>1, <2>2 DEF ReadSize
      <3>2. InPlace(inode, offset, n)
        <4> HIDE DEF n
        <4> QED  BY <1>1, <1>2 DEF InPlace
      <3> HIDE DEF n
      <3> QED  BY <2>2, <3>1, <3>2, ReadCopies
    <2> QED  BY <1>1, <2>1, <2>2
  <1>4. bytes = [j \in 1 .. n |-> bytes[j]]
    <2> HIDE DEF bytes, n
    <2> QED  BY <1>2
  <1> HIDE DEF bytes, n
  <1>5. bytes = [j \in 1 .. n |-> ByteOf(inode, offset + j - 1)]
    BY <1>3, <1>4
  <1> QED  BY <1>5 DEF bytes, n
============================================================================
