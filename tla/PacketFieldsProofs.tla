-------------------------- MODULE PacketFieldsProofs --------------------------
(***************************************************************************)
(* Fields cross the network as they were meant, on hosts of either byte    *)
(* order, for bytes, words and packets of every size.                      *)
(***************************************************************************)
EXTENDS PacketFields, SequenceTheorems, WellFoundedInduction, TLAPS

(* Division by a number, and by a product.                                 *)
LEMMA Divided ==
  ASSUME NEW v \in Int, NEW c \in Nat, c > 0
  PROVE  /\ v \div c \in Int /\ v % c \in Nat /\ v % c < c
         /\ v = (v \div c) * c + (v % c)
         /\ v \in Nat => v \div c \in Nat
BY SMT

LEMMA Quotient ==
  ASSUME NEW c \in Nat, NEW a \in Int, NEW r \in Nat, r < c
  PROVE  (a * c + r) \div c = a /\ (a * c + r) % c = r
<1> DEFINE v == a * c + r
<1>1. v \in Int /\ c > 0
  BY SMT
<1>2. PICK q \in Int, s \in Nat : q = v \div c /\ s = v % c /\ s < c /\ v = q * c + s
  BY <1>1, Divided
<1>3. a * c + r = q * c + s
  BY <1>2
<1>4. (a - q) * c = s - r
  BY SMT, <1>3
<1>5. a = q
  <2>1. SUFFICES ASSUME a # q
                 PROVE  FALSE
    OBVIOUS
  <2>2. CASE a - q >= 1
    <3>1. (a - q) * c >= c
      BY SMT, <2>2, <1>1
    <3>2. QED
      BY SMT, <1>2, <1>4, <3>1
  <2>3. CASE q - a >= 1
    <3>1. (q - a) * c >= c /\ (q - a) * c = r - s
      BY SMT, <2>3, <1>1, <1>4
    <3>2. QED
      BY SMT, <1>2, <3>1
  <2>4. QED
    BY SMT, <2>1, <2>2, <2>3
<1>6. r = s
  BY SMT, <1>3, <1>5
<1>7. QED
  BY <1>2, <1>5, <1>6

LEMMA DividedTwice ==
  ASSUME NEW v \in Nat, NEW w \in Nat, w > 0, NEW c \in Nat, c > 0
  PROVE  /\ (v \div w) \div c = v \div (c * w)
         /\ v \div w = (v \div (c * w)) * c + ((v \div w) % c)
<1>1. PICK q \in Nat, r \in Nat : q = v \div w /\ r = v % w /\ r < w /\ v = q * w + r
  BY Divided
<1>2. PICK a \in Nat, d \in Nat : a = q \div c /\ d = q % c /\ d < c /\ q = a * c + d
  BY Divided
<1>3. v = a * (c * w) + (d * w + r)
  <2>1. q * w = a * (c * w) + d * w
    BY SMT, <1>2
  <2>2. QED
    BY SMT, <1>1, <2>1
<1>4. d * w + r < c * w /\ d * w + r \in Nat /\ c * w \in Nat
  <2>1. (c - d) >= 1
    BY SMT, <1>2
  <2>2. (c - d) * w >= w
    BY SMT, <2>1
  <2>3. d * w + w <= c * w /\ d * w \in Nat /\ c * w \in Nat
    BY SMT, <2>2
  <2>4. QED
    BY SMT, <1>1, <2>3
<1>5. v \div (c * w) = a
  BY <1>3, <1>4, Quotient
<1>6. QED
  BY <1>1, <1>2, <1>5
-----------------------------------------------------------------------------
LEMMA PowerStep ==
  /\ Power[0] = 1
  /\ \A n \in 1 .. 8 : Power[n] = Byte * Power[n - 1]
  /\ \A n \in 0 .. 8 : Power[n] \in Nat /\ Power[n] > 0
<1>1. Byte \in Nat /\ Byte > 1
  BY FieldsAssumption
<1>2. \A p \in Nat : p > 0 => Byte * p \in Nat /\ Byte * p > 0
  BY SMT, <1>1
<1>3. PICK p1 \in Nat : p1 = Byte * 1 /\ p1 > 0
  BY SMT, <1>1
<1>4. PICK p2 \in Nat : p2 = Byte * p1 /\ p2 > 0
  BY <1>2, <1>3
<1>5. PICK p3 \in Nat : p3 = Byte * p2 /\ p3 > 0
  BY <1>2, <1>4
<1>6. PICK p4 \in Nat : p4 = Byte * p3 /\ p4 > 0
  BY <1>2, <1>5
<1>7. PICK p5 \in Nat : p5 = Byte * p4 /\ p5 > 0
  BY <1>2, <1>6
<1>8. PICK p6 \in Nat : p6 = Byte * p5 /\ p6 > 0
  BY <1>2, <1>7
<1>9. PICK p7 \in Nat : p7 = Byte * p6 /\ p7 > 0
  BY <1>2, <1>8
<1>10. PICK p8 \in Nat : p8 = Byte * p7 /\ p8 > 0
  BY <1>2, <1>9
<1> DEFINE g == [n \in 0 .. 8 |->
                  IF n = 0 THEN 1 ELSE IF n = 1 THEN p1 ELSE IF n = 2 THEN p2
                  ELSE IF n = 3 THEN p3 ELSE IF n = 4 THEN p4 ELSE IF n = 5 THEN p5
                  ELSE IF n = 6 THEN p6 ELSE IF n = 7 THEN p7 ELSE p8]
<1>11. /\ g[0] = 1 /\ g[1] = p1 /\ g[2] = p2 /\ g[3] = p3 /\ g[4] = p4
       /\ g[5] = p5 /\ g[6] = p6 /\ g[7] = p7 /\ g[8] = p8
  BY SMT
<1>12. \A n \in 0 .. 8 : n = 0 \/ n = 1 \/ n = 2 \/ n = 3 \/ n = 4 \/ n = 5 \/ n = 6
                       \/ n = 7 \/ n = 8
  BY SMT
<1>13. DOMAIN g = 0 .. 8 /\ g = [n \in 0 .. 8 |-> g[n]]
  OBVIOUS
<1> HIDE DEF g
<1>14. ASSUME NEW n \in 0 .. 8
       PROVE  g[n] = IF n = 0 THEN 1 ELSE Byte * g[n - 1]
  <2>1. /\ 1 - 1 = 0 /\ 2 - 1 = 1 /\ 3 - 1 = 2 /\ 4 - 1 = 3 /\ 5 - 1 = 4
        /\ 6 - 1 = 5 /\ 7 - 1 = 6 /\ 8 - 1 = 7
    BY SMT
  <2>2. QED
    BY SMT, <1>3, <1>4, <1>5, <1>6, <1>7, <1>8, <1>9, <1>10, <1>11, <1>12, <2>1
<1>15. g = [n \in 0 .. 8 |-> IF n = 0 THEN 1 ELSE Byte * g[n - 1]]
  BY <1>13, <1>14
<1>16. Power = [n \in 0 .. 8 |-> IF n = 0 THEN 1 ELSE Byte * Power[n - 1]]
  BY <1>15 DEF Power, Bytes
<1>17. Power[0] = 1 /\ \A n \in 1 .. 8 : Power[n] = Byte * Power[n - 1]
  BY SMT, <1>16
<1>18. /\ Power[1] = p1 /\ Power[2] = p2 /\ Power[3] = p3 /\ Power[4] = p4
       /\ Power[5] = p5 /\ Power[6] = p6 /\ Power[7] = p7 /\ Power[8] = p8
  BY SMT, <1>3, <1>4, <1>5, <1>6, <1>7, <1>8, <1>9, <1>10, <1>17
<1>19. \A n \in 0 .. 8 : Power[n] \in Nat /\ Power[n] > 0
  BY SMT, <1>3, <1>4, <1>5, <1>6, <1>7, <1>8, <1>9, <1>10, <1>12, <1>17, <1>18
<1>20. QED
  BY <1>17, <1>19

(* The number of a word's bytes is the number they were made from.         *)
LEMMA Least ==
  ASSUME NEW T \in SUBSET Nat, T # {}
  PROVE  \E n \in T : \A m \in T : ~(m < n)
<1>1. PICK n \in T : \A m \in T : ~(<<m, n>> \in OpToRel(<, Nat))
  BY WFMin, NatLessThanWellFounded, Zenon
<1>2. \A m \in T : m < n => <<m, n>> \in OpToRel(<, Nat)
  BY Zenon DEF OpToRel
<1>3. QED
  BY Zenon, <1>1, <1>2

Digits == Seq(0 .. Byte - 1)

LEMMA BigEndianBytes ==
  ASSUME NEW v \in Nat, NEW n \in 0 .. 8
  PROVE  /\ BigEndian(v, n) \in Digits
         /\ Len(BigEndian(v, n)) = n
         /\ \A k \in 1 .. n : BigEndian(v, n)[k] = (v \div Power[n - k]) % Byte
<1>1. ASSUME NEW k \in 1 .. n
      PROVE  (v \div Power[n - k]) % Byte \in 0 .. Byte - 1
  <2>1. n - k \in 0 .. 8
    BY SMT
  <2>2. Power[n - k] \in Nat /\ Power[n - k] > 0
    BY <2>1, PowerStep
  <2>3. PICK q \in Nat : q = v \div Power[n - k]
    BY <2>2, Divided
  <2>4. Byte \in Nat /\ Byte > 0
    BY SMT, FieldsAssumption
  <2>5. q % Byte \in Nat /\ q % Byte < Byte
    BY <2>4, Divided
  <2>6. QED
    BY SMT, <2>3, <2>4, <2>5
<1>2. BigEndian(v, n) \in [1 .. n -> 0 .. Byte - 1]
  BY <1>1 DEF BigEndian
<1>3. n \in Nat
  BY SMT
<1>4. QED
  BY SMT, <1>2, <1>3 DEF Digits, BigEndian

LEMMA ValueOfBigEndian ==
  ASSUME NEW n \in 0 .. 8, NEW v \in 0 .. Power[n] - 1
  PROVE  ValueOf(BigEndian(v, n)) = v
<1>1. /\ Power[0] = 1 /\ Power[n] \in Nat
      /\ \A k \in 1 .. 8 : Power[k] = Byte * Power[k - 1]
      /\ \A k \in 0 .. 8 : Power[k] \in Nat /\ Power[k] > 0
  BY PowerStep
<1>2. v \in Nat /\ v < Power[n] /\ n \in Nat
  BY SMT, <1>1
<1>3. PICK w : w = BigEndian(v, n)
  OBVIOUS
<1>4. Len(w) = n /\ \A k \in 1 .. n : w[k] = (v \div Power[n - k]) % Byte
  BY <1>2, <1>3, BigEndianBytes
<1> DEFINE Step(f) == [k \in 0 .. n |-> IF k = 0 THEN 0 ELSE f[k - 1] * Byte + w[k]]
           g == [k \in 0 .. n |-> v \div Power[n - k]]
<1>5. g = Step(g)
  <2>1. ASSUME NEW k \in 0 .. n
        PROVE  v \div Power[n - k] = IF k = 0 THEN 0 ELSE g[k - 1] * Byte + w[k]
    <3>1. CASE k = 0
      <4>1. n - k = n
        BY SMT, <3>1
      <4>2. v = 0 * Power[n] + v
        BY SMT, <1>1, <1>2
      <4>3. v \div Power[n] = 0
        BY <1>1, <1>2, <4>2, Quotient
      <4>4. QED
        BY <3>1, <4>1, <4>3
    <3>2. CASE k # 0
      <4>1. /\ k - 1 \in 0 .. n /\ n - (k - 1) = (n - k) + 1 /\ k \in 1 .. n
            /\ (n - k) + 1 \in 1 .. 8 /\ ((n - k) + 1) - 1 = n - k /\ n - k \in 0 .. 8
        BY SMT, <3>2
      <4>2. PICK p \in Nat : p = Power[n - k] /\ p > 0
        BY <1>1, <4>1
      <4>3. Power[n - (k - 1)] = Byte * p
        BY <1>1, <4>1, <4>2
      <4>4. Byte \in Nat /\ Byte > 0
        BY SMT, FieldsAssumption
      <4>5. v \div p = (v \div (Byte * p)) * Byte + ((v \div p) % Byte)
        BY <1>2, <4>2, <4>4, DividedTwice
      <4>6. g[k - 1] = v \div (Byte * p) /\ w[k] = (v \div p) % Byte
        BY <1>4, <4>1, <4>2, <4>3
      <4>7. QED
        BY <3>2, <4>2, <4>5, <4>6
    <3>3. QED
      BY <3>1, <3>2
  <2>2. QED
    BY <2>1
<1>6. g[n] = v
  <2>1. n \in 0 .. n /\ n - n = 0
    BY SMT, <1>2
  <2>2. v \div 1 = v
    BY SMT, <1>2
  <2>3. QED
    BY <1>1, <2>1, <2>2
<1> HIDE DEF g
<1>7. PICK f : f = Step(f) /\ ValueOf(w) = f[n]
  BY <1>4, <1>5 DEF ValueOf
<1> DEFINE T == {k \in 0 .. n : f[k] # g[k]}
<1>8. T = {}
  <2>1. SUFFICES ASSUME T # {}
                 PROVE  FALSE
    OBVIOUS
  <2>2. T \in SUBSET Nat
    BY SMT
  <2>3. PICK k \in T : \A m \in T : ~(m < k)
    BY <2>1, <2>2, Least
  <2>4. k \in 0 .. n /\ f[k] # g[k]
    OBVIOUS
  <2>5. k # 0
    BY <1>5, <1>7, <2>4
  <2>6. k - 1 \in 0 .. n /\ k - 1 < k
    BY SMT, <2>4, <2>5
  <2>7. f[k - 1] = g[k - 1]
    BY <2>3, <2>6
  <2>8. f[k] = f[k - 1] * Byte + w[k] /\ g[k] = g[k - 1] * Byte + w[k]
    BY <1>5, <1>7, <2>4, <2>5
  <2>9. QED
    BY <2>4, <2>7, <2>8
<1>9. QED
  <2>1. n \in 0 .. n
    BY SMT, <1>2
  <2>2. f[n] = g[n]
    BY <1>8, <2>1
  <2>3. QED
    BY <1>3, <1>6, <1>7, <2>2
-----------------------------------------------------------------------------
(* The flag says the truth about the host.                                 *)
Endianness ==
  /\ host \in {"little", "big"}
  /\ IS_LITTLE_ENDIAN = (host = "little")

LEMMA Reversed ==
  ASSUME NEW w \in Digits
  PROVE  /\ Reverse(w) \in Digits
         /\ Len(Reverse(w)) = Len(w)
         /\ \A k \in 1 .. Len(w) : Reverse(w)[k] = w[(Len(w) - k) + 1]
<1>1. PICK n \in Nat : n = Len(w)
  BY LenProperties DEF Digits
<1>2. PICK r : r = Reverse(w)
  OBVIOUS
<1>3. r = [k \in 1 .. n |-> w[(n - k) + 1]]
  BY <1>1, <1>2 DEF Reverse
<1>4. \A k \in 1 .. n : (n - k) + 1 \in 1 .. n
  BY SMT
<1>5. \A k \in 1 .. n : w[k] \in 0 .. Byte - 1
  BY <1>1, ElementOfSeq DEF Digits
<1>6. r \in [1 .. n -> 0 .. Byte - 1]
  BY <1>3, <1>4, <1>5
<1>7. r \in Digits /\ Len(r) = n
  <2>1. PICK B : B = 0 .. Byte - 1
    OBVIOUS
  <2>2. r \in [1 .. n -> B]
    BY <1>6, <2>1
  <2>3. r \in Seq(B) /\ Len(r) = n
    BY SMT, <2>2
  <2>4. QED
    BY <2>1, <2>3 DEF Digits
<1>8. QED
  BY <1>1, <1>2, <1>3, <1>7

LEMMA ReversedTwice ==
  ASSUME NEW w \in Digits
  PROVE  Reverse(Reverse(w)) = w
<1>1. PICK n \in Nat : n = Len(w)
  BY LenProperties DEF Digits
<1>2. PICK r \in Digits : r = Reverse(w) /\ Len(r) = n /\ \A k \in 1 .. n : r[k] = w[(n - k) + 1]
  BY <1>1, Reversed
<1>3. PICK t \in Digits : t = Reverse(r) /\ Len(t) = n /\ \A k \in 1 .. n : t[k] = r[(n - k) + 1]
  BY <1>2, Reversed
<1>4. \A k \in 1 .. n : (n - k) + 1 \in 1 .. n /\ (n - ((n - k) + 1)) + 1 = k
  BY SMT
<1>5. \A k \in 1 .. n : t[k] = w[k]
  BY <1>2, <1>3, <1>4
<1>6. t = w
  BY <1>1, <1>3, <1>5, SeqEqual DEF Digits
<1>7. QED
  BY <1>2, <1>3, <1>6

(* A word is written as the protocol prescribes and read as it was meant.  *)
LEMMA WordsCross ==
  ASSUME Endianness, NEW n \in 0 .. 8, NEW v \in 0 .. Power[n] - 1
  PROVE  /\ WriteWord(v, n) = BigEndian(v, n)
         /\ ReadWord(BigEndian(v, n)) = v
<1>1. v \in Nat
  <2>1. Power[n] \in Nat
    BY PowerStep
  <2>2. QED
    BY SMT, <2>1
<1>2. PICK w \in Digits : w = BigEndian(v, n)
  BY <1>1, BigEndianBytes
<1>3. Reverse(Reverse(w)) = w
  BY ReversedTwice
<1>4. Memory(to_be(w)) = w /\ from_be(Memory(w)) = w
  BY <1>3 DEF Endianness, Memory, to_be, from_be, Swapped
<1>5. ValueOf(w) = v
  BY <1>2, ValueOfBigEndian
<1>6. QED
  BY <1>2, <1>4, <1>5 DEF WriteWord, ReadWord
-----------------------------------------------------------------------------
(* A number and its bits.                                                  *)
LEMMA SignedBits ==
  ASSUME NEW size \in Nat, size > 0, size % 2 = 0, NEW x \in SignedRange(size)
  PROVE  x \in Int /\ x % size \in Nat /\ x % size < size /\ Signed(x % size, size) = x
<1>1. PICK m \in Nat : m = size \div 2 /\ size = 2 * m
  BY SMT
<1>2. x \in Int /\ -m <= x /\ x < m
  BY SMT, <1>1 DEF SignedRange
<1>3. CASE x >= 0
  <2>1. x = 0 * size + x /\ x \in Nat /\ x < size
    BY SMT, <1>1, <1>2, <1>3
  <2>2. x % size = x
    BY <2>1, Quotient
  <2>3. 2 * x < size
    BY SMT, <1>1, <1>2
  <2>4. QED
    BY <1>2, <2>1, <2>2, <2>3 DEF Signed
<1>4. CASE ~(x >= 0)
  <2>1. x = (-1) * size + (x + size) /\ x + size \in Nat /\ x + size < size
    BY SMT, <1>1, <1>2, <1>4
  <2>2. x % size = x + size
    <3>1. -1 \in Int
      BY SMT
    <3>2. QED
      BY <2>1, <3>1, Quotient
  <2>3. ~(2 * (x + size) < size) /\ (x + size) - size = x
    BY SMT, <1>1, <1>2
  <2>4. QED
    BY <1>2, <2>1, <2>2, <2>3 DEF Signed
<1>5. QED
  BY <1>3, <1>4

(* An arithmetic shift to the right keeps the sign of the upper bits.      *)
LEMMA SignedDivided ==
  ASSUME NEW size \in Nat, size % 2 = 0, NEW h \in Nat, h < size,
         NEW c \in Nat, NEW l \in Nat, l < c
  PROVE  Signed(h * c + l, size * c) \div c = Signed(h, size)
<1>1. PICK m \in Nat : size = 2 * m
  BY SMT
<1>2. CASE h < m
  <2>1. m - h >= 1 /\ c \in Nat
    BY SMT, <1>2
  <2>2. (m - h) * c >= c
    BY SMT, <2>1
  <2>3. h * c + l < m * c
    BY SMT, <2>2
  <2>4. 2 * (h * c + l) < size * c
    BY SMT, <1>1, <2>3
  <2>5. (h * c + l) \div c = h
    BY Quotient
  <2>6. 2 * h < size
    BY SMT, <1>1, <1>2
  <2>7. QED
    BY <2>4, <2>5, <2>6 DEF Signed
<1>3. CASE ~(h < m)
  <2>1. h - m >= 0
    BY SMT, <1>3
  <2>2. (h - m) * c >= 0
    BY SMT, <2>1
  <2>3. h * c + l >= m * c
    BY SMT, <2>2
  <2>4. ~(2 * (h * c + l) < size * c)
    BY SMT, <1>1, <2>3
  <2>5. h - size \in Int /\ (h * c + l) - size * c = (h - size) * c + l
    BY SMT
  <2>6. ((h * c + l) - size * c) \div c = h - size
    BY <2>5, Quotient
  <2>7. ~(2 * h < size)
    BY SMT, <1>1, <1>3
  <2>8. QED
    BY <2>4, <2>6, <2>7 DEF Signed
<1>4. QED
  BY <1>2, <1>3
-----------------------------------------------------------------------------
(* The word of a position, and what the two shifts of the reader leave.    *)
LEMMA WordOfPosition ==
  ASSUME NEW a \in Nat, a < XZ, NEW b \in Nat, b < XZ, NEW e \in Nat, e < Y
  PROVE  /\ (a * XZ + b) * Y + e = a * (XZ * Y) + (b * Y + e)
         /\ a * (XZ * Y) + b * Y + e = a * (XZ * Y) + (b * Y + e)
         /\ b * Y + e \in Nat /\ b * Y + e < XZ * Y /\ XZ * Y \in Nat
         /\ a * (XZ * Y) + (b * Y + e) \in 0 .. Long - 1
         /\ XZ * (XZ * Y) = Long
<1>1. XZ \in Nat /\ Y \in Nat /\ XZ * XZ * Y = Long
  BY FieldsAssumption
<1>2. (a * XZ + b) * Y = a * (XZ * Y) + b * Y /\ XZ * Y \in Nat /\ b * Y \in Nat
  BY SMT, <1>1
<1>3. b * Y + e < XZ * Y
  <2>1. XZ - b >= 1
    BY SMT, <1>1
  <2>2. (XZ - b) * Y >= Y
    BY SMT, <1>1, <2>1
  <2>3. QED
    BY SMT, <1>1, <1>2, <2>2
<1>4. XZ * (XZ * Y) = Long
  BY SMT, <1>1
<1>5. PICK c \in Nat : c = XZ * Y
  BY <1>2
<1>6. PICK l \in Nat : l = b * Y + e
  BY SMT, <1>2
<1>7. a * c + l < XZ * c /\ a * c \in Nat
  <2>1. XZ - a >= 1
    BY SMT, <1>1
  <2>2. (XZ - a) * c >= c
    BY SMT, <1>1, <2>1
  <2>3. l < c
    BY <1>3, <1>5, <1>6
  <2>4. QED
    BY SMT, <1>1, <2>2, <2>3
<1>8. a * c + l \in 0 .. Long - 1
  <2>1. PICK g \in Int : g = Long /\ g = XZ * c
    BY SMT, <1>1, <1>4, <1>5
  <2>2. a * c + l \in 0 .. g - 1
    BY SMT, <1>7, <2>1
  <2>3. QED
    BY <2>1, <2>2
<1>9. (a * XZ + b) * Y + e = a * (XZ * Y) + (b * Y + e)
  BY SMT, <1>1, <1>2
<1>10. a * (XZ * Y) + b * Y + e = a * (XZ * Y) + (b * Y + e)
  BY SMT, <1>2
<1>11. QED
  BY <1>2, <1>3, <1>4, <1>5, <1>6, <1>8, <1>9, <1>10

LEMMA PositionCrosses ==
  ASSUME NEW p \in [x : SignedRange(XZ), y : SignedRange(Y), z : SignedRange(XZ)]
  PROVE  /\ pb_write_position(p) \in 0 .. Long - 1
         /\ pb_write_position(p) = ((p.x % XZ) * XZ + (p.z % XZ)) * Y + (p.y % Y)
         /\ pr_read_position(Signed(pb_write_position(p), Long)) = p
<1>1. /\ XZ \in Nat /\ Y \in Nat /\ XZ * XZ * Y = Long
      /\ XZ % 2 = 0 /\ Y % 2 = 0
  BY FieldsAssumption
<1>2. PICK g \in Nat : g = Long /\ g > 0
  BY PowerStep DEF Long, Bytes
<1>3. XZ > 0 /\ Y > 0
  BY SMT, <1>1, <1>2
<1>4. PICK a \in Nat : a = p.x % XZ /\ a < XZ /\ Signed(a, XZ) = p.x
  BY <1>1, <1>3, SignedBits
<1>5. PICK b \in Nat : b = p.z % XZ /\ b < XZ /\ Signed(b, XZ) = p.z
  BY <1>1, <1>3, SignedBits
<1>6. PICK e \in Nat : e = p.y % Y /\ e < Y /\ Signed(e, Y) = p.y
  BY <1>1, <1>3, SignedBits
<1>7. PICK c \in Nat : c = XZ * Y /\ XZ * c = g
  BY <1>2, <1>4, <1>5, <1>6, WordOfPosition
<1>8. PICK l \in Nat : l = b * Y + e /\ l < c
  BY <1>4, <1>5, <1>6, <1>7, WordOfPosition
<1>9. PICK w \in Nat : w = a * c + l /\ w < g
  <2>1. a * c + l \in 0 .. g - 1
    BY <1>2, <1>4, <1>5, <1>6, <1>7, <1>8, WordOfPosition
  <2>2. QED
    BY SMT, <2>1
<1>10. pb_write_position(p) = w
  <2>1. pb_write_position(p) = a * (XZ * Y) + b * Y + e
    BY <1>4, <1>5, <1>6 DEF pb_write_position
  <2>2. QED
    BY <1>4, <1>5, <1>6, <1>7, <1>8, <1>9, <2>1, WordOfPosition
<1>11. ((p.x % XZ) * XZ + (p.z % XZ)) * Y + (p.y % Y) = w
  BY <1>4, <1>5, <1>6, <1>7, <1>8, <1>9, WordOfPosition
<1>12. PICK d \in Int, s \in {0, 1} : d = Signed(w, g) /\ d = w - s * g
  <2>1. CASE 2 * w < g
    <3>1. w = w - 0 * g
      BY SMT
    <3>2. QED
      BY <2>1, <3>1 DEF Signed
  <2>2. CASE ~(2 * w < g)
    <3>1. w - g = w - 1 * g /\ w - g \in Int
      BY SMT
    <3>2. QED
      BY <2>2, <3>1 DEF Signed
  <2>3. QED
    BY <2>1, <2>2
<1>13. d \div c = p.x
  <2>1. Signed(a * c + l, XZ * c) \div c = Signed(a, XZ)
    BY <1>1, <1>4, <1>8, SignedDivided
  <2>2. QED
    BY <1>4, <1>7, <1>9, <1>12, <2>1
<1>14. (d * XZ) % g = b * c + e * XZ /\ b * c + e * XZ \in Nat
  <2>1. PICK k \in Int : k = a - s * XZ
    BY SMT, <1>1
  <2>2. PICK r \in Nat : r = b * c + e * XZ
    BY SMT, <1>1
  <2>3. r < g
    <3>1. XZ - b >= 1 /\ Y - e >= 1
      BY SMT, <1>1, <1>5, <1>6
    <3>2. (XZ - b) * c >= c
      BY SMT, <1>1, <3>1
    <3>3. (Y - e) * XZ >= XZ
      BY SMT, <1>1, <3>1
    <3>4. Y * XZ = c
      BY SMT, <1>1, <1>7
    <3>5. e * XZ <= c - XZ /\ b * c <= g - c
      BY SMT, <1>1, <1>7, <3>2, <3>3, <3>4
    <3>6. QED
      BY SMT, <1>1, <1>3, <2>2, <3>5
  <2>4. d * XZ = k * g + r
    <3>1. d * XZ = w * XZ - s * g * XZ
      BY SMT, <1>1, <1>12
    <3>2. w * XZ = a * c * XZ + l * XZ
      BY SMT, <1>1, <1>9
    <3>3. a * c * XZ = a * g
      BY SMT, <1>1, <1>7
    <3>4. l * XZ = b * Y * XZ + e * XZ
      BY SMT, <1>1, <1>8
    <3>5. b * Y * XZ = b * c
      BY SMT, <1>1, <1>7
    <3>6. k * g = a * g - s * g * XZ
      BY SMT, <1>1, <2>1
    <3>7. QED
      BY SMT, <1>1, <2>2, <3>1, <3>2, <3>3, <3>4, <3>5, <3>6
  <2>5. (k * g + r) % g = r
    BY <2>3, Quotient
  <2>6. QED
    BY <2>2, <2>4, <2>5
<1>15. ShiftLeft(d, XZ) \div c = p.z
  <2>1. PICK t \in Nat : t = e * XZ
    BY SMT, <1>1
  <2>2. t < c
    <3>1. (Y - e) * XZ >= XZ
      <4>1. Y - e >= 1
        BY SMT, <1>1, <1>6
      <4>2. QED
        BY SMT, <1>1, <4>1
    <3>2. Y * XZ = c
      BY SMT, <1>1, <1>7
    <3>3. QED
      BY SMT, <1>1, <1>3, <2>1, <3>1, <3>2
  <2>3. Signed(b * c + t, XZ * c) \div c = Signed(b, XZ)
    BY <1>1, <1>5, <2>2, SignedDivided
  <2>4. QED
    BY <1>2, <1>5, <1>7, <1>14, <2>1, <2>3 DEF ShiftLeft
<1>16. PICK q \in Nat : q = XZ * XZ /\ Y * q = g /\ q > 0
  BY SMT, <1>1, <1>2, <1>3
<1>17. (d * q) % g = e * q + 0 /\ e * q + 0 \in Nat
  <2>1. PICK k \in Int : k = a * XZ + b - s * q
    BY SMT, <1>1
  <2>2. PICK r \in Nat : r = e * q
    BY SMT
  <2>3. r < g
    <3>1. Y - e >= 1
      BY SMT, <1>1, <1>6
    <3>2. (Y - e) * q >= q
      BY SMT, <1>1, <3>1
    <3>3. QED
      BY SMT, <1>1, <1>16, <2>2, <3>2
  <2>4. d * q = k * g + r
    <3>1. d * q = w * q - s * g * q
      BY SMT, <1>12
    <3>2. w * q = a * c * q + l * q
      BY SMT, <1>9
    <3>3. c * q = XZ * g
      BY SMT, <1>1, <1>7, <1>16
    <3>4. a * c * q = a * XZ * g
      BY SMT, <1>1, <3>3
    <3>5. l * q = b * Y * q + e * q
      BY SMT, <1>1, <1>8
    <3>6. b * Y * q = b * g
      BY SMT, <1>1, <1>16
    <3>7. k * g = a * XZ * g + b * g - s * q * g
      BY SMT, <1>1, <2>1
    <3>8. s * q * g = s * g * q
      BY SMT
    <3>9. QED
      BY SMT, <1>1, <2>2, <3>1, <3>2, <3>4, <3>5, <3>6, <3>7, <3>8
  <2>5. (k * g + r) % g = r
    BY <2>3, Quotient
  <2>6. r + 0 = r
    BY SMT
  <2>7. QED
    BY <2>2, <2>4, <2>5, <2>6
<1>18. ShiftLeft(d, q) \div q = p.y
  <2>1. Signed(e * q + 0, Y * q) \div q = Signed(e, Y)
    <3>1. 0 \in Nat /\ 0 < q
      BY SMT, <1>16
    <3>2. QED
      BY <1>1, <1>6, <3>1, SignedDivided
  <2>2. QED
    BY <1>2, <1>6, <1>16, <1>17, <2>1 DEF ShiftLeft
<1>19. pr_read_position(d) = [x |-> p.x, y |-> p.y, z |-> p.z]
  BY <1>7, <1>13, <1>15, <1>16, <1>18 DEF pr_read_position, ShiftRight
<1>20. pr_read_position(d) = p
  BY <1>19
<1>21. w \in 0 .. Long - 1
  BY SMT, <1>2, <1>9
<1>22. QED
  BY <1>2, <1>10, <1>11, <1>12, <1>20, <1>21
-----------------------------------------------------------------------------
(* Bytes, put together and taken apart.                                    *)
LEMMA Joined ==
  ASSUME NEW s \in Digits, NEW t \in Digits
  PROVE  /\ s \o t \in Digits
         /\ Len(s) \in Nat /\ Len(t) \in Nat /\ Len(s \o t) = Len(s) + Len(t)
         /\ \A i \in 1 .. Len(s) : (s \o t)[i] = s[i]
         /\ \A i \in 1 .. Len(t) : (s \o t)[Len(s) + i] = t[i]
<1>1. PICK m \in Nat, n \in Nat : m = Len(s) /\ n = Len(t)
  BY LenProperties DEF Digits
<1>2. PICK w : w = s \o t
  OBVIOUS
<1>3. /\ w \in Digits /\ Len(w) = m + n
      /\ \A i \in 1 .. m + n : w[i] = IF i <= m THEN s[i] ELSE t[i - m]
  BY <1>1, <1>2, ConcatProperties DEF Digits
<1>4. \A i \in 1 .. m : i \in 1 .. m + n /\ i <= m
  BY SMT
<1>5. \A i \in 1 .. n : m + i \in 1 .. m + n /\ ~(m + i <= m) /\ (m + i) - m = i
  BY SMT
<1>6. \A i \in 1 .. m : w[i] = s[i]
  BY <1>3, <1>4
<1>7. \A i \in 1 .. n : w[m + i] = t[i]
  BY <1>3, <1>5
<1>8. QED
  BY <1>1, <1>2, <1>3, <1>6, <1>7

LEMMA Slice ==
  ASSUME NEW w \in Digits, NEW u \in Digits, NEW at \in Nat, at + Len(u) <= Len(w),
         \A i \in 1 .. Len(u) : w[at + i] = u[i]
  PROVE  SubSeq(w, at + 1, at + Len(u)) = u
<1>1. PICK m \in Nat, n \in Nat : m = Len(w) /\ n = Len(u)
  BY LenProperties DEF Digits
<1>2. PICK a \in Int, b \in Int : a = at + 1 /\ b = at + n
  BY SMT
<1>3. \A i \in a .. b : i \in 1 .. m
  BY SMT, <1>1, <1>2
<1>4. \A i \in a .. b : w[i] \in 0 .. Byte - 1
  BY <1>1, <1>3, ElementOfSeq DEF Digits
<1>5. PICK r : r = SubSeq(w, a, b)
  OBVIOUS
<1>6. /\ r \in Seq(0 .. Byte - 1) /\ Len(r) = (IF a <= b THEN b - a + 1 ELSE 0)
      /\ \A i \in 1 .. b - a + 1 : r[i] = w[a + i - 1]
  BY <1>4, <1>5, SubSeqProperties
<1>7. /\ (IF a <= b THEN b - a + 1 ELSE 0) = n
      /\ \A i \in 1 .. n : i \in 1 .. b - a + 1 /\ a + i - 1 = at + i
  BY SMT, <1>2
<1>8. \A i \in 1 .. n : r[i] = u[i]
  BY <1>1, <1>6, <1>7
<1>9. r = u
  BY <1>1, <1>6, <1>7, <1>8, SeqEqual DEF Digits
<1>10. QED
  BY <1>1, <1>2, <1>5, <1>9

(* Every field is read as it was meant, is written as it was received, and *)
(* has as many bytes as its reader takes.                                  *)
Crosses(kind, v) ==
  /\ Wire(<<kind, v>>) \in Digits /\ Len(Wire(<<kind, v>>)) > 0
  /\ pb_write(kind, v) = Wire(<<kind, v>>)
  /\ pr_read(kind, Wire(<<kind, v>>)) = v
  /\ \A at : packet[at + 1] = Wire(<<kind, v>>)[1]
               => SizeAt(kind, at) = Len(Wire(<<kind, v>>))

LEMMA FieldCrosses ==
  ASSUME Endianness, NEW kind \in DOMAIN FieldValues, NEW v \in FieldValues[kind]
  PROVE  Crosses(kind, v)
<1>1. /\ DOMAIN Bytes = {"u8", "u16", "u32", "u64"}
      /\ Bytes.u8 = 1 /\ Bytes.u16 = 2 /\ Bytes.u32 = 4 /\ Bytes.u64 = 8
  BY DEF Bytes
<1> DEFINE f == <<kind, v>>
<1>2. f[1] = kind /\ f[2] = v
  OBVIOUS
<1> HIDE DEF f
<1>3. PICK g \in Nat : g = Long /\ g = Power[8] /\ g > 0
  BY PowerStep DEF Long, Bytes
<1>4. 8 \in 0 .. 8
  OBVIOUS
<1>5. ASSUME NEW u \in 0 .. g - 1
      PROVE  /\ BigEndian(u, 8) \in Digits /\ Len(BigEndian(u, 8)) = 8
             /\ WriteWord(u, 8) = BigEndian(u, 8) /\ ReadWord(BigEndian(u, 8)) = u
  <2>1. u \in Nat /\ u \in 0 .. Power[8] - 1
    BY SMT, <1>3
  <2>2. QED
    BY <1>4, <2>1, BigEndianBytes, WordsCross
<1>6. CASE kind \in DOMAIN Bytes /\ v \in 0 .. Power[Bytes[kind]] - 1
  <2>1. PICK n \in 0 .. 8 : n = Bytes[kind] /\ n > 0
    BY SMT, <1>1, <1>6
  <2>2. v \in 0 .. Power[n] - 1 /\ Power[n] \in Nat
    BY <1>6, <2>1, PowerStep
  <2>3. v \in Nat
    BY SMT, <2>2
  <2>4. PICK w : w = BigEndian(v, n)
    OBVIOUS
  <2>5. Wire(f) = w
    BY <1>1, <1>2, <1>6, <2>1, <2>4 DEF Wire
  <2>6. pb_write(kind, v) = WriteWord(v, n) /\ pr_read(kind, w) = ReadWord(w)
    BY <1>1, <1>6, <2>1 DEF pb_write, pr_read
  <2>7. \A at : SizeAt(kind, at) = n
    BY <1>1, <1>6, <2>1 DEF SizeAt
  <2>8. w \in Digits /\ Len(w) = n /\ WriteWord(v, n) = w /\ ReadWord(w) = v
    BY <2>2, <2>3, <2>4, BigEndianBytes, WordsCross
  <2>9. QED
    BY <2>1, <2>5, <2>6, <2>7, <2>8 DEF Crosses, f
<1>7. CASE kind = "i64" /\ v \in SignedRange(Long)
  <2>1. g % 2 = 0
    <3>1. PICK p7 \in Nat : p7 = XZ * Y
      BY SMT, FieldsAssumption
    <3>2. PICK m \in Nat : XZ = 2 * m
      BY SMT, FieldsAssumption
    <3>3. g = XZ * p7
      BY SMT, <1>3, <3>1, FieldsAssumption
    <3>4. PICK q \in Nat : q = m * p7
      BY SMT
    <3>5. g = q * 2 + 0
      BY SMT, <3>2, <3>3, <3>4
    <3>6. (q * 2 + 0) % 2 = 0
      BY SMT
    <3>7. QED
      BY <3>5, <3>6
  <2>2. PICK u \in Nat : u = v % Long /\ u < g /\ Signed(u, Long) = v
    BY <1>3, <1>7, <2>1, SignedBits
  <2>3. u \in 0 .. g - 1
    BY SMT, <2>2
  <2>4. PICK w : w = BigEndian(u, 8)
    OBVIOUS
  <2>5. Wire(f) = w
    BY <1>1, <1>2, <1>7, <2>2, <2>4 DEF Wire
  <2>6. pb_write(kind, v) = WriteWord(u, 8) /\ pr_read(kind, w) = Signed(ReadWord(w), Long)
    BY <1>1, <1>7, <2>2 DEF pb_write, pr_read
  <2>7. \A at : SizeAt(kind, at) = 8
    BY <1>1, <1>7 DEF SizeAt
  <2>8. w \in Digits /\ Len(w) = 8 /\ WriteWord(u, 8) = w /\ ReadWord(w) = u
    BY <1>5, <2>3, <2>4
  <2>9. 8 > 0
    OBVIOUS
  <2>10. QED
    BY <2>2, <2>5, <2>6, <2>7, <2>8, <2>9 DEF Crosses, f
<1>8. CASE /\ kind = "position"
           /\ v \in [x : SignedRange(XZ), y : SignedRange(Y), z : SignedRange(XZ)]
  <2>1. PICK u \in 0 .. g - 1 :
             /\ u = pb_write_position(v)
             /\ u = ((v.x % XZ) * XZ + (v.z % XZ)) * Y + (v.y % Y)
             /\ pr_read_position(Signed(u, Long)) = v
    BY <1>3, <1>8, PositionCrosses
  <2>2. PICK w : w = BigEndian(u, 8)
    OBVIOUS
  <2>3. Wire(f) = w
    BY <1>1, <1>2, <1>8, <2>1, <2>2 DEF Wire
  <2>4. /\ pb_write(kind, v) = WriteWord(u, 8)
        /\ pr_read(kind, w) = pr_read_position(Signed(ReadWord(w), Long))
    BY <1>1, <1>8, <2>1 DEF pb_write, pr_read
  <2>5. \A at : SizeAt(kind, at) = 8
    BY <1>1, <1>8 DEF SizeAt
  <2>6. w \in Digits /\ Len(w) = 8 /\ WriteWord(u, 8) = w /\ ReadWord(w) = u
    BY <1>5, <2>2
  <2>7. 8 > 0
    OBVIOUS
  <2>8. QED
    BY <2>1, <2>3, <2>4, <2>5, <2>6, <2>7 DEF Crosses, f
<1>9. CASE kind = "uuid" /\ v \in (0 .. Long - 1) \X (0 .. Long - 1)
  <2>1. PICK a \in 0 .. g - 1, b \in 0 .. g - 1 : v = <<a, b>> /\ v[1] = a /\ v[2] = b
    BY <1>3, <1>9
  <2>2. PICK wa \in Digits :
           /\ wa = BigEndian(a, 8) /\ Len(wa) = 8
           /\ WriteWord(a, 8) = wa /\ ReadWord(wa) = a
    BY <1>5
  <2>3. PICK wb \in Digits :
           /\ wb = BigEndian(b, 8) /\ Len(wb) = 8
           /\ WriteWord(b, 8) = wb /\ ReadWord(wb) = b
    BY <1>5
  <2>4. PICK w : w = wa \o wb
    OBVIOUS
  <2>5. SubSeq(w, 1, 8) = wa /\ SubSeq(w, 9, 16) = wb /\ Len(w) = 16 /\ w \in Digits
    <3>1. /\ w \in Digits /\ Len(w) = Len(wa) + Len(wb)
          /\ \A i \in 1 .. Len(wa) : w[i] = wa[i]
          /\ \A i \in 1 .. Len(wb) : w[Len(wa) + i] = wb[i]
      BY <2>4, Joined
    <3>2. \A i \in 1 .. Len(wa) : 0 + i = i
      BY SMT, <2>2
    <3>3. /\ 0 + Len(wa) <= Len(w) /\ Len(wa) + Len(wb) <= Len(w)
          /\ 0 \in Nat /\ Len(wa) \in Nat
      <4>1. Len(wa) = 8 /\ Len(wb) = 8 /\ Len(w) = Len(wa) + Len(wb)
        BY <2>2, <2>3, <3>1
      <4>2. QED
        BY SMT, <4>1
    <3>4. SubSeq(w, 0 + 1, 0 + Len(wa)) = wa
      BY <3>1, <3>2, <3>3, Slice
    <3>5. SubSeq(w, Len(wa) + 1, Len(wa) + Len(wb)) = wb
      BY <3>1, <3>3, Slice
    <3>6. 0 + 1 = 1 /\ 0 + 8 = 8 /\ 8 + 1 = 9 /\ 8 + 8 = 16
      BY SMT
    <3>7. QED
      BY <2>2, <2>3, <3>1, <3>4, <3>5, <3>6
  <2>6. Wire(f) = w
    BY <1>1, <1>2, <1>9, <2>1, <2>2, <2>3, <2>4 DEF Wire
  <2>7. /\ pb_write(kind, v) = WriteWord(a, 8) \o WriteWord(b, 8)
        /\ pr_read(kind, w) = <<ReadWord(SubSeq(w, 1, 8)), ReadWord(SubSeq(w, 8 + 1, Len(w)))>>
    BY <1>1, <1>9, <2>1 DEF pb_write, pr_read
  <2>8. 8 + 1 = 9 /\ 2 * 8 = 16 /\ 16 > 0
    OBVIOUS
  <2>9. \A at : SizeAt(kind, at) = 16
    BY <1>1, <1>9, <2>8 DEF SizeAt
  <2>10. QED
    BY <2>1, <2>2, <2>3, <2>4, <2>5, <2>6, <2>7, <2>8, <2>9 DEF Crosses, f
<1>10. CASE kind = "string" /\ v \in Seq(0 .. Byte - 1) /\ 2 * Len(v) < Byte
  <2>1. PICK n \in Nat : n = Len(v) /\ n \in 0 .. Byte - 1
    <3>1. Byte \in Nat
      BY FieldsAssumption
    <3>2. QED
      BY SMT, <1>10, <3>1
  <2>2. <<n>> \in Digits /\ v \in Digits /\ Len(<<n>>) = 1 /\ <<n>>[1] = n
    BY <1>10, <2>1 DEF Digits
  <2>3. PICK w, h : w = h \o v /\ h = <<n>>
    OBVIOUS
  <2>4. w \in Digits /\ Len(w) = 1 + n /\ w[1] = n /\ 1 + n > 0
    <3>1. /\ w \in Digits /\ Len(w) = Len(h) + Len(v)
          /\ \A i \in 1 .. Len(h) : w[i] = h[i]
      BY <2>2, <2>3, Joined
    <3>2. 1 + n > 0 /\ 1 \in 1 .. 1
      BY SMT
    <3>3. QED
      BY <2>1, <2>2, <2>3, <3>1, <3>2
  <2>5. Tail(w) = v
    <3>1. w # <<>>
      BY <2>4
    <3>2. Tail(w) = SubSeq(w, 2, Len(w))
      BY <2>4, <3>1, TailIsSubSeq DEF Digits
    <3>3. \A i \in 1 .. Len(v) : w[Len(h) + i] = v[i]
      BY <2>2, <2>3, Joined
    <3>4. 1 \in Nat /\ 1 + Len(v) <= Len(w) /\ 1 + 1 = 2
      BY SMT, <2>1, <2>4
    <3>5. \A i \in 1 .. Len(v) : w[1 + i] = v[i]
      BY <2>2, <2>3, <3>3
    <3>6. SubSeq(w, 1 + 1, 1 + Len(v)) = v
      BY <2>2, <2>4, <3>4, <3>5, Slice
    <3>7. QED
      BY <2>1, <2>4, <3>2, <3>4, <3>6
  <2>6. Wire(f) = w
    BY <1>1, <1>2, <1>10, <2>1, <2>3 DEF Wire
  <2>7. pb_write(kind, v) = w /\ pr_read(kind, w) = Tail(w)
    BY <1>1, <1>10, <2>1, <2>3 DEF pb_write, pr_read
  <2>8. \A at : SizeAt(kind, at) = 1 + packet[at + 1]
    BY <1>1, <1>10 DEF SizeAt
  <2>9. QED
    BY <2>3, <2>4, <2>5, <2>6, <2>7, <2>8 DEF Crosses, f
<1>11. QED
  BY <1>6, <1>7, <1>8, <1>9, <1>10, FieldsAssumption
-----------------------------------------------------------------------------
(* Where the fields of a packet lie: off[k] bytes come before and with the *)
(* k-th field, the fields that are answered already among them.            *)
Sendable == UNION {{<<kind, v>> : v \in FieldValues[kind]} : kind \in DOMAIN FieldValues}

LaidOut(off, fs, bytes, answered) ==
  /\ off \in [0 .. Len(fs) -> Nat]
  /\ off[0] = answered /\ off[Len(fs)] = Len(bytes)
  /\ \A k \in 0 .. Len(fs) : off[k] <= Len(bytes)
  /\ \A k \in 1 .. Len(fs) :
       /\ off[k] = off[k - 1] + Len(Wire(fs[k]))
       /\ \A i \in 1 .. Len(Wire(fs[k])) : bytes[off[k - 1] + i] = Wire(fs[k])[i]

(* Another field at the end leaves the others where they are.              *)
LEMMA LaidOutMore ==
  ASSUME NEW fs \in Seq(Sendable), NEW f \in Sendable, Wire(f) \in Digits,
         \A k \in 1 .. Len(fs) : Wire(fs[k]) \in Digits,
         NEW bytes \in Digits, NEW answered, NEW off, LaidOut(off, fs, bytes, answered)
  PROVE  \E more : LaidOut(more, Append(fs, f), bytes \o Wire(f), answered)
<1>1. PICK n \in Nat, m \in Nat : n = Len(fs) /\ m = Len(bytes)
  BY LenProperties DEF Digits
<1>2. PICK gs : /\ gs = Append(fs, f) /\ Len(gs) = n + 1
                /\ gs[n + 1] = f /\ \A k \in 1 .. n : gs[k] = fs[k]
  <2>1. PICK gs : gs = Append(fs, f)
    OBVIOUS
  <2>2. /\ Len(gs) = Len(fs) + 1 /\ gs[Len(fs) + 1] = f
        /\ \A k \in 1 .. Len(fs) : gs[k] = fs[k]
    BY <2>1, AppendProperties
  <2>3. QED
    BY <1>1, <2>1, <2>2
<1>3. PICK w \in Digits, l \in Nat : w = Wire(f) /\ l = Len(w)
  BY LenProperties DEF Digits
<1>4. PICK b : b = bytes \o w
  OBVIOUS
<1>5. /\ Len(b) = m + l
      /\ \A i \in 1 .. m : b[i] = bytes[i]
      /\ \A i \in 1 .. l : b[m + i] = w[i]
  BY <1>1, <1>3, <1>4, Joined
<1> DEFINE more == [k \in 0 .. n + 1 |-> IF k = n + 1 THEN m + l ELSE off[k]]
<1>6. /\ off \in [0 .. n -> Nat] /\ off[0] = answered /\ off[n] = m
      /\ \A k \in 0 .. n : off[k] <= m
      /\ \A k \in 1 .. n :
           /\ off[k] = off[k - 1] + Len(Wire(fs[k]))
           /\ \A i \in 1 .. Len(Wire(fs[k])) : bytes[off[k - 1] + i] = Wire(fs[k])[i]
  BY <1>1 DEF LaidOut
<1>7. /\ more[n + 1] = m + l /\ \A k \in 0 .. n : more[k] = off[k]
      /\ more \in [0 .. n + 1 -> Nat]
  <2>1. /\ n + 1 \in 0 .. n + 1 /\ m + l \in Nat
        /\ \A k \in 0 .. n : k \in 0 .. n + 1 /\ k # n + 1
        /\ \A k \in 0 .. n + 1 : k # n + 1 => k \in 0 .. n
    BY SMT
  <2>2. QED
    BY <1>6, <2>1
<1> HIDE DEF more
<1>8. more[0] = answered /\ \A k \in 0 .. n + 1 : more[k] <= m + l
  <2>1. /\ 0 \in 0 .. n /\ m + l <= m + l
        /\ \A k \in 0 .. n + 1 : k = n + 1 \/ k \in 0 .. n
    BY SMT
  <2>2. ASSUME NEW k \in 0 .. n
        PROVE  off[k] <= m + l
    <3>1. PICK o \in Nat : o = off[k] /\ o <= m
      BY <1>6
    <3>2. QED
      BY SMT, <3>1
  <2>3. QED
    BY <1>6, <1>7, <2>1, <2>2
<1>9. ASSUME NEW k \in 1 .. n + 1
      PROVE  /\ more[k] = more[k - 1] + Len(Wire(gs[k]))
             /\ \A i \in 1 .. Len(Wire(gs[k])) : b[more[k - 1] + i] = Wire(gs[k])[i]
  <2>1. CASE k = n + 1
    <3>1. k - 1 = n /\ n \in 0 .. n
      BY SMT, <2>1
    <3>2. gs[k] = f /\ more[k] = m + l /\ more[k - 1] = m
      BY <1>2, <1>6, <1>7, <2>1, <3>1
    <3>3. Wire(gs[k]) = w /\ \A i \in 1 .. l : b[more[k - 1] + i] = w[i]
      BY <1>3, <1>5, <3>2
    <3>4. QED
      BY <1>3, <3>2, <3>3
  <2>2. CASE k # n + 1
    <3>1. k \in 1 .. n /\ k \in 0 .. n /\ k - 1 \in 0 .. n
      BY SMT, <2>2
    <3>2. PICK u \in Digits, o \in Nat, q \in Nat, j \in Nat :
            u = Wire(fs[k]) /\ o = off[k - 1] /\ q = off[k] /\ j = Len(u)
      BY <1>1, <1>6, <3>1, LenProperties DEF Digits
    <3>3. q = o + j /\ q <= m /\ \A i \in 1 .. j : bytes[o + i] = u[i]
      BY <1>6, <3>1, <3>2
    <3>4. \A i \in 1 .. j : o + i \in 1 .. m
      BY SMT, <3>3
    <3>5. \A i \in 1 .. j : b[o + i] = u[i]
      BY <1>5, <3>3, <3>4
    <3>6. gs[k] = fs[k] /\ more[k] = q /\ more[k - 1] = o
      BY <1>2, <1>7, <3>1, <3>2
    <3>7. QED
      BY <3>2, <3>3, <3>5, <3>6
  <2>3. QED
    BY <2>1, <2>2
<1>10. LaidOut(more, gs, b, answered)
  BY <1>2, <1>5, <1>7, <1>8, <1>9 DEF LaidOut
<1>11. QED
  BY <1>2, <1>3, <1>4, <1>10

(* A field that is answered leaves the others where they are.              *)
LEMMA LaidOutRest ==
  ASSUME NEW fs \in Seq(Sendable), fs # <<>>,
         NEW bytes, NEW answered, NEW off, LaidOut(off, fs, bytes, answered)
  PROVE  \E rest : LaidOut(rest, Tail(fs), bytes, answered + Len(Wire(fs[1])))
<1>1. PICK n \in Nat : n = Len(fs) - 1 /\ Len(fs) = n + 1
  <2>1. Len(fs) \in Nat \ {0}
    BY EmptySeq
  <2>2. QED
    BY SMT, <2>1
<1>2. PICK gs : gs = Tail(fs) /\ Len(gs) = n /\ \A k \in 1 .. n : gs[k] = fs[k + 1]
  <2>1. PICK gs : gs = Tail(fs)
    OBVIOUS
  <2>2. Len(gs) = Len(fs) - 1 /\ \A k \in 1 .. Len(gs) : gs[k] = fs[k + 1]
    BY <2>1, HeadTailProperties
  <2>3. QED
    BY <1>1, <2>1, <2>2
<1> DEFINE rest == [k \in 0 .. n |-> off[k + 1]]
<1>3. \A k \in 0 .. n : k + 1 \in 0 .. n + 1
  BY SMT
<1>4. /\ off \in [0 .. n + 1 -> Nat] /\ off[0] = answered /\ off[n + 1] = Len(bytes)
      /\ \A k \in 0 .. n + 1 : off[k] <= Len(bytes)
      /\ \A k \in 1 .. n + 1 :
           /\ off[k] = off[k - 1] + Len(Wire(fs[k]))
           /\ \A i \in 1 .. Len(Wire(fs[k])) : bytes[off[k - 1] + i] = Wire(fs[k])[i]
  BY <1>1 DEF LaidOut
<1>5. rest \in [0 .. n -> Nat] /\ \A k \in 0 .. n : rest[k] = off[k + 1]
  BY <1>3, <1>4
<1> HIDE DEF rest
<1>6. rest[0] = answered + Len(Wire(fs[1])) /\ rest[n] = Len(bytes)
  <2>1. 0 \in 0 .. n /\ n \in 0 .. n /\ 0 + 1 = 1 /\ 1 - 1 = 0 /\ 1 \in 1 .. n + 1
    BY SMT
  <2>2. QED
    BY <1>4, <1>5, <2>1
<1>7. \A k \in 0 .. n : rest[k] <= Len(bytes)
  BY <1>3, <1>4, <1>5
<1>8. ASSUME NEW k \in 1 .. n
      PROVE  /\ rest[k] = rest[k - 1] + Len(Wire(gs[k]))
             /\ \A i \in 1 .. Len(Wire(gs[k])) : bytes[rest[k - 1] + i] = Wire(gs[k])[i]
  <2>1. /\ k \in 0 .. n /\ k - 1 \in 0 .. n /\ k + 1 \in 1 .. n + 1
        /\ (k - 1) + 1 = k /\ (k + 1) - 1 = k
    BY SMT
  <2>2. rest[k] = off[k + 1] /\ rest[k - 1] = off[k] /\ gs[k] = fs[k + 1]
    BY <1>2, <1>5, <2>1
  <2>3. PICK j \in 1 .. n + 1 : j = k + 1 /\ j - 1 = k
    BY <2>1
  <2>4. /\ off[j] = off[j - 1] + Len(Wire(fs[j]))
        /\ \A i \in 1 .. Len(Wire(fs[j])) : bytes[off[j - 1] + i] = Wire(fs[j])[i]
    BY <1>4
  <2>5. QED
    BY <2>2, <2>3, <2>4
<1>9. LaidOut(rest, gs, bytes, answered + Len(Wire(fs[1])))
  BY <1>2, <1>5, <1>6, <1>7, <1>8 DEF LaidOut
<1>10. QED
  BY <1>2, <1>9
-----------------------------------------------------------------------------
(* What holds while packets are read and answered.  The fields lie in the  *)
(* packet one after the other, the reader is at the start of one, what it  *)
(* has read are the fields before, and what is answered is what comes      *)
(* before the fields that are left.                                        *)
Meant == UNION {FieldValues[kind] : kind \in DOMAIN FieldValues}

Typed ==
  /\ stage \in {"start", "receive", "read", "write"}
  /\ host \in {"little", "big"}
  /\ stage # "start" => Endianness
  /\ fields \in Seq(Sendable) /\ got \in Seq(Meant)
  /\ packet \in Digits /\ reply \in Digits

Stages ==
  /\ stage \in {"start", "receive"} => got = <<>>
  /\ stage # "write" => reply = <<>>
  /\ stage = "write" => Len(got) = Len(fields) /\ pos = Len(packet)

Contents ==
  /\ Len(got) <= Len(fields)
  /\ \A k \in 1 .. Len(got) : got[k] = fields[k][2]
  /\ \A i \in 1 .. Len(reply) : reply[i] = packet[i]

Layout ==
  \E off :
    /\ LaidOut(off, fields, packet, Len(reply))
    /\ stage # "write" => pos = off[Len(got)]

FieldsInv == Typed /\ Stages /\ Contents /\ Layout

LEMMA SentFields ==
  ASSUME Endianness, NEW f \in Sendable
  PROVE  /\ f[2] \in Meant
         /\ Wire(f) \in Digits /\ Len(Wire(f)) > 0
         /\ pb_write(f[1], f[2]) = Wire(f)
         /\ pr_read(f[1], Wire(f)) = f[2]
         /\ \A at : packet[at + 1] = Wire(f)[1] => SizeAt(f[1], at) = Len(Wire(f))
<1>1. PICK kind \in DOMAIN FieldValues : f \in {<<kind, v>> : v \in FieldValues[kind]}
  BY DEF Sendable
<1>2. PICK v \in FieldValues[kind] : f = <<kind, v>>
  BY <1>1
<1>3. f[1] = kind /\ f[2] = v
  BY <1>2
<1>4. Crosses(kind, v)
  BY FieldCrosses
<1>5. v \in Meant
  BY DEF Meant
<1>6. QED
  BY <1>2, <1>3, <1>4, <1>5 DEF Crosses

LEMMA InitFields ==
  ASSUME FieldsInit
  PROVE  FieldsInv
<1>1. Len(<<>>) = 0 /\ <<>> \in Digits /\ <<>> \in Seq(Sendable) /\ <<>> \in Seq(Meant)
  BY EmptySeq DEF Digits
<1>2. LaidOut([k \in 0 .. 0 |-> 0], <<>>, <<>>, 0)
  <2>1. /\ [k \in 0 .. 0 |-> 0] \in [0 .. 0 -> Nat] /\ [k \in 0 .. 0 |-> 0][0] = 0 /\ 0 <= 0
        /\ 1 .. 0 = {} /\ \A k \in 0 .. 0 : k = 0
    BY SMT
  <2>2. QED
    BY <1>1, <2>1 DEF LaidOut
<1>3. 1 .. 0 = {} /\ 0 <= 0 /\ [k \in 0 .. 0 |-> 0][0] = 0
  BY SMT
<1>4. Typed /\ Stages
  BY <1>1 DEF FieldsInit, Typed, Stages
<1>5. Contents
  BY <1>1, <1>3 DEF FieldsInit, Contents
<1>6. Layout
  BY <1>1, <1>2, <1>3 DEF FieldsInit, Layout
<1>7. QED
  BY <1>4, <1>5, <1>6 DEF FieldsInv

LEMMA EndiannessKnown ==
  ASSUME FieldsInv, init_endianness
  PROVE  FieldsInv'
<1>1. /\ stage = "start" /\ stage' = "receive" /\ host' = host
      /\ IS_LITTLE_ENDIAN' = (host = "little")
      /\ fields' = fields /\ packet' = packet /\ pos' = pos /\ got' = got /\ reply' = reply
  BY DEF init_endianness
<1>2. Typed' /\ Stages'
  BY <1>1 DEF FieldsInv, Typed, Stages, Endianness
<1>3. Contents'
  BY <1>1 DEF FieldsInv, Contents
<1>4. Layout'
  BY <1>1 DEF FieldsInv, Layout
<1>5. QED
  BY <1>2, <1>3, <1>4 DEF FieldsInv

LEMMA FieldReceived ==
  ASSUME FieldsInv, NEW f \in Sendable, Receive(f)
  PROVE  FieldsInv'
<1>1. /\ stage = "receive" /\ Endianness /\ got = <<>> /\ reply = <<>>
      /\ fields' = Append(fields, f) /\ packet' = packet \o Wire(f)
      /\ host' = host /\ IS_LITTLE_ENDIAN' = IS_LITTLE_ENDIAN
      /\ pos' = pos /\ got' = got /\ reply' = reply
  BY DEF Receive, FieldsInv, Typed, Stages
<1>2. stage' \in {"receive", "read"}
  BY DEF Receive
<1>3. /\ fields \in Seq(Sendable) /\ packet \in Digits
      /\ Len(<<>>) = 0 /\ <<>> \in Digits /\ <<>> \in Seq(Meant)
  BY EmptySeq DEF FieldsInv, Typed, Digits
<1>4. Wire(f) \in Digits /\ \A k \in 1 .. Len(fields) : Wire(fields[k]) \in Digits
  <2>1. \A k \in 1 .. Len(fields) : fields[k] \in Sendable
    BY <1>3, ElementOfSeq
  <2>2. QED
    BY <1>1, <2>1, SentFields
<1>5. PICK off : LaidOut(off, fields, packet, Len(reply)) /\ pos = off[Len(got)]
  BY <1>1 DEF FieldsInv, Layout
<1>6. PICK more : LaidOut(more, fields', packet', Len(reply))
  BY <1>1, <1>3, <1>4, <1>5, LaidOutMore
<1>7. more[Len(got)] = pos
  BY <1>1, <1>3, <1>5, <1>6 DEF LaidOut
<1>8. /\ fields' \in Seq(Sendable) /\ Len(fields') = Len(fields) + 1 /\ Len(fields) \in Nat
      /\ packet' \in Digits
  BY <1>1, <1>3, <1>4, AppendProperties, LenProperties, Joined
<1>9. Typed' /\ Stages'
  BY <1>1, <1>2, <1>3, <1>8 DEF Typed, Stages, FieldsInv, Endianness
<1>10. Contents'
  <2>1. PICK n \in Nat : n = Len(fields)
    BY <1>8
  <2>2. 0 <= n + 1 /\ 1 .. 0 = {}
    BY SMT
  <2>3. QED
    BY <1>1, <1>3, <1>8, <2>1, <2>2 DEF Contents
<1>11. Layout'
  BY <1>1, <1>6, <1>7 DEF Layout
<1>12. QED
  BY <1>9, <1>10, <1>11 DEF FieldsInv

(* The reader takes the next field as it was sent, and never too much.     *)
LEMMA FieldRead ==
  ASSUME FieldsInv, ReadField
  PROVE  FieldsInv'
<1>1. /\ stage = "read" /\ Endianness /\ Len(got) < Len(fields) /\ reply = <<>>
      /\ fields \in Seq(Sendable) /\ packet \in Digits /\ got \in Seq(Meant)
      /\ host' = host /\ IS_LITTLE_ENDIAN' = IS_LITTLE_ENDIAN
      /\ fields' = fields /\ packet' = packet /\ reply' = reply
  BY DEF ReadField, FieldsInv, Typed, Stages
<1>2. PICK off : LaidOut(off, fields, packet, Len(reply)) /\ pos = off[Len(got)]
  BY <1>1 DEF FieldsInv, Layout
<1>3. PICK g \in Nat, n \in Nat, m \in Nat : g = Len(got) /\ n = Len(fields) /\ m = Len(packet)
  BY <1>1, LenProperties DEF Digits
<1>4. g + 1 \in 1 .. n /\ g \in 0 .. n /\ g + 1 \in 0 .. n /\ (g + 1) - 1 = g
  <2>1. g < n
    BY <1>1, <1>3
  <2>2. QED
    BY SMT, <2>1
<1>5. PICK f \in Sendable : f = fields[g + 1]
  BY <1>1, <1>3, <1>4, ElementOfSeq
<1>6. PICK w \in Digits, l \in Nat :
           /\ w = Wire(f) /\ l = Len(w) /\ l > 0
           /\ pr_read(f[1], w) = f[2] /\ f[2] \in Meant
           /\ \A at : packet[at + 1] = w[1] => SizeAt(f[1], at) = l
  BY <1>1, SentFields, LenProperties DEF Digits
<1>7. PICK j \in 1 .. n : j = g + 1 /\ j - 1 = g
  BY <1>4
<1>8. /\ off[j] = off[j - 1] + Len(Wire(fields[j]))
      /\ \A i \in 1 .. Len(Wire(fields[j])) : packet[off[j - 1] + i] = Wire(fields[j])[i]
  BY <1>2, <1>3 DEF LaidOut
<1>9. off[g + 1] = off[g] + l /\ \A i \in 1 .. l : packet[off[g] + i] = w[i]
  BY <1>5, <1>6, <1>7, <1>8
<1>10. PICK o \in Nat, e \in Nat : o = pos /\ o = off[g] /\ e = off[g + 1] /\ e <= m
  BY <1>2, <1>3, <1>4 DEF LaidOut
<1>11. e = o + l /\ \A i \in 1 .. l : packet[o + i] = w[i]
  BY <1>9, <1>10
<1>12. packet[o + 1] = w[1]
  <2>1. 1 \in 1 .. l
    BY SMT, <1>6
  <2>2. QED
    BY <1>11, <2>1
<1>13. SizeAt(f[1], o) = l
  BY <1>6, <1>12
<1>14. SubSeq(packet, o + 1, o + l) = w
  BY <1>1, <1>3, <1>6, <1>10, <1>11, Slice
<1>15. fields[Len(got) + 1][1] = f[1] /\ pos + SizeAt(f[1], pos) = e /\ ~(e > Len(packet))
  <2>1. ~(e > m)
    BY SMT, <1>10
  <2>2. QED
    BY <1>3, <1>5, <1>10, <1>11, <1>13, <2>1
<1>16. /\ got' = Append(got, f[2]) /\ pos' = e
       /\ stage' = IF Len(got') = Len(fields) THEN "write" ELSE stage
  <2>1. /\ got' = Append(got, pr_read(f[1], SubSeq(packet, pos + 1, e))) /\ pos' = e
        /\ stage' = IF Len(got') = Len(fields) THEN "write" ELSE stage
    BY <1>15 DEF ReadField
  <2>2. SubSeq(packet, pos + 1, e) = w
    BY <1>10, <1>11, <1>14
  <2>3. QED
    BY <1>6, <2>1, <2>2
<1>17. PICK gs : gs = got'
  OBVIOUS
<1>18. /\ gs \in Seq(Meant) /\ Len(gs) = g + 1 /\ gs # <<>>
       /\ gs[g + 1] = f[2] /\ \A k \in 1 .. g : gs[k] = got[k]
  BY <1>1, <1>3, <1>6, <1>16, <1>17, AppendProperties
<1>19. stage' = IF g + 1 = n THEN "write" ELSE "read"
  BY <1>1, <1>3, <1>16, <1>17, <1>18
<1>20. Typed'
  BY <1>1, <1>17, <1>18, <1>19 DEF FieldsInv, Typed, Endianness
<1>21. Stages'
  <2>1. off[n] = m
    BY <1>2, <1>3 DEF LaidOut
  <2>2. QED
    BY <1>1, <1>3, <1>10, <1>16, <1>17, <1>18, <1>19, <2>1 DEF Stages
<1>22. Contents'
  <2>1. g + 1 <= n /\ \A k \in 1 .. g + 1 : k \in 1 .. g \/ k = g + 1
    BY SMT, <1>4
  <2>2. \A k \in 1 .. g : got[k] = fields[k][2]
    BY <1>3 DEF FieldsInv, Contents
  <2>3. \A k \in 1 .. g + 1 : gs[k] = fields[k][2]
    BY <1>5, <1>18, <2>1, <2>2
  <2>4. \A i \in 1 .. Len(reply) : reply[i] = packet[i]
    BY DEF FieldsInv, Contents
  <2>5. QED
    BY <1>1, <1>3, <1>17, <1>18, <2>1, <2>3, <2>4 DEF Contents
<1>23. Layout'
  <2>1. pos' = off[Len(got')]
    BY <1>10, <1>16, <1>17, <1>18
  <2>2. QED
    BY <1>1, <1>2, <2>1 DEF Layout
<1>24. QED
  BY <1>20, <1>21, <1>22, <1>23 DEF FieldsInv

(* The answer grows by the bytes of the next field of the packet.          *)
LEMMA FieldAnswered ==
  ASSUME FieldsInv, WriteField
  PROVE  FieldsInv'
<1>1. /\ stage = "write" /\ Endianness /\ got # <<>> /\ Len(got) = Len(fields)
      /\ pos = Len(packet) /\ reply \in Digits
      /\ fields \in Seq(Sendable) /\ packet \in Digits /\ got \in Seq(Meant)
      /\ reply' = reply \o pb_write(fields[1][1], Head(got))
      /\ got' = Tail(got) /\ fields' = Tail(fields)
      /\ host' = host /\ IS_LITTLE_ENDIAN' = IS_LITTLE_ENDIAN
      /\ stage' = stage /\ packet' = packet /\ pos' = pos
  BY DEF WriteField, FieldsInv, Typed, Stages
<1>2. PICK off : LaidOut(off, fields, packet, Len(reply))
  BY DEF FieldsInv, Layout
<1>3. PICK n \in Nat : Len(got) = n + 1
  <2>1. Len(got) \in Nat \ {0}
    BY <1>1, EmptySeq
  <2>2. PICK n \in Nat : n = Len(got) - 1 /\ n + 1 = Len(got)
    BY SMT, <2>1
  <2>3. QED
    BY <2>2
<1>4. fields # <<>>
  <2>1. Len(<<>>) = 0 /\ n + 1 # 0
    BY SMT, EmptySeq
  <2>2. QED
    BY <1>1, <1>3, <2>1
<1>5. 1 \in 1 .. n + 1 /\ 1 \in 0 .. n + 1 /\ 1 - 1 = 0
  BY SMT
<1>6. PICK f \in Sendable : f = fields[1]
  BY <1>1, <1>3, <1>5, ElementOfSeq
<1>7. PICK w \in Digits, l \in Nat :
           w = Wire(f) /\ l = Len(w) /\ pb_write(f[1], f[2]) = w
  BY <1>1, SentFields, LenProperties DEF Digits
<1>8. Head(got) = f[2]
  <2>1. Head(got) = got[1]
    BY <1>1
  <2>2. QED
    BY <1>1, <1>3, <1>5, <1>6, <2>1 DEF FieldsInv, Contents
<1>9. PICK s \in Digits : s = reply' /\ s = reply \o w
  BY <1>1, <1>6, <1>7, <1>8, Joined
<1>10. PICK a \in Nat, m \in Nat : a = Len(reply) /\ m = Len(packet)
  BY <1>1, LenProperties DEF Digits
<1>11. /\ Len(s) = a + l
       /\ \A i \in 1 .. a : s[i] = reply[i]
       /\ \A i \in 1 .. l : s[a + i] = w[i]
  <2>1. PICK r \in Digits : r = reply /\ a = Len(r)
    BY <1>1, <1>10
  <2>2. /\ Len(r \o w) = Len(r) + Len(w)
        /\ \A i \in 1 .. Len(r) : (r \o w)[i] = r[i]
        /\ \A i \in 1 .. Len(w) : (r \o w)[Len(r) + i] = w[i]
    BY Joined
  <2>3. s = r \o w
    BY <1>9, <2>1
  <2>4. QED
    BY <1>7, <2>1, <2>2, <2>3
<1>12. PICK rest : LaidOut(rest, fields', packet', Len(reply'))
  BY <1>1, <1>2, <1>4, <1>6, <1>7, <1>9, <1>10, <1>11, LaidOutRest
<1>13. PICK gs, fs : gs = got' /\ fs = fields'
  OBVIOUS
<1>14. /\ gs \in Seq(Meant) /\ fs \in Seq(Sendable) /\ Len(gs) = n /\ Len(fs) = n
       /\ \A k \in 1 .. n : gs[k] = got[k + 1] /\ fs[k] = fields[k + 1]
  <2>1. /\ Tail(got) \in Seq(Meant) /\ Len(Tail(got)) = Len(got) - 1
        /\ \A k \in 1 .. Len(Tail(got)) : Tail(got)[k] = got[k + 1]
    BY <1>1, HeadTailProperties
  <2>2. /\ Tail(fields) \in Seq(Sendable) /\ Len(Tail(fields)) = Len(fields) - 1
        /\ \A k \in 1 .. Len(Tail(fields)) : Tail(fields)[k] = fields[k + 1]
    BY <1>1, <1>4, HeadTailProperties
  <2>3. (n + 1) - 1 = n
    BY SMT
  <2>4. QED
    BY <1>1, <1>3, <1>13, <2>1, <2>2, <2>3
<1>15. Typed'
  BY <1>1, <1>9, <1>13, <1>14 DEF FieldsInv, Typed, Endianness
<1>16. Stages'
  BY <1>1, <1>13, <1>14 DEF Stages
<1>17. Contents'
  <2>1. n <= n /\ \A k \in 1 .. n : k + 1 \in 1 .. n + 1
    BY SMT
  <2>2. \A k \in 1 .. n + 1 : got[k] = fields[k][2]
    BY <1>3 DEF FieldsInv, Contents
  <2>3. \A k \in 1 .. n : gs[k] = fs[k][2]
    BY <1>14, <2>1, <2>2
  <2>4. ASSUME NEW i \in 1 .. a + l
        PROVE  s[i] = packet[i]
    <3>1. CASE i <= a
      <4>1. i \in 1 .. a
        BY SMT, <3>1
      <4>2. \A k \in 1 .. a : reply[k] = packet[k]
        BY <1>10 DEF FieldsInv, Contents
      <4>3. QED
        BY <1>11, <4>1, <4>2
    <3>2. CASE ~(i <= a)
      <4>1. PICK k \in 1 .. l : i = a + k
        <5>1. i - a \in 1 .. l /\ i = a + (i - a)
          BY SMT, <3>2
        <5>2. QED
          BY <5>1
      <4>2. PICK j \in 1 .. n + 1 : j = 1 /\ j - 1 = 0
        BY <1>5
      <4>3. \A h \in 1 .. Len(Wire(fields[j])) :
              packet[off[j - 1] + h] = Wire(fields[j])[h]
        BY <1>1, <1>2, <1>3 DEF LaidOut
      <4>4. off[0] = a
        BY <1>2, <1>10 DEF LaidOut
      <4>5. packet[a + k] = w[k]
        BY <1>6, <1>7, <4>2, <4>3, <4>4
      <4>6. QED
        BY <1>11, <4>1, <4>5
    <3>3. QED
      BY <3>1, <3>2
  <2>5. QED
    BY <1>1, <1>9, <1>11, <1>13, <1>14, <2>1, <2>3, <2>4 DEF Contents
<1>18. Layout'
  BY <1>1, <1>12 DEF Layout
<1>19. QED
  BY <1>15, <1>16, <1>17, <1>18 DEF FieldsInv

LEMMA PacketReturned ==
  ASSUME FieldsInv, Return
  PROVE  FieldsInv'
<1>1. /\ stage = "write" /\ Endianness /\ got = <<>> /\ Len(fields) = 0
      /\ fields \in Seq(Sendable)
      /\ stage' = "receive" /\ packet' = <<>> /\ pos' = 0 /\ reply' = <<>>
      /\ host' = host /\ IS_LITTLE_ENDIAN' = IS_LITTLE_ENDIAN
      /\ fields' = fields /\ got' = got
  <2>1. Len(<<>>) = 0
    BY EmptySeq
  <2>2. QED
    BY <2>1 DEF Return, FieldsInv, Typed, Stages
<1>2. fields = <<>>
  BY <1>1, EmptySeq
<1>3. Len(<<>>) = 0 /\ <<>> \in Digits /\ <<>> \in Seq(Sendable) /\ <<>> \in Seq(Meant)
  BY EmptySeq DEF Digits
<1>4. /\ [k \in 0 .. 0 |-> 0] \in [0 .. 0 -> Nat] /\ [k \in 0 .. 0 |-> 0][0] = 0 /\ 0 <= 0
      /\ 1 .. 0 = {} /\ \A k \in 0 .. 0 : k = 0
  BY SMT
<1>5. LaidOut([k \in 0 .. 0 |-> 0], <<>>, <<>>, 0)
  BY <1>3, <1>4 DEF LaidOut
<1>6. Typed' /\ Stages'
  BY <1>1, <1>2, <1>3 DEF FieldsInv, Typed, Stages, Endianness
<1>7. Contents'
  BY <1>1, <1>2, <1>3, <1>4 DEF Contents
<1>8. Layout'
  BY <1>1, <1>2, <1>3, <1>4, <1>5 DEF Layout
<1>9. QED
  BY <1>6, <1>7, <1>8 DEF FieldsInv

LEMMA FieldsInvKept ==
  ASSUME FieldsInv, [FieldsNext]_fieldVars
  PROVE  FieldsInv'
<1>1. CASE init_endianness
  BY <1>1, EndiannessKnown
<1>2. CASE \E kind \in DOMAIN FieldValues : \E v \in FieldValues[kind] : Receive(<<kind, v>>)
  <2>1. PICK kind \in DOMAIN FieldValues : \E v \in FieldValues[kind] : Receive(<<kind, v>>)
    BY <1>2
  <2>2. PICK v \in FieldValues[kind] : Receive(<<kind, v>>)
    BY <2>1
  <2>3. <<kind, v>> \in Sendable
    BY DEF Sendable
  <2>4. QED
    BY <2>2, <2>3, FieldReceived
<1>3. CASE ReadField
  BY <1>3, FieldRead
<1>4. CASE WriteField
  BY <1>4, FieldAnswered
<1>5. CASE Return
  BY <1>5, PacketReturned
<1>6. CASE UNCHANGED fieldVars
  BY <1>6 DEF fieldVars, FieldsInv, Typed, Stages, Contents, Layout, Endianness
<1>7. QED
  BY <1>1, <1>2, <1>3, <1>4, <1>5, <1>6 DEF FieldsNext
-----------------------------------------------------------------------------
LEMMA FieldsInvAlways ==
  FieldsSpec => []FieldsInv
<1>1. FieldsInit => FieldsInv
  BY InitFields
<1>2. FieldsInv /\ [FieldsNext]_fieldVars => FieldsInv'
  BY FieldsInvKept
<1>3. QED
  BY <1>1, <1>2, PTL DEF FieldsSpec

(* On hosts of either byte order, whatever fields a packet has and in      *)
(* whatever order, the pr_read_... functions of packet.c return the values *)
(* that the client meant, never abort, and end where the packet ends.      *)
THEOREM FieldsCross ==
  FieldsSpec => []FieldsUnderstood
<1>1. FieldsInv => FieldsUnderstood
  <2> SUFFICES ASSUME FieldsInv
               PROVE  FieldsUnderstood
    OBVIOUS
  <2>2. DOMAIN got = 1 .. Len(got)
    BY LenProperties DEF FieldsInv, Typed
  <2>3. stage # "aborted"
    BY DEF FieldsInv, Typed
  <2>4. QED
    BY <2>2, <2>3 DEF FieldsInv, Stages, Contents, FieldsUnderstood
<1>2. QED
  BY <1>1, FieldsInvAlways, PTL

(* On hosts of either byte order, the pb_write_... functions put into the  *)
(* answer the bytes that the values it is made from came in.               *)
THEOREM AnswersCross ==
  FieldsSpec => []ReplyOnTheWire
<1>1. FieldsInv => ReplyOnTheWire
  <2> SUFFICES ASSUME FieldsInv, stage = "write"
               PROVE  IsPrefix(reply, packet) /\ (got = <<>> => reply = packet)
    BY DEF ReplyOnTheWire
  <2>2. PICK r \in Digits, p \in Digits : r = reply /\ p = packet
    BY DEF FieldsInv, Typed
  <2>3. PICK off : LaidOut(off, fields, packet, Len(reply))
    BY DEF FieldsInv, Layout
  <2>4. PICK a \in Nat, m \in Nat, n \in Nat : a = Len(r) /\ m = Len(p) /\ n = Len(fields)
    BY LenProperties DEF FieldsInv, Typed, Digits
  <2>5. off[0] = a /\ off[n] = m /\ \A k \in 0 .. n : off[k] <= m
    BY <2>2, <2>3, <2>4 DEF LaidOut
  <2>6. a <= m
    <3>1. 0 \in 0 .. n
      BY SMT
    <3>2. QED
      BY <2>5, <3>1
  <2>7. \A i \in 1 .. a : r[i] = p[i]
    BY <2>2, <2>4 DEF FieldsInv, Contents
  <2>8. IsPrefix(r, p)
    <3>1. 0 \in Nat /\ 0 + 1 = 1 /\ 0 + a = a /\ \A i \in 1 .. a : 0 + i = i
      BY SMT
    <3>2. SubSeq(p, 0 + 1, 0 + a) = r
      BY <2>4, <2>6, <2>7, <3>1, Slice
    <3>3. SubSeq(r, 1, a) = r
      BY <2>4, SubSeqFull DEF Digits
    <3>4. QED
      BY <2>4, <2>6, <3>1, <3>2, <3>3 DEF IsPrefix
  <2>9. ASSUME got = <<>>
        PROVE  r = p
    <3>1. n = 0
      <4>1. Len(<<>>) = 0
        BY EmptySeq
      <4>2. QED
        BY <2>4, <2>9, <4>1 DEF FieldsInv, Stages
    <3>2. a = m
      BY <2>5, <3>1
    <3>3. QED
      BY <2>4, <2>7, <3>2, SeqEqual DEF Digits
  <2>10. QED
    BY <2>2, <2>8, <2>9
<1>2. QED
  BY <1>1, FieldsInvAlways, PTL
=============================================================================
