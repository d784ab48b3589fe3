--------------------------- MODULE FileBytesProofs ---------------------------
(***************************************************************************)
(* Proofs about FileBytes for every file, marker, base and node: what the  *)
(* search for the metadata finds, and that records and numbers are read    *)
(* back as they were written.                                              *)
(***************************************************************************)
EXTENDS FileBytes, TLAPS, SequenceTheorems

\* A byte has at least four values.
LEMMA ByteIsNat == Byte \in Nat /\ Byte >= 4 /\ Nibble \in Nat /\ Nibble >= 2
<1>1. Nibble \in Nat /\ Nibble >= 2
  BY FileAssumption
<1>2. Nibble * Nibble >= 2 * Nibble
  BY <1>1
<1> QED BY <1>1, <1>2 DEF Byte

\* The recursive definition of Weight means what it says.
LEMMA WeightUnfolds ==
  /\ Weight[0] = 1
  /\ \A k \in 1 .. 8 : Weight[k] = Byte * Weight[k - 1]
<1> DEFINE b1 == Byte * 1
           b2 == Byte * b1
           b3 == Byte * b2
           b4 == Byte * b3
           b5 == Byte * b4
           b6 == Byte * b5
           b7 == Byte * b6
           b8 == Byte * b7
           f == [k \in 0 .. 8 |->
                   IF k = 0 THEN 1 ELSE IF k = 1 THEN b1 ELSE IF k = 2 THEN b2
                   ELSE IF k = 3 THEN b3 ELSE IF k = 4 THEN b4 ELSE IF k = 5 THEN b5
                   ELSE IF k = 6 THEN b6 ELSE IF k = 7 THEN b7 ELSE b8]
           g(h) == [k \in 0 .. 8 |-> IF k = 0 THEN 1 ELSE Byte * h[k - 1]]
<1>1. /\ b1 = Byte * 1 /\ b2 = Byte * b1 /\ b3 = Byte * b2 /\ b4 = Byte * b3
      /\ b5 = Byte * b4 /\ b6 = Byte * b5 /\ b7 = Byte * b6 /\ b8 = Byte * b7
  OBVIOUS
<1> HIDE DEF b1, b2, b3, b4, b5, b6, b7, b8
<1>2. \A k \in 1 .. 8 : f[k] = Byte * f[k - 1]
  <2>1. TAKE k \in 1 .. 8
  <2>2. k \in {1, 2, 3, 4, 5, 6, 7, 8}
    OBVIOUS
  <2> QED BY <1>1, <2>2
<1>3. f[0] = 1
  OBVIOUS
<1>4. f = g(f)
  BY <1>2, <1>3
<1>5. Weight = CHOOSE h : h = g(h)
  BY DEF Weight
<1> HIDE DEF f
<1>6. Weight = g(Weight)
  BY <1>4, <1>5
<1> QED BY <1>6

\* Weights are positive, and each is at least four times the one below.
LEMMA WeightGrows ==
  /\ \A k \in 0 .. 8 : Weight[k] \in Nat /\ Weight[k] > 0
  /\ \A k \in 1 .. 8 : Weight[k] >= 4 * Weight[k - 1]
  /\ \A j, k \in 0 .. 8 : j <= k => Weight[j] <= Weight[k]
<1>0. \A w \in Nat : w > 0 => Byte * w \in Nat /\ Byte * w > 0 /\ Byte * w >= 4 * w
  BY ByteIsNat
<1> DEFINE P(k) == Weight[k] \in Nat /\ Weight[k] > 0
           Q(k) == P(k) /\ Weight[k] >= 4 * Weight[k - 1]
<1>1. /\ Weight[1] = Byte * Weight[0] /\ Weight[2] = Byte * Weight[1]
      /\ Weight[3] = Byte * Weight[2] /\ Weight[4] = Byte * Weight[3]
      /\ Weight[5] = Byte * Weight[4] /\ Weight[6] = Byte * Weight[5]
      /\ Weight[7] = Byte * Weight[6] /\ Weight[8] = Byte * Weight[7]
  BY WeightUnfolds
<1>2. P(0)
  BY WeightUnfolds
<1>3. Q(1)
  BY <1>0, <1>1, <1>2
<1>4. Q(2)
  BY <1>0, <1>1, <1>3
<1>5. Q(3)
  BY <1>0, <1>1, <1>4
<1>6. Q(4)
  BY <1>0, <1>1, <1>5
<1>7. Q(5)
  BY <1>0, <1>1, <1>6
<1>8. Q(6)
  BY <1>0, <1>1, <1>7
<1>9. Q(7)
  BY <1>0, <1>1, <1>8
<1>10. Q(8)
  BY <1>0, <1>1, <1>9
<1> USE <1>2, <1>3, <1>4, <1>5, <1>6, <1>7, <1>8, <1>9, <1>10
<1>11. \A k \in 0 .. 8 : k \in {0, 1, 2, 3, 4, 5, 6, 7, 8}
  OBVIOUS
<1> QED BY <1>11

\* Division by a product divides twice; a quotient is determined by what it
\* leaves.
LEMMA DivTwice ==
  ASSUME NEW x \in Nat, NEW b \in Nat, b > 0, NEW w \in Nat, w > 0
  PROVE  x \div (b * w) = (x \div w) \div b
OBVIOUS

LEMMA DivIs ==
  ASSUME NEW d \in Nat, d > 0, NEW q \in Nat, NEW r \in Nat, r < d
  PROVE  (q * d + r) \div d = q /\ (q * d + r) % d = r
OBVIOUS

LEMMA DivMod ==
  ASSUME NEW x \in Nat, NEW d \in Nat, d > 0
  PROVE  /\ x = (x \div d) * d + (x % d) /\ x \div d \in Nat /\ x \div d <= x
         /\ x % d \in Nat /\ x % d < d
OBVIOUS

\* The bytes of a number are put together by weight.
LEMMA OneByteMore ==
  ASSUME NEW x \in Nat, NEW k \in 0 .. 7
  PROVE  (x \div Weight[k + 1]) * Byte + ((x \div Weight[k]) % Byte) = x \div Weight[k]
<1> DEFINE w == Weight[k]
           y == x \div w
<1>1. w \in Nat /\ w > 0 /\ Byte \in Nat /\ Byte > 0
  BY WeightGrows, ByteIsNat
<1>2. Weight[k + 1] = Byte * w
  <2>1. k + 1 \in 1 .. 8 /\ (k + 1) - 1 = k
    OBVIOUS
  <2> QED BY <2>1, WeightUnfolds
<1> HIDE DEF w
<1>3. y \in Nat
  BY <1>1, DivMod
<1>4. x \div (Byte * w) = y \div Byte
  BY <1>1, DivTwice
<1> HIDE DEF y
<1>5. y = (y \div Byte) * Byte + (y % Byte)
  BY <1>1, <1>3, DivMod
<1> QED BY <1>2, <1>4, <1>5 DEF y, w

LEMMA Whole ==
  ASSUME NEW k \in 0 .. 8, NEW x \in 0 .. Weight[k] - 1
  PROVE  x \div Weight[k] = 0
<1>1. Weight[k] \in Nat /\ Weight[k] > 0 /\ x \in Nat /\ x < Weight[k]
  BY WeightGrows
<1>2. 0 * Weight[k] + x = x
  BY <1>1
<1> QED BY <1>1, <1>2, DivIs

LEMMA Digits3 ==
  ASSUME NEW x \in 0 .. Weight[3] - 1
  PROVE  ((x \div Weight[2]) % Byte) * Weight[2] + ((x \div Weight[1]) % Byte) * Byte
            + ((x \div Weight[0]) % Byte) = x
<1> DEFINE q(k) == x \div Weight[k]
           d(k) == (x \div Weight[k]) % Byte
<1>1. x \in Nat /\ Byte \in Nat /\ Byte > 0 /\ Weight[3] \in Nat
  BY WeightGrows, ByteIsNat
<1>2. q(0) = x /\ q(3) = 0
  <2>1. x \div Weight[0] = x
    BY <1>1, WeightUnfolds
  <2> QED BY <2>1, Whole
<1>3. q(3) * Byte + d(2) = q(2) /\ q(2) * Byte + d(1) = q(1) /\ q(1) * Byte + d(0) = q(0)
  <2>1. q(2 + 1) * Byte + d(2) = q(2)
    BY <1>1, OneByteMore
  <2>2. q(1 + 1) * Byte + d(1) = q(1)
    BY <1>1, OneByteMore
  <2>3. q(0 + 1) * Byte + d(0) = q(0)
    BY <1>1, OneByteMore
  <2> QED BY <2>1, <2>2, <2>3
<1>4. Weight[2] = Byte * Byte
  <2>1. Weight[1] = Byte * Weight[0] /\ Weight[2] = Byte * Weight[1]
    BY WeightUnfolds
  <2> QED BY <2>1, <1>1, WeightUnfolds
<1>5. \A k \in 0 .. 3 : q(k) \in Nat /\ d(k) \in Nat
  BY <1>1, WeightGrows, DivMod
<1>6. ASSUME NEW q1 \in Nat, NEW q2 \in Nat, NEW d0 \in Nat, NEW d1 \in Nat, NEW d2 \in Nat,
             d2 = q2, q2 * Byte + d1 = q1, q1 * Byte + d0 = x
      PROVE  d2 * (Byte * Byte) + d1 * Byte + d0 = x
  BY <1>1, <1>6
<1>7. d(2) * (Byte * Byte) + d(1) * Byte + d(0) = x
  <2>1. d(2) = q(2) /\ q(2) * Byte + d(1) = q(1) /\ q(1) * Byte + d(0) = x
    <3>1. 0 * Byte = 0
      BY <1>1
    <3> QED BY <1>2, <1>3, <1>5, <3>1
  <2> QED BY <1>5, <1>6, <2>1
<1> QED BY <1>4, <1>7

LEMMA Digits4 ==
  ASSUME NEW x \in 0 .. Weight[4] - 1
  PROVE  ((x \div Weight[3]) % Byte) * Weight[3] + ((x \div Weight[2]) % Byte) * Weight[2]
            + ((x \div Weight[1]) % Byte) * Byte + ((x \div Weight[0]) % Byte) = x
<1> DEFINE q(k) == x \div Weight[k]
           d(k) == (x \div Weight[k]) % Byte
<1>1. x \in Nat /\ Byte \in Nat /\ Byte > 0 /\ Weight[4] \in Nat
  BY WeightGrows, ByteIsNat
<1>2. q(0) = x /\ q(4) = 0
  <2>1. x \div Weight[0] = x
    BY <1>1, WeightUnfolds
  <2> QED BY <2>1, Whole
<1>3. /\ q(4) * Byte + d(3) = q(3) /\ q(3) * Byte + d(2) = q(2)
      /\ q(2) * Byte + d(1) = q(1) /\ q(1) * Byte + d(0) = q(0)
  <2>1. q(3 + 1) * Byte + d(3) = q(3)
    BY <1>1, OneByteMore
  <2>2. q(2 + 1) * Byte + d(2) = q(2)
    BY <1>1, OneByteMore
  <2>3. q(1 + 1) * Byte + d(1) = q(1)
    BY <1>1, OneByteMore
  <2>4. q(0 + 1) * Byte + d(0) = q(0)
    BY <1>1, OneByteMore
  <2> QED BY <2>1, <2>2, <2>3, <2>4
<1>4. Weight[2] = Byte * Byte /\ Weight[3] = Byte * (Byte * Byte)
  <2>1. Weight[1] = Byte * Weight[0] /\ Weight[2] = Byte * Weight[1]
        /\ Weight[3] = Byte * Weight[2]
    BY WeightUnfolds
  <2> QED BY <2>1, <1>1, WeightUnfolds
<1>5. \A k \in 0 .. 4 : q(k) \in Nat /\ d(k) \in Nat
  BY <1>1, WeightGrows, DivMod
<1>6. d(3) * (Byte * (Byte * Byte)) + d(2) * (Byte * Byte) + d(1) * Byte + d(0) = x
  <2>1. /\ q(1) \in Nat /\ q(2) \in Nat /\ q(3) \in Nat
        /\ d(0) \in Nat /\ d(1) \in Nat /\ d(2) \in Nat /\ d(3) \in Nat
    <3> HIDE DEF q, d
    <3> QED BY <1>5
  <2> HIDE DEF q, d
  <2>2. d(3) = q(3) /\ q(1) * Byte + d(0) = x
    <3>1. 0 * Byte = 0
      BY <1>1
    <3> QED BY <1>2, <1>3, <2>1, <3>1
  <2>3. q(1) = d(3) * (Byte * Byte) + d(2) * Byte + d(1)
    BY <1>1, <1>3, <2>1, <2>2
  <2>4. q(1) * Byte = d(3) * (Byte * (Byte * Byte)) + d(2) * (Byte * Byte) + d(1) * Byte
    BY <1>1, <2>1, <2>3
  <2> QED BY <2>2, <2>4
<1> QED BY <1>4, <1>6

-----------------------------------------------------------------------------
\* The bytes of a number, as a sequence.
LEMMA BigEndianBytes ==
  ASSUME NEW v \in Nat, NEW n \in 0 .. 8
  PROVE  /\ BigEndian(v, n) \in Seq(Nat) /\ Len(BigEndian(v, n)) = n
         /\ \A i \in 1 .. n : BigEndian(v, n)[i] = (v \div Weight[n - i]) % Byte
<1>1. \A i \in 1 .. n : (v \div Weight[n - i]) % Byte \in Nat
  <2>1. \A k \in 0 .. 8 : v \div Weight[k] \in Nat
    BY WeightGrows, DivMod
  <2>2. \A q \in Nat : q % Byte \in Nat
    BY ByteIsNat
  <2>3. \A i \in 1 .. n : n - i \in 0 .. 8
    OBVIOUS
  <2> QED BY <2>1, <2>2, <2>3
<1> DEFINE s == [i \in 1 .. n |-> (v \div Weight[n - i]) % Byte]
<1>2. s \in Seq(Nat) /\ Len(s) = n
  <2>1. \A i \in 1 .. n : s[i] \in Nat
    BY <1>1
  <2>2. s \in [1 .. n -> Nat]
    BY <2>1
  <2> HIDE DEF s
  <2> QED BY <2>2
<1> QED BY <1>2 DEF BigEndian

\* Bytes in a row: the file has sequence s at offset p.
Has(p, s) == \A i \in 1 .. Len(s) : file_content[p + i] = s[i]

\* The getters of three and of four bytes undo BigEndian.
LEMMA Uint24Reads ==
  ASSUME NEW p \in Nat, NEW v \in 0 .. Weight[3] - 1, Has(p, BigEndian(v, 3))
  PROVE  get_uint24(p) = v
<1>1. v \in Nat
  BY WeightGrows
<1>2. /\ at(p) = (v \div Weight[2]) % Byte /\ at(p + 1) = (v \div Weight[1]) % Byte
      /\ at(p + 2) = (v \div Weight[0]) % Byte
  <2>1. \A i \in 1 .. 3 : file_content[p + i] = (v \div Weight[3 - i]) % Byte
    <3>1. /\ Len(BigEndian(v, 3)) = 3
          /\ \A i \in 1 .. 3 : BigEndian(v, 3)[i] = (v \div Weight[3 - i]) % Byte
      BY <1>1, BigEndianBytes
    <3> QED BY <3>1 DEF Has
  <2> QED BY <2>1 DEF at
<1> QED BY <1>2, Digits3 DEF get_uint24

LEMMA Uint32Reads ==
  ASSUME NEW p \in Nat, NEW v \in 0 .. Weight[4] - 1, Has(p, BigEndian(v, 4))
  PROVE  get_uint32(p) = v
<1>1. v \in Nat
  BY WeightGrows
<1>2. /\ at(p) = (v \div Weight[3]) % Byte /\ at(p + 1) = (v \div Weight[2]) % Byte
      /\ at(p + 2) = (v \div Weight[1]) % Byte /\ at(p + 3) = (v \div Weight[0]) % Byte
  <2>1. \A i \in 1 .. 4 : file_content[p + i] = (v \div Weight[4 - i]) % Byte
    <3>1. /\ Len(BigEndian(v, 4)) = 4
          /\ \A i \in 1 .. 4 : BigEndian(v, 4)[i] = (v \div Weight[4 - i]) % Byte
      BY <1>1, BigEndianBytes
    <3> QED BY <3>1 DEF Has
  <2> QED BY <2>1 DEF at
<1> QED BY <1>2, Digits4 DEF get_uint32

\* The getters of 28 bit records take the byte in the middle apart.
LEMMA Record28Reads ==
  ASSUME NEW p \in Nat, NEW l \in 0 .. Weight[3] * Nibble - 1,
         NEW r \in 0 .. Weight[3] * Nibble - 1,
         Has(p, BigEndian(l % Weight[3], 3)),
         at(p + 3) = (l \div Weight[3]) * Nibble + r \div Weight[3],
         Has(p + 4, BigEndian(r % Weight[3], 3))
  PROVE  get_left_28_bit_record(p) = l /\ get_right_28_bit_record(p + 3) = r
<1> DEFINE w == Weight[3]
           lh == l \div w
           rh == r \div w
           ll == l % w
           rl == r % w
<1>1. w \in Nat /\ w > 0 /\ Nibble \in Nat /\ Nibble > 0
  BY WeightGrows, ByteIsNat
<1>2. l \in Nat /\ r \in Nat /\ l < w * Nibble /\ r < w * Nibble
  BY <1>1
<1>3. /\ l = lh * w + ll /\ lh \in Nat /\ ll \in Nat /\ ll < w
      /\ r = rh * w + rl /\ rh \in Nat /\ rl \in Nat /\ rl < w
  BY <1>1, <1>2, DivMod
<1>4. get_uint24(p) = ll /\ get_uint24(p + 4) = rl
  <2> HIDE DEF ll, rl, lh, rh
  <2>1. ll \in 0 .. Weight[3] - 1 /\ rl \in 0 .. Weight[3] - 1 /\ p + 4 \in Nat
    BY <1>1, <1>3
  <2> QED BY <2>1, Uint24Reads DEF ll, rl
<1>5. at(p + 3) = lh * Nibble + rh
  OBVIOUS
<1>6. get_uint32(p + 3) = (lh * Nibble + rh) * w + rl
  <2>1. /\ get_uint24(p + 4) = at(p + 4) * Weight[2] + at(p + 4 + 1) * Byte + at(p + 4 + 2)
        /\ get_uint32(p + 3) = at(p + 3) * w + at(p + 3 + 1) * Weight[2]
                                 + at(p + 3 + 2) * Byte + at(p + 3 + 3)
    BY DEF get_uint24, get_uint32
  <2>2. p + 3 + 1 = p + 4 /\ p + 3 + 2 = p + 4 + 1 /\ p + 3 + 3 = p + 4 + 2
    OBVIOUS
  <2>3. at(p + 4) \in Nat /\ at(p + 4 + 1) \in Nat /\ at(p + 4 + 2) \in Nat
    <3> HIDE DEF rl
    <3>1. BigEndian(rl, 3) \in Seq(Nat) /\ Len(BigEndian(rl, 3)) = 3
      BY <1>3, BigEndianBytes
    <3>2. Has(p + 4, BigEndian(rl, 3))
      BY DEF rl
    <3>3. \A i \in 1 .. 3 : BigEndian(rl, 3)[i] \in Nat
      BY <3>1
    <3>4. \A i \in 1 .. 3 : file_content[p + 4 + i] \in Nat
      BY <3>1, <3>2, <3>3 DEF Has
    <3>5. /\ p + 4 + 1 = (p + 4) + 1 /\ (p + 4 + 1) + 1 = p + 4 + 2
          /\ (p + 4 + 2) + 1 = p + 4 + 3
      OBVIOUS
    <3> QED BY <3>4, <3>5 DEF at
  <2>4. Weight[2] \in Nat /\ Byte \in Nat
    BY WeightGrows, ByteIsNat
  <2> HIDE DEF lh, rh, ll, rl, w
  <2>5. (lh * Nibble + rh) * w \in Nat /\ at(p + 4) * Weight[2] \in Nat
        /\ at(p + 4 + 1) * Byte \in Nat
    BY <1>1, <1>3, <2>3, <2>4
  <2> QED BY <1>4, <1>5, <2>1, <2>2, <2>3, <2>5
<1>7. lh < Nibble /\ rh < Nibble
  <2> HIDE DEF lh, rh, ll, rl, w
  <2>1. \A h \in Nat : h >= Nibble => h * w >= w * Nibble
    BY <1>1
  <2> QED BY <1>1, <1>2, <1>3, <2>1
<1> HIDE DEF lh, rh, ll, rl, w
<1>8. (lh * Nibble + rh) \div Nibble = lh
  BY <1>1, <1>3, <1>7, DivIs
<1>9. get_left_28_bit_record(p) = l
  <2>1. get_left_28_bit_record(p) = ll + lh * w
    BY <1>4, <1>5, <1>8 DEF get_left_28_bit_record, w
  <2>2. lh * w \in Nat
    BY <1>1, <1>3
  <2> QED BY <1>3, <2>1, <2>2
<1>10. get_right_28_bit_record(p + 3) = r
  <2>1. (lh * Nibble + rh) * w + rl = lh * (w * Nibble) + r
    <3>1. (lh * Nibble + rh) * w = lh * (w * Nibble) + rh * w
      BY <1>1, <1>3
    <3>2. lh * (w * Nibble) \in Nat /\ rh * w \in Nat
      BY <1>1, <1>3
    <3> QED BY <1>3, <3>1, <3>2
  <2>2. w * Nibble \in Nat /\ w * Nibble > 0
    BY <1>1
  <2>3. (lh * (w * Nibble) + r) % (w * Nibble) = r
    BY <1>2, <1>3, <2>2, DivIs
  <2> QED BY <1>6, <2>1, <2>3 DEF get_right_28_bit_record, w
<1> QED BY <1>9, <1>10

\* Two sequences in a row.
LEMMA InARow ==
  ASSUME NEW s \in Seq(Nat), NEW t \in Seq(Nat)
  PROVE  s \o t \in Seq(Nat) /\ Len(s \o t) = Len(s) + Len(t)
OBVIOUS

LEMMA ThreeBytes ==
  ASSUME NEW v \in Nat
  PROVE  BigEndian(v, 3) \in Seq(Nat) /\ Len(BigEndian(v, 3)) = 3
BY BigEndianBytes

\* A file that has two sequences in a row has each of them.
LEMMA HasBoth ==
  ASSUME NEW p \in Nat, NEW s \in Seq(Nat), NEW t \in Seq(Nat), Has(p, s \o t)
  PROVE  Has(p, s) /\ Has(p + Len(s), t) /\ s \o t \in Seq(Nat)
         /\ Len(s \o t) = Len(s) + Len(t)
<1>1. Len(s) \in Nat /\ Len(t) \in Nat /\ Len(s \o t) = Len(s) + Len(t) /\ s \o t \in Seq(Nat)
  OBVIOUS
<1>2. \A i \in 1 .. Len(s) : (s \o t)[i] = s[i]
  OBVIOUS
<1>3. \A i \in 1 .. Len(t) : (s \o t)[Len(s) + i] = t[i]
  OBVIOUS
<1>4. \A i \in 1 .. Len(s) : i \in 1 .. Len(s \o t)
  BY <1>1
<1>5. \A i \in 1 .. Len(t) : Len(s) + i \in 1 .. Len(s \o t) /\ p + (Len(s) + i) = p + Len(s) + i
  BY <1>1
<1> HIDE <1>1
<1>6. Has(p, s)
  BY <1>2, <1>4 DEF Has
<1>7. Has(p + Len(s), t)
  BY <1>3, <1>5 DEF Has
<1> QED BY <1>1, <1>6, <1>7

\* What the records of a node of each length can be.
LEMMA RecordRange ==
  /\ Records[6] \subseteq 0 .. Weight[3] - 1
  /\ Records[7] \subseteq 0 .. Weight[3] * Nibble - 1
  /\ Records[8] \subseteq 0 .. Weight[4] - 1
  /\ \A len \in RecordLengths : Records[len] \subseteq Nat
<1>1. /\ Records[6] \subseteq 0 .. Weight[3] - 1
      /\ Records[7] \subseteq 0 .. Weight[3] * Nibble - 1
      /\ Records[8] \subseteq 0 .. Weight[4] - 1
  BY FileAssumption
<1> QED BY <1>1 DEF RecordLengths

\* A node takes as many bytes as its length says.
LEMMA NodeLength ==
  ASSUME NEW len \in RecordLengths, NEW l \in Records[len], NEW r \in Records[len]
  PROVE  NodeBytes(l, r, len) \in Seq(Nat) /\ Len(NodeBytes(l, r, len)) = len
<1>1. l \in Nat /\ r \in Nat
  BY RecordRange
<1>2. CASE len = 6 \/ len = 8
  <2> DEFINE n == len \div 2
             s == BigEndian(l, n)
             t == BigEndian(r, n)
  <2>1. n \in 0 .. 8 /\ n + n = len
    BY <1>2
  <2>2. s \in Seq(Nat) /\ t \in Seq(Nat) /\ Len(s) = n /\ Len(t) = n
    <3> HIDE DEF n
    <3> QED BY <1>1, <2>1, BigEndianBytes
  <2>3. NodeBytes(l, r, len) = s \o t
    BY <1>2 DEF NodeBytes
  <2> HIDE DEF n, s, t
  <2> QED BY <2>1, <2>2, <2>3
<1>3. CASE len = 7
  <2> DEFINE s == BigEndian(l % Weight[3], 3)
             t == BigEndian(r % Weight[3], 3)
             m == (l \div Weight[3]) * Nibble + r \div Weight[3]
  <2>1. /\ l % Weight[3] \in Nat /\ r % Weight[3] \in Nat
        /\ l \div Weight[3] \in Nat /\ r \div Weight[3] \in Nat
    <3> HIDE DEF s, t, m
    <3>1. Weight[3] \in Nat /\ Weight[3] > 0
      BY WeightGrows
    <3>2. l \in Nat /\ r \in Nat
      BY <1>1
    <3> QED BY <3>1, <3>2, DivMod
  <2>2. m \in Nat
    BY <2>1, ByteIsNat
  <2>3. s \in Seq(Nat) /\ t \in Seq(Nat) /\ Len(s) = 3 /\ Len(t) = 3
    BY <2>1, ThreeBytes
  <2>4. NodeBytes(l, r, len) = (s \o <<m>>) \o t
    BY <1>3 DEF NodeBytes
  <2> DEFINE u == <<m>>
  <2>5. u \in Seq(Nat) /\ Len(u) = 1
    BY <2>2
  <2> HIDE DEF m, s, t, u
  <2>6. s \o u \in Seq(Nat) /\ Len(s \o u) = Len(s) + Len(u)
    <3>1. s \in Seq(Nat) /\ u \in Seq(Nat)
      BY <2>3, <2>5
    <3> QED BY <3>1, InARow
  <2>7. (s \o u) \o t \in Seq(Nat) /\ Len((s \o u) \o t) = Len(s \o u) + Len(t)
    <3>1. t \in Seq(Nat) /\ s \o u \in Seq(Nat)
      BY <2>3, <2>6
    <3> QED BY <3>1, InARow
  <2>8. Len((s \o u) \o t) = 7
    BY <2>3, <2>5, <2>6, <2>7
  <2>9. NodeBytes(l, r, len) = (s \o u) \o t
    BY <2>4 DEF u
  <2> QED BY <1>3, <2>7, <2>8, <2>9
<1> QED BY <1>2, <1>3 DEF RecordLengths

\* A node is read as it was written.
LEMMA NodeReads ==
  ASSUME NEW len \in RecordLengths, NEW l \in Records[len], NEW r \in Records[len],
         NEW p \in Nat, Has(p, NodeBytes(l, r, len))
  PROVE  /\ left_record(p, len) = l
         /\ right_record(p + record_info(len).right_record_offset, len) = r
<1>1. l \in Nat /\ r \in Nat
  BY RecordRange
<1>2. CASE len = 6
  <2>1. l \in 0 .. Weight[3] - 1 /\ r \in 0 .. Weight[3] - 1
    BY <1>2, RecordRange
  <2>2. /\ BigEndian(l, 3) \in Seq(Nat) /\ BigEndian(r, 3) \in Seq(Nat)
        /\ Len(BigEndian(l, 3)) = 3
    BY <1>1, BigEndianBytes
  <2>3. NodeBytes(l, r, len) = BigEndian(l, 3) \o BigEndian(r, 3)
    <3>1. len \div 2 = 3
      BY <1>2
    <3> QED BY <1>2, <3>1 DEF NodeBytes
  <2>4. Has(p, BigEndian(l, 3)) /\ Has(p + 3, BigEndian(r, 3))
    <3>1. Has(p, BigEndian(l, 3) \o BigEndian(r, 3))
      BY <2>3
    <3>2. /\ Has(p, BigEndian(l, 3))
          /\ Has(p + Len(BigEndian(l, 3)), BigEndian(r, 3))
      BY <2>2, <3>1, HasBoth
    <3> QED BY <2>2, <3>2
  <2>5. get_uint24(p) = l /\ get_uint24(p + 3) = r
    BY <2>1, <2>4, Uint24Reads
  <2>6. record_info(len).right_record_offset = 3
    BY <1>2 DEF record_info
  <2> QED BY <1>2, <2>5, <2>6 DEF left_record, right_record
<1>3. CASE len = 8
  <2>1. l \in 0 .. Weight[4] - 1 /\ r \in 0 .. Weight[4] - 1
    BY <1>3, RecordRange
  <2>2. /\ BigEndian(l, 4) \in Seq(Nat) /\ BigEndian(r, 4) \in Seq(Nat)
        /\ Len(BigEndian(l, 4)) = 4
    BY <1>1, BigEndianBytes
  <2>3. NodeBytes(l, r, len) = BigEndian(l, 4) \o BigEndian(r, 4)
    <3>1. len \div 2 = 4
      BY <1>3
    <3> QED BY <1>3, <3>1 DEF NodeBytes
  <2>4. Has(p, BigEndian(l, 4)) /\ Has(p + 4, BigEndian(r, 4))
    <3>1. Has(p, BigEndian(l, 4) \o BigEndian(r, 4))
      BY <2>3
    <3>2. /\ Has(p, BigEndian(l, 4))
          /\ Has(p + Len(BigEndian(l, 4)), BigEndian(r, 4))
      BY <2>2, <3>1, HasBoth
    <3> QED BY <2>2, <3>2
  <2>5. get_uint32(p) = l /\ get_uint32(p + 4) = r
    BY <2>1, <2>4, Uint32Reads
  <2>6. record_info(len).right_record_offset = 4
    BY <1>3 DEF record_info
  <2> QED BY <1>3, <2>5, <2>6 DEF left_record, right_record
<1>4. CASE len = 7
  <2> DEFINE s == BigEndian(l % Weight[3], 3)
             t == BigEndian(r % Weight[3], 3)
             m == (l \div Weight[3]) * Nibble + r \div Weight[3]
  <2>1. l \in 0 .. Weight[3] * Nibble - 1 /\ r \in 0 .. Weight[3] * Nibble - 1
    BY <1>4, RecordRange
  <2>2. s \in Seq(Nat) /\ t \in Seq(Nat) /\ Len(s) = 3 /\ m \in Nat
    <3>1. /\ l % Weight[3] \in Nat /\ r % Weight[3] \in Nat
          /\ l \div Weight[3] \in Nat /\ r \div Weight[3] \in Nat
      <4> HIDE DEF s, t, m
      <4>1. Weight[3] \in Nat /\ Weight[3] > 0
        BY WeightGrows
      <4>2. l \in Nat /\ r \in Nat
        BY <1>1
      <4> QED BY <4>1, <4>2, DivMod
    <3>2. m \in Nat
      BY <3>1, ByteIsNat
    <3> QED BY <3>1, <3>2, ThreeBytes
  <2>3. Has(p, (s \o <<m>>) \o t)
    BY <1>4 DEF NodeBytes
  <2>4. Has(p, s) /\ at(p + 3) = m /\ Has(p + 4, t)
    <3> DEFINE u == <<m>>
    <3>0. u \in Seq(Nat) /\ Len(u) = 1 /\ u[1] = m
      BY <2>2
    <3> HIDE DEF s, m, t, u
    <3>1. s \o u \in Seq(Nat) /\ Len(s \o u) = 4
      <4>1. s \o u \in Seq(Nat) /\ Len(s \o u) = Len(s) + Len(u)
        <5>1. s \in Seq(Nat) /\ u \in Seq(Nat)
          BY <2>2, <3>0
        <5> QED BY <5>1, InARow
      <4> QED BY <2>2, <3>0, <4>1
    <3>2. Has(p, s \o u) /\ Has(p + Len(s \o u), t)
      <4>1. Has(p, (s \o u) \o t)
        BY <2>3 DEF u
      <4> QED BY <2>2, <3>1, <4>1, HasBoth
    <3>3. Has(p, s) /\ Has(p + Len(s), u)
      BY <2>2, <3>0, <3>2, HasBoth
    <3>4. at(p + 3) = m
      BY <2>2, <3>0, <3>3 DEF Has, at
    <3> QED BY <3>1, <3>2, <3>3, <3>4
  <2>5. get_left_28_bit_record(p) = l /\ get_right_28_bit_record(p + 3) = r
    BY <2>1, <2>4, Record28Reads
  <2>6. record_info(len).right_record_offset = 3
    BY <1>4 DEF record_info
  <2> QED BY <1>4, <2>5, <2>6 DEF left_record, right_record
<1> QED BY <1>2, <1>3, <1>4 DEF RecordLengths

-----------------------------------------------------------------------------
(***************************************************************************)
(* The inductive invariant: what the file holds; which call is in which    *)
(* loop; that the search has passed no marker since the end of the last    *)
(* one it found; that the number read so far is the part of the written    *)
(* one its bytes so far make up.                                           *)
(***************************************************************************)
TreeFile(len, l, r) ==
  /\ written = [kind |-> "tree", len |-> len, nodes |-> <<<<l, r>>, <<r, l>>>>]
  /\ file_content = NodeBytes(l, r, len) \o NodeBytes(r, l, len)

NumberFile(n, v) ==
  /\ written = [kind |-> "number", len |-> n, number |-> v]
  /\ file_content = BigEndian(v, n)

FileInv ==
  \/ written = [kind |-> "any"] /\ file_content \in Contents
  \/ \E len \in RecordLengths : \E l, r \in Records[len] : TreeFile(len, l, r)
  \/ \E n \in DOMAIN Numbers : \E v \in Numbers[n] : NumberFile(n, v)

CallInv ==
  /\ pc \in {"idle", "memmem", "uintX"}
  /\ pc = "memmem" => call = "find_metadata"
  /\ pc = "uintX" => call \in {"get_uintX", "get_sintX"}
  /\ call = "find_metadata" => pc \in {"idle", "memmem"}
  /\ call = "MMDB_read_node" => pc = "idle"
  /\ call \in {"get_uintX", "get_sintX"} => written.kind = "number"
  /\ call = "get_sintX" => written.len <= 4

MarkerAt(p) ==
  \A i \in 1 .. marker_len :
    p + i <= file_size /\ file_content[p + i] = METADATA_MARKER[i]

SearchInv ==
  pc = "memmem" =>
    /\ search_area \in start .. file_size
    /\ max_size = file_size - search_area
    /\ cur \in Nat /\ cur >= search_area
    /\ \A p \in search_area .. cur - 1 : ~MarkerAt(p)
    /\ search_area # start =>
         search_area - marker_len >= start /\ MarkerAt(search_area - marker_len)

NumberInv ==
  pc = "uintX" => /\ cur \in 0 .. written.len
                  /\ value = written.number \div Weight[written.len - cur]

IInv == /\ FileInv /\ CallInv /\ SearchInv /\ NumberInv
        /\ MetadataFollowsLastMarker /\ ReadsStayInFile
        /\ NodesReadAsWritten /\ NumbersReadAsWritten

\* Bytes are numbers.
LEMMA BytesAreNumbers == Seq(0 .. Byte - 1) \subseteq Seq(Nat)
<1>1. SUFFICES ASSUME NEW s \in Seq(0 .. Byte - 1) PROVE s \in Seq(Nat)
  OBVIOUS
<1> DEFINE B == 0 .. Byte - 1
<1>2. s \in Seq(B) /\ B \subseteq Nat
  BY ByteIsNat
<1> HIDE DEF B
<1> QED BY <1>2, SeqMonotonic

\* Every file is a sequence of bytes.
LEMMA FileIsSeq ==
  ASSUME FileInv
  PROVE  file_content \in Seq(Nat) /\ file_size \in Nat
<1>1. file_content \in Contents => file_content \in Seq(Nat)
  BY FileAssumption, BytesAreNumbers
<1>2. ASSUME NEW len \in RecordLengths, NEW l \in Records[len], NEW r \in Records[len],
             TreeFile(len, l, r)
      PROVE  file_content \in Seq(Nat)
  <2>1. NodeBytes(l, r, len) \in Seq(Nat) /\ NodeBytes(r, l, len) \in Seq(Nat)
    BY NodeLength
  <2> QED BY <1>2, <2>1, InARow DEF TreeFile
<1>3. ASSUME NEW n \in DOMAIN Numbers, NEW v \in Numbers[n], NumberFile(n, v)
      PROVE  file_content \in Seq(Nat)
  <2>1. n \in 0 .. 8 /\ v \in Nat
    BY FileAssumption
  <2> QED BY <1>3, <2>1, BigEndianBytes DEF NumberFile
<1>4. file_content \in Seq(Nat)
  BY <1>1, <1>2, <1>3 DEF FileInv
<1> QED BY <1>4 DEF file_size

\* The start of the search area.
LEMMA StartIs ==
  ASSUME file_size \in Nat
  PROVE  /\ start \in 0 .. file_size /\ SearchSize = file_size - start
         /\ start >= file_size - METADATA_BLOCK_MAX_SIZE
         /\ start = 0 \/ start = file_size - METADATA_BLOCK_MAX_SIZE
<1> DEFINE M == METADATA_BLOCK_MAX_SIZE
           S == {file_size, M}
           m == IF file_size <= M THEN file_size ELSE M
<1>1. M \in Nat
  BY FileAssumption
<1>2. m \in S /\ \A y \in S : m <= y
  BY <1>1
<1>3. \A x \in S : (\A y \in S : x <= y) => x = m
  BY <1>1
<1>4. Min(S) \in S /\ \A y \in S : Min(S) <= y
  <2> HIDE DEF S, m
  <2> QED BY <1>2 DEF Min
<1>5. SearchSize = m
  BY <1>3, <1>4 DEF SearchSize
<1> QED BY <1>1, <1>5 DEF start

\* The marker has at least two bytes.
LEMMA MarkerIs ==
  /\ marker_len \in Nat /\ marker_len > 1
  /\ METADATA_MARKER \in Seq(Nat) /\ Len(METADATA_MARKER) = marker_len
  /\ \A i \in 2 .. marker_len : METADATA_MARKER[i] # METADATA_MARKER[1]
<1>1. METADATA_MARKER \in Seq(Nat)
  BY FileAssumption, BytesAreNumbers
<1> QED BY <1>1, FileAssumption DEF marker_len

\* A marker at p, as find_metadata and as the property read it.
LEMMA MarkerIsSubSeq ==
  ASSUME file_content \in Seq(Nat), NEW e \in marker_len .. file_size
  PROVE  SubSeq(file_content, e - marker_len + 1, e) = METADATA_MARKER
           <=> MarkerAt(e - marker_len)
<1> DEFINE m == e - marker_len
           s == SubSeq(file_content, m + 1, e)
<1>1. file_size \in Nat /\ e \in Nat /\ marker_len \in Nat /\ m \in Nat /\ m + marker_len = e
  BY MarkerIs DEF file_size
<1>2. s \in Seq(Nat) /\ Len(s) = marker_len /\ \A i \in 1 .. marker_len : s[i] = file_content[m + i]
  <2>1. m + 1 \in 1 .. Len(file_content) + 1 /\ e \in m + 1 - 1 .. Len(file_content)
    BY <1>1 DEF file_size
  <2>2. \A i \in (m + 1) .. e : file_content[i] \in Nat
    BY <1>1, <2>1
  <2>3. m + 1 \in Int /\ e \in Int
    BY <1>1
  <2> HIDE DEF m
  <2>4. /\ s \in Seq(Nat) /\ Len(s) = IF m + 1 <= e THEN e - (m + 1) + 1 ELSE 0
        /\ \A i \in 1 .. (e - (m + 1) + 1) : s[i] = file_content[(m + 1) + i - 1]
    BY <2>2, <2>3, SubSeqProperties
  <2> HIDE DEF s
  <2>5. e - (m + 1) + 1 = marker_len /\ \A i \in 1 .. marker_len : (m + 1) + i - 1 = m + i
    BY <1>1
  <2>6. marker_len = 0 \/ m + 1 <= e
    BY <1>1
  <2> QED BY <1>1, <2>4, <2>5, <2>6
<1> HIDE DEF s
<1>3. s = METADATA_MARKER <=> \A i \in 1 .. marker_len : s[i] = METADATA_MARKER[i]
  BY <1>2, MarkerIs
<1>4. \A i \in 1 .. marker_len : m + i <= file_size
  BY <1>1
<1>5. s = METADATA_MARKER <=> MarkerAt(m)
  BY <1>2, <1>3, <1>4 DEF MarkerAt
<1> QED BY <1>5 DEF s

\* Two markers do not overlap: the first byte of the second would be a later
\* byte of the first.
LEMMA NoOverlap ==
  ASSUME NEW p \in Nat, NEW q \in Nat, p < q, q < p + marker_len, MarkerAt(p)
  PROVE  ~MarkerAt(q)
<1> DEFINE i == q - p + 1
<1>1. i \in 2 .. marker_len /\ p + i = q + 1 /\ i \in 1 .. marker_len
  BY MarkerIs
<1>2. file_content[q + 1] = METADATA_MARKER[i]
  BY <1>1 DEF MarkerAt
<1>3. METADATA_MARKER[i] # METADATA_MARKER[1] /\ 1 \in 1 .. marker_len
  BY <1>1, MarkerIs
<1> QED BY <1>2, <1>3 DEF MarkerAt

-----------------------------------------------------------------------------
\* The file and what was meant by it never change.
LEMMA FileStays == FileInv /\ UNCHANGED <<file_content, written>> => FileInv'
BY DEF FileInv, TreeFile, NumberFile

LEMMA KindOfFile ==
  ASSUME FileInv
  PROVE  /\ written.kind = "tree" =>
              \E len \in RecordLengths : \E l, r \in Records[len] : TreeFile(len, l, r)
         /\ written.kind = "number" =>
              \E n \in DOMAIN Numbers : \E v \in Numbers[n] : NumberFile(n, v)
<1>1. written = [kind |-> "any"] => written.kind = "any"
  OBVIOUS
<1>2. \A len, l, r : TreeFile(len, l, r) => written.kind = "tree"
  BY DEF TreeFile
<1>3. \A n, v : NumberFile(n, v) => written.kind = "number"
  BY DEF NumberFile
<1> QED BY <1>1, <1>2, <1>3 DEF FileInv

LEMMA InitHolds == Init => IInv
<1> SUFFICES ASSUME Init PROVE IInv
  OBVIOUS
<1>1. FileInv
  <2>1. CASE file_content \in Contents /\ written = [kind |-> "any"]
    BY <2>1 DEF FileInv
  <2>2. ASSUME NEW len \in RecordLengths, NEW t \in TreeFiles(len), written = t,
               file_content = NodeBytes(t.nodes[1][1], t.nodes[1][2], len)
                                \o NodeBytes(t.nodes[2][1], t.nodes[2][2], len)
        PROVE  FileInv
    <3>1. PICK l \in Records[len], r \in Records[len] :
            t = [kind |-> "tree", len |-> len, nodes |-> <<<<l, r>>, <<r, l>>>>]
      BY DEF TreeFiles
    <3>2. /\ t.nodes[1][1] = l /\ t.nodes[1][2] = r
          /\ t.nodes[2][1] = r /\ t.nodes[2][2] = l
      BY <3>1
    <3> QED BY <2>2, <3>1, <3>2 DEF FileInv, TreeFile
  <2>3. ASSUME NEW w \in NumberFiles, written = w, file_content = BigEndian(w.number, w.len)
        PROVE  FileInv
    <3>1. PICK n \in DOMAIN Numbers : \E v \in Numbers[n] :
            w = [kind |-> "number", len |-> n, number |-> v]
      BY DEF NumberFiles
    <3>2. PICK v \in Numbers[n] : w = [kind |-> "number", len |-> n, number |-> v]
      BY <3>1
    <3>3. w.number = v /\ w.len = n
      BY <3>2
    <3> QED BY <2>3, <3>2, <3>3 DEF FileInv, NumberFile
  <2> QED BY <2>1, <2>2, <2>3 DEF Init
<1>2. CallInv /\ SearchInv /\ NumberInv
  BY DEF Init, CallInv, SearchInv, NumberInv
<1>3. /\ MetadataFollowsLastMarker /\ ReadsStayInFile
      /\ NodesReadAsWritten /\ NumbersReadAsWritten
  BY DEF Init, MetadataFollowsLastMarker, ReadsStayInFile, NodesReadAsWritten,
         NumbersReadAsWritten
<1> QED BY <1>1, <1>2, <1>3 DEF IInv

\* The search starts: nothing is passed yet.
LEMMA FindMetadataHolds == IInv /\ find_metadata => IInv'
<1> SUFFICES ASSUME IInv, find_metadata PROVE IInv'
  OBVIOUS
<1>1. /\ call' = "find_metadata" /\ pc' = "memmem" /\ max_size' = SearchSize
      /\ search_area' = start /\ cur' = start /\ reads' = {}
      /\ UNCHANGED <<file_content, written>>
  BY DEF find_metadata
<1>2. FileInv'
  BY <1>1, FileStays DEF IInv
<1>3. file_size \in Nat
  BY FileIsSeq DEF IInv
<1>4. file_size' = file_size /\ SearchSize' = SearchSize /\ start' = start
  BY <1>1 DEF file_size, SearchSize, start
<1>5. SearchInv'
  <2>1. start \in 0 .. file_size /\ SearchSize = file_size - start
    BY <1>3, StartIs
  <2> QED BY <1>1, <1>3, <1>4, <2>1 DEF SearchInv
<1>6. /\ CallInv' /\ NumberInv' /\ MetadataFollowsLastMarker' /\ ReadsStayInFile'
      /\ NodesReadAsWritten' /\ NumbersReadAsWritten'
  BY <1>1 DEF CallInv, NumberInv, MetadataFollowsLastMarker, ReadsStayInFile,
              NodesReadAsWritten, NumbersReadAsWritten
<1> QED BY <1>2, <1>5, <1>6 DEF IInv

\* What is compared lies in the file, and IsMarker is MarkerAt(cur).
LEMMA ComparedInFile ==
  ASSUME IInv, pc = "memmem", Fits
  PROVE  /\ Compared \subseteq 0 .. file_size - 1 /\ cur \in Nat
         /\ cur + marker_len <= file_size /\ file_size \in Nat
         /\ IsMarker <=> MarkerAt(cur)
<1>1. file_size \in Nat /\ marker_len \in Nat /\ marker_len > 1
  BY FileIsSeq, MarkerIs DEF IInv
<1>2. cur \in Nat /\ search_area \in Nat /\ max_size = file_size - search_area
  BY <1>1, StartIs DEF IInv, SearchInv
<1>3. cur + marker_len <= file_size
  BY <1>1, <1>2 DEF Fits
<1>4. Compared \subseteq 0 .. file_size - 1
  BY <1>1, <1>2, <1>3 DEF Compared
<1>5. \A i \in 1 .. marker_len : at(cur + i - 1) = file_content[cur + i]
  <2>1. \A i \in 1 .. marker_len : cur + i - 1 + 1 = cur + i
    BY <1>1, <1>2
  <2> QED BY <2>1 DEF at
<1>6. IsMarker <=> MarkerAt(cur)
  BY <1>5 DEF IsMarker, MarkerAt
<1> QED BY <1>1, <1>2, <1>3, <1>4, <1>6

\* A byte that starts no marker is passed.
LEMMA PassByteHolds == IInv /\ PassByte => IInv'
<1> SUFFICES ASSUME IInv, PassByte PROVE IInv'
  OBVIOUS
<1>1. /\ pc = "memmem" /\ Fits /\ ~IsMarker /\ cur' = cur + 1 /\ reads' = Compared
      /\ UNCHANGED <<file_content, written, call, pc, search_area, max_size, value, result>>
  BY DEF PassByte
<1>2. FileInv'
  BY <1>1, FileStays DEF IInv
<1>3. /\ Compared \subseteq 0 .. file_size - 1 /\ cur \in Nat /\ file_size \in Nat
      /\ ~MarkerAt(cur)
  BY <1>1, ComparedInFile
<1>4. file_size' = file_size /\ start' = start /\ \A p : MarkerAt(p)' = MarkerAt(p)
  BY <1>1 DEF file_size, SearchSize, start, MarkerAt
<1>5. call = "find_metadata"
  BY <1>1 DEF IInv, CallInv
<1>6. SearchInv'
  <2>1. /\ search_area \in start .. file_size /\ max_size = file_size - search_area
        /\ cur >= search_area /\ \A p \in search_area .. cur - 1 : ~MarkerAt(p)
        /\ search_area # start =>
             search_area - marker_len >= start /\ MarkerAt(search_area - marker_len)
    BY <1>1 DEF IInv, SearchInv
  <2>2. start \in Nat
    BY <1>3, StartIs
  <2>3. \A p \in search_area .. cur' - 1 : ~MarkerAt(p)
    <3>1. \A p \in search_area .. cur' - 1 : p \in search_area .. cur - 1 \/ p = cur
      BY <1>1, <1>3, <2>1, <2>2
    <3> QED BY <1>3, <2>1, <3>1
  <2>4. cur' \in Nat /\ cur' >= search_area
    BY <1>1, <1>3, <2>1, <2>2
  <2>5. MarkerAt(search_area - marker_len)' = MarkerAt(search_area - marker_len)
    BY <1>1, <1>4 DEF MarkerAt
  <2>6. \A p \in search_area' .. cur' - 1 : ~MarkerAt(p)'
    BY <1>1, <1>4, <2>3
  <2> QED BY <1>1, <1>4, <2>1, <2>4, <2>5, <2>6 DEF SearchInv
<1>7. ReadsStayInFile'
  BY <1>1, <1>3, <1>4, <1>5 DEF ReadsStayInFile
<1>8. /\ CallInv' /\ NumberInv' /\ MetadataFollowsLastMarker'
      /\ NodesReadAsWritten' /\ NumbersReadAsWritten'
  <2>1. CallInv' /\ NumberInv'
    BY <1>1 DEF IInv, CallInv, NumberInv
  <2> QED BY <1>1, <1>5, <2>1 DEF MetadataFollowsLastMarker, NodesReadAsWritten,
                                  NumbersReadAsWritten
<1> QED BY <1>2, <1>6, <1>7, <1>8 DEF IInv

\* The search goes on after a marker.
LEMMA FoundMarkerHolds == IInv /\ FoundMarker => IInv'
<1> SUFFICES ASSUME IInv, FoundMarker PROVE IInv'
  OBVIOUS
<1>1. /\ pc = "memmem" /\ Fits /\ IsMarker /\ search_area' = cur + marker_len
      /\ max_size' = max_size - (cur + marker_len - search_area)
      /\ cur' = cur + marker_len /\ reads' = Compared
      /\ UNCHANGED <<file_content, written, call, pc, value, result>>
  <2>1. /\ pc = "memmem" /\ Fits /\ IsMarker /\ SearchGoesOn(cur + marker_len)
        /\ reads' = Compared /\ UNCHANGED <<file_content, written, call, value, result>>
    BY DEF FoundMarker
  <2>2. cur \in Nat /\ marker_len \in Nat /\ search_area \in Nat /\ max_size \in Int
    <3>1. file_size \in Nat
      BY FileIsSeq DEF IInv
    <3> QED BY <2>1, <3>1, StartIs, MarkerIs DEF IInv, SearchInv
  <2>3. /\ max_size' = max_size - (cur + marker_len - search_area)
        /\ search_area' = cur + marker_len /\ cur' = cur + marker_len /\ pc' = pc
    BY <2>1, <2>2 DEF SearchGoesOn
  <2> QED BY <2>1, <2>3
<1>2. FileInv'
  BY <1>1, FileStays DEF IInv
<1>3. /\ Compared \subseteq 0 .. file_size - 1 /\ cur \in Nat /\ file_size \in Nat
      /\ MarkerAt(cur) /\ cur + marker_len <= file_size
  BY <1>1, ComparedInFile
<1>4. file_size' = file_size /\ start' = start
  BY <1>1 DEF file_size, SearchSize, start
<1>5. call = "find_metadata"
  BY <1>1 DEF IInv, CallInv
<1>6. SearchInv'
  <2>1. /\ search_area \in start .. file_size /\ max_size = file_size - search_area
        /\ cur >= search_area
    BY <1>1 DEF IInv, SearchInv
  <2>2. start \in Nat /\ marker_len \in Nat /\ marker_len > 1
    BY <1>3, StartIs, MarkerIs
  <2>3. /\ search_area' \in start .. file_size /\ max_size' = file_size - search_area'
        /\ search_area' - marker_len = cur /\ cur >= start /\ cur' \in Nat
        /\ search_area' .. cur' - 1 = {}
    BY <1>1, <1>3, <2>1, <2>2
  <2>4. MarkerAt(search_area - marker_len)'
    BY <1>1, <1>3, <2>3 DEF MarkerAt, file_size
  <2> QED BY <1>1, <1>4, <2>3, <2>4 DEF SearchInv
<1>7. ReadsStayInFile'
  BY <1>1, <1>3, <1>4, <1>5 DEF ReadsStayInFile
<1>8. /\ CallInv' /\ NumberInv' /\ MetadataFollowsLastMarker'
      /\ NodesReadAsWritten' /\ NumbersReadAsWritten'
  <2>1. CallInv' /\ NumberInv'
    BY <1>1 DEF IInv, CallInv, NumberInv
  <2> QED BY <1>1, <1>5, <2>1 DEF MetadataFollowsLastMarker, NodesReadAsWritten,
                                  NumbersReadAsWritten
<1> QED BY <1>2, <1>6, <1>7, <1>8 DEF IInv

\* The search is over: the area starts behind the last marker, because one that
\* starts before it would be the marker the area follows or overlap it.
LEMMA NoMarkerLeftHolds == IInv /\ NoMarkerLeft => IInv'
<1> SUFFICES ASSUME IInv, NoMarkerLeft PROVE IInv'
  OBVIOUS
<1> DEFINE a == search_area
           m == marker_len
           ends == {e \in m .. file_size :
                      /\ e - m >= file_size - METADATA_BLOCK_MAX_SIZE
                      /\ SubSeq(file_content, e - m + 1, e) = METADATA_MARKER}
<1>1. /\ pc = "memmem" /\ ~Fits /\ pc' = "idle" /\ result' = Metadata /\ reads' = {}
      /\ UNCHANGED <<file_content, written, call, search_area, max_size, cur, value>>
  BY DEF NoMarkerLeft
<1>2. FileInv'
  BY <1>1, FileStays DEF IInv
<1>3. /\ file_content \in Seq(Nat) /\ file_size \in Nat /\ m \in Nat /\ m > 1
      /\ METADATA_BLOCK_MAX_SIZE \in Nat
  BY FileIsSeq, MarkerIs, FileAssumption DEF IInv
<1>4. /\ start \in 0 .. file_size /\ start >= file_size - METADATA_BLOCK_MAX_SIZE
      /\ start = 0 \/ start = file_size - METADATA_BLOCK_MAX_SIZE
  BY <1>3, StartIs
<1>5. /\ a \in start .. file_size /\ max_size = file_size - a /\ cur \in Nat /\ cur >= a
      /\ \A p \in a .. cur - 1 : ~MarkerAt(p)
      /\ a # start => a - m >= start /\ MarkerAt(a - m)
  BY <1>1 DEF IInv, SearchInv
<1>6. call = "find_metadata"
  BY <1>1 DEF IInv, CallInv
<1>7. \A e : e \in ends <=> e \in m .. file_size /\ e - m >= start /\ MarkerAt(e - m)
  <2>1. \A e \in m .. file_size :
          e - m >= file_size - METADATA_BLOCK_MAX_SIZE <=> e - m >= start
    BY <1>3, <1>4
  <2>2. \A e \in m .. file_size :
          SubSeq(file_content, e - m + 1, e) = METADATA_MARKER <=> MarkerAt(e - m)
    BY <1>3, MarkerIsSubSeq
  <2> QED BY <2>1, <2>2
<1> HIDE DEF ends
<1>8. \A e \in ends : e <= a /\ a # start
  <2>1. TAKE e \in ends
  <2>2. e \in m .. file_size /\ e - m >= start /\ MarkerAt(e - m)
    BY <1>7
  <2>3. e - m < a
    <3>1. SUFFICES ASSUME e - m >= a PROVE FALSE
      BY <1>3, <1>4, <1>5, <2>2
    <3>2. e - m \in a .. cur - 1
      BY <1>1, <1>3, <1>4, <1>5, <2>2, <3>1 DEF Fits
    <3> QED BY <1>5, <2>2, <3>2
  <2>4. a # start
    BY <1>3, <1>4, <1>5, <2>2, <2>3
  <2>5. ~(a - m < e - m)
    <3>1. SUFFICES ASSUME a - m < e - m PROVE FALSE
      OBVIOUS
    <3>2. a - m \in Nat /\ e - m \in Nat /\ e - m < (a - m) + marker_len /\ MarkerAt(a - m)
      BY <1>3, <1>4, <1>5, <2>2, <2>3, <2>4
    <3> QED BY <2>2, <3>1, <3>2, NoOverlap
  <2> QED BY <1>3, <1>4, <1>5, <2>2, <2>4, <2>5
<1>9. a # start => a \in ends
  BY <1>3, <1>4, <1>5, <1>7
<1>10. Metadata = IF ends = {} \/ Max(ends \union {0}) = file_size THEN NULL
                  ELSE <<Max(ends), file_size - Max(ends)>>
  <2>1. CASE a = start
    <3>1. ends = {}
      BY <1>8, <2>1
    <3> QED BY <2>1, <3>1 DEF Metadata
  <2>2. CASE a # start
    <3>1. a \in Nat
      BY <1>4, <1>5
    <3>2. Max(ends) = a
      <4>1. a \in ends /\ \A e \in ends : a >= e
        BY <1>3, <1>7, <1>8, <1>9, <2>2, <3>1
      <4>2. Max(ends) \in ends /\ \A e \in ends : Max(ends) >= e
        BY <4>1 DEF Max
      <4>3. Max(ends) >= a /\ Max(ends) <= a /\ Max(ends) \in Nat
        BY <1>3, <1>7, <1>8, <4>1, <4>2
      <4> QED BY <3>1, <4>3
    <3>3. Max(ends \union {0}) = a
      <4> DEFINE E == ends \union {0}
      <4>1. a \in E /\ \A e \in E : a >= e /\ e \in Nat
        BY <1>3, <1>7, <1>8, <1>9, <2>2, <3>1
      <4> HIDE DEF E
      <4>2. Max(E) \in E /\ \A e \in E : Max(E) >= e
        BY <4>1 DEF Max
      <4>3. Max(E) >= a /\ Max(E) <= a /\ Max(E) \in Nat
        BY <3>1, <4>1, <4>2
      <4>4. Max(E) = a
        BY <3>1, <4>3
      <4> QED BY <4>4 DEF E
    <3>4. ends # {}
      BY <1>9, <2>2
    <3>5. Metadata = IF max_size <= 0 THEN NULL ELSE <<a, max_size>>
      BY <2>2 DEF Metadata
    <3>6. max_size <= 0 <=> a = file_size
      BY <1>3, <1>5, <3>1
    <3> QED BY <1>5, <3>2, <3>3, <3>4, <3>5, <3>6
  <2> QED BY <2>1, <2>2
<1>11. MetadataFollowsLastMarker'
  <2>1. result' = IF ends = {} \/ Max(ends \union {0}) = file_size THEN NULL
                  ELSE <<Max(ends), file_size - Max(ends)>>
    BY <1>1, <1>10
  <2>2. file_size' = file_size /\ file_content' = file_content
    BY <1>1 DEF file_size
  <2> QED BY <2>1, <2>2 DEF MetadataFollowsLastMarker, ends
<1>12. /\ CallInv' /\ SearchInv' /\ NumberInv' /\ ReadsStayInFile'
       /\ NodesReadAsWritten' /\ NumbersReadAsWritten'
  <2>1. CallInv' /\ SearchInv' /\ NumberInv'
    BY <1>1 DEF IInv, CallInv, SearchInv, NumberInv
  <2> QED BY <1>1, <1>6, <2>1 DEF ReadsStayInFile, NodesReadAsWritten, NumbersReadAsWritten
<1> QED BY <1>2, <1>11, <1>12 DEF IInv

\* A node is read.
LEMMA ReadNodeHolds == IInv /\ (\E n \in 0 .. 1 : MMDB_read_node(n)) => IInv'
<1> SUFFICES ASSUME IInv, NEW n \in 0 .. 1, MMDB_read_node(n) PROVE IInv'
  OBVIOUS
<1> DEFINE len == written.len
           p == n * len
           info == record_info(len)
           right == p + info.right_record_offset
<1>1. /\ pc = "idle" /\ written.kind = "tree" /\ call' = "MMDB_read_node"
      /\ result' = <<n, left_record(p, len), right_record(right, len)>>
      /\ reads' = p .. p + info.bytes - 1 \union right .. right + info.bytes - 1
      /\ UNCHANGED <<file_content, written, pc, search_area, max_size, cur, value>>
  BY DEF MMDB_read_node
<1>2. FileInv'
  BY <1>1, FileStays DEF IInv
<1>3. PICK len0 \in RecordLengths : \E l, r \in Records[len0] : TreeFile(len0, l, r)
  BY <1>1, KindOfFile DEF IInv
<1>4. PICK l \in Records[len0], r \in Records[len0] : TreeFile(len0, l, r)
  BY <1>3
<1>5. len = len0 /\ len \in RecordLengths /\ written.nodes = <<<<l, r>>, <<r, l>>>>
  <2>1. written = [kind |-> "tree", len |-> len0, nodes |-> <<<<l, r>>, <<r, l>>>>]
    BY <1>4 DEF TreeFile
  <2>2. written.len = len0
    BY <2>1
  <2>3. written.nodes = <<<<l, r>>, <<r, l>>>>
    BY <2>1
  <2> QED BY <2>2, <2>3
<1> DEFINE s == NodeBytes(l, r, len)
           t == NodeBytes(r, l, len)
<1>6. s \in Seq(Nat) /\ t \in Seq(Nat) /\ Len(s) = len /\ Len(t) = len /\ len \in Nat
  <2>1. len \in Nat
    BY <1>5 DEF RecordLengths
  <2>2. l \in Records[len] /\ r \in Records[len]
    BY <1>5
  <2> HIDE DEF len
  <2> QED BY <1>5, <2>1, <2>2, NodeLength
<1>7. file_content = s \o t
  BY <1>4, <1>5 DEF TreeFile
<1> HIDE DEF s, t, len
<1>8. file_size = len + len
  <2>1. Len(s \o t) = Len(s) + Len(t)
    BY <1>6, InARow
  <2> QED BY <1>6, <1>7, <2>1 DEF file_size
<1>9. Has(0, s) /\ Has(len, t)
  <2>1. Has(0, s \o t)
    BY <1>7 DEF Has
  <2>2. Has(0, s) /\ Has(0 + Len(s), t)
    BY <1>6, <2>1, HasBoth
  <2> QED BY <1>6, <2>2
<1>10. /\ n = 0 => left_record(p, len) = l /\ right_record(right, len) = r
       /\ n = 1 => left_record(p, len) = r /\ right_record(right, len) = l
  <2>1. n = 0 => p = 0
    BY <1>6
  <2>2. n = 1 => p = len
    BY <1>6
  <2>3. ASSUME n = 0 PROVE left_record(p, len) = l /\ right_record(right, len) = r
    <3>1. Has(p, NodeBytes(l, r, len)) /\ p \in Nat
      BY <1>9, <2>1, <2>3 DEF s
    <3> HIDE DEF p
    <3> QED BY <1>5, <3>1, NodeReads
  <2>4. ASSUME n = 1 PROVE left_record(p, len) = r /\ right_record(right, len) = l
    <3>1. Has(p, NodeBytes(r, l, len)) /\ p \in Nat
      BY <1>6, <1>9, <2>2, <2>4 DEF t
    <3> HIDE DEF p
    <3> QED BY <1>5, <3>1, NodeReads
  <2> QED BY <2>3, <2>4
<1>11. /\ info.right_record_offset + info.bytes = len
       /\ info.right_record_offset \in Nat /\ info.bytes \in Nat /\ info.bytes <= len
  <2>1. len = 6 => info.right_record_offset = 3 /\ info.bytes = 3
    BY DEF record_info
  <2>2. len = 7 => info.right_record_offset = 3 /\ info.bytes = 4
    BY DEF record_info
  <2>3. len = 8 => info.right_record_offset = 4 /\ info.bytes = 4
    BY DEF record_info
  <2>4. len \in {6, 7, 8}
    BY <1>5 DEF RecordLengths
  <2> HIDE DEF info
  <2> QED BY <2>1, <2>2, <2>3, <2>4
<1>12. p = 0 \/ p = len
  <2>1. CASE n = 0
    BY <1>6, <2>1
  <2>2. CASE n = 1
    BY <1>6, <2>2
  <2> QED BY <2>1, <2>2
<1>13. (n + 1) * len = p + len /\ p = n * len
  <2>1. CASE n = 0
    BY <1>6, <2>1
  <2>2. CASE n = 1
    BY <1>6, <2>2
  <2> QED BY <2>1, <2>2
<1> HIDE DEF info, p
<1>14. len \in Nat /\ p \in Nat
  BY <1>6, <1>12
<1>15. reads' \subseteq p .. p + len - 1
  <2>1. reads' = p .. p + info.bytes - 1 \union right .. right + info.bytes - 1
    BY <1>1
  <2>2. right \in Nat /\ p <= right /\ right + info.bytes = p + len
    <3>1. right = p + info.right_record_offset
      OBVIOUS
    <3> HIDE DEF right
    <3> QED BY <1>11, <1>14, <3>1
  <2> HIDE DEF right
  <2> QED BY <1>11, <1>14, <2>1, <2>2
<1>16. written'.len = len /\ file_size' = len + len /\ result'[1] = n
  <2>1. written' = written /\ file_content' = file_content
    BY <1>1
  <2>2. written'.len = len
    BY <2>1 DEF len
  <2>3. file_size' = len + len
    BY <2>1, <1>8 DEF file_size
  <2>4. result'[1] = n
    BY <1>1
  <2> QED BY <2>2, <2>3, <2>4
<1>17. ReadsStayInFile'
  <2>1. reads' \subseteq 0 .. len + len - 1
    BY <1>6, <1>15, <1>12
  <2>2. result'[1] * written'.len = p /\ (result'[1] + 1) * written'.len = p + len
    BY <1>13, <1>16
  <2>3. reads' \subseteq result'[1] * written'.len .. (result'[1] + 1) * written'.len - 1
    BY <1>15, <1>14, <2>2
  <2>4. reads' \subseteq 0 .. file_size' - 1
    BY <1>16, <1>14, <2>1
  <2> QED BY <2>3, <2>4 DEF ReadsStayInFile
<1>18. NodesReadAsWritten'
  <2>1. Tail(result') = <<left_record(p, len), right_record(right, len)>>
    <3> DEFINE x == left_record(p, len)
               y == right_record(right, len)
    <3>1. result' = <<n, x, y>>
      BY <1>1
    <3> HIDE DEF x, y
    <3>2. Tail(<<n, x, y>>) = <<x, y>>
      OBVIOUS
    <3> QED BY <3>1, <3>2 DEF x, y
  <2>2. n = 0 => written.nodes[n + 1] = <<l, r>>
    BY <1>5
  <2>3. n = 1 => written.nodes[n + 1] = <<r, l>>
    BY <1>5
  <2>4. n = 0 \/ n = 1
    OBVIOUS
  <2>5. Tail(result') = written.nodes[n + 1]
    BY <1>10, <2>1, <2>2, <2>3, <2>4
  <2>6. written' = written
    BY <1>1
  <2>7. Tail(result') = written'.nodes[result'[1] + 1]
    BY <1>16, <2>5, <2>6
  <2> QED BY <2>7 DEF NodesReadAsWritten
<1>19. /\ CallInv' /\ SearchInv' /\ NumberInv' /\ MetadataFollowsLastMarker'
       /\ NumbersReadAsWritten'
  BY <1>1 DEF IInv, CallInv, SearchInv, NumberInv, MetadataFollowsLastMarker,
              NumbersReadAsWritten
<1> QED BY <1>2, <1>17, <1>18, <1>19 DEF IInv

\* What is known of a number and its file.
LEMMA NumberIs ==
  ASSUME FileInv, written.kind = "number"
  PROVE  /\ written.len \in 0 .. 8 /\ written.number \in 0 .. Weight[written.len] - 1
         /\ written.number \in Nat /\ file_size = written.len
         /\ \A i \in 0 .. written.len - 1 :
              at(i) = (written.number \div Weight[written.len - i - 1]) % Byte
<1>1. PICK n \in DOMAIN Numbers : \E v \in Numbers[n] : NumberFile(n, v)
  BY KindOfFile
<1>2. PICK v \in Numbers[n] : NumberFile(n, v)
  BY <1>1
<1>3. written.len = n /\ written.number = v /\ file_content = BigEndian(v, n)
  BY <1>2 DEF NumberFile
<1>4. n \in 0 .. 8 /\ v \in 0 .. Weight[n] - 1
  BY FileAssumption
<1>5. v \in Nat
  BY <1>4, WeightGrows
<1>6. /\ Len(file_content) = n
      /\ \A i \in 1 .. n : file_content[i] = (v \div Weight[n - i]) % Byte
  BY <1>3, <1>4, <1>5, BigEndianBytes
<1>7. \A i \in 0 .. n - 1 : at(i) = (v \div Weight[n - i - 1]) % Byte
  <2>1. \A i \in 0 .. n - 1 : i + 1 \in 1 .. n /\ n - (i + 1) = n - i - 1
    BY <1>4
  <2> QED BY <1>6, <2>1 DEF at
<1> QED BY <1>3, <1>4, <1>5, <1>6, <1>7 DEF file_size

\* Reading a number starts with none of its bytes.
LEMMA GetUintXHolds == IInv /\ get_uintX => IInv'
<1> SUFFICES ASSUME IInv, get_uintX PROVE IInv'
  OBVIOUS
<1>1. /\ pc = "idle" /\ written.kind = "number" /\ pc' = "uintX" /\ cur' = 0 /\ value' = 0
      /\ call' \in {"get_uintX", "get_sintX"} /\ (call' = "get_sintX" => written.len <= 4)
      /\ reads' = {} /\ UNCHANGED <<file_content, written>>
  BY DEF get_uintX
<1>2. FileInv'
  BY <1>1, FileStays DEF IInv
<1>3. NumberInv'
  <2>1. written.len \in 0 .. 8 /\ written.number \in 0 .. Weight[written.len] - 1
    BY <1>1, NumberIs DEF IInv
  <2>2. written.number \div Weight[written.len] = 0
    BY <2>1, Whole
  <2>3. written.len - 0 = written.len /\ 0 \in 0 .. written.len
    BY <2>1
  <2>4. value' = written.number \div Weight[written.len - cur'] /\ cur' \in 0 .. written.len
    BY <1>1, <2>2, <2>3
  <2> QED BY <1>1, <2>4 DEF NumberInv
<1>4. CallInv'
  BY <1>1 DEF CallInv
<1>5. /\ SearchInv' /\ MetadataFollowsLastMarker' /\ ReadsStayInFile'
      /\ NodesReadAsWritten' /\ NumbersReadAsWritten'
  BY <1>1 DEF SearchInv, MetadataFollowsLastMarker, ReadsStayInFile, NodesReadAsWritten,
              NumbersReadAsWritten
<1> QED BY <1>2, <1>3, <1>4, <1>5 DEF IInv

\* value <<= 8; value += *p++ adds the next byte, and nothing is shifted out.
LEMMA NextByteHolds == IInv /\ NextByte => IInv'
<1> SUFFICES ASSUME IInv, NextByte PROVE IInv'
  OBVIOUS
<1> DEFINE n == written.len
           v == written.number
           k == n - cur - 1
<1>1. /\ pc = "uintX" /\ cur < n /\ value' = (value * Byte + at(cur)) % Weight[8]
      /\ cur' = cur + 1 /\ reads' = {cur}
      /\ UNCHANGED <<file_content, written, call, pc, search_area, max_size, result>>
  BY DEF NextByte
<1>2. FileInv'
  BY <1>1, FileStays DEF IInv
<1>3. call \in {"get_uintX", "get_sintX"} /\ written.kind = "number"
  BY <1>1 DEF IInv, CallInv
<1>4. /\ n \in 0 .. 8 /\ v \in 0 .. Weight[n] - 1 /\ v \in Nat /\ file_size = n
      /\ \A i \in 0 .. n - 1 : at(i) = (v \div Weight[n - i - 1]) % Byte
  BY <1>3, NumberIs DEF IInv
<1>5. cur \in 0 .. n /\ value = v \div Weight[n - cur]
  BY <1>1 DEF IInv, NumberInv
<1> HIDE DEF n, v
<1>6. k \in 0 .. 7 /\ k + 1 = n - cur /\ cur \in 0 .. n - 1 /\ n - cur' = k
  BY <1>1, <1>4, <1>5
<1>7. value * Byte + at(cur) = v \div Weight[k]
  <2>1. at(cur) = (v \div Weight[k]) % Byte /\ value = v \div Weight[k + 1]
    BY <1>4, <1>5, <1>6
  <2> HIDE DEF k
  <2> QED BY <1>4, <1>6, <2>1, OneByteMore
<1>8. value' = v \div Weight[k]
  <2> DEFINE q == v \div Weight[k]
  <2>1. q \in Nat /\ q <= v
    <3>1. Weight[k] \in Nat /\ Weight[k] > 0
      BY <1>6, WeightGrows
    <3> QED BY <1>4, <3>1, DivMod
  <2>2. Weight[n] <= Weight[8] /\ Weight[n] \in Nat /\ Weight[8] \in Nat
    BY <1>4, WeightGrows
  <2> HIDE DEF q
  <2>3. q < Weight[8]
    BY <1>4, <2>1, <2>2
  <2>4. q % Weight[8] = q
    BY <2>1, <2>2, <2>3
  <2>5. value' = q % Weight[8]
    BY <1>1, <1>7 DEF q
  <2> QED BY <2>4, <2>5 DEF q
<1>9. NumberInv'
  <2>1. written' = written
    BY <1>1
  <2>2. cur' \in 0 .. n /\ value' = v \div Weight[n - cur']
    BY <1>1, <1>4, <1>6, <1>8
  <2> QED BY <2>1, <2>2 DEF NumberInv, n, v
<1>10. ReadsStayInFile'
  <2>1. file_size' = file_size
    BY <1>1 DEF file_size
  <2>2. reads' \subseteq 0 .. file_size - 1
    BY <1>1, <1>4, <1>6
  <2> QED BY <1>1, <1>3, <2>1, <2>2 DEF ReadsStayInFile
<1>11. CallInv'
  BY <1>1 DEF IInv, CallInv
<1>12. /\ SearchInv' /\ MetadataFollowsLastMarker'
       /\ NodesReadAsWritten' /\ NumbersReadAsWritten'
  BY <1>1, <1>3 DEF SearchInv, MetadataFollowsLastMarker, NodesReadAsWritten,
              NumbersReadAsWritten
<1> QED BY <1>2, <1>9, <1>10, <1>11, <1>12 DEF IInv

\* All bytes are read: value is the number, and as an int32_t it is negative
\* only if the highest of 32 bits is set, which a shorter number never has.
LEMMA NumberIsReadHolds == IInv /\ NumberIsRead => IInv'
<1> SUFFICES ASSUME IInv, NumberIsRead PROVE IInv'
  OBVIOUS
<1> DEFINE n == written.len
           v == written.number
           w == Weight[4]
<1>1. /\ pc = "uintX" /\ cur >= n /\ pc' = "idle" /\ reads' = {}
      /\ result' = IF call = "get_sintX" THEN <<Int32(value)>> ELSE <<value>>
      /\ UNCHANGED <<file_content, written, call, search_area, max_size, cur, value>>
  BY DEF NumberIsRead
<1>2. FileInv'
  BY <1>1, FileStays DEF IInv
<1>3. /\ call \in {"get_uintX", "get_sintX"} /\ written.kind = "number"
      /\ call = "get_sintX" => n <= 4
  BY <1>1 DEF IInv, CallInv
<1>4. n \in 0 .. 8 /\ v \in 0 .. Weight[n] - 1 /\ v \in Nat
  BY <1>3, NumberIs DEF IInv
<1>5. cur \in 0 .. n /\ value = v \div Weight[n - cur]
  BY <1>1 DEF IInv, NumberInv
<1> HIDE DEF n, v
<1>6. value = v
  <2>1. n - cur = 0
    BY <1>1, <1>4, <1>5
  <2> QED BY <1>4, <1>5, <2>1, WeightUnfolds
<1>7. /\ w \in Nat /\ w >= 4 * Weight[3] /\ Weight[3] \in Nat /\ Weight[3] > 0
      /\ Weight[n] \in Nat
  <2>1. 4 \in 1 .. 8 /\ 4 - 1 = 3
    OBVIOUS
  <2> QED BY <1>4, <2>1, WeightGrows
<1>8. call = "get_sintX" =>
        /\ Int32(value) \in -(w \div 2) .. w \div 2 - 1
        /\ Int32(value) % w = v
        /\ n < 4 => Int32(value) >= 0
  <2>1. HAVE call = "get_sintX"
  <2>2. Weight[n] <= w /\ (n < 4 => Weight[n] <= Weight[3])
    BY <1>3, <1>4, <2>1, WeightGrows
  <2>3. v < w /\ (n < 4 => v < Weight[3])
    BY <1>4, <1>7, <2>2
  <2>4. Int32(value) = IF v >= w \div 2 THEN v - w ELSE v
    BY <1>6 DEF Int32
  <2>5. w % 2 = 0
    <3> DEFINE h == Nibble \div 2
               c == h * (Nibble * Weight[3])
    <3>1. w = (Nibble * Nibble) * Weight[3]
      BY WeightUnfolds DEF Byte
    <3>2. Nibble = 2 * h /\ h \in Nat /\ Nibble \in Nat
      BY FileAssumption
    <3>3. c \in Nat /\ w = 2 * c
      <4> HIDE DEF h
      <4>1. (Nibble * Nibble) * Weight[3] = (2 * h) * (Nibble * Weight[3])
        BY <1>7, <3>2
      <4> QED BY <1>7, <3>1, <3>2, <4>1
    <3> HIDE DEF c
    <3> QED BY <3>3
  <2> HIDE DEF w
  <2>6. (v - w) % w = v /\ v % w = v
    BY <1>4, <1>7, <2>3
  <2>7. n < 4 => v < w \div 2
    BY <1>4, <1>7, <2>3
  <2>8. w \div 2 \in Nat /\ w = (w \div 2) + (w \div 2)
    BY <1>7, <2>5
  <2>9. Int32(value) \in -(w \div 2) .. w \div 2 - 1
    BY <1>4, <1>7, <2>3, <2>4, <2>8
  <2> QED BY <1>4, <1>7, <2>4, <2>6, <2>7, <2>8, <2>9
<1>9. NumbersReadAsWritten'
  <2>1. written' = written /\ call' = call
    BY <1>1
  <2>2. call = "get_uintX" => result' = <<v>>
    BY <1>1, <1>6
  <2>3. call = "get_sintX" => result' = <<Int32(value)>>
    BY <1>1
  <2> HIDE DEF w
  <2>4. call = "get_sintX" => /\ result'[1] \in -(w \div 2) .. w \div 2 - 1
                              /\ result'[1] % w = v /\ (n < 4 => result'[1] >= 0)
    BY <1>8, <2>3
  <2> QED BY <2>1, <2>2, <2>4 DEF NumbersReadAsWritten, n, v, w
<1>10. CallInv'
  BY <1>1 DEF IInv, CallInv
<1>11. /\ SearchInv' /\ NumberInv' /\ MetadataFollowsLastMarker' /\ ReadsStayInFile'
       /\ NodesReadAsWritten'
  BY <1>1, <1>3 DEF SearchInv, NumberInv, MetadataFollowsLastMarker, ReadsStayInFile,
                    NodesReadAsWritten
<1> QED BY <1>2, <1>9, <1>10, <1>11 DEF IInv

\* Steps that change nothing.
LEMMA StutterHolds == IInv /\ UNCHANGED vars => IInv'
<1> SUFFICES ASSUME IInv, UNCHANGED vars PROVE IInv'
  OBVIOUS
<1>1. UNCHANGED <<file_content, written, call, pc, search_area, max_size, cur, value,
                  result, reads>>
  BY DEF vars
<1>2. FileInv'
  BY <1>1, FileStays DEF IInv
<1>3. file_size' = file_size /\ start' = start
  BY <1>1 DEF file_size, SearchSize, start
<1>4. CallInv' /\ SearchInv' /\ NumberInv'
  BY <1>1, <1>3 DEF IInv, CallInv, SearchInv, NumberInv, MarkerAt
<1>5. /\ MetadataFollowsLastMarker' /\ ReadsStayInFile'
      /\ NodesReadAsWritten' /\ NumbersReadAsWritten'
  BY <1>1, <1>3 DEF IInv, MetadataFollowsLastMarker, ReadsStayInFile, NodesReadAsWritten,
                    NumbersReadAsWritten
<1> QED BY <1>2, <1>4, <1>5 DEF IInv

LEMMA NextHolds == IInv /\ [Next]_vars => IInv'
BY FindMetadataHolds, PassByteHolds, FoundMarkerHolds, NoMarkerLeftHolds, ReadNodeHolds,
   GetUintXHolds, NextByteHolds, NumberIsReadHolds, StutterHolds DEF Next, Loops

\* What the file holds, where the search is and what has been read of a number:
\* the invariant every step keeps.
THEOREM FileInvariant == Spec => []IInv
BY InitHolds, NextHolds, PTL DEF Spec

\* find_metadata finds the last marker of the block, in every file.
THEOREM MetadataIsFound == Spec => []MetadataFollowsLastMarker
BY FileInvariant, PTL DEF IInv

\* No read leaves the file, and a node's records come from its own bytes.
THEOREM ReadsAreInFile == Spec => []ReadsStayInFile
BY FileInvariant, PTL DEF IInv

\* Records of 24, 28 and 32 bits are read as they were written.
THEOREM NodesAreReadBack == Spec => []NodesReadAsWritten
BY FileInvariant, PTL DEF IInv

\* Numbers of up to eight bytes, and signed ones of up to four, are read as they
\* were written.
THEOREM NumbersAreReadBack == Spec => []NumbersReadAsWritten
BY FileInvariant, PTL DEF IInv

=============================================================================
