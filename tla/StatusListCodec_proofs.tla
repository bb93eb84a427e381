----------------------- MODULE StatusListCodec_proofs -----------------------
(***************************************************************************)
(* Proofs about StatusListCodec, for any indexes, statuses and limits and  *)
(* any sequence of requests.  The argument is about single bits: bit p of  *)
(* the array is bit p % bits of the status of index p \div bits.           *)
(***************************************************************************)
EXTENDS StatusListCodec, FiniteSetTheorems, WellFoundedInduction, TLAPS

----------------------------------------------------------------------------
(* Arithmetic.                                                              *)

LEMMA Div ==
    ASSUME NEW p \in Nat, NEW w \in Nat, w > 0
    PROVE  /\ p \div w \in Nat
           /\ p % w \in 0..(w - 1)
           /\ p = (p \div w) * w + (p % w)
  OBVIOUS

LEMMA Monotone ==
    ASSUME NEW m \in Nat, NEW n \in Nat, NEW w \in Nat
    PROVE  /\ m * w \in Nat
           /\ (m + 1) * w = m * w + w
           /\ m < n => m * w + w <= n * w
  OBVIOUS

(* Quotient and remainder are the only ones.                                *)
LEMMA DivUnique ==
    ASSUME NEW i \in Nat, NEW w \in Nat, w > 0, NEW b \in 0..(w - 1)
    PROVE  (i * w + b) \div w = i /\ (i * w + b) % w = b
  <1> DEFINE p == i * w + b
             q == p \div w
             r == p % w
  <1>1. p \in Nat /\ i * w \in Nat
    BY Monotone
  <1>2. q \in Nat /\ r \in 0..(w - 1) /\ p = q * w + r
    <2> HIDE DEF p
    <2> QED BY <1>1, Div
  <1>3. p = i * w + b
    OBVIOUS
  <1> HIDE DEF p, q, r
  <1>4. ~(q < i)
    <2>1. q < i => q * w + w <= i * w
      BY <1>2, Monotone
    <2>2. q * w \in Nat
      BY <1>2, Monotone
    <2> QED BY <1>1, <1>2, <1>3, <2>1, <2>2
  <1>5. ~(i < q)
    <2>1. i < q => i * w + w <= q * w
      BY <1>2, Monotone
    <2>2. q * w \in Nat
      BY <1>2, Monotone
    <2> QED BY <1>1, <1>2, <1>3, <2>1, <2>2
  <1>6. q = i
    BY <1>2, <1>4, <1>5
  <1>7. r = b
    BY <1>1, <1>2, <1>3, <1>6
  <1> QED BY <1>6, <1>7 DEF p, q, r

(* The bits of entry i are the w bits from i * w on.                        *)
LEMMA EntryOf ==
    ASSUME NEW p \in Nat, NEW i \in Nat, NEW w \in Nat, w > 0
    PROVE  /\ p \div w = i <=> p \in (i * w)..(i * w + w - 1)
           /\ p \div w = i => p % w = p - i * w
  <1>1. i * w \in Nat
    BY Monotone
  <1>2. p \div w \in Nat /\ p % w \in 0..(w - 1) /\ p = (p \div w) * w + (p % w)
    BY Div
  <1>3. ASSUME p \div w = i PROVE p \in (i * w)..(i * w + w - 1) /\ p % w = p - i * w
    BY <1>1, <1>2, <1>3
  <1>4. ASSUME p \in (i * w)..(i * w + w - 1) PROVE p \div w = i
    <2>1. p - i * w \in 0..(w - 1)
      BY <1>1, <1>4
    <2>2. p = i * w + (p - i * w)
      BY <1>1
    <2>3. (i * w + (p - i * w)) \div w = i
      BY <2>1, DivUnique
    <2> QED BY <2>2, <2>3
  <1> QED BY <1>3, <1>4

(* How many whole entries fit.                                              *)
LEMMA EntriesFit ==
    ASSUME NEW i \in Nat, NEW n \in Nat, NEW w \in Nat, w > 0
    PROVE  i < (n * 8) \div w <=> i * w + w <= 8 * n
  <1> DEFINE q == (n * 8) \div w
             r == (n * 8) % w
  <1>1. q \in Nat /\ r \in 0..(w - 1) /\ 8 * n = q * w + r
    <2>1. n * 8 \in Nat /\ n * 8 = 8 * n
      OBVIOUS
    <2> QED BY <2>1, Div
  <1> HIDE DEF q, r
  <1>2. i < q => i * w + w <= q * w
    BY <1>1, Monotone
  <1>3. q < i => q * w + w <= i * w
    BY <1>1, Monotone
  <1>4. i * w \in Nat /\ q * w \in Nat
    BY <1>1, Monotone
  <1>5. i < q <=> i * w + w <= 8 * n
    BY <1>1, <1>2, <1>3, <1>4
  <1> QED BY <1>5 DEF q

(* An array that ends in the byte of the last bit of entry m holds it, and  *)
(* has less than a byte to spare.                                           *)
LEMMA SizeFits ==
    ASSUME NEW m \in Nat, NEW w \in Nat, w > 0,
           NEW n, n = (m * w + w - 1) \div 8 + 1
    PROVE  n \in Nat /\ m * w + w <= 8 * n /\ (n * 8) % w < 8
  <1>1. m * w \in Nat /\ m + 1 \in Nat /\ (m + 1) * w = m * w + w
    BY Monotone
  <1>2. n \in Nat /\ m * w + w <= 8 * n /\ 8 * n < m * w + w + 8
    <2> DEFINE e == m * w + w - 1
    <2>1. e \in Nat
      BY <1>1
    <2> HIDE DEF e
    <2>2. e \div 8 \in Nat /\ e % 8 \in 0..7 /\ e = (e \div 8) * 8 + (e % 8)
      BY <2>1, Div
    <2>3. n = e \div 8 + 1
      BY DEF e
    <2>4. n \in Nat /\ e < 8 * n /\ 8 * n <= e + 8
      BY <2>1, <2>2, <2>3
    <2> QED BY <1>1, <2>1, <2>4 DEF e
  <1>3. CASE w <= 8
    <2>1. n * 8 \in Nat
      BY <1>2
    <2>2. (n * 8) % w \in 0..(w - 1)
      BY <2>1, Div
    <2> QED BY <1>2, <1>3, <2>2
  <1>4. CASE w > 8
    <2> DEFINE r == n * 8 - (m * w + w)
    <2>1. r \in 0..7 /\ r \in 0..(w - 1) /\ n * 8 = (m + 1) * w + r
      BY <1>1, <1>2, <1>4
    <2> HIDE DEF r
    <2>2. ((m + 1) * w + r) % w = r
      BY <1>1, <2>1, DivUnique
    <2> QED BY <1>2, <2>1, <2>2
  <1> QED BY <1>3, <1>4

----------------------------------------------------------------------------
(* Numbers and sets of them.                                                *)

(* The least number principle, for a set of numbers.                        *)
LEMMA Least ==
    ASSUME NEW S, S \subseteq Nat, S # {}
    PROVE  \E x \in S : \A y \in S : x <= y
  <1> DEFINE R == OpToRel(<, Nat)
  <1>1. IsWellFoundedOn(R, Nat)
    BY NatLessThanWellFounded
  <1>2. \A x, y \in Nat : ~(<<y, x>> \in R) => x <= y
    BY DEF OpToRel
  <1> HIDE DEF R
  <1>3. PICK x \in S : \A y \in S : ~(<<y, x>> \in R)
    BY <1>1, WFMin
  <1> QED BY <1>2, <1>3

(* A bounded set of numbers has a greatest member.                          *)
LEMMA Greatest ==
    ASSUME NEW n \in Nat, NEW S, S \subseteq 0..n, S # {}
    PROVE  \E x \in S : \A y \in S : x >= y
  <1> DEFINE T == {n - x : x \in S}
  <1>0. \A x \in S : n - x \in Nat
    OBVIOUS
  <1>1. T \subseteq Nat
    BY <1>0
  <1>2. \A x \in S : n - x \in T
    OBVIOUS
  <1>3. \A t \in T : \E x \in S : t = n - x
    OBVIOUS
  <1> HIDE DEF T
  <1>4. PICK t \in T : \A u \in T : t <= u
    BY <1>1, <1>2, Least
  <1>5. PICK x \in S : t = n - x
    BY <1>3
  <1>6. ASSUME NEW y \in S PROVE x >= y
    <2>1. n - x <= n - y
      BY <1>2, <1>4, <1>5
    <2>2. x \in Nat /\ y \in Nat
      OBVIOUS
    <2> QED BY <2>1, <2>2
  <1> QED BY <1>6

LEMMA MaxOf ==
    ASSUME NEW n \in Nat, NEW S, S \subseteq 0..n, S # {}
    PROVE  Max(S) \in S /\ \A y \in S : Max(S) >= y
  BY Greatest DEF Max

(* Max and Min of two numbers.                                              *)
LEMMA MaxOfTwo ==
    ASSUME NEW a \in Int, NEW b \in Int
    PROVE  Max({a, b}) = IF a >= b THEN a ELSE b
  <1> DEFINE m == IF a >= b THEN a ELSE b
  <1>1. m \in {a, b} /\ \A y \in {a, b} : m >= y
    OBVIOUS
  <1>2. \A x \in {a, b} : (\A y \in {a, b} : x >= y) => x = m
    OBVIOUS
  <1> HIDE DEF m
  <1>3. Max({a, b}) = m
    BY <1>1, <1>2 DEF Max
  <1> QED BY <1>3 DEF m

LEMMA MinOfTwo ==
    ASSUME NEW a \in Int, NEW b \in Int
    PROVE  Min({a, b}) = IF a <= b THEN a ELSE b
  <1> DEFINE m == IF a <= b THEN a ELSE b
  <1>1. m \in {a, b} /\ \A y \in {a, b} : m <= y
    OBVIOUS
  <1>2. \A x \in {a, b} : (\A y \in {a, b} : x <= y) => x = m
    OBVIOUS
  <1> HIDE DEF m
  <1>3. Min({a, b}) = m
    BY <1>1, <1>2 DEF Min
  <1> QED BY <1>3 DEF m

----------------------------------------------------------------------------
(* Bytes and their bits.                                                    *)

(* Bit p of an array, counted from the lowest bit of byte 0.                *)
One(array, p) == (p % 8) \in array[p \div 8]

LEMMA LengthOf ==
    ASSUME NEW n \in Nat, NEW array, DOMAIN array = 0..(n - 1)
    PROVE  Length(array) = n
  <1>1. Cardinality(0..(n - 1)) = IF 0 > n - 1 THEN 0 ELSE (n - 1) - 0 + 1
    BY FS_Interval
  <1> QED BY <1>1 DEF Length

LEMMA ArrayOf ==
    ASSUME NEW n \in Nat, NEW array, DOMAIN array = 0..(n - 1),
           \A k \in 0..(n - 1) : array[k] \in Byte
    PROVE  IsArray(array) /\ Length(array) = n
  BY LengthOf DEF IsArray

(* The byte and the place in it of a bit.                                   *)
LEMMA BitPlace ==
    ASSUME NEW n \in Nat, NEW p \in 0..(8 * n - 1)
    PROVE  /\ p \div 8 \in 0..(n - 1)
           /\ p % 8 \in 0..7
           /\ p = 8 * (p \div 8) + (p % 8)
  <1>1. p \in Nat
    OBVIOUS
  <1>2. p \div 8 \in Nat /\ p % 8 \in 0..7 /\ p = (p \div 8) * 8 + (p % 8)
    BY <1>1, Div
  <1> QED BY <1>2

LEMMA ShiftedBits ==
    ASSUME NEW word, word \subseteq Int, NEW by \in Int, NEW j \in Int
    PROVE  j \in Shifted(word, by) <=> j - by \in word
  BY DEF Shifted

(* What a masked write leaves in each bit of a byte.                        *)
LEMMA SetBitsBits ==
    ASSUME NEW byte \in Byte, NEW offset \in 0..7, NEW n \in Nat, offset + n <= 8,
           NEW value, value \subseteq Int
    PROVE  /\ SetBits(byte, offset, n, value) \in Byte
           /\ \A j \in 0..7 : j \in SetBits(byte, offset, n, value) <=>
                 IF j \in offset..(offset + n - 1) THEN j - offset \in value ELSE j \in byte
  <1> DEFINE mask == offset..(offset + n - 1)
  <1>1. SetBits(byte, offset, n, value) = (byte \ mask) \cup (Shifted(value, offset) \cap mask)
    BY DEF SetBits
  <1>2. mask \subseteq 0..7
    OBVIOUS
  <1>3. SetBits(byte, offset, n, value) \in Byte
    BY <1>1, <1>2 DEF Byte
  <1>4. ASSUME NEW j \in 0..7
        PROVE  j \in SetBits(byte, offset, n, value) <=>
                  IF j \in mask THEN j - offset \in value ELSE j \in byte
    <2>0. j \in Int /\ offset \in Int
      OBVIOUS
    <2>1. j \in Shifted(value, offset) <=> j - offset \in value
      BY <2>0, ShiftedBits
    <2> HIDE DEF mask
    <2> QED BY <1>1, <2>1
  <1> QED BY <1>3, <1>4

(* A run of bits from P on, seen from the byte k it begins in: it begins at *)
(* the offset o.                                                            *)
LEMMA SameByte ==
    ASSUME NEW k \in Nat, NEW o \in 0..7, NEW P \in Nat, P = 8 * k + o,
           NEW w \in Nat, NEW j \in 0..7
    PROVE  /\ j \in o..(o + w - 1) <=> 8 * k + j \in P..(P + w - 1)
           /\ 8 * k + j - P = j - o
  OBVIOUS

(* A byte before the run, or past it, has none of its bits.                 *)
LEMMA OtherByte ==
    ASSUME NEW k \in Nat, NEW Q \in Nat, NEW o \in 0..7, NEW P \in Nat, P = 8 * Q + o,
           NEW w \in Nat, NEW j \in 0..7, k # Q, k < Q \/ 8 * k - P >= w
    PROVE  ~(8 * k + j \in P..(P + w - 1))
  OBVIOUS

----------------------------------------------------------------------------
(* Reading and writing one entry.                                           *)

(* A verifier reads the w bits from i * w on.                               *)
LEMMA StatusAtBits ==
    ASSUME NEW array, IsArray(array), NEW w \in 1..MaxBits, NEW i \in Nat,
           i * w + w <= 8 * Length(array), NEW b
    PROVE  b \in StatusAt(array, w, i) <=> b \in 0..(w - 1) /\ One(array, i * w + b)
  <1> DEFINE pos == i * w
             n == Length(array)
             extracted(k) == {j \in array[k] : 8 * k + j \in pos..(pos + w - 1)}
  <1>0. w \in Nat /\ w > 0
    BY DEF MaxBits
  <1>1. pos \in Nat
    BY <1>0, Monotone
  <1>2. n \in Nat /\ DOMAIN array = 0..(n - 1) /\ \A k \in 0..(n - 1) : array[k] \subseteq 0..7
    BY DEF IsArray, Byte
  <1>3. StatusAt(array, w, i) = UNION {Shifted(extracted(k), 8 * k - pos) : k \in 0..(n - 1)}
    BY <1>2 DEF StatusAt
  <1>4. pos + w <= 8 * n
    OBVIOUS
  <1> HIDE DEF pos, n
  <1>5. ASSUME b \in StatusAt(array, w, i)
        PROVE  b \in 0..(w - 1) /\ One(array, pos + b)
    <2>1. PICK k \in 0..(n - 1) : b \in Shifted(extracted(k), 8 * k - pos)
      BY <1>3, <1>5
    <2>2. PICK j \in array[k] : 8 * k + j \in pos..(pos + w - 1) /\ b = j + (8 * k - pos)
      BY <2>1 DEF Shifted
    <2>3. j \in 0..7 /\ k \in Nat
      BY <1>2, <2>2
    <2>4. b \in 0..(w - 1) /\ pos + b = k * 8 + j
      BY <1>0, <1>1, <2>2, <2>3
    <2>5. (k * 8 + j) \div 8 = k /\ (k * 8 + j) % 8 = j
      BY <2>3, DivUnique
    <2> QED BY <2>2, <2>4, <2>5 DEF One
  <1>6. ASSUME b \in 0..(w - 1), One(array, pos + b)
        PROVE  b \in StatusAt(array, w, i)
    <2> DEFINE p == pos + b
               k == p \div 8
               j == p % 8
    <2>1. p \in 0..(8 * n - 1)
      BY <1>0, <1>1, <1>2, <1>4, <1>6
    <2>2. k \in 0..(n - 1) /\ j \in 0..7 /\ p = 8 * k + j
      <3> HIDE DEF p
      <3> QED BY <1>2, <2>1, BitPlace
    <2>3. j \in array[k]
      BY <1>6 DEF One
    <2>4. p \in pos..(pos + w - 1) /\ b = p - pos /\ b \in Int
      BY <1>0, <1>1, <1>6
    <2> HIDE DEF p, k, j
    <2>5. j \in extracted(k)
      BY <2>2, <2>3, <2>4
    <2>6. b = j + (8 * k - pos)
      BY <1>1, <2>2, <2>4
    <2>7. b \in Shifted(extracted(k), 8 * k - pos)
      BY <2>5, <2>6 DEF Shifted
    <2> QED BY <1>3, <2>2, <2>7
  <1> QED BY <1>5, <1>6 DEF pos

(* One turn of apply_updates' loop: the bits of the entry are the status,   *)
(* every other bit is as it was.                                            *)
LEMMA UpdateBits ==
    ASSUME NEW array, IsArray(array), NEW w \in 1..MaxBits,
           NEW entry, entry.index \in Nat, entry.status \subseteq 0..31,
           entry.index * w + w <= 8 * Length(array)
    PROVE  /\ IsArray(apply_update(array, entry, w))
           /\ Length(apply_update(array, entry, w)) = Length(array)
           /\ \A p \in 0..(8 * Length(array) - 1) :
                 One(apply_update(array, entry, w), p) <=>
                    IF p \div w = entry.index THEN p % w \in entry.status ELSE One(array, p)
  <1> DEFINE i == entry.index
             P == i * w
             Q == P \div 8
             o == P % 8
             n == Length(array)
             written_(k) == 8 * k - P
             run_(k) == Min({w - written_(k), 8})
             result == apply_update(array, entry, w)
             st == entry.status
  <1>0. w \in Nat /\ w > 0 /\ i \in Nat /\ st \subseteq Int /\ st = entry.status
    BY DEF MaxBits
  <1>1. P \in Nat
    BY <1>0, Monotone
  <1>2. Q \in Nat /\ o \in 0..7 /\ P = 8 * Q + o
    <2>1. Q \in Nat /\ o \in 0..7 /\ P = Q * 8 + o
      <3> HIDE DEF P
      <3> QED BY <1>1, Div
    <2> QED BY <2>1
  <1>3. n \in Nat /\ DOMAIN array = 0..(n - 1) /\ \A k \in 0..(n - 1) : array[k] \in Byte
    BY DEF IsArray
  <1>4. P + w <= 8 * n /\ n = Length(array)
    OBVIOUS
  <1>5. Q \in 0..(n - 1)
    BY <1>0, <1>2, <1>3, <1>4
  <1>6. \A p \in Nat : /\ p \div w = i <=> p \in P..(P + w - 1)
                       /\ p \div w = i => p % w = p - P
    BY <1>0, EntryOf
  <1>7. o + w <= 8 => result = [array EXCEPT ![Q] = SetBits(@, o, w, st)]
    BY DEF apply_update
  <1>8. ~(o + w <= 8) =>
           result = [k \in DOMAIN array |->
                CASE k = Q -> SetBits(array[k], o, 8 - o, st)
                  [] k > Q /\ written_(k) < w ->
                        SetBits(array[k], 0, run_(k), Shifted(st, -written_(k)))
                  [] OTHER -> array[k]]
    BY DEF apply_update
  <1> DEFINE Right(k) ==
         /\ result[k] \in Byte
         /\ \A j \in 0..7 : j \in result[k] <=>
               IF 8 * k + j \in P..(P + w - 1) THEN 8 * k + j - P \in st ELSE j \in array[k]
  <1> HIDE DEF i, P, Q, o, n, st
  <1>9. DOMAIN result = 0..(n - 1) /\ \A k \in 0..(n - 1) : Right(k)
    <2>1. CASE o + w <= 8
      <3> HIDE DEF result
      <3>0. DOMAIN result = 0..(n - 1)
        BY <1>3, <1>7, <2>1
      <3>1. ASSUME NEW k \in 0..(n - 1) PROVE Right(k)
        <4>1. CASE k = Q
          <5>1. result[k] = SetBits(array[Q], o, w, st) /\ array[Q] \in Byte
            BY <1>3, <1>5, <1>7, <2>1, <4>1
          <5>2. /\ SetBits(array[Q], o, w, st) \in Byte
                /\ \A j \in 0..7 : j \in SetBits(array[Q], o, w, st) <=>
                      IF j \in o..(o + w - 1) THEN j - o \in st ELSE j \in array[Q]
            BY <1>0, <1>2, <2>1, <5>1, SetBitsBits
          <5>3. ASSUME NEW j \in 0..7
                PROVE  /\ j \in o..(o + w - 1) <=> 8 * k + j \in P..(P + w - 1)
                       /\ 8 * k + j - P = j - o
            <6>1. k \in Nat /\ P = 8 * k + o
              BY ONLY <1>2, <4>1
            <6> QED BY ONLY <1>0, <1>1, <1>2, <6>1, j \in 0..7, SameByte
          <5> QED BY <4>1, <5>1, <5>2, <5>3
        <4>2. CASE k # Q
          <5>1. result[k] = array[k] /\ array[k] \in Byte
            BY <1>3, <1>5, <1>7, <2>1, <4>2
          <5>2. ASSUME NEW j \in 0..7 PROVE ~(8 * k + j \in P..(P + w - 1))
            <6>1. k \in Nat /\ (k < Q \/ 8 * k - P >= w)
              BY ONLY <1>0, <1>2, <1>3, <2>1, <4>2, k \in 0..(n - 1)
            <6> QED BY <1>0, <1>1, <1>2, <4>2, <6>1, OtherByte
          <5> QED BY <5>1, <5>2
        <4> QED BY <4>1, <4>2
      <3> QED BY <3>0, <3>1
    <2>2. CASE ~(o + w <= 8)
      <3> HIDE DEF result
      <3>0. DOMAIN result = 0..(n - 1)
        BY <1>3, <1>8, <2>2
      <3>1. ASSUME NEW k \in 0..(n - 1) PROVE Right(k)
        <4>0. array[k] \in Byte /\ k \in Nat
          BY <1>3
        <4>1. CASE k = Q
          <5> DEFINE m == 8 - o
          <5>1. result[k] = SetBits(array[k], o, m, st)
            <6> HIDE DEF written_, run_
            <6>1. ~(k > Q)
              BY <1>2, <4>0, <4>1
            <6> QED BY <1>3, <1>8, <2>2, <4>1, <6>1
          <5>2. m \in Nat /\ o + m <= 8 /\ o + m = 8
            BY <1>2
          <5> HIDE DEF m
          <5>3. /\ SetBits(array[k], o, m, st) \in Byte
                /\ \A j \in 0..7 : j \in SetBits(array[k], o, m, st) <=>
                      IF j \in o..(o + m - 1) THEN j - o \in st ELSE j \in array[k]
            BY <1>0, <1>2, <4>0, <5>2, SetBitsBits
          <5>4. ASSUME NEW j \in 0..7
                PROVE  /\ j \in o..(o + m - 1) <=> 8 * k + j \in P..(P + w - 1)
                       /\ 8 * k + j - P = j - o
            <6>0. k \in Nat /\ P = 8 * k + o
              BY ONLY <1>2, <4>1
            <6>1. /\ j \in o..(o + w - 1) <=> 8 * k + j \in P..(P + w - 1)
                  /\ 8 * k + j - P = j - o
              BY ONLY <1>0, <1>1, <1>2, <6>0, j \in 0..7, SameByte
            <6>2. j \in o..(o + m - 1) <=> j \in o..(o + w - 1)
              BY ONLY <1>0, <1>2, <2>2, <5>2, j \in 0..7
            <6> QED BY ONLY <6>1, <6>2
          <5> QED BY <5>1, <5>3, <5>4
        <4>2. CASE k > Q /\ written_(k) < w
          <5> DEFINE u == written_(k)
                     m == run_(k)
                     low == Shifted(st, -u)
          <5>1. result[k] = SetBits(array[k], 0, m, low)
            BY <1>2, <1>3, <1>8, <2>2, <4>2
          <5>2. u \in Nat /\ u < w /\ u = 8 * k - P
            BY <1>1, <1>2, <4>0, <4>2
          <5>3. m = IF w - u <= 8 THEN w - u ELSE 8
            <6>1. w - u \in Int /\ 8 \in Int
              BY <1>0, <5>2
            <6> HIDE DEF u
            <6> QED BY <6>1, MinOfTwo DEF u
          <5> HIDE DEF u, m, low
          <5>4. m \in Nat /\ 0 + m <= 8
            BY <1>0, <5>2, <5>3
          <5>5. low \subseteq Int
            BY <1>0, <5>2 DEF low, Shifted
          <5>6. /\ SetBits(array[k], 0, m, low) \in Byte
                /\ \A j \in 0..7 : j \in SetBits(array[k], 0, m, low) <=>
                      IF j \in 0..(0 + m - 1) THEN j - 0 \in low ELSE j \in array[k]
            <6> DEFINE z == 0
            <6>1. z \in 0..7 /\ z + m <= 8
              BY <5>4
            <6> HIDE DEF z
            <6>2. /\ SetBits(array[k], z, m, low) \in Byte
                  /\ \A j \in 0..7 : j \in SetBits(array[k], z, m, low) <=>
                        IF j \in z..(z + m - 1) THEN j - z \in low ELSE j \in array[k]
              BY <4>0, <5>4, <5>5, <6>1, SetBitsBits
            <6> QED BY <6>2 DEF z
          <5>7. \A j \in 0..7 : /\ j \in 0..(0 + m - 1) <=> 8 * k + j \in P..(P + w - 1)
                                /\ 8 * k + j - P = j + u
            BY <1>0, <1>1, <4>0, <5>2, <5>3
          <5>8. ASSUME NEW j \in 0..7 PROVE j - 0 \in low <=> j + u \in st
            <6>1. j \in Int /\ -u \in Int /\ j - (-u) = j + u /\ j - 0 = j
              BY <5>2
            <6> QED BY <1>0, <6>1, ShiftedBits DEF low
          <5> QED BY <5>1, <5>6, <5>7, <5>8
        <4>3. CASE k # Q /\ ~(k > Q /\ written_(k) < w)
          <5>1. result[k] = array[k]
            BY <1>3, <1>8, <2>2, <4>3
          <5>2. ASSUME NEW j \in 0..7 PROVE ~(8 * k + j \in P..(P + w - 1))
            <6>1. k < Q \/ 8 * k - P >= w
              BY ONLY <1>0, <1>1, <1>2, <4>0, <4>3
            <6> QED BY <1>0, <1>1, <1>2, <4>0, <4>3, <6>1, OtherByte
          <5> QED BY <4>0, <5>1, <5>2
        <4> QED BY <4>1, <4>2, <4>3
      <3> QED BY <3>0, <3>1
    <2> QED BY <2>1, <2>2
  <1> HIDE DEF result
  <1>10. IsArray(result) /\ Length(result) = n
    BY <1>3, <1>9, ArrayOf
  <1>11. ASSUME NEW p \in 0..(8 * n - 1)
         PROVE  One(result, p) <=> IF p \div w = i THEN p % w \in st ELSE One(array, p)
    <2>1. p \div 8 \in 0..(n - 1) /\ p % 8 \in 0..7 /\ p = 8 * (p \div 8) + (p % 8)
      BY <1>3, BitPlace
    <2> DEFINE k == p \div 8
               j == p % 8
    <2>2. One(result, p) <=> IF p \in P..(P + w - 1) THEN p - P \in st ELSE One(array, p)
      <3>1. (One(result, p) <=> j \in result[k]) /\ (One(array, p) <=> j \in array[k])
        BY DEF One
      <3>2. k \in 0..(n - 1) /\ j \in 0..7 /\ p = 8 * k + j
        BY <2>1
      <3> HIDE DEF k, j
      <3>3. j \in result[k] <=>
               IF 8 * k + j \in P..(P + w - 1) THEN 8 * k + j - P \in st ELSE j \in array[k]
        BY <1>9, <3>2
      <3> QED BY <1>0, <1>1, <3>1, <3>2, <3>3
    <2>3. p \in Nat
      OBVIOUS
    <2> QED BY <1>6, <2>2, <2>3
  <1> QED BY <1>10, <1>11 DEF result, n, i, st

----------------------------------------------------------------------------
(* Writing all the entries of a request.                                    *)

(* f is the function that apply_updates reads its result from.              *)
Loop(f, array, entries, w, n) ==
    f = [k \in 0..n |-> IF k = 0 THEN array ELSE apply_update(f[k - 1], entries[k], w)]

LEMMA LoopExists ==
    ASSUME NEW array, NEW entries, Len(entries) \in Nat, NEW w, NEW n \in 0..Len(entries)
    PROVE  \E f : Loop(f, array, entries, w, n)
  <1> DEFINE Bad == {k \in 0..Len(entries) : ~ \E f : Loop(f, array, entries, w, k)}
  <1> SUFFICES ASSUME Bad # {} PROVE FALSE
    OBVIOUS
  <1>0. Bad \subseteq Nat
    OBVIOUS
  <1>1. PICK m \in Bad : \A k \in Bad : m <= k
    <2> HIDE DEF Bad
    <2> QED BY <1>0, Least
  <1>2. m \in Nat /\ m <= Len(entries) /\ ~ \E f : Loop(f, array, entries, w, m)
    BY <1>1
  <1>3. CASE m = 0
    <2>1. Loop([k \in 0..0 |-> array], array, entries, w, 0)
      BY DEF Loop
    <2> QED BY <1>2, <1>3, <2>1
  <1>4. CASE m # 0
    <2>1. m - 1 \in 0..Len(entries) /\ m - 1 \notin Bad
      BY <1>1, <1>2, <1>4
    <2>2. PICK f : Loop(f, array, entries, w, m - 1)
      BY <2>1
    <2> DEFINE last == apply_update(f[m - 1], entries[m], w)
               g == [k \in 0..m |-> IF k = m THEN last ELSE f[k]]
               h == [k \in 0..m |->
                        IF k = 0 THEN array ELSE apply_update(g[k - 1], entries[k], w)]
    <2>3. ASSUME NEW k \in 0..m PROVE g[k] = h[k]
      <3>1. CASE k = m
        BY <1>2, <1>4, <3>1
      <3>2. CASE k # m
        <4>1. k \in 0..(m - 1)
          BY <1>2, <3>2
        <4>2. f[k] = IF k = 0 THEN array ELSE apply_update(f[k - 1], entries[k], w)
          BY <2>2, <4>1 DEF Loop
        <4>3. g[k] = f[k]
          BY <3>2
        <4>4. k # 0 => g[k - 1] = f[k - 1]
          BY <1>2, <4>1
        <4> HIDE DEF g
        <4>5. QED BY <4>2, <4>3, <4>4
      <3> QED BY <3>1, <3>2
    <2>4. g = h
      BY <2>3
    <2>5. Loop(g, array, entries, w, m)
      BY <2>4 DEF Loop
    <2> QED BY <1>2, <2>5
  <1> QED BY <1>3, <1>4

LEMMA UpdatesLoop ==
    ASSUME NEW array, NEW entries, Len(entries) \in Nat, NEW w
    PROVE  \E f : Loop(f, array, entries, w, Len(entries))
                  /\ apply_updates(array, entries, w) = f[Len(entries)]
  <1> DEFINE f == CHOOSE f : Loop(f, array, entries, w, Len(entries))
  <1>1. Loop(f, array, entries, w, Len(entries))
    <2>1. Len(entries) \in 0..Len(entries)
      OBVIOUS
    <2> QED BY <2>1, LoopExists
  <1>2. apply_updates(array, entries, w) = f[Len(entries)]
    BY DEF apply_updates, Loop
  <1> QED BY <1>1, <1>2

(* Entry j is the last of the first k that names index i.                   *)
LastNaming(entries, k, i, j) ==
    /\ j \in 1..k
    /\ entries[j].index = i
    /\ \A l \in 1..k : entries[l].index = i => l <= j

(* What a sequence of entries makes of a bit that was old.                  *)
BitAfter(entries, k, w, p, new, old) ==
    /\ \A j \in 1..k : LastNaming(entries, k, p \div w, j) =>
                          (new <=> p % w \in entries[j].status)
    /\ (\A j \in 1..k : entries[j].index # p \div w) => (new <=> old)

(* Of several entries for an index the last one is what remains; an index   *)
(* that none of them names keeps its bits.                                  *)
LEMMA UpdatesBits ==
    ASSUME NEW array, IsArray(array), NEW w \in 1..MaxBits,
           NEW entries, Len(entries) \in Nat,
           \A k \in 1..Len(entries) :
              /\ entries[k].index \in Nat /\ entries[k].status \subseteq 0..31
              /\ entries[k].index * w + w <= 8 * Length(array)
    PROVE  /\ IsArray(apply_updates(array, entries, w))
           /\ Length(apply_updates(array, entries, w)) = Length(array)
           /\ \A p \in 0..(8 * Length(array) - 1) :
                 BitAfter(entries, Len(entries), w, p,
                          One(apply_updates(array, entries, w), p), One(array, p))
  <1> DEFINE N == Len(entries)
             L == Length(array)
  <1>1. PICK f : Loop(f, array, entries, w, N) /\ apply_updates(array, entries, w) = f[N]
    BY UpdatesLoop
  <1>2. f[0] = array /\ \A k \in 1..N : f[k] = apply_update(f[k - 1], entries[k], w)
    BY <1>1 DEF Loop
  <1> DEFINE Good(k) ==
         /\ IsArray(f[k]) /\ Length(f[k]) = L
         /\ \A p \in 0..(8 * L - 1) : BitAfter(entries, k, w, p, One(f[k], p), One(array, p))
             Bad == {k \in 0..N : ~Good(k)}
  <1>3. Bad = {}
    <2> SUFFICES ASSUME Bad # {} PROVE FALSE
      OBVIOUS
    <2>0. Bad \subseteq Nat
      OBVIOUS
    <2>1. PICK m \in Bad : \A k \in Bad : m <= k
      <3> HIDE DEF Bad
      <3> QED BY <2>0, Least
    <2>2. m \in 0..N /\ ~Good(m)
      BY <2>1
    <2>3. CASE m = 0
      <3>1. \A p : BitAfter(entries, 0, w, p, One(f[0], p), One(array, p))
        BY <1>2 DEF BitAfter
      <3> QED BY <1>2, <2>2, <2>3, <3>1
    <2>4. CASE m # 0
      <3>0. m - 1 \in 0..N /\ m \in 1..N /\ ~(m <= m - 1)
        BY <2>2, <2>4
      <3>1. Good(m - 1)
        <4>1. m - 1 \notin Bad
          <5> HIDE DEF Bad
          <5> QED BY <2>1, <3>0
        <4> QED BY <3>0, <4>1
      <3> DEFINE a == f[m - 1]
                 e == entries[m]
      <3>2. f[m] = apply_update(a, e, w)
        BY <1>2, <3>0
      <3>3. IsArray(a) /\ Length(a) = L
        BY <3>1
      <3>4. e.index \in Nat /\ e.status \subseteq 0..31 /\ e.index * w + w <= 8 * Length(a)
        BY <3>0, <3>3
      <3>5. /\ IsArray(f[m]) /\ Length(f[m]) = L
            /\ \A p \in 0..(8 * L - 1) :
                  One(f[m], p) <=> IF p \div w = e.index THEN p % w \in e.status ELSE One(a, p)
        <4> HIDE DEF a, e, L
        <4>1. /\ IsArray(apply_update(a, e, w))
              /\ Length(apply_update(a, e, w)) = Length(a)
              /\ \A p \in 0..(8 * Length(a) - 1) :
                    One(apply_update(a, e, w), p) <=>
                       IF p \div w = e.index THEN p % w \in e.status ELSE One(a, p)
          BY <3>3, <3>4, UpdateBits
        <4> QED BY <3>2, <3>3, <4>1
      <3>6. ASSUME NEW p \in 0..(8 * L - 1)
            PROVE  BitAfter(entries, m, w, p, One(f[m], p), One(array, p))
        <4> DEFINE i == p \div w
                   b == p % w
                   new == One(f[m], p)
                   mid == One(a, p)
                   old == One(array, p)
        <4>1. BitAfter(entries, m - 1, w, p, mid, old)
          BY <3>1
        <4>2. new <=> IF i = e.index THEN b \in e.status ELSE mid
          BY <3>5
        <4>3. \A j \in 1..m : j = m \/ j \in 1..(m - 1)
          BY <3>0
        <4>4. \A j \in 1..(m - 1) : j \in 1..m /\ ~(m <= j)
          BY <3>0
        <4>5. m \in 1..m
          BY <3>0
        <4> HIDE DEF i, b, new, mid, old
        <4>6. CASE i = e.index
          <5>1. ASSUME NEW j \in 1..m, LastNaming(entries, m, i, j)
                PROVE  new <=> b \in entries[j].status
            <6>1. j = m
              BY <4>3, <4>4, <4>5, <4>6, <5>1 DEF LastNaming
            <6> QED BY <4>2, <4>6, <6>1
          <5>2. entries[m].index = i
            BY <4>6
          <5> QED BY <4>5, <5>1, <5>2 DEF BitAfter, i, b, new, old
        <4>7. CASE i # e.index
          <5>0. new <=> mid
            BY <4>2, <4>7
          <5>1. ASSUME NEW j \in 1..m, LastNaming(entries, m, i, j)
                PROVE  new <=> b \in entries[j].status
            <6>1. j \in 1..(m - 1)
              BY <4>3, <4>7, <5>1 DEF LastNaming
            <6>2. LastNaming(entries, m - 1, i, j)
              BY <4>4, <5>1, <6>1 DEF LastNaming
            <6> QED BY <4>1, <5>0, <6>1, <6>2 DEF BitAfter, i, b, mid, old
          <5>2. ASSUME \A j \in 1..m : entries[j].index # i
                PROVE  new <=> old
            <6>1. \A j \in 1..(m - 1) : entries[j].index # i
              BY <4>4, <5>2
            <6> QED BY <4>1, <5>0, <6>1 DEF BitAfter, i, mid, old
          <5> QED BY <5>1, <5>2 DEF BitAfter, i, b, new, old
        <4> QED BY <4>6, <4>7
      <3> QED BY <2>2, <3>5, <3>6
    <2> QED BY <2>3, <2>4
  <1>4. Good(N)
    <2>1. N \in 0..N
      OBVIOUS
    <2> QED BY <1>3, <2>1
  <1> QED BY <1>1, <1>4

----------------------------------------------------------------------------
(* The helpers of create and update.                                        *)

LEMMA RequestIsSeq ==
    ASSUME NEW entries \in Requests
    PROVE  /\ Len(entries) \in Nat /\ DOMAIN entries = 1..Len(entries)
           /\ entries \in Seq(Entry)
           /\ \A k \in 1..Len(entries) : entries[k].index \in Indices /\ entries[k].status \in Statuses
           /\ \A k \in 1..Len(entries) : entries[k].status \subseteq 0..31
           /\ entries # <<>> => Len(entries) > 0
  <1>1. PICK m \in 0..MaxEntries : entries \in [1..m -> Entry]
    BY DEF Requests, BoundedSeq, SeqOf
  <1>2. m \in Nat
    BY StatusesAssumption
  <1>3. entries \in Seq(Entry) /\ Len(entries) = m /\ DOMAIN entries = 1..m
    BY <1>1, <1>2
  <1>4. \A k \in 1..m : entries[k].index \in Indices /\ entries[k].status \in Statuses
    BY <1>1 DEF Entry
  <1>5. \A s \in Statuses : s \subseteq 0..31
    BY StatusesAssumption DEF Word
  <1>6. entries # <<>> => m > 0
    BY <1>2, <1>3
  <1> QED BY <1>2, <1>3, <1>4, <1>5, <1>6

(* The width determine_bits chooses holds every status of the request.      *)
LEMMA WidthHolds ==
    ASSUME NEW entries \in Requests, NEW original \in 0..MaxBits
    PROVE  /\ determine_bits(entries, original) \in 1..MaxBits
           /\ determine_bits(entries, original) >= original
           /\ \A k \in 1..Len(entries) :
                 entries[k].status \subseteq 0..(determine_bits(entries, original) - 1)
  <1> DEFINE S == {0} \cup UNION {entries[k].status : k \in DOMAIN entries}
             top == Max(S)
             required == CASE top = 0    -> 1
                           [] top = 1    -> 2
                           [] top \in 2..3 -> 4
                           [] top \in 4..7 -> 8
                           [] OTHER      -> top + 1
             width == determine_bits(entries, original)
  <1>1. DOMAIN entries = 1..Len(entries) /\ \A k \in 1..Len(entries) : entries[k].status \subseteq 0..31
    BY RequestIsSeq
  <1>2. S \subseteq 0..31 /\ S # {}
    <2>1. \A x \in UNION {entries[k].status : k \in DOMAIN entries} : x \in 0..31
      BY <1>1
    <2>2. 0 \in S /\ 0 \in 0..31
      OBVIOUS
    <2> QED BY <2>1, <2>2
  <1>3. \A k \in 1..Len(entries) : entries[k].status \subseteq S
    BY <1>1
  <1> HIDE DEF S
  <1>4. top \in S /\ \A y \in S : top >= y
    BY <1>2, MaxOf
  <1>5. top \in 0..31
    BY <1>2, <1>4
  <1> HIDE DEF top
  <1>6. required \in 1..32 /\ required > top
    <2>1. CASE top = 0
      BY <2>1
    <2>2. CASE top = 1
      BY <2>2
    <2>3. CASE top \in 2..3
      BY <2>3
    <2>4. CASE top \in 4..7
      BY <2>4
    <2>5. CASE top \in 8..31
      <3>1. top # 0 /\ top # 1 /\ ~(top \in 2..3) /\ ~(top \in 4..7)
        BY <2>5
      <3>2. required = top + 1
        BY <3>1
      <3> QED BY <2>5, <3>2
    <2> QED BY <1>5, <2>1, <2>2, <2>3, <2>4, <2>5
  <1>7. width = Max({original, required})
    BY DEF determine_bits, S, top
  <1> HIDE DEF required, width
  <1>8. width = IF original >= required THEN original ELSE required
    <2>1. original \in Int /\ required \in Int
      BY <1>6 DEF MaxBits
    <2> QED BY <1>7, <2>1, MaxOfTwo
  <1>9. width \in 1..MaxBits /\ width >= original /\ width > top
    BY <1>5, <1>6, <1>8 DEF MaxBits
  <1>10. \A y \in S : y \in 0..(width - 1)
    BY <1>2, <1>4, <1>5, <1>9 DEF MaxBits
  <1> QED BY <1>3, <1>9, <1>10 DEF width

(* The array calculate_array_size asks for holds every entry.               *)
LEMMA SizeHolds ==
    ASSUME NEW entries, NEW N \in Nat, N > 0, DOMAIN entries = 1..N,
           NEW bound \in Nat, \A k \in 1..N : entries[k].index \in 0..bound,
           NEW w \in 1..MaxBits
    PROVE  /\ calculate_array_size(entries, w) \in Nat
           /\ (calculate_array_size(entries, w) * 8) % w < 8
           /\ \A k \in 1..N : entries[k].index * w + w <= 8 * calculate_array_size(entries, w)
  <1> DEFINE S == {entries[k].index : k \in DOMAIN entries}
             m == Max(S)
             n == calculate_array_size(entries, w)
  <1>0. w \in Nat /\ w > 0
    BY DEF MaxBits
  <1>1. S \subseteq 0..bound /\ S # {} /\ \A k \in 1..N : entries[k].index \in S
    <2>1. 1 \in 1..N
      OBVIOUS
    <2> QED BY <2>1
  <1>2. n = (m * w + w - 1) \div 8 + 1
    BY DEF calculate_array_size
  <1> HIDE DEF S, n
  <1>3. m \in S /\ \A y \in S : m >= y
    BY <1>1, MaxOf
  <1> HIDE DEF m
  <1>4. m \in Nat
    BY <1>1, <1>3
  <1>5. n \in Nat /\ m * w + w <= 8 * n /\ (n * 8) % w < 8
    BY <1>0, <1>2, <1>4, SizeFits
  <1>6. ASSUME NEW k \in 1..N PROVE entries[k].index * w + w <= 8 * n
    <2> DEFINE i == entries[k].index
    <2>1. i \in Nat /\ i <= m
      BY <1>1, <1>3, <1>4
    <2> HIDE DEF i
    <2>2. i < m => i * w + w <= m * w
      BY <1>0, <1>4, <2>1, Monotone
    <2>3. i * w \in Nat /\ m * w \in Nat
      BY <1>0, <1>4, <2>1, Monotone
    <2>4. i * w + w <= m * w + w
      <3>1. CASE i = m
        BY <1>0, <2>3, <3>1
      <3>2. CASE i < m
        BY <1>0, <2>2, <2>3, <3>2
      <3> QED BY <1>4, <2>1, <3>1, <3>2
    <2>5. i * w + w <= 8 * n
      <3>1. n \in Nat /\ m * w + w <= 8 * n
        BY <1>5
      <3> QED BY <1>0, <2>3, <2>4, <3>1
    <2> QED BY <2>5 DEF i
  <1> QED BY <1>5, <1>6 DEF n

(* An index that a request names has a last entry.                          *)
LEMMA LastExists ==
    ASSUME NEW entries, NEW N \in Nat, NEW k \in 1..N
    PROVE  \E j \in 1..N : LastNaming(entries, N, entries[k].index, j)
  <1> DEFINE i == entries[k].index
             S == {j \in 1..N : entries[j].index = i}
  <1>1. S \subseteq 0..N /\ S # {}
    OBVIOUS
  <1>2. \A j : j \in S <=> j \in 1..N /\ entries[j].index = i
    OBVIOUS
  <1> HIDE DEF S
  <1>3. PICK j \in S : \A l \in S : j >= l
    BY <1>1, Greatest
  <1>4. j \in 1..N /\ entries[j].index = i /\ \A l \in 1..N : entries[l].index = i => l <= j
    BY <1>2, <1>3
  <1> QED BY <1>4 DEF LastNaming

(* What Record keeps of a request.                                          *)
LEMMA RecordIs ==
    ASSUME NEW map, NEW entries, NEW N \in Nat, DOMAIN entries = 1..N
    PROVE  /\ \A i : i \in DOMAIN Record(map, entries) <=>
                        i \in DOMAIN map \/ \E k \in 1..N : entries[k].index = i
           /\ \A i, j : LastNaming(entries, N, i, j) =>
                           Record(map, entries)[i] = entries[j].status
           /\ \A i \in DOMAIN map : (\A k \in 1..N : entries[k].index # i) =>
                                      Record(map, entries)[i] = map[i]
  <1> DEFINE last(i) == CHOOSE k \in DOMAIN entries :
                          /\ entries[k].index = i
                          /\ \A j \in DOMAIN entries : entries[j].index = i => j <= k
             named == {entries[k].index : k \in DOMAIN entries}
             after == Record(map, entries)
  <1>1. after = [i \in DOMAIN map \cup named |->
                    IF i \in named THEN entries[last(i)].status ELSE map[i]]
    BY DEF Record
  <1>2. \A i : i \in named <=> \E k \in 1..N : entries[k].index = i
    OBVIOUS
  <1> HIDE DEF after, named
  <1>3. ASSUME NEW i, NEW j, LastNaming(entries, N, i, j)
        PROVE  after[i] = entries[j].status
    <2>1. j \in 1..N /\ entries[j].index = i /\ \A l \in 1..N : entries[l].index = i => l <= j
      BY <1>3 DEF LastNaming
    <2>2. last(i) \in 1..N /\ entries[last(i)].index = i
          /\ \A l \in 1..N : entries[l].index = i => l <= last(i)
      BY <2>1
    <2> HIDE DEF last
    <2>3. last(i) = j
      <3>1. last(i) <= j /\ j <= last(i)
        BY <2>1, <2>2
      <3> QED BY <2>1, <2>2, <3>1
    <2>4. i \in named
      BY <1>2, <2>1
    <2> QED BY <1>1, <2>3, <2>4
  <1>4. ASSUME NEW i \in DOMAIN map, \A k \in 1..N : entries[k].index # i
        PROVE  after[i] = map[i]
    BY <1>1, <1>2, <1>4
  <1>5. \A i : i \in DOMAIN after <=> i \in DOMAIN map \/ \E k \in 1..N : entries[k].index = i
    BY <1>1, <1>2
  <1> QED BY <1>3, <1>4, <1>5 DEF after

----------------------------------------------------------------------------
(* The inductive invariant.                                                 *)

(* The array holds the map: bit p is bit p % w of the status of index       *)
(* p \div w and zero when there is none, the bits after the last whole      *)
(* entry included, since a later update may append to them.                 *)
Holds(array, w, map) ==
    /\ IsArray(array)
    /\ (Length(array) * 8) % w < 8
    /\ \A i \in DOMAIN map : i * w + w <= 8 * Length(array)
    /\ \A p \in 0..(8 * Length(array) - 1) :
          One(array, p) <=> p \div w \in DOMAIN map /\ p % w \in map[p \div w]

(* Every status is one, and fits in w bits.                                 *)
Fits(map, w) == \A i \in DOMAIN map : IsStatus(map[i]) /\ map[i] \subseteq 0..(w - 1)

CodecInv ==
    /\ TypeOK
    /\ bits = 0 => written = <<>>
    /\ bits # 0 => Holds(bytes, bits, written) /\ Fits(written, bits)

(* What a verifier reads from an array that holds the map is the map.       *)
LEMMA HoldsReads ==
    ASSUME NEW array, NEW w \in 1..MaxBits, NEW map,
           Holds(array, w, map), Fits(map, w),
           NEW i \in 0..(Count(array, w) - 1)
    PROVE  /\ i \in Nat /\ i * w + w <= 8 * Length(array)
           /\ StatusAt(array, w, i) = IF i \in DOMAIN map THEN map[i] ELSE {}
  <1>0. w \in Nat /\ w > 0
    BY DEF MaxBits
  <1>1. Length(array) \in Nat /\ IsArray(array)
    BY DEF Holds, IsArray
  <1>2. i \in Nat /\ i < (Length(array) * 8) \div w
    <2> DEFINE c == (Length(array) * 8) \div w
    <2>1. c \in Nat
      BY <1>0, <1>1, Div
    <2>2. i \in 0..(c - 1)
      BY DEF Count
    <2> HIDE DEF c
    <2>3. i \in Nat /\ i < c
      BY <2>1, <2>2
    <2> QED BY <2>3 DEF c
  <1>3. i * w + w <= 8 * Length(array)
    BY <1>0, <1>1, <1>2, EntriesFit
  <1>4. ASSUME NEW b PROVE b \in StatusAt(array, w, i) <=> i \in DOMAIN map /\ b \in map[i]
    <2>1. b \in StatusAt(array, w, i) <=> b \in 0..(w - 1) /\ One(array, i * w + b)
      BY <1>1, <1>2, <1>3, StatusAtBits
    <2>2. CASE b \in 0..(w - 1)
      <3> DEFINE p == i * w + b
      <3>1. p \div w = i /\ p % w = b
        BY <1>0, <1>2, <2>2, DivUnique
      <3>2. p \in 0..(8 * Length(array) - 1)
        <4>1. i * w \in Nat
          BY <1>0, <1>2, Monotone
        <4> QED BY <1>0, <1>1, <1>3, <2>2, <4>1
      <3> HIDE DEF p
      <3>3. One(array, p) <=> i \in DOMAIN map /\ b \in map[i]
        BY <3>1, <3>2 DEF Holds
      <3> QED BY <2>1, <2>2, <3>3 DEF p
    <2>3. CASE b \notin 0..(w - 1)
      BY <2>1, <2>3 DEF Fits
    <2> QED BY <2>2, <2>3
  <1>5. StatusAt(array, w, i) = IF i \in DOMAIN map THEN map[i] ELSE {}
    <2>1. CASE i \in DOMAIN map
      BY <1>4, <2>1
    <2>2. CASE i \notin DOMAIN map
      BY <1>4, <2>2
    <2> QED BY <2>1, <2>2
  <1> QED BY <1>2, <1>3, <1>5

(* apply_updates keeps the array in step with the map of the statuses.      *)
LEMMA UpdatesHold ==
    ASSUME NEW array, NEW w \in 1..MaxBits, NEW map, Holds(array, w, map),
           NEW entries, Len(entries) \in Nat, DOMAIN entries = 1..Len(entries),
           \A k \in 1..Len(entries) :
              /\ entries[k].index \in Nat /\ entries[k].status \subseteq 0..31
              /\ entries[k].index * w + w <= 8 * Length(array)
    PROVE  Holds(apply_updates(array, entries, w), w, Record(map, entries))
  <1> DEFINE N == Len(entries)
             L == Length(array)
             new == apply_updates(array, entries, w)
             after == Record(map, entries)
  <1>1. IsArray(array)
    BY DEF Holds
  <1>2. /\ IsArray(new) /\ Length(new) = L
        /\ \A p \in 0..(8 * L - 1) : BitAfter(entries, N, w, p, One(new, p), One(array, p))
    BY <1>1, UpdatesBits
  <1>3. /\ \A i : i \in DOMAIN after <=>
                     i \in DOMAIN map \/ \E k \in 1..N : entries[k].index = i
        /\ \A i, j : LastNaming(entries, N, i, j) => after[i] = entries[j].status
        /\ \A i \in DOMAIN map : (\A k \in 1..N : entries[k].index # i) => after[i] = map[i]
    <2>1. N \in Nat /\ DOMAIN entries = 1..N
      OBVIOUS
    <2> HIDE DEF N, after
    <2> QED BY ONLY <2>1, RecordIs DEF after
  <1> HIDE DEF new, after
  <1>4. \A i \in DOMAIN after : i * w + w <= 8 * L
    BY <1>3 DEF Holds
  <1>5. ASSUME NEW p \in 0..(8 * L - 1)
        PROVE  One(new, p) <=> p \div w \in DOMAIN after /\ p % w \in after[p \div w]
    <2> DEFINE i == p \div w
               b == p % w
    <2>1. One(array, p) <=> i \in DOMAIN map /\ b \in map[i]
      BY DEF Holds
    <2>2. BitAfter(entries, N, w, p, One(new, p), One(array, p))
      BY <1>2
    <2>3. CASE \E k \in 1..N : entries[k].index = i
      <3>1. PICK k \in 1..N : entries[k].index = i
        BY <2>3
      <3>2. PICK j \in 1..N : LastNaming(entries, N, i, j)
        <4>1. \E j \in 1..N : LastNaming(entries, N, entries[k].index, j)
          BY LastExists
        <4> QED BY <3>1, <4>1
      <3>3. One(new, p) <=> b \in entries[j].status
        BY <2>2, <3>2 DEF BitAfter
      <3>4. i \in DOMAIN after /\ after[i] = entries[j].status
        BY <1>3, <2>3, <3>2
      <3> QED BY <3>3, <3>4
    <2>4. CASE \A k \in 1..N : entries[k].index # i
      <3>1. One(new, p) <=> One(array, p)
        BY <2>2, <2>4 DEF BitAfter
      <3>2. (i \in DOMAIN after <=> i \in DOMAIN map) /\ (i \in DOMAIN map => after[i] = map[i])
        BY <1>3, <2>4
      <3> HIDE DEF i, b
      <3> QED BY <2>1, <3>1, <3>2 DEF i, b
    <2> QED BY <2>3, <2>4
  <1>6. (Length(new) * 8) % w < 8
    BY <1>2 DEF Holds
  <1>7. Holds(new, w, after)
    <2> HIDE DEF L, N
    <2>1. \A i \in DOMAIN after : i * w + w <= 8 * Length(new)
      BY <1>2, <1>4
    <2>2. \A p \in 0..(8 * Length(new) - 1) :
             One(new, p) <=> p \div w \in DOMAIN after /\ p % w \in after[p \div w]
      BY <1>2, <1>5
    <2> QED BY <1>2, <1>6, <2>1, <2>2 DEF Holds
  <1> QED BY <1>7 DEF new, after

LEMMA ZerosHold ==
    ASSUME NEW n \in Nat, NEW w \in 1..MaxBits, (n * 8) % w < 8, NEW map, DOMAIN map = {}
    PROVE  Holds(Zeros(n), w, map) /\ Length(Zeros(n)) = n
  <1>1. DOMAIN Zeros(n) = 0..(n - 1) /\ \A k \in 0..(n - 1) : Zeros(n)[k] = {}
    BY DEF Zeros
  <1>2. \A k \in 0..(n - 1) : Zeros(n)[k] \in Byte
    BY <1>1 DEF Byte
  <1>3. IsArray(Zeros(n)) /\ Length(Zeros(n)) = n
    BY <1>1, <1>2, ArrayOf
  <1>4. ASSUME NEW p \in 0..(8 * n - 1) PROVE ~One(Zeros(n), p)
    <2>1. p \div 8 \in 0..(n - 1)
      BY BitPlace
    <2> QED BY <1>1, <2>1 DEF One
  <1> QED BY <1>3, <1>4 DEF Holds

(* Room is added with zeros, which are the statuses of no index.            *)
LEMMA ResizedHolds ==
    ASSUME NEW array, NEW w \in 1..MaxBits, NEW map, Holds(array, w, map),
           DOMAIN map \subseteq Nat, NEW n \in Nat, (n * 8) % w < 8
    PROVE  /\ Holds(Resized(array, n), w, map)
           /\ Length(Resized(array, n)) \in Nat /\ Length(Resized(array, n)) >= n
  <1> DEFINE L == Length(array)
             new == Resized(array, n)
  <1>0. w \in Nat /\ w > 0
    BY DEF MaxBits
  <1>1. L \in Nat /\ DOMAIN array = 0..(L - 1) /\ \A k \in 0..(L - 1) : array[k] \in Byte
    BY DEF Holds, IsArray
  <1>2. CASE ~(n > L)
    <2>1. new = array
      BY <1>2 DEF Resized
    <2> QED BY <1>1, <1>2, <2>1
  <1>3. CASE n > L
    <2>1. new = [k \in 0..(n - 1) |-> IF k \in DOMAIN array THEN array[k] ELSE {}]
      BY <1>3 DEF Resized
    <2> HIDE DEF new
    <2>2. /\ DOMAIN new = 0..(n - 1)
          /\ \A k \in 0..(L - 1) : new[k] = array[k]
          /\ \A k \in 0..(n - 1) : k >= L => new[k] = {}
      BY <1>1, <1>3, <2>1
    <2>3. \A k \in 0..(n - 1) : new[k] \in Byte
      <3>1. {} \in Byte
        BY DEF Byte
      <3>2. \A k \in 0..(n - 1) : k \in 0..(L - 1) \/ k >= L
        BY <1>1
      <3> QED BY <1>1, <2>2, <3>1, <3>2
    <2>4. IsArray(new) /\ Length(new) = n
      BY <2>2, <2>3, ArrayOf
    <2>5. ASSUME NEW i \in DOMAIN map PROVE i * w + w <= 8 * L /\ i * w + w <= 8 * n
      <3>1. i * w + w <= 8 * L
        BY DEF Holds
      <3>2. i \in Nat /\ i * w \in Nat
        BY <1>0, Monotone
      <3> QED BY <1>0, <1>1, <1>3, <3>1, <3>2
    <2>6. ASSUME NEW p \in 0..(8 * n - 1)
          PROVE  One(new, p) <=> p \div w \in DOMAIN map /\ p % w \in map[p \div w]
      <3>1. p \div 8 \in 0..(n - 1) /\ p % 8 \in 0..7 /\ p = 8 * (p \div 8) + (p % 8)
        BY BitPlace
      <3>2. CASE p < 8 * L
        <4>1. p \in 0..(8 * L - 1)
          BY <1>1, <3>2
        <4>2. p \div 8 \in 0..(L - 1)
          BY <1>1, <4>1, BitPlace
        <4>3. One(new, p) <=> One(array, p)
          BY <2>2, <4>2 DEF One
        <4>4. One(array, p) <=> p \div w \in DOMAIN map /\ p % w \in map[p \div w]
          BY <4>1 DEF Holds
        <4> HIDE DEF One
        <4> QED BY <4>3, <4>4
      <3>3. CASE ~(p < 8 * L)
        <4>1. p \div 8 >= L
          BY <1>1, <3>1, <3>3
        <4>2. ~One(new, p)
          BY <2>2, <3>1, <4>1 DEF One
        <4>3. p \div w \notin DOMAIN map
          <5> DEFINE i == p \div w
          <5>1. i \in Nat /\ p % w \in 0..(w - 1) /\ p = i * w + (p % w) /\ i * w \in Nat
            BY <1>0, Div, Monotone
          <5> HIDE DEF i
          <5>2. i \in DOMAIN map => i * w + w <= 8 * L
            BY <2>5
          <5>3. i \notin DOMAIN map
            BY <1>0, <1>1, <3>3, <5>1, <5>2
          <5> QED BY <5>3 DEF i
        <4> QED BY <4>2, <4>3
      <3> QED BY <3>2, <3>3
    <2> HIDE DEF L
    <2>7. /\ \A i \in DOMAIN map : i * w + w <= 8 * Length(new)
          /\ \A p \in 0..(8 * Length(new) - 1) :
                One(new, p) <=> p \div w \in DOMAIN map /\ p % w \in map[p \div w]
      BY <2>4, <2>5, <2>6
    <2>8. (Length(new) * 8) % w < 8
      BY <2>4
    <2>9. Holds(new, w, map)
      BY <2>4, <2>7, <2>8 DEF Holds
    <2>10. Length(new) \in Nat /\ Length(new) >= n
      BY <2>4
    <2> QED BY <2>9, <2>10 DEF new
  <1> QED BY <1>2, <1>3

(* A map that gives every index the same bits is held as well.              *)
LEMMA HoldsSame ==
    ASSUME NEW array, NEW w \in 1..MaxBits, NEW map, Holds(array, w, map),
           NEW other, DOMAIN other \subseteq DOMAIN map,
           \A i \in Nat : \A b : (i \in DOMAIN other /\ b \in other[i]) <=>
                                 (i \in DOMAIN map /\ b \in map[i])
    PROVE  Holds(array, w, other)
  <1>1. ASSUME NEW p \in 0..(8 * Length(array) - 1)
        PROVE  One(array, p) <=> p \div w \in DOMAIN other /\ p % w \in other[p \div w]
    <2>1. p \div w \in Nat
      BY Div DEF MaxBits
    <2>2. One(array, p) <=> p \div w \in DOMAIN map /\ p % w \in map[p \div w]
      BY DEF Holds
    <2> HIDE DEF One
    <2> QED BY <2>1, <2>2
  <1> QED BY <1>1 DEF Holds

----------------------------------------------------------------------------
(* Every step keeps the invariant.                                          *)

(* The recorded statuses stay typed, valid and within the width.            *)
LEMMA AcceptedRecord ==
    ASSUME NEW map, DOMAIN map \subseteq 0..MaxIndex, \A i \in DOMAIN map : map[i] \in Statuses,
           NEW w0 \in Int, NEW w \in Int, w0 <= w, Fits(map, w0),
           NEW entries \in Requests, Accepts(entries),
           \A k \in 1..Len(entries) : entries[k].status \subseteq 0..(w - 1)
    PROVE  /\ DOMAIN Record(map, entries) \subseteq 0..MaxIndex
           /\ \A i \in DOMAIN Record(map, entries) : Record(map, entries)[i] \in Statuses
           /\ Fits(Record(map, entries), w)
  <1> DEFINE N == Len(entries)
             after == Record(map, entries)
  <1>1. N \in Nat /\ DOMAIN entries = 1..N /\ \A k \in 1..N : entries[k].status \in Statuses
    BY RequestIsSeq
  <1>2. \A k \in 1..N : entries[k].index \in 0..MaxIndex /\ IsStatus(entries[k].status)
    BY <1>1 DEF Accepts
  <1>3. /\ \A i : i \in DOMAIN after <=>
                     i \in DOMAIN map \/ \E k \in 1..N : entries[k].index = i
        /\ \A i, j : LastNaming(entries, N, i, j) => after[i] = entries[j].status
        /\ \A i \in DOMAIN map : (\A k \in 1..N : entries[k].index # i) => after[i] = map[i]
    <2> HIDE DEF N, after
    <2> QED BY <1>1, RecordIs DEF after
  <1>4. ASSUME NEW i \in DOMAIN map
        PROVE  IsStatus(map[i]) /\ map[i] \subseteq 0..(w - 1) /\ map[i] \in Statuses
    <2>1. IsStatus(map[i]) /\ map[i] \subseteq 0..(w0 - 1)
      BY DEF Fits
    <2>2. \A b \in 0..(w0 - 1) : b \in 0..(w - 1)
      OBVIOUS
    <2> QED BY <2>1, <2>2
  <1> HIDE DEF N, after
  <1>5. ASSUME NEW i \in DOMAIN after
        PROVE  /\ i \in 0..MaxIndex /\ after[i] \in Statuses
               /\ IsStatus(after[i]) /\ after[i] \subseteq 0..(w - 1)
    <2>1. CASE \E k \in 1..N : entries[k].index = i
      <3>1. PICK k \in 1..N : entries[k].index = i
        BY <2>1
      <3>2. PICK j \in 1..N : LastNaming(entries, N, i, j)
        <4>1. \E j \in 1..N : LastNaming(entries, N, entries[k].index, j)
          BY <1>1, LastExists
        <4> QED BY <3>1, <4>1
      <3>3. after[i] = entries[j].status
        BY <1>3, <3>2
      <3> QED BY <1>1, <1>2, <3>1, <3>3 DEF N
    <2>2. CASE \A k \in 1..N : entries[k].index # i
      BY <1>3, <1>4, <2>2
    <2> QED BY <2>1, <2>2
  <1> QED BY <1>5 DEF Fits, after

LEMMA InitCodec == Init => CodecInv
  <1> SUFFICES ASSUME Init PROVE CodecInv
    OBVIOUS
  <1> USE DEF Init
  <1>1. DOMAIN bytes = 0..(0 - 1) /\ \A k \in 0..(0 - 1) : bytes[k] \in Byte
    BY DEF NoBytes
  <1>2. IsArray(bytes)
    BY <1>1, ArrayOf
  <1>3. DOMAIN written = {}
    OBVIOUS
  <1> QED BY <1>2, <1>3 DEF CodecInv, TypeOK, MaxBits

(* What the three actions share: the new width and array hold the record.   *)
LEMMA StepKeeps ==
    ASSUME CodecInv, NEW entries \in Requests, Accepts(entries),
           written' = Record(written, entries),
           bits' \in 1..MaxBits, bits <= bits',
           \A k \in 1..Len(entries) : entries[k].status \subseteq 0..(bits' - 1),
           Holds(bytes', bits', written')
    PROVE  CodecInv'
  <1>1. bits \in 0..MaxBits /\ bits' \in Int /\ bits \in Int /\ bits' # 0
    BY DEF CodecInv, TypeOK, MaxBits
  <1>2. Fits(written, bits)
    <2>1. CASE bits = 0
      BY <2>1 DEF CodecInv, Fits
    <2>2. CASE bits # 0
      BY <2>2 DEF CodecInv
    <2> QED BY <2>1, <2>2
  <1>3. DOMAIN written \subseteq 0..MaxIndex /\ \A i \in DOMAIN written : written[i] \in Statuses
    BY DEF CodecInv, TypeOK
  <1>4. /\ DOMAIN written' \subseteq 0..MaxIndex
        /\ \A i \in DOMAIN written' : written'[i] \in Statuses
        /\ Fits(written', bits')
    <2> DEFINE w == bits'
    <2>1. w \in Int /\ bits <= w /\ \A k \in 1..Len(entries) : entries[k].status \subseteq 0..(w - 1)
      BY <1>1
    <2> HIDE DEF w
    <2>2. /\ DOMAIN Record(written, entries) \subseteq 0..MaxIndex
          /\ \A i \in DOMAIN Record(written, entries) : Record(written, entries)[i] \in Statuses
          /\ Fits(Record(written, entries), w)
      BY <1>1, <1>2, <1>3, <2>1, AcceptedRecord
    <2> QED BY <2>2 DEF w
  <1>5. IsArray(bytes')
    BY DEF Holds
  <1>6. bits' \in 0..MaxBits
    BY DEF MaxBits
  <1> QED BY <1>1, <1>4, <1>5, <1>6 DEF CodecInv, TypeOK

LEMMA RequestRoom ==
    ASSUME NEW entries \in Requests, Accepts(entries), entries # <<>>, NEW w \in 1..MaxBits
    PROVE  /\ calculate_array_size(entries, w) \in Nat
           /\ (calculate_array_size(entries, w) * 8) % w < 8
           /\ \A k \in 1..Len(entries) :
                 /\ entries[k].index \in Nat /\ entries[k].status \subseteq 0..31
                 /\ entries[k].index * w + w <= 8 * calculate_array_size(entries, w)
  <1> DEFINE N == Len(entries)
  <1>1. /\ N \in Nat /\ N > 0 /\ DOMAIN entries = 1..N
        /\ \A k \in 1..N : entries[k].status \subseteq 0..31
    BY RequestIsSeq
  <1>2. MaxIndex \in Nat /\ \A k \in 1..N : entries[k].index \in 0..MaxIndex
    BY <1>1, IndicesAssumption DEF Accepts
  <1>3. \A k \in 1..N : entries[k].index \in Nat
    BY <1>2
  <1> HIDE DEF N
  <1>4. /\ calculate_array_size(entries, w) \in Nat
        /\ (calculate_array_size(entries, w) * 8) % w < 8
        /\ \A k \in 1..N : entries[k].index * w + w <= 8 * calculate_array_size(entries, w)
    BY <1>1, <1>2, SizeHolds
  <1> QED BY <1>1, <1>3, <1>4 DEF N

LEMMA CreateKeeps ==
    ASSUME CodecInv, NEW entries \in Requests, Create(entries)
    PROVE  CodecInv'
  <1>0. Accepts(entries) /\ written' = Record(written, entries) /\ bits = 0 /\ 1 \in 0..MaxBits
    BY DEF Create, MaxBits
  <1>1. DOMAIN written = {}
    BY <1>0 DEF CodecInv
  <1>2. Len(entries) \in Nat /\ DOMAIN entries = 1..Len(entries)
    BY RequestIsSeq
  <1>3. CASE entries = <<>>
    <2>1. bits' = 1 /\ bytes' = NoBytes
      BY <1>3 DEF Create
    <2>2. DOMAIN bytes' = 0..(0 - 1) /\ \A k \in 0..(0 - 1) : bytes'[k] \in Byte
      BY <2>1 DEF NoBytes
    <2>3. IsArray(bytes') /\ Length(bytes') = 0
      BY <2>2, ArrayOf
    <2>4. DOMAIN written' = {}
      BY <1>0, <1>1, <1>3 DEF Record
    <2>5. (0 * 8) % 1 < 8
      OBVIOUS
    <2>6. Holds(bytes', bits', written')
      BY <2>1, <2>3, <2>4, <2>5 DEF Holds
    <2>7. Len(entries) = 0 /\ bits' \in 1..MaxBits /\ bits <= bits'
      BY <1>0, <1>3, <2>1 DEF MaxBits
    <2>8. \A k \in 1..Len(entries) : entries[k].status \subseteq 0..(bits' - 1)
      BY <2>7
    <2> QED BY <1>0, <2>6, <2>7, <2>8, StepKeeps
  <1>4. CASE entries # <<>>
    <2> DEFINE w == determine_bits(entries, 1)
               n == calculate_array_size(entries, w)
    <2>1. bits' = w /\ bytes' = create_with_bits(entries, bits')
      BY <1>4 DEF Create
    <2>2. w \in 1..MaxBits /\ \A k \in 1..Len(entries) : entries[k].status \subseteq 0..(w - 1)
      BY <1>0, WidthHolds
    <2> HIDE DEF w
    <2>3. /\ n \in Nat /\ (n * 8) % w < 8
          /\ \A k \in 1..Len(entries) :
                /\ entries[k].index \in Nat /\ entries[k].status \subseteq 0..31
                /\ entries[k].index * w + w <= 8 * n
      BY <1>0, <1>4, <2>2, RequestRoom
    <2>4. bytes' = apply_updates(Zeros(n), entries, w)
      BY <2>1 DEF create_with_bits
    <2> HIDE DEF n
    <2>5. Holds(Zeros(n), w, written) /\ Length(Zeros(n)) = n
      BY <1>1, <2>2, <2>3, ZerosHold
    <2>6. Holds(apply_updates(Zeros(n), entries, w), w, Record(written, entries))
      BY <1>2, <2>2, <2>3, <2>5, UpdatesHold
    <2>7. Holds(bytes', bits', written')
      BY <1>0, <2>1, <2>4, <2>6
    <2>8. bits' \in 1..MaxBits /\ bits <= bits'
      <3>1. bits = 0 /\ bits' = w
        BY <1>0, <2>1
      <3> QED BY <2>2, <3>1 DEF MaxBits
    <2>9. \A k \in 1..Len(entries) : entries[k].status \subseteq 0..(bits' - 1)
      BY <2>1, <2>2
    <2> QED BY <1>0, <2>7, <2>8, <2>9, StepKeeps
  <1> QED BY <1>3, <1>4

LEMMA InPlaceKeeps ==
    ASSUME CodecInv, NEW entries \in Requests, UpdateInPlace(entries)
    PROVE  CodecInv'
  <1> DEFINE n == calculate_array_size(entries, bits)
             room == Resized(bytes, n)
  <1>0. /\ Accepts(entries) /\ written' = Record(written, entries) /\ entries # <<>>
        /\ bits # 0 /\ bits' = bits /\ determine_bits(entries, bits) = bits
        /\ bytes' = apply_updates(room, entries, bits)
    BY DEF UpdateInPlace
  <1>1. bits \in 0..MaxBits /\ bits \in 1..MaxBits /\ bits <= bits'
    BY <1>0 DEF CodecInv, TypeOK, MaxBits
  <1>2. Holds(bytes, bits, written) /\ DOMAIN written \subseteq Nat
    BY <1>0 DEF CodecInv, TypeOK
  <1>3. Len(entries) \in Nat /\ DOMAIN entries = 1..Len(entries)
    BY RequestIsSeq
  <1>4. \A k \in 1..Len(entries) : entries[k].status \subseteq 0..(bits' - 1)
    <2>1. \A k \in 1..Len(entries) : entries[k].status \subseteq 0..(determine_bits(entries, bits) - 1)
      BY <1>1, WidthHolds
    <2> QED BY <1>0, <2>1
  <1>5. /\ n \in Nat /\ (n * 8) % bits < 8
        /\ \A k \in 1..Len(entries) :
              /\ entries[k].index \in Nat /\ entries[k].status \subseteq 0..31
              /\ entries[k].index * bits + bits <= 8 * n
    BY <1>0, <1>1, RequestRoom
  <1> HIDE DEF n
  <1>6. Holds(room, bits, written) /\ Length(room) \in Nat /\ Length(room) >= n
    BY <1>1, <1>2, <1>5, ResizedHolds
  <1> HIDE DEF room
  <1>7. ASSUME NEW k \in 1..Len(entries)
        PROVE  entries[k].index * bits + bits <= 8 * Length(room)
    <2>1. entries[k].index * bits + bits <= 8 * n /\ entries[k].index * bits \in Nat
      BY <1>1, <1>5, Monotone DEF MaxBits
    <2>2. 8 * n <= 8 * Length(room)
      BY <1>5, <1>6
    <2> DEFINE e == entries[k].index * bits
    <2>3. e \in Nat /\ e + bits <= 8 * n
      BY <2>1
    <2> HIDE DEF e
    <2>4. n \in Nat
      BY <1>5
    <2>5. bits \in Nat
      BY <1>1 DEF MaxBits
    <2>6. e + bits <= 8 * Length(room)
      BY <1>6, <2>2, <2>3, <2>4, <2>5
    <2> QED BY <2>6 DEF e
  <1>8. Holds(apply_updates(room, entries, bits), bits, Record(written, entries))
    BY <1>1, <1>3, <1>5, <1>6, <1>7, UpdatesHold
  <1>9. Holds(bytes', bits', written') /\ bits' \in 1..MaxBits
    BY <1>0, <1>1, <1>8
  <1> QED BY <1>0, <1>1, <1>4, <1>9, StepKeeps

(* Widening writes the decoded statuses first and the request after them,   *)
(* into an array of zeros: the record of the request is what it holds.      *)
LEMMA RebuiltHolds ==
    ASSUME NEW array, NEW w0 \in 1..MaxBits, NEW map,
           DOMAIN map \subseteq 0..MaxIndex, Holds(array, w0, map), Fits(map, w0),
           NEW entries \in Requests, Accepts(entries), entries # <<>>,
           NEW w \in 1..MaxBits
    PROVE  Holds(create_with_bits(decode_status_array(array, w0) \o entries, w), w,
                 Record(map, entries))
  <1> DEFINE C == Count(array, w0)
             N == Len(entries)
             decoded == decode_status_array(array, w0)
             all == decoded \o entries
             n == calculate_array_size(all, w)
  <1>0. w0 \in Nat /\ w0 > 0 /\ MaxIndex \in Nat
    BY IndicesAssumption DEF MaxBits
  <1>1. C \in Nat /\ Length(array) \in Nat
    <2>1. Length(array) \in Nat
      BY DEF Holds, IsArray
    <2>2. Length(array) * 8 \in Nat
      BY <2>1
    <2> QED BY <1>0, <2>1, <2>2, Div DEF Count
  <1>2. /\ N \in Nat /\ N > 0 /\ DOMAIN entries = 1..N /\ entries \in Seq(Entry)
        /\ \A k \in 1..N : entries[k].status \subseteq 0..31
    BY RequestIsSeq
  <1>3. \A k \in 1..N : entries[k].index \in 0..MaxIndex
    BY <1>2 DEF Accepts
  <1>4. decoded = [k \in 1..C |-> [index |-> k - 1, status |-> StatusAt(array, w0, k - 1)]]
    BY DEF decode_status_array
  <1>5. ASSUME NEW k \in 1..C
        PROVE  /\ decoded[k].index = k - 1
               /\ decoded[k].status = IF k - 1 \in DOMAIN map THEN map[k - 1] ELSE {}
               /\ decoded[k].status \subseteq 0..31
    <2>1. k - 1 \in 0..(C - 1)
      BY <1>1
    <2>2. decoded[k].index = k - 1 /\ decoded[k].status = StatusAt(array, w0, k - 1)
      BY <1>4
    <2>3. StatusAt(array, w0, k - 1) = IF k - 1 \in DOMAIN map THEN map[k - 1] ELSE {}
      BY <2>1, HoldsReads
    <2>4. \A i \in DOMAIN map : map[i] \subseteq 0..31
      <3>1. \A b \in 0..(w0 - 1) : b \in 0..31
        BY DEF MaxBits
      <3> QED BY <3>1 DEF Fits
    <2> HIDE DEF C, decoded
    <2>5. decoded[k].status = IF k - 1 \in DOMAIN map THEN map[k - 1] ELSE {}
      BY <2>2, <2>3
    <2> QED BY <2>2, <2>4, <2>5
  <1>6. \A i \in DOMAIN map : i \in Nat /\ i < C
    <2> SUFFICES ASSUME NEW i \in DOMAIN map PROVE i \in Nat /\ i < C
      OBVIOUS
    <2>1. i \in Nat /\ i * w0 + w0 <= 8 * Length(array)
      BY <1>0 DEF Holds
    <2>2. i < (Length(array) * 8) \div w0
      BY <1>0, <1>1, <2>1, EntriesFit
    <2> QED BY <2>1, <2>2 DEF Count
  <1> HIDE DEF C, N
  <1>7. /\ Len(all) = C + N /\ DOMAIN all = 1..(C + N)
        /\ \A k \in 1..C : all[k] = decoded[k]
        /\ \A k \in 1..N : all[C + k] = entries[k]
    <2> DEFINE S == {decoded[k] : k \in 1..C} \cup Entry
    <2>1. DOMAIN decoded = 1..C
      BY <1>4
    <2>2. decoded = [k \in 1..C |-> decoded[k]]
      BY <1>4
    <2> HIDE DEF decoded
    <2>3. decoded \in [1..C -> S]
      BY <2>2
    <2>4. decoded \in Seq(S) /\ Len(decoded) = C
      BY <1>1, <2>1, <2>3
    <2>5. entries \in Seq(S) /\ Len(entries) = N
      BY <1>2 DEF N
    <2> HIDE DEF S
    <2> QED BY <1>1, <1>2, <2>4, <2>5
  <1> HIDE DEF decoded, all
  <1>8. \A k \in 1..(C + N) : k \in 1..C \/ (k - C \in 1..N /\ C + (k - C) = k)
    BY <1>1, <1>2
  <1>9. ASSUME NEW k \in 1..(C + N)
        PROVE  /\ all[k].index \in 0..(MaxIndex + C) /\ all[k].index \in Nat
               /\ all[k].status \subseteq 0..31
    <2>1. CASE k \in 1..C
      <3>1. all[k].index = k - 1 /\ all[k].status \subseteq 0..31
        BY <1>5, <1>7, <2>1
      <3>2. k - 1 \in 0..(MaxIndex + C)
        BY <1>0, <1>1, <2>1
      <3>3. k - 1 \in Nat
        BY <1>1, <2>1
      <3> QED BY <3>1, <3>2, <3>3
    <2>2. CASE k - C \in 1..N /\ C + (k - C) = k
      <3>1. all[k] = entries[k - C]
        BY <1>7, <2>2
      <3>2. all[k].index \in 0..MaxIndex /\ all[k].status \subseteq 0..31
        BY <1>2, <1>3, <2>2, <3>1
      <3>3. \A i \in 0..MaxIndex : i \in 0..(MaxIndex + C) /\ i \in Nat
        BY <1>0, <1>1
      <3> QED BY <3>2, <3>3
    <2> QED BY <1>8, <2>1, <2>2
  <1>10. C + N \in Nat /\ C + N > 0 /\ MaxIndex + C \in Nat
    BY <1>0, <1>1, <1>2
  <1>11. /\ n \in Nat /\ (n * 8) % w < 8
         /\ \A k \in 1..(C + N) : all[k].index * w + w <= 8 * n
    <2> DEFINE M == C + N
               bound == MaxIndex + C
    <2>1. /\ M \in Nat /\ M > 0 /\ bound \in Nat /\ DOMAIN all = 1..M
          /\ \A k \in 1..M : all[k].index \in 0..bound
      BY <1>7, <1>9, <1>10
    <2> HIDE DEF M, bound
    <2>2. /\ n \in Nat /\ (n * 8) % w < 8
          /\ \A k \in 1..M : all[k].index * w + w <= 8 * n
      BY <2>1, SizeHolds
    <2> QED BY <2>2 DEF M
  <1> HIDE DEF n
  <1> DEFINE none == <<>>
             before == Record(none, all)
             after == Record(map, entries)
  <1>12. Holds(Zeros(n), w, none) /\ Length(Zeros(n)) = n
    <2>1. DOMAIN none = {}
      OBVIOUS
    <2> HIDE DEF none
    <2> QED BY <1>11, <2>1, ZerosHold
  <1>13. Holds(apply_updates(Zeros(n), all, w), w, before)
    <2> HIDE DEF none
    <2>1. Len(all) \in Nat /\ DOMAIN all = 1..Len(all)
      BY <1>7, <1>10
    <2>2. \A k \in 1..Len(all) :
             /\ all[k].index \in Nat /\ all[k].status \subseteq 0..31
             /\ all[k].index * w + w <= 8 * Length(Zeros(n))
      BY <1>7, <1>9, <1>11, <1>12
    <2> QED BY <1>12, <2>1, <2>2, UpdatesHold
  <1>14. /\ \A i : i \in DOMAIN before <=> \E k \in 1..(C + N) : all[k].index = i
         /\ \A i, j : LastNaming(all, C + N, i, j) => before[i] = all[j].status
    <2>1. DOMAIN none = {}
      OBVIOUS
    <2> HIDE DEF none
    <2> DEFINE M == C + N
    <2>2. M \in Nat /\ DOMAIN all = 1..M
      BY <1>7, <1>10
    <2> HIDE DEF M
    <2>3. /\ \A i : i \in DOMAIN before <=> i \in DOMAIN none \/ \E k \in 1..M : all[k].index = i
          /\ \A i, j : LastNaming(all, M, i, j) => before[i] = all[j].status
      BY <2>2, RecordIs
    <2> QED BY <2>1, <2>3 DEF M
  <1>15. /\ \A i : i \in DOMAIN after <=>
                      i \in DOMAIN map \/ \E k \in 1..N : entries[k].index = i
         /\ \A i, j : LastNaming(entries, N, i, j) => after[i] = entries[j].status
         /\ \A i \in DOMAIN map : (\A k \in 1..N : entries[k].index # i) => after[i] = map[i]
    BY <1>2, RecordIs
  <1> HIDE DEF before, after
  <1>16. \A k \in 1..N : C + k \in 1..(C + N)
    BY <1>1, <1>2
  <1>17. \A i \in Nat : i < C => i + 1 \in 1..C /\ i + 1 \in 1..(C + N) /\ (i + 1) - 1 = i
    BY <1>1, <1>2
  <1>18. \A i \in Nat : i < C => all[i + 1].index = i
    BY <1>5, <1>7, <1>17
  <1>19. DOMAIN after \subseteq DOMAIN before
    <2>1. ASSUME NEW i \in DOMAIN map PROVE i \in DOMAIN before
      BY <1>6, <1>14, <1>17, <1>18
    <2>2. ASSUME NEW k \in 1..N PROVE entries[k].index \in DOMAIN before
      BY <1>7, <1>14, <1>16
    <2> QED BY <1>15, <2>1, <2>2
  <1>20. ASSUME NEW i \in Nat, NEW b
         PROVE  (i \in DOMAIN after /\ b \in after[i]) <=> (i \in DOMAIN before /\ b \in before[i])
    <2>1. CASE \E k \in 1..N : entries[k].index = i
      <3>1. PICK k \in 1..N : entries[k].index = i
        BY <2>1
      <3>2. PICK j \in 1..N : LastNaming(entries, N, i, j)
        <4>1. \E j \in 1..N : LastNaming(entries, N, entries[k].index, j)
          BY <1>2, LastExists
        <4> QED BY <3>1, <4>1
      <3>3. LastNaming(all, C + N, i, C + j)
        <4>1. entries[j].index = i /\ \A l \in 1..N : entries[l].index = i => l <= j
          BY <3>2 DEF LastNaming
        <4>2. C + j \in 1..(C + N) /\ all[C + j].index = i
          BY <1>7, <1>16, <4>1
        <4>3. ASSUME NEW l \in 1..(C + N), all[l].index = i PROVE l <= C + j
          <5>1. CASE l \in 1..C
            BY <1>1, <5>1
          <5>2. CASE l - C \in 1..N /\ C + (l - C) = l
            <6>1. all[l] = entries[l - C]
              BY <1>7, <5>2
            <6>2. l - C <= j
              BY <4>1, <4>3, <5>2, <6>1
            <6> QED BY <1>1, <1>2, <6>2
          <5> QED BY <1>8, <5>1, <5>2
        <4> QED BY <4>2, <4>3 DEF LastNaming
      <3>4. i \in DOMAIN after /\ after[i] = entries[j].status
        BY <1>15, <2>1, <3>2
      <3>5. i \in DOMAIN before /\ before[i] = all[C + j].status
        BY <1>14, <1>19, <3>3, <3>4
      <3>6. all[C + j] = entries[j]
        BY <1>7
      <3> QED BY <3>4, <3>5, <3>6
    <2>2. CASE (\A k \in 1..N : entries[k].index # i) /\ i < C
      <3>1. all[i + 1].index = i /\ i + 1 \in 1..(C + N) /\ i + 1 \in 1..C
        BY <1>17, <1>18, <2>2
      <3>2. ASSUME NEW l \in 1..(C + N), all[l].index = i PROVE l <= i + 1
        <4>1. CASE l \in 1..C
          <5>1. all[l].index = l - 1
            BY <1>5, <1>7, <4>1
          <5> QED BY <1>1, <3>2, <4>1, <5>1
        <4>2. CASE l - C \in 1..N /\ C + (l - C) = l
          <5>1. all[l] = entries[l - C]
            BY <1>7, <4>2
          <5> QED BY <2>2, <3>2, <4>2, <5>1
        <4> QED BY <1>8, <4>1, <4>2
      <3>3. LastNaming(all, C + N, i, i + 1)
        BY <3>1, <3>2 DEF LastNaming
      <3>4. i \in DOMAIN before /\ before[i] = all[i + 1].status
        BY <1>14, <3>1, <3>3
      <3>5. all[i + 1].status = IF i \in DOMAIN map THEN map[i] ELSE {}
        BY <1>5, <1>7, <1>17, <2>2
      <3>6. (i \in DOMAIN after <=> i \in DOMAIN map) /\ (i \in DOMAIN map => after[i] = map[i])
        BY <1>15, <2>2
      <3> QED BY <3>4, <3>5, <3>6
    <2>3. CASE (\A k \in 1..N : entries[k].index # i) /\ ~(i < C)
      <3>1. i \notin DOMAIN after
        BY <1>6, <1>15, <2>3
      <3>2. ASSUME NEW l \in 1..(C + N) PROVE all[l].index # i
        <4>1. CASE l \in 1..C
          <5>1. all[l].index = l - 1
            BY <1>5, <1>7, <4>1
          <5> QED BY <1>1, <2>3, <4>1, <5>1
        <4>2. CASE l - C \in 1..N /\ C + (l - C) = l
          <5>1. all[l] = entries[l - C]
            BY <1>7, <4>2
          <5> QED BY <2>3, <4>2, <5>1
        <4> QED BY <1>8, <4>1, <4>2
      <3>3. i \notin DOMAIN before
        BY <1>14, <3>2
      <3> QED BY <3>1, <3>3
    <2> QED BY <2>1, <2>2, <2>3
  <1>21. Holds(apply_updates(Zeros(n), all, w), w, after)
    BY <1>13, <1>19, <1>20, HoldsSame
  <1> QED BY <1>21 DEF create_with_bits, all, n, decoded, after

LEMMA WideningKeeps ==
    ASSUME CodecInv, NEW entries \in Requests, UpdateWidening(entries)
    PROVE  CodecInv'
  <1> DEFINE w == determine_bits(entries, bits)
  <1>0. /\ Accepts(entries) /\ written' = Record(written, entries) /\ entries # <<>>
        /\ bits # 0 /\ bits' = w
        /\ bytes' = create_with_bits(decode_status_array(bytes, bits) \o entries, bits')
    BY DEF UpdateWidening
  <1>1. bits \in 0..MaxBits /\ bits \in 1..MaxBits
    BY <1>0 DEF CodecInv, TypeOK, MaxBits
  <1>2. /\ w \in 1..MaxBits /\ w >= bits
        /\ \A k \in 1..Len(entries) : entries[k].status \subseteq 0..(w - 1)
    BY <1>1, WidthHolds
  <1> HIDE DEF w
  <1>3. Holds(bytes, bits, written) /\ Fits(written, bits) /\ DOMAIN written \subseteq 0..MaxIndex
    BY <1>0 DEF CodecInv, TypeOK
  <1>4. Holds(create_with_bits(decode_status_array(bytes, bits) \o entries, w), w,
              Record(written, entries))
    BY <1>0, <1>1, <1>2, <1>3, RebuiltHolds
  <1>5. Holds(bytes', bits', written')
    BY <1>0, <1>4
  <1>6. bits' \in 1..MaxBits /\ bits <= bits'
    <2>1. bits' = w /\ bits \in Int /\ w \in Int
      BY <1>0, <1>1, <1>2 DEF MaxBits
    <2> QED BY <1>2, <2>1
  <1>7. \A k \in 1..Len(entries) : entries[k].status \subseteq 0..(bits' - 1)
    BY <1>0, <1>2
  <1> QED BY <1>0, <1>5, <1>6, <1>7, StepKeeps

LEMMA NextCodec == CodecInv /\ [Next]_vars => CodecInv'
  <1> SUFFICES ASSUME CodecInv, [Next]_vars PROVE CodecInv'
    OBVIOUS
  <1>1. CASE UNCHANGED vars
    BY <1>1 DEF vars, CodecInv, TypeOK
  <1>2. CASE Next
    <2>1. PICK entries \in Requests :
             Create(entries) \/ UpdateInPlace(entries) \/ UpdateWidening(entries)
      BY <1>2 DEF Next
    <2>2. CASE Create(entries)
      BY <2>2, CreateKeeps
    <2>3. CASE UpdateInPlace(entries)
      BY <2>3, InPlaceKeeps
    <2>4. CASE UpdateWidening(entries)
      BY <2>4, WideningKeeps
    <2> QED BY <2>1, <2>2, <2>3, <2>4
  <1> QED BY <1>1, <1>2

LEMMA CodecInvariant == Spec => []CodecInv
  BY InitCodec, NextCodec, PTL DEF Spec

(* The widths stay u8 within 1..32 once published, the array is one of      *)
(* bytes, and only indexes within the limit have a status.                  *)
THEOREM TypeCorrect == Spec => []TypeOK
  <1>1. CodecInv => TypeOK
    BY DEF CodecInv
  <1> QED BY <1>1, CodecInvariant, PTL

LEMMA InvReads ==
    ASSUME CodecInv, bits # 0
    PROVE  /\ \A i \in DOMAIN written : i < Count(bytes, bits)
           /\ \A i \in 0..(Count(bytes, bits) - 1) :
                 StatusAt(bytes, bits, i) = IF i \in DOMAIN written THEN written[i] ELSE {}
  <1>1. bits \in 1..MaxBits /\ bits \in Nat /\ bits > 0
    BY DEF CodecInv, TypeOK, MaxBits
  <1>2. Holds(bytes, bits, written) /\ Fits(written, bits) /\ DOMAIN written \subseteq 0..MaxIndex
    BY DEF CodecInv, TypeOK
  <1>3. Length(bytes) \in Nat
    BY <1>2 DEF Holds, IsArray
  <1>4. ASSUME NEW i \in DOMAIN written PROVE i < Count(bytes, bits)
    <2>1. i \in Nat /\ i * bits + bits <= 8 * Length(bytes)
      BY <1>2 DEF Holds
    <2>2. i < (Length(bytes) * 8) \div bits
      BY <1>1, <1>3, <2>1, EntriesFit
    <2> QED BY <2>2 DEF Count
  <1>5. ASSUME NEW i \in 0..(Count(bytes, bits) - 1)
        PROVE  StatusAt(bytes, bits, i) = IF i \in DOMAIN written THEN written[i] ELSE {}
    BY <1>1, <1>2, HoldsReads
  <1> QED BY <1>4, <1>5

(* The codec never gives a verifier a wrong status: at every index the      *)
(* published bits and bytes decode to the last status that create or update *)
(* accepted for it, after any number of updates and changes of width.       *)
THEOREM StatusesAreRightHolds == Spec => []StatusesAreRight
  <1>1. CodecInv => StatusesAreRight
    BY InvReads DEF StatusesAreRight
  <1> QED BY <1>1, CodecInvariant, PTL

(* decode_status_array accepts every list that create and update wrote: an  *)
(* update that widens a list never fails with CorruptStoredList.            *)
THEOREM NeverCorruptHolds == Spec => []NeverCorrupt
  <1>1. ASSUME CodecInv, bits # 0 PROVE Decodes(bytes, bits)
    <2>1. (Length(bytes) * 8) % bits < 8
      BY <1>1 DEF CodecInv, Holds
    <2>2. ASSUME NEW i \in 0..(Count(bytes, bits) - 1)
          PROVE  IsStatus(StatusAt(bytes, bits, i))
      <3>1. StatusAt(bytes, bits, i) = IF i \in DOMAIN written THEN written[i] ELSE {}
        BY <1>1, InvReads
      <3>2. i \in DOMAIN written => IsStatus(written[i])
        BY <1>1 DEF CodecInv, Fits
      <3>3. IsStatus({})
        BY DEF IsStatus
      <3> QED BY <3>1, <3>2, <3>3
    <2> QED BY <2>1, <2>2 DEF Decodes
  <1>2. CodecInv => NeverCorrupt
    BY <1>1 DEF NeverCorrupt
  <1> QED BY <1>2, CodecInvariant, PTL
=============================================================================
