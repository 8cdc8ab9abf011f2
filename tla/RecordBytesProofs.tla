-------------------------- MODULE RecordBytesProofs --------------------------
(***************************************************************************)
(* The bytes of a number tell the number, for any base and any number of   *)
(* bytes, and the bytes of a length the length.                            *)
(*                                                                         *)
(* Two numbers with the same bytes are equal once shifted by all of them:  *)
(* nothing is left of either.  Take the least shift after which they are   *)
(* equal.  If it were not zero, one byte less would leave equal numbers    *)
(* with an equal byte behind them, which are equal too.                    *)
(***************************************************************************)
EXTENDS RecordBytes, FramingProofs, FiniteSetTheorems, WellFoundedInduction

-----------------------------------------------------------------------------
(* Numbers *)

\* A set of numbers that is not empty has a least one.
LEMMA LeastNumber ==
    ASSUME NEW T, T \subseteq Nat, T # {}
    PROVE  \E x \in T : \A y \in T : x <= y
<1> DEFINE R == OpToRel(<, Nat)
<1>1. IsWellFoundedOn(R, Nat)
  BY NatLessThanWellFounded
<1> HIDE DEF R
<1>2. PICK x \in T : \A y \in T : ~(<<y, x>> \in R)
  BY <1>1, WFMin
<1>3. \A y \in T : ~(y < x)
  BY <1>2 DEF R, OpToRel
<1> QED  BY <1>2, <1>3

\* The recurrence of Place, up to n.
Powers(p, n) ==
    /\ p \in [0..n -> Nat]
    /\ p[0] = 1
    /\ \A i \in 1..n : p[i] = Base * p[i - 1]

LEMMA PowersExist == \A n \in Nat : \E p \in [0..n -> Nat] : Powers(p, n)
<1> DEFINE T == {n \in Nat : ~\E p \in [0..n -> Nat] : Powers(p, n)}
<1>1. SUFFICES ASSUME T # {} PROVE FALSE
  OBVIOUS
<1>2. PICK n \in T : \A y \in T : n <= y
  <2>1. T \subseteq Nat
    OBVIOUS
  <2> QED  BY <1>1, <2>1, LeastNumber
<1>3. n # 0
  <2>1. Powers([i \in 0..0 |-> 1], 0)
    BY DEF Powers
  <2>2. [i \in 0..0 |-> 1] \in [0..0 -> Nat]
    OBVIOUS
  <2> QED  BY <1>2, <2>1, <2>2
<1>4. n - 1 \in Nat /\ n - 1 \notin T
  <2>1. n \in Nat /\ n - 1 \in Nat /\ ~(n <= n - 1)
    BY <1>2, <1>3
  <2> HIDE DEF T
  <2> QED  BY <1>2, <2>1
<1>5. PICK p \in [0..(n - 1) -> Nat] : Powers(p, n - 1)
  BY <1>4
<1> DEFINE q == [i \in 0..n |-> IF i = n THEN Base * p[n - 1] ELSE p[i]]
<1>6. Base * p[n - 1] \in Nat
  BY <1>4, BaseAssumption
<1>7. q \in [0..n -> Nat]
  BY <1>2, <1>6
<1>8. Powers(q, n)
  <2>1. q[0] = 1
    BY <1>2, <1>3, <1>5 DEF Powers
  <2>2. ASSUME NEW i \in 1..n PROVE q[i] = Base * q[i - 1]
    BY <1>2, <1>5 DEF Powers
  <2> QED  BY <1>7, <2>1, <2>2 DEF Powers
<1> QED  BY <1>2, <1>7, <1>8

LEMMA PowersAgree ==
    ASSUME NEW m \in Nat, NEW n \in Nat, m <= n, NEW p, NEW q, Powers(p, m), Powers(q, n)
    PROVE  p[m] = q[m]
<1> DEFINE T == {i \in 0..m : p[i] # q[i]}
<1>1. SUFFICES ASSUME T # {} PROVE FALSE
  OBVIOUS
<1>2. PICK i \in T : \A y \in T : i <= y
  <2>1. T \subseteq Nat
    OBVIOUS
  <2> QED  BY <1>1, <2>1, LeastNumber
<1>3. i # 0
  BY <1>2 DEF Powers
<1>4. i - 1 \in 0..m /\ i - 1 \notin T
  BY <1>2, <1>3
<1>5. i \in 1..m /\ i \in 1..n
  BY <1>2, <1>3
<1> QED  BY <1>2, <1>4, <1>5 DEF Powers

\* Place is defined by recursion; this is what it comes to.
LEMMA PlaceValues ==
    /\ Place \in [Nat -> Nat]
    /\ Place[0] = 1
    /\ \A i \in Nat : Place[i + 1] = Base * Place[i]
<1> DEFINE Values(n) == CHOOSE p \in [0..n -> Nat] : Powers(p, n)
           f == [n \in Nat |-> Values(n)[n]]
<1>1. \A n \in Nat : Values(n) \in [0..n -> Nat] /\ Powers(Values(n), n)
  BY PowersExist
<1> HIDE DEF Values
<1>2. f \in [Nat -> Nat] /\ f[0] = 1
  BY <1>1 DEF Powers
<1>3. ASSUME NEW n \in Nat, n # 0 PROVE f[n] = Base * f[n - 1]
  <2>1. n - 1 \in Nat /\ n \in 1..n /\ n - 1 <= n
    BY <1>3
  <2>2. Values(n)[n] = Base * Values(n)[n - 1]
    BY <1>1, <2>1 DEF Powers
  <2>3. Values(n - 1)[n - 1] = Values(n)[n - 1]
    BY <1>1, <2>1, PowersAgree
  <2> QED  BY <2>1, <2>2, <2>3
<1>4. f = [i \in Nat |-> IF i = 0 THEN 1 ELSE Base * f[i - 1]]
  BY <1>2, <1>3
<1> HIDE DEF f
<1>5. Place = [i \in Nat |-> IF i = 0 THEN 1 ELSE Base * Place[i - 1]]
  BY <1>4 DEF Place
<1>6. DOMAIN Place = Nat /\ Place[0] = 1
  BY <1>5
<1>7. ASSUME NEW i \in Nat PROVE Place[i + 1] = Base * Place[i]
  <2>1. i + 1 \in Nat /\ i + 1 # 0 /\ (i + 1) - 1 = i
    OBVIOUS
  <2> QED  BY <1>5, <2>1
<1>8. \A i \in Nat : Place[i] \in Nat
  <2> DEFINE T == {i \in Nat : Place[i] \notin Nat}
  <2>1. SUFFICES ASSUME T # {} PROVE FALSE
    OBVIOUS
  <2>2. PICK i \in T : \A y \in T : i <= y
    <3>1. T \subseteq Nat
      OBVIOUS
    <3> QED  BY <2>1, <3>1, LeastNumber
  <2>3. i \in Nat /\ Place[i] \notin Nat /\ i # 0
    BY <1>6, <2>2
  <2>4. i - 1 \in Nat /\ (i - 1) + 1 = i /\ ~(i <= i - 1)
    BY <2>3
  <2>5. Place[i - 1] \in Nat
    <3>1. i - 1 \notin T
      <4> HIDE DEF T
      <4> QED  BY <2>2, <2>4
    <3> QED  BY <2>4, <3>1
  <2>6. Place[i] = Base * Place[i - 1]
    BY <1>7, <2>4
  <2>7. \A x \in Nat : Base * x \in Nat
    BY BaseAssumption
  <2> QED  BY <2>3, <2>5, <2>6, <2>7
<1>9. Place \in [Nat -> Nat]
  BY <1>5, <1>6, <1>8
<1> QED  BY <1>6, <1>7, <1>9
-----------------------------------------------------------------------------
(* Shifts *)

LEMMA PlacePositive == \A n \in Nat : Place[n] \in Nat /\ Place[n] > 0
<1> DEFINE T == {n \in Nat : ~(Place[n] > 0)}
<1>1. \A n \in Nat : Place[n] \in Nat
  BY PlaceValues
<1>2. SUFFICES ASSUME T # {} PROVE FALSE
  BY <1>1
<1>3. PICK n \in T : \A y \in T : n <= y
  <2>1. T \subseteq Nat
    OBVIOUS
  <2> QED  BY <1>2, <2>1, LeastNumber
<1>4. n \in Nat /\ ~(Place[n] > 0) /\ n # 0
  BY <1>3, PlaceValues
<1>5. n - 1 \in Nat /\ (n - 1) + 1 = n /\ ~(n <= n - 1)
  BY <1>4
<1>6. n - 1 \notin T
  <2> HIDE DEF T
  <2> QED  BY <1>3, <1>5
<1>7. PICK x \in Nat : x = Place[n - 1] /\ x > 0
  BY <1>1, <1>5, <1>6
<1>8. Place[n] = Base * x
  BY <1>5, <1>7, PlaceValues
<1>9. Base * x > 0
  BY <1>7, BaseAssumption
<1> QED  BY <1>4, <1>8, <1>9

\* A number is a quotient and a remainder,
LEMMA Division ==
    ASSUME NEW a \in Nat, NEW d \in Nat, d > 0
    PROVE  /\ a \div d \in Nat /\ a % d \in Nat /\ a % d < d
           /\ a = d * (a \div d) + (a % d)
<1>1. a \div d \in Nat
  OBVIOUS
<1>2. a % d \in Nat
  OBVIOUS
<1>3. a % d < d
  OBVIOUS
<1>4. a = d * (a \div d) + (a % d)
  OBVIOUS
<1> QED  BY <1>1, <1>2, <1>3, <1>4

\* and only one quotient.
LEMMA OneQuotient ==
    ASSUME NEW a \in Nat, NEW d \in Nat, d > 0, NEW s \in Nat, NEW u \in Nat,
           u < d, a = d * s + u
    PROVE  a \div d = s
<1>1. PICK t \in Nat, v \in Nat : t = a \div d /\ v < d /\ a = d * t + v
  BY Division
<1>2. ASSUME NEW x \in Nat, NEW y \in Nat, NEW w \in Nat, w < d, x < y PROVE d * x + w < d * y
  <2>1. PICK z \in Nat : y = x + 1 + z
    <3>1. y - x - 1 \in Nat /\ y = x + 1 + (y - x - 1)
      BY <1>2
    <3> QED  BY <3>1
  <2>2. d * y = d * x + d + d * z
    BY <2>1
  <2>3. d * z \in Nat /\ d * x \in Nat
    OBVIOUS
  <2> QED  BY <1>2, <2>2, <2>3
<1>3. d * s \in Nat /\ d * t \in Nat
  OBVIOUS
<1>4. ~(s < t)
  BY <1>1, <1>2, <1>3
<1>5. ~(t < s)
  BY <1>1, <1>2, <1>3
<1> QED  BY <1>1, <1>4, <1>5

\* To shift by i + 1 bytes is to shift by i bytes and then by one.
LEMMA OneMoreShift ==
    ASSUME NEW a \in Nat, NEW i \in Nat
    PROVE  /\ a \div Place[i] \in Nat
           /\ a \div Place[i + 1] = ShiftRight(a \div Place[i])
<1>1. PICK p \in Nat : p = Place[i] /\ p > 0 /\ Place[i + 1] = Base * p
  BY PlacePositive, PlaceValues
<1>2. PICK q \in Nat, r \in Nat : q = a \div p /\ r < p /\ a = p * q + r
  <2>1. /\ a \div p \in Nat /\ a % p \in Nat /\ a % p < p
        /\ a = p * (a \div p) + (a % p)
    BY <1>1, Division
  <2> QED  BY <2>1
<1>3. PICK s \in Nat, t \in Nat : s = ShiftRight(q) /\ t < Base /\ q = Base * s + t
  <2>1. Base \in Nat /\ Base > 0
    BY BaseAssumption
  <2> QED  BY <2>1, Division DEF ShiftRight
<1> DEFINE u == p * t + r
<1>4. u \in Nat
  OBVIOUS
<1>5. Base * p \in Nat /\ Base * p > 0
  BY <1>1, BaseAssumption
<1>6. a = (Base * p) * s + u
  <2>1. p * (Base * s + t) = (Base * p) * s + p * t
    BY <1>1, BaseAssumption
  <2>2. p * t \in Nat /\ (Base * p) * s \in Nat
    BY <1>5
  <2> QED  BY <1>2, <1>3, <2>1, <2>2
<1>7. u < Base * p
  <2>1. PICK z \in Nat : Base = t + 1 + z
    <3>1. Base - t - 1 \in Nat /\ Base = t + 1 + (Base - t - 1)
      BY <1>3, BaseAssumption
    <3> QED  BY <3>1
  <2>2. (t + 1 + z) * p = p * t + p + z * p
    OBVIOUS
  <2>3. z * p \in Nat /\ p * t \in Nat
    OBVIOUS
  <2> QED  BY <1>2, <2>1, <2>2, <2>3
<1> HIDE DEF u
<1>8. a \div (Base * p) = s
  BY <1>4, <1>5, <1>6, <1>7, OneQuotient
<1> QED  BY <1>1, <1>2, <1>3, <1>8

\* Two numbers of n bytes with the same bytes are the same number.
LEMMA BytesTellNumber ==
    ASSUME NEW n \in Nat, NEW a \in Nat, NEW b \in Nat, a < Place[n], b < Place[n],
           \A i \in 0..(n - 1) : ByteOf(a, i) = ByteOf(b, i)
    PROVE  a = b
<1> DEFINE Same == {i \in 0..n : a \div Place[i] = b \div Place[i]}
<1>1. n \in Same
  <2>1. \A x, d \in Nat : x < d => x \div d = 0
    <3> SUFFICES ASSUME NEW x \in Nat, NEW d \in Nat, x < d PROVE x \div d = 0
      OBVIOUS
    <3>1. d > 0 /\ x = d * 0 + x
      OBVIOUS
    <3> QED  BY <3>1, OneQuotient
  <2> QED  BY <2>1, PlaceValues
<1>2. PICK m \in Same : \A y \in Same : m <= y
  <2>1. Same \subseteq Nat
    OBVIOUS
  <2> QED  BY <1>1, <2>1, LeastNumber
<1>3. m = 0
  <2> SUFFICES ASSUME m # 0 PROVE FALSE
    OBVIOUS
  <2>1. PICK k \in Nat : m = k + 1 /\ k \in 0..(n - 1)
    <3>1. m - 1 \in Nat /\ m = (m - 1) + 1 /\ m - 1 \in 0..(n - 1)
      BY <1>2
    <3> QED  BY <3>1
  <2>2. PICK x \in Nat, y \in Nat : x = a \div Place[k] /\ y = b \div Place[k]
    BY OneMoreShift
  <2>3. ShiftRight(x) = ShiftRight(y)
    <3>1. a \div Place[m] = b \div Place[m]
      BY <1>2
    <3> QED  BY <2>1, <2>2, <3>1, OneMoreShift
  <2>4. LowByte(x) = LowByte(y)
    BY <2>1, <2>2 DEF ByteOf
  <2>5. x = y
    BY <2>3, <2>4, ShiftAndMask
  <2>6. k \in Same
    BY <2>1, <2>2, <2>5
  <2>7. ~(m <= k)
    BY <2>1
  <2> HIDE DEF Same
  <2> QED  BY <1>2, <2>6, <2>7
<1>4. a \div 1 = b \div 1
  BY <1>2, <1>3, PlaceValues
<1>5. \A x \in Nat : x \div 1 = x
  <2> SUFFICES ASSUME NEW x \in Nat PROVE x \div 1 = x
    OBVIOUS
  <2>1. 1 \in Nat /\ 1 > 0 /\ 0 \in Nat /\ 0 < 1 /\ x = 1 * x + 0
    OBVIOUS
  <2> QED  BY <2>1, OneQuotient
<1> QED  BY <1>4, <1>5

-----------------------------------------------------------------------------
(* Nonces *)

\* The bytes of a nonce can be told apart where those of the number can.
LEMMA NonceTellsNumber ==
    ASSUME NEW a \in 0..(Numbers - 1), NEW b \in 0..(Numbers - 1),
           make_record_nonce(a) = make_record_nonce(b)
    PROVE  a = b
<1>1. NumberBytes \in Nat /\ Numbers \in Nat /\ StaticIv \in Seq(Byte) /\ NumberBytes <= Len(StaticIv)
  BY IvAssumption, PlaceValues DEF Numbers
<1>2. a \in Nat /\ b \in Nat /\ a < Place[NumberBytes] /\ b < Place[NumberBytes]
  BY <1>1 DEF Numbers
<1>3. ASSUME NEW i \in 0..(NumberBytes - 1) PROVE ByteOf(a, i) = ByteOf(b, i)
  <2>1. PICK j \in DOMAIN StaticIv : Len(StaticIv) - j = i /\ i < NumberBytes
    <3>1. Len(StaticIv) - i \in DOMAIN StaticIv /\ Len(StaticIv) - (Len(StaticIv) - i) = i
      BY <1>1
    <3> QED  BY <1>1, <3>1
  <2>2. StaticIv[j] \in Byte
    BY <1>1
  <2>3. \A number \in Nat : ByteOf(number, i) \in Byte
    <3> SUFFICES ASSUME NEW number \in Nat PROVE ByteOf(number, i) \in Byte
      OBVIOUS
    <3>1. number \div Place[i] \in Nat
      <4>1. i \in Nat
        OBVIOUS
      <4> QED  BY <4>1, OneMoreShift
    <3> QED  BY <3>1, ShiftAndMask DEF ByteOf
  <2>4. /\ make_record_nonce(a)[j] = Xor[StaticIv[j]][ByteOf(a, i)]
        /\ make_record_nonce(b)[j] = Xor[StaticIv[j]][ByteOf(b, i)]
    BY <2>1 DEF make_record_nonce
  <2> QED  BY <1>2, <2>2, <2>3, <2>4, XorAssumption
<1> QED  BY <1>1, <1>2, <1>3, BytesTellNumber

\* Until the numbers run out the sequence number is the number of the record,
\* and there is one nonce for each number below it.
NoncesInv ==
    /\ sealed \in 0..Numbers
    /\ sealed < Numbers => sequence_number = sealed
    /\ used = {make_record_nonce(n) : n \in 0..(sealed - 1)}
    /\ IsFiniteSet(used) /\ Cardinality(used) = sealed

LEMMA NoncesInit == Init => NoncesInv
<1> SUFFICES ASSUME Init PROVE NoncesInv
  OBVIOUS
<1>1. Numbers \in Nat /\ Numbers > 0
  BY PlacePositive, IvAssumption DEF Numbers
<1>2. used = {} /\ sealed = 0 /\ sequence_number = 0
  BY DEF Init
<1>3. 0..(sealed - 1) = {}
  BY <1>2
<1>4. IsFiniteSet(used) /\ Cardinality(used) = sealed
  BY <1>2, FS_EmptySet
<1> QED  BY <1>1, <1>2, <1>3, <1>4 DEF NoncesInv

\* A record sealed under a number that has not been used adds a nonce.
LEMMA NoncesNext == NoncesInv /\ [Next]_vars => NoncesInv'
<1> SUFFICES ASSUME NoncesInv, [Next]_vars PROVE NoncesInv'
  OBVIOUS
<1>1. PICK numbers \in Nat : numbers = Numbers
  BY PlacePositive, IvAssumption DEF Numbers
<1>2. PICK s \in 0..numbers : s = sealed
  BY <1>1 DEF NoncesInv
<1>3. CASE \E length \in Lengths : SealRecord(length)
  <2>1. s < numbers /\ sequence_number = s
    BY <1>1, <1>2, <1>3 DEF SealRecord, NoncesInv
  <2> DEFINE nonce == make_record_nonce(s)
             old == {make_record_nonce(n) : n \in 0..(s - 1)}
  <2>2. used = old /\ IsFiniteSet(old) /\ Cardinality(old) = s
    BY <1>2 DEF NoncesInv
  <2>3. nonce \notin old
    <3> SUFFICES ASSUME NEW n \in 0..(s - 1), make_record_nonce(s) = make_record_nonce(n) PROVE FALSE
      OBVIOUS
    <3>1. s \in 0..(Numbers - 1) /\ n \in 0..(Numbers - 1) /\ n # s
      BY <1>1, <2>1
    <3> QED  BY <3>1, NonceTellsNumber
  <2>4. sealed' = s + 1 /\ used' = old \union {nonce} /\ sequence_number' = (s + 1) % numbers
    BY <1>1, <1>2, <1>3, <2>1, <2>2 DEF SealRecord
  <2>5. old \union {nonce} = {make_record_nonce(n) : n \in 0..s}
    <3>1. 0..s = (0..(s - 1)) \union {s}
      OBVIOUS
    <3> QED  BY <3>1
  <2>6. IsFiniteSet(old \union {nonce}) /\ Cardinality(old \union {nonce}) = s + 1
    <3>1. /\ IsFiniteSet(old \union {nonce})
          /\ Cardinality(old \union {nonce}) = IF nonce \in old THEN Cardinality(old) ELSE Cardinality(old) + 1
      <4> HIDE DEF old, nonce
      <4> QED  BY <2>2, FS_AddElement
    <3> HIDE DEF old, nonce
    <3> QED  BY <2>2, <2>3, <3>1
  <2>7. s + 1 < numbers => (s + 1) % numbers = s + 1
    OBVIOUS
  <2>8. (s + 1) - 1 = s /\ s + 1 \in 0..numbers
    BY <2>1
  <2>9. used' = {make_record_nonce(n) : n \in 0..(sealed' - 1)}
    BY <2>4, <2>5, <2>8
  <2> HIDE DEF old, nonce
  <2>10. /\ sealed' \in 0..Numbers
         /\ sealed' < Numbers => sequence_number' = sealed'
         /\ IsFiniteSet(used') /\ Cardinality(used') = sealed'
    BY <1>1, <2>4, <2>6, <2>7, <2>8
  <2> QED  BY <2>9, <2>10 DEF NoncesInv
<1>4. CASE UNCHANGED vars
  BY <1>4 DEF NoncesInv, vars
<1> QED  BY <1>3, <1>4 DEF Next

-----------------------------------------------------------------------------
(* Headers *)

\* The header is that of the length, which two bytes can hold.
HeaderInv ==
    /\ encrypted_len \in Lengths
    /\ header = encode_record_header(encrypted_len)

LEMMA HeaderIsRead ==
    ASSUME NEW length \in Lengths
    PROVE  recv_record_header(encode_record_header(length)) = length
<1>1. PICK high \in Nat, low \in Byte :
         high = ShiftRight(length) /\ low = LowByte(length) /\ length = Base * high + low
  <2>1. length \in Nat
    BY LengthAssumption, BaseAssumption
  <2> QED  BY <2>1, ShiftAndMask
<1>2. high \in Byte
  <2>1. length < Base * Base /\ length \in Nat
    BY LengthAssumption, BaseAssumption
  <2>2. ASSUME high >= Base PROVE FALSE
    <3>1. PICK z \in Nat : high = Base + z
      <4>1. high - Base \in Nat /\ high = Base + (high - Base)
        BY <2>2, BaseAssumption
      <4> QED  BY <4>1
    <3>2. Base * (Base + z) = Base * Base + Base * z /\ Base * Base \in Nat /\ Base * z \in Nat
      BY BaseAssumption
    <3>3. low \in Nat
      BY BaseAssumption DEF Byte
    <3> QED  BY <1>1, <2>1, <3>1, <3>2, <3>3
  <2> QED  BY <2>2, BaseAssumption DEF Byte
<1>3. LowByte(high) = high
  BY <1>2, OneByte
<1>4. encode_record_header(length)[4] = high /\ encode_record_header(length)[5] = low
  BY <1>1, <1>3 DEF encode_record_header
<1> QED  BY <1>1, <1>4 DEF recv_record_header

LEMMA HeaderInit == Init => HeaderInv
BY DEF Init, HeaderInv

LEMMA HeaderNext == HeaderInv /\ [Next]_vars => HeaderInv'
<1> SUFFICES ASSUME HeaderInv, [Next]_vars PROVE HeaderInv'
  OBVIOUS
<1>1. CASE \E length \in Lengths : SealRecord(length)
  BY <1>1 DEF SealRecord, HeaderInv
<1>2. CASE UNCHANGED vars
  BY <1>2 DEF HeaderInv, vars
<1> QED  BY <1>1, <1>2 DEF Next

-----------------------------------------------------------------------------
(* Theorems *)

\* make_record_nonce: no two records under one key and IV share a nonce, as
\* long as the sequence numbers last, however many bytes the number has and
\* wherever in the nonce they go.
THEOREM NoncesDifferHolds == Spec => []NoncesDiffer
<1>1. NoncesInv => NoncesDiffer
  BY DEF NoncesInv, NoncesDiffer
<1> QED  BY NoncesInit, NoncesNext, <1>1, PTL DEF Spec

\* encode_record_header and recv_record_header: the receiver reads the length
\* the sender wrote, whatever the values of a byte.
THEOREM LengthIsReadHolds == Spec => []LengthIsRead
<1>1. HeaderInv => LengthIsRead
  BY HeaderIsRead DEF HeaderInv, LengthIsRead
<1> QED  BY HeaderInit, HeaderNext, <1>1, PTL DEF Spec

=============================================================================
