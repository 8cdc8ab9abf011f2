---------------------------- MODULE FramingProofs ----------------------------
(***************************************************************************)
(* Every length up to the largest survives its three bytes, whatever the   *)
(* values of a byte.                                                       *)
(***************************************************************************)
EXTENDS Framing, TLAPS

\* A shift and a mask take a number apart without loss.
LEMMA ShiftAndMask ==
    ASSUME NEW n \in Nat
    PROVE  /\ ShiftRight(n) \in Nat /\ LowByte(n) \in Byte
           /\ n = Base * ShiftRight(n) + LowByte(n)
BY BaseAssumption DEF ShiftRight, LowByte, Byte

\* A number that a byte can hold is its own lowest byte.
LEMMA OneByte ==
    ASSUME NEW n \in Byte
    PROVE  LowByte(n) = n
BY BaseAssumption DEF LowByte, Byte

\* What is left of the largest length after two shifts is a byte.
LEMMA ThirdByte ==
    ASSUME NEW n \in 0..TLS_HANDSHAKE_MAX_BODY_LEN
    PROVE  ShiftRight(ShiftRight(n)) \in Byte
<1> DEFINE q == ShiftRight(n)
           p == ShiftRight(q)
<1>1. n \in Nat /\ n < Base * Base * Base
  BY BaseAssumption DEF TLS_HANDSHAKE_MAX_BODY_LEN
<1>2. q \in Nat /\ LowByte(n) \in Nat /\ n = Base * q + LowByte(n)
  BY <1>1, ShiftAndMask, BaseAssumption DEF Byte
<1>3. p \in Nat /\ LowByte(q) \in Nat /\ q = Base * p + LowByte(q)
  BY <1>2, ShiftAndMask, BaseAssumption DEF Byte
<1> HIDE DEF q, p
<1>4. ASSUME NEW a \in Nat, NEW b \in Nat, a >= b PROVE Base * a >= Base * b
  BY <1>4, BaseAssumption
<1>5. ASSUME p >= Base PROVE FALSE
  <2>1. Base \in Nat /\ Base * Base \in Nat /\ Base * p \in Nat
    BY <1>3, BaseAssumption
  <2>2. Base * p >= Base * Base
    BY <1>3, <1>4, <1>5, <2>1
  <2>3. q >= Base * Base
    BY <1>3, <2>1, <2>2
  <2>4. Base * q >= Base * (Base * Base)
    BY <1>2, <1>4, <2>1, <2>3
  <2>5. Base * (Base * Base) = Base * Base * Base /\ Base * (Base * Base) \in Nat /\ Base * q \in Nat
    BY <1>2, <2>1
  <2> QED  BY <1>1, <1>2, <2>4, <2>5
<1> QED  BY <1>3, <1>5, BaseAssumption DEF Byte, p, q

\* The receiver computes the length the sender had, from four bytes.
LEMMA LengthSurvives ==
    ASSUME NEW type \in Byte, NEW n \in 0..TLS_HANDSHAKE_MAX_BODY_LEN
    PROVE  /\ HandshakeHeader(type, n) \in Seq(Byte)
           /\ Len(HandshakeHeader(type, n)) = TLS_HANDSHAKE_HEADER_LEN
           /\ HandshakeHeader(type, n)[1] = type
           /\ BodyLength(HandshakeHeader(type, n)) = n
<1> DEFINE q == ShiftRight(n)
           p == ShiftRight(q)
<1>1. n \in Nat
  BY BaseAssumption DEF TLS_HANDSHAKE_MAX_BODY_LEN
<1>2. q \in Nat /\ LowByte(n) \in Byte /\ n = Base * q + LowByte(n)
  BY <1>1, ShiftAndMask
<1>3. p \in Nat /\ LowByte(q) \in Byte /\ q = Base * p + LowByte(q)
  BY <1>2, ShiftAndMask
<1>4. LowByte(p) = p /\ p \in Byte
  BY ThirdByte, OneByte
<1> DEFINE header == <<type, LowByte(p), LowByte(q), LowByte(n)>>
<1>5. HandshakeHeader(type, n) = header
  BY DEF HandshakeHeader
<1> HIDE DEF p, q
<1>6. header \in Seq(Byte) /\ Len(header) = 4
  BY <1>2, <1>3, <1>4
<1>7. header[1] = type /\ header[2] = p /\ header[3] = LowByte(q) /\ header[4] = LowByte(n)
  BY <1>4
<1> HIDE DEF header
<1>8. BodyLength(header) = n
  BY <1>2, <1>3, <1>7 DEF BodyLength
<1> QED  BY <1>5, <1>6, <1>7, <1>8 DEF TLS_HANDSHAKE_HEADER_LEN

\* The bytes of one sequence, then those of the other.
LEMMA Concatenation ==
    ASSUME NEW s \in Seq(Byte), NEW t \in Seq(Byte)
    PROVE  /\ s \o t \in Seq(Byte) /\ Len(s \o t) = Len(s) + Len(t)
           /\ \A i \in 1..Len(s) : (s \o t)[i] = s[i]
           /\ \A i \in 1..Len(t) : (s \o t)[Len(s) + i] = t[i]
OBVIOUS

\* What encode_handshake_msg makes of a message: the header, then the body.
LEMMA EncodedMessage ==
    ASSUME NEW type \in Byte, NEW content \in Seq(Byte), Len(content) <= TLS_HANDSHAKE_MAX_BODY_LEN,
           NEW m, m = [type |-> type, body |-> content]
    PROVE  /\ Encode(m) \in Seq(Byte)
           /\ Len(Encode(m)) = TLS_HANDSHAKE_HEADER_LEN + Len(content)
           /\ \A i \in 1..TLS_HANDSHAKE_HEADER_LEN :
                 Encode(m)[i] = HandshakeHeader(type, Len(content))[i]
           /\ \A i \in 1..Len(content) : Encode(m)[TLS_HANDSHAKE_HEADER_LEN + i] = content[i]
<1>1. Len(content) \in 0..TLS_HANDSHAKE_MAX_BODY_LEN
  BY BaseAssumption DEF TLS_HANDSHAKE_MAX_BODY_LEN
<1>2. PICK header \in Seq(Byte) :
         header = HandshakeHeader(type, Len(content)) /\ Len(header) = TLS_HANDSHAKE_HEADER_LEN
  BY <1>1, LengthSurvives
<1>3. Encode(m) = header \o content
  BY <1>2 DEF Encode
<1>4. /\ header \o content \in Seq(Byte) /\ Len(header \o content) = Len(header) + Len(content)
      /\ \A i \in 1..Len(header) : (header \o content)[i] = header[i]
      /\ \A i \in 1..Len(content) : (header \o content)[Len(header) + i] = content[i]
  BY Concatenation
<1> QED  BY <1>2, <1>3, <1>4
==============================================================================
