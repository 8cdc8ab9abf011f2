--------------------------- MODULE TranscriptProofs ---------------------------
(***************************************************************************)
(* The bytes a hash was taken of tell the messages, and the messages tell  *)
(* the bytes, for all messages and any number of them.                     *)
(*                                                                         *)
(* A transcript's bytes have boundaries: the places where its messages     *)
(* end.  Where two sequences of messages were encoded to the same bytes,   *)
(* take the first boundary they disagree on: before it they agree, so the  *)
(* two messages that end there start at the same place and have the same   *)
(* header; that gives their lengths, so they end at the same place too.    *)
(* Conversely the lengths of the messages place the boundaries, and the    *)
(* encodings between them leave no byte free.                              *)
(***************************************************************************)
EXTENDS Transcript, FramingProofs, WellFoundedInduction

\* A set of numbers that is not empty has a least one.
LEMMA LeastNumber ==
    ASSUME NEW T, T \subseteq Nat, T # {}
    PROVE  \E x \in T : \A y \in T : x <= y
<1> DEFINE R == OpToRel(<, Nat)
<1>1. IsWellFoundedOn(R, Nat)
  BY NatLessThanWellFounded
<1> HIDE DEF R
<1>2. PICK x \in T : \A y \in T : ~(<<y, x>> \in R)
  BY <1>1, WFMin
<1>3. \A y \in T : ~(y < x)
  BY <1>2 DEF R, OpToRel
<1> QED  BY <1>2, <1>3

-----------------------------------------------------------------------------
(* Boundaries *)

Size(m) == TLS_HANDSHAKE_HEADER_LEN + Len(m.body)

\* The encoding of m stands after the first from bytes.
StandsAfter(from, bytes, m) ==
    /\ Len(m.body) <= TLS_HANDSHAKE_MAX_BODY_LEN
    /\ \A i \in 1..Size(m) : bytes[from + i] = Encode(m)[i]

\* The places where the messages of ms end in their encoding.
EndsOf(ends, bytes, ms) ==
    /\ ends \in [0..Len(ms) -> Nat]
    /\ ends[0] = 0 /\ ends[Len(ms)] = Len(bytes)
    /\ \A k \in 1..Len(ms) :
          /\ ends[k] = ends[k - 1] + Size(ms[k]) /\ ends[k] <= Len(bytes)
          /\ StandsAfter(ends[k - 1], bytes, ms[k])

Encodes(bytes, ms) == \E ends \in [0..Len(ms) -> Nat] : EndsOf(ends, bytes, ms)

\* A message is a type and a body, and its encoding a header and the body.
LEMMA OneMessage ==
    ASSUME NEW m \in Messages, Len(m.body) <= TLS_HANDSHAKE_MAX_BODY_LEN
    PROVE  /\ m = [type |-> m.type, body |-> m.body] /\ m.type \in Byte /\ m.body \in Seq(Byte)
           /\ Size(m) \in Nat /\ Size(m) >= 4 /\ Len(m.body) \in Nat
           /\ Encode(m) \in Seq(Byte) /\ Len(Encode(m)) = Size(m)
           /\ Encode(m)[1] = m.type /\ BodyLength(Encode(m)) = Len(m.body)
           /\ \A i \in 1..Len(m.body) : Encode(m)[4 + i] = m.body[i]
<1>1. m \in [type : Byte, body : Seq(Byte)]
  BY MessagesAssumption
<1>2. PICK type \in Byte, body \in Seq(Byte) : m = [type |-> type, body |-> body]
  BY <1>1
<1>3. m.type = type /\ m.body = body /\ Len(body) \in 0..TLS_HANDSHAKE_MAX_BODY_LEN
  BY <1>2, BaseAssumption DEF TLS_HANDSHAKE_MAX_BODY_LEN
<1>4. /\ HandshakeHeader(type, Len(body))[1] = type
      /\ BodyLength(HandshakeHeader(type, Len(body))) = Len(body)
  BY <1>3, LengthSurvives
<1>5. /\ Encode(m) \in Seq(Byte) /\ Len(Encode(m)) = TLS_HANDSHAKE_HEADER_LEN + Len(body)
      /\ \A i \in 1..TLS_HANDSHAKE_HEADER_LEN : Encode(m)[i] = HandshakeHeader(type, Len(body))[i]
      /\ \A i \in 1..Len(body) : Encode(m)[TLS_HANDSHAKE_HEADER_LEN + i] = body[i]
  BY <1>2, <1>3, EncodedMessage
<1>6. \A i \in 1..4 : Encode(m)[i] = HandshakeHeader(type, Len(body))[i]
  BY <1>5 DEF TLS_HANDSHAKE_HEADER_LEN
<1>7. BodyLength(Encode(m)) = BodyLength(HandshakeHeader(type, Len(body)))
  BY <1>6 DEF BodyLength
<1> QED  BY <1>2, <1>3, <1>4, <1>5, <1>6, <1>7 DEF Size, TLS_HANDSHAKE_HEADER_LEN

\* What stands between two places stands before the second.
LEMMA Within ==
    ASSUME NEW from \in Nat, NEW to \in Nat, NEW size \in Nat, to = from + size,
           NEW end \in Nat, to <= end
    PROVE  \A i \in 1..size : from + i \in 1..end
OBVIOUS

\* No message has been fed.
LEMMA NoMessage == Encodes(<<>>, <<>>)
<1> DEFINE ends == [k \in 0..0 |-> 0]
<1>1. ends \in [0..Len(<<>>) -> Nat] /\ ends[0] = 0 /\ Len(<<>>) = 0
  OBVIOUS
<1>2. EndsOf(ends, <<>>, <<>>)
  BY <1>1 DEF EndsOf
<1> QED  BY <1>1, <1>2 DEF Encodes

\* One more message, fed after what was fed before it.
LEMMA OneMoreMessage ==
    ASSUME NEW bytes \in Seq(Byte), NEW ms \in Seq(Messages), Encodes(bytes, ms),
           NEW m \in Messages, Len(m.body) <= TLS_HANDSHAKE_MAX_BODY_LEN
    PROVE  Encodes(bytes \o Encode(m), Append(ms, m))
<1>1. PICK ends \in [0..Len(ms) -> Nat] : EndsOf(ends, bytes, ms)
  BY DEF Encodes
<1>2. PICK code \in Seq(Byte) : code = Encode(m) /\ Len(code) = Size(m)
  BY OneMessage
<1>3. Size(m) \in Nat
  BY OneMessage
<1>4. PICK all \in Seq(Byte) :
         /\ all = bytes \o code /\ Len(all) = Len(bytes) + Size(m)
         /\ \A i \in 1..Len(bytes) : all[i] = bytes[i]
         /\ \A i \in 1..Size(m) : all[Len(bytes) + i] = code[i]
  <2>1. /\ bytes \o code \in Seq(Byte) /\ Len(bytes \o code) = Len(bytes) + Len(code)
        /\ \A i \in 1..Len(bytes) : (bytes \o code)[i] = bytes[i]
        /\ \A i \in 1..Len(code) : (bytes \o code)[Len(bytes) + i] = code[i]
    BY Concatenation
  <2> QED  BY <1>2, <2>1
<1>5. PICK n \in Nat : n = Len(ms)
  OBVIOUS
<1>6. PICK more \in Seq(Messages) :
         more = Append(ms, m) /\ Len(more) = n + 1 /\ more[n + 1] = m
           /\ \A k \in 1..n : more[k] = ms[k]
  <2>1. /\ Append(ms, m) \in Seq(Messages) /\ Len(Append(ms, m)) = Len(ms) + 1
        /\ Append(ms, m)[Len(ms) + 1] = m /\ \A k \in 1..Len(ms) : Append(ms, m)[k] = ms[k]
    OBVIOUS
  <2> QED  BY <1>5, <2>1
<1>7. PICK later \in [0..(n + 1) -> Nat] :
         /\ \A k \in 0..n : later[k] = ends[k]
         /\ later[n + 1] = Len(bytes) + Size(m)
  <2> DEFINE f == [k \in 0..(n + 1) |-> IF k = n + 1 THEN Len(bytes) + Size(m) ELSE ends[k]]
  <2>1. \A k \in 0..n : k # n + 1 /\ k \in 0..(n + 1) /\ ends[k] \in Nat
    <3>1. \A k \in 0..n : k # n + 1 /\ k \in 0..(n + 1)
      OBVIOUS
    <3>2. \A k \in 0..n : ends[k] \in Nat
      BY <1>5
    <3> QED  BY <3>1, <3>2
  <2>2. \A k \in 0..(n + 1) : k = n + 1 \/ k \in 0..n
    BY <1>5
  <2>3. f \in [0..(n + 1) -> Nat]
    BY <1>3, <2>1, <2>2
  <2>4. n + 1 \in 0..(n + 1)
    BY <1>5
  <2> QED  BY <2>1, <2>3, <2>4
<1>8. ends[0] = 0 /\ ends[n] = Len(bytes)
  BY <1>1, <1>5 DEF EndsOf
<1>9. later[0] = 0 /\ later[n] = Len(bytes)
  <2>1. 0 \in 0..n /\ n \in 0..n
    BY <1>5
  <2> QED  BY <1>7, <1>8, <2>1
<1>10. ASSUME NEW k \in 1..(n + 1)
       PROVE  /\ later[k] = later[k - 1] + Size(more[k]) /\ later[k] <= Len(all)
              /\ StandsAfter(later[k - 1], all, more[k])
  <2>1. CASE k = n + 1
    <3>1. more[k] = m /\ k - 1 = n
      BY <1>5, <1>6, <2>1
    <3>2. later[k] = later[k - 1] + Size(more[k]) /\ later[k] <= Len(all)
      BY <1>3, <1>4, <1>7, <1>9, <2>1, <3>1
    <3>3. later[k - 1] = Len(bytes)
      BY <1>9, <3>1
    <3>4. StandsAfter(Len(bytes), all, m)
      BY <1>2, <1>4 DEF StandsAfter
    <3> QED  BY <3>1, <3>2, <3>3, <3>4
  <2>2. CASE k \in 1..n
    <3>1. more[k] = ms[k] /\ later[k] = ends[k] /\ later[k - 1] = ends[k - 1]
      BY <1>5, <1>6, <1>7, <2>2
    <3>2. /\ Len(ms[k].body) <= TLS_HANDSHAKE_MAX_BODY_LEN
          /\ ends[k] = ends[k - 1] + Size(ms[k]) /\ ends[k] <= Len(bytes)
          /\ \A i \in 1..Size(ms[k]) : bytes[ends[k - 1] + i] = Encode(ms[k])[i]
      BY <1>1, <1>5, <2>2 DEF EndsOf, StandsAfter
    <3>3. ends[k - 1] \in Nat /\ ends[k] \in Nat
      <4>1. k \in 0..n /\ k - 1 \in 0..n
        BY <2>2
      <4> QED  BY <1>5, <4>1
    <3>4. ms[k] \in Messages
      BY <1>5, <2>2
    <3>5. Size(ms[k]) \in Nat
      BY <3>2, <3>4, OneMessage
    <3>6. \A i \in 1..Size(ms[k]) : ends[k - 1] + i \in 1..Len(bytes)
      <4>1. PICK from \in Nat, to \in Nat, size \in Nat, end \in Nat :
               from = ends[k - 1] /\ to = ends[k] /\ size = Size(ms[k]) /\ end = Len(bytes)
        <5>1. \A a, b, c, d \in Nat : \E from \in Nat, to \in Nat, size \in Nat, end \in Nat :
                 from = a /\ to = b /\ size = c /\ end = d
          OBVIOUS
        <5>2. Len(bytes) \in Nat
          OBVIOUS
        <5> QED  BY <3>3, <3>5, <5>1, <5>2
      <4>2. to = from + size /\ to <= end
        BY <3>2, <4>1
      <4>3. \A i \in 1..size : from + i \in 1..end
        BY <4>2, Within
      <4> QED  BY <4>1, <4>3
    <3>7. \A i \in 1..Size(ms[k]) : all[ends[k - 1] + i] = Encode(ms[k])[i]
      BY <1>4, <3>2, <3>6
    <3>8. ends[k] <= Len(all)
      BY <1>3, <1>4, <3>2, <3>3
    <3>9. StandsAfter(ends[k - 1], all, ms[k])
      BY <3>2, <3>7 DEF StandsAfter
    <3>10. later[k] = later[k - 1] + Size(more[k])
      BY <3>1, <3>2
    <3> QED  BY <3>1, <3>8, <3>9, <3>10
  <2>3. k = n + 1 \/ k \in 1..n
    <3>1. \A a \in Nat : \A b \in 1..(a + 1) : b = a + 1 \/ b \in 1..a
      OBVIOUS
    <3> QED  BY <3>1
  <2> QED  BY <2>1, <2>2, <2>3
<1>11. EndsOf(later, all, more)
  BY <1>4, <1>6, <1>7, <1>9, <1>10 DEF EndsOf
<1> QED  BY <1>2, <1>4, <1>6, <1>7, <1>11 DEF Encodes

\* Two messages whose encodings stand at the same place are one message.
LEMMA SameMessage ==
    ASSUME NEW m \in Messages, NEW p \in Messages, NEW bytes, NEW from,
           StandsAfter(from, bytes, m), StandsAfter(from, bytes, p)
    PROVE  m = p
<1> USE DEF StandsAfter
<1>1. Size(m) \in Nat /\ Size(m) >= 4 /\ Size(p) \in Nat /\ Size(p) >= 4
  BY OneMessage
<1>2. 1..4 \subseteq 1..Size(m) /\ 1..4 \subseteq 1..Size(p)
  BY <1>1
<1>3. \A i \in 1..4 : Encode(m)[i] = Encode(p)[i]
  BY <1>2
<1>4. BodyLength(Encode(m)) = BodyLength(Encode(p)) /\ Encode(m)[1] = Encode(p)[1]
  BY <1>3 DEF BodyLength
<1>5. /\ m = [type |-> m.type, body |-> m.body] /\ m.body \in Seq(Byte) /\ Len(m.body) \in Nat
      /\ Encode(m)[1] = m.type /\ BodyLength(Encode(m)) = Len(m.body)
      /\ \A i \in 1..Len(m.body) : Encode(m)[4 + i] = m.body[i]
  BY OneMessage
<1>6. /\ p = [type |-> p.type, body |-> p.body] /\ p.body \in Seq(Byte) /\ Len(p.body) \in Nat
      /\ Encode(p)[1] = p.type /\ BodyLength(Encode(p)) = Len(p.body)
      /\ \A i \in 1..Len(p.body) : Encode(p)[4 + i] = p.body[i]
  BY OneMessage
<1>7. m.type = p.type /\ Len(m.body) = Len(p.body)
  BY <1>4, <1>5, <1>6
<1>8. ASSUME NEW i \in 1..Len(m.body) PROVE m.body[i] = p.body[i]
  <2>1. 4 + i \in 1..Size(m) /\ 4 + i \in 1..Size(p)
    BY <1>5, <1>7 DEF Size, TLS_HANDSHAKE_HEADER_LEN
  <2>2. Encode(m)[4 + i] = Encode(p)[4 + i]
    BY <2>1
  <2> QED  BY <1>5, <1>6, <1>7, <2>2
<1>9. m.body = p.body
  BY <1>5, <1>6, <1>7, <1>8
<1> QED  BY <1>5, <1>6, <1>7, <1>9

\* Two sequences of messages encoded to the same bytes agree on every boundary
\* that both have, and on the message that ends there.
LEMMA SameEnds ==
    ASSUME NEW bytes \in Seq(Byte), NEW ms \in Seq(Messages), NEW ps \in Seq(Messages),
           NEW ends \in [0..Len(ms) -> Nat], EndsOf(ends, bytes, ms),
           NEW stops \in [0..Len(ps) -> Nat], EndsOf(stops, bytes, ps)
    PROVE  \A k \in 0..Len(ms) : k \in 0..Len(ps) =>
              ends[k] = stops[k] /\ (k > 0 => ms[k] = ps[k])
<1> DEFINE Differ == {k \in Nat : /\ k \in 0..Len(ms) /\ k \in 0..Len(ps)
                                  /\ ~(ends[k] = stops[k] /\ (k > 0 => ms[k] = ps[k]))}
<1>1. ASSUME Differ # {} PROVE FALSE
  <2>1. PICK k \in Differ : \A j \in Differ : k <= j
    BY <1>1, LeastNumber
  <2>2. k # 0
    BY <2>1 DEF EndsOf
  <2>3. k \in 1..Len(ms) /\ k \in 1..Len(ps) /\ k \in Nat
    BY <2>1, <2>2
  <2>4. k - 1 \in Nat /\ k - 1 \in 0..Len(ms) /\ k - 1 \in 0..Len(ps) /\ ~(k <= k - 1)
    BY <2>3
  <2>5. ends[k - 1] = stops[k - 1]
    BY <2>1, <2>4
  <2>6. ms[k] \in Messages /\ ps[k] \in Messages
    BY <2>3
  <2>7. ends[k] = ends[k - 1] + Size(ms[k]) /\ StandsAfter(ends[k - 1], bytes, ms[k])
    BY <2>3 DEF EndsOf
  <2>8. stops[k] = stops[k - 1] + Size(ps[k]) /\ StandsAfter(stops[k - 1], bytes, ps[k])
    BY <2>3 DEF EndsOf
  <2>9. ms[k] = ps[k]
    BY <2>5, <2>6, <2>7, <2>8, SameMessage
  <2> QED  BY <2>1, <2>5, <2>7, <2>8, <2>9
<1>2. SUFFICES ASSUME NEW k \in 0..Len(ms), k \in 0..Len(ps)
               PROVE  ends[k] = stops[k] /\ (k > 0 => ms[k] = ps[k])
  OBVIOUS
<1>3. k \in Nat /\ k \notin Differ
  BY <1>1
<1> QED  BY <1>2, <1>3

\* One of two sequences of messages encoded to the same bytes is not shorter.
LEMMA NotShorter ==
    ASSUME NEW bytes \in Seq(Byte), NEW ms \in Seq(Messages), NEW ps \in Seq(Messages),
           Encodes(bytes, ms), Encodes(bytes, ps)
    PROVE  Len(ms) >= Len(ps) /\ \A k \in 1..Len(ms) : k <= Len(ps) => ms[k] = ps[k]
<1>1. PICK ends \in [0..Len(ms) -> Nat] : EndsOf(ends, bytes, ms)
  BY DEF Encodes
<1>2. PICK stops \in [0..Len(ps) -> Nat] : EndsOf(stops, bytes, ps)
  BY DEF Encodes
<1>3. \A k \in 0..Len(ms) : k \in 0..Len(ps) =>
         ends[k] = stops[k] /\ (k > 0 => ms[k] = ps[k])
  BY <1>1, <1>2, SameEnds
<1>4. PICK n \in Nat : n = Len(ms)
  OBVIOUS
<1>5. ASSUME n < Len(ps) PROVE FALSE
  <2>1. n + 1 \in 1..Len(ps) /\ n \in 0..Len(ms) /\ n \in 0..Len(ps) /\ (n + 1) - 1 = n
    BY <1>4, <1>5
  <2>2. stops[n] = Len(bytes)
    BY <1>1, <1>3, <1>4, <2>1 DEF EndsOf
  <2>3. /\ Len(ps[n + 1].body) <= TLS_HANDSHAKE_MAX_BODY_LEN
        /\ stops[n + 1] = stops[n] + Size(ps[n + 1]) /\ stops[n + 1] <= Len(bytes)
    BY <1>2, <2>1 DEF EndsOf, StandsAfter
  <2>4. ps[n + 1] \in Messages
    BY <2>1
  <2>5. Size(ps[n + 1]) \in Nat /\ Size(ps[n + 1]) >= 4
    BY <2>3, <2>4, OneMessage
  <2> QED  BY <2>2, <2>3, <2>5
<1>6. ASSUME NEW k \in 1..Len(ms), k <= Len(ps) PROVE ms[k] = ps[k]
  BY <1>3, <1>6
<1> QED  BY <1>4, <1>5, <1>6

\* The bytes tell the messages.
LEMMA BytesTellMessages ==
    ASSUME NEW bytes \in Seq(Byte), NEW ms \in Seq(Messages), NEW ps \in Seq(Messages),
           Encodes(bytes, ms), Encodes(bytes, ps)
    PROVE  ms = ps
<1>1. Len(ms) >= Len(ps) /\ \A k \in 1..Len(ms) : k <= Len(ps) => ms[k] = ps[k]
  BY NotShorter
<1>2. Len(ps) >= Len(ms)
  BY NotShorter
<1>3. Len(ms) = Len(ps)
  BY <1>1, <1>2
<1> QED  BY <1>1, <1>3

\* Where messages end in their encoding does not depend on the encoding.
LEMMA EndsAgree ==
    ASSUME NEW ms \in Seq(Messages), NEW bytes, NEW others,
           NEW ends \in [0..Len(ms) -> Nat], EndsOf(ends, bytes, ms),
           NEW stops \in [0..Len(ms) -> Nat], EndsOf(stops, others, ms)
    PROVE  \A k \in 0..Len(ms) : ends[k] = stops[k]
<1> DEFINE Differ == {k \in Nat : k \in 0..Len(ms) /\ ends[k] # stops[k]}
<1>1. ASSUME Differ # {} PROVE FALSE
  <2>1. PICK k \in Differ : \A j \in Differ : k <= j
    BY <1>1, LeastNumber
  <2>2. k # 0
    BY <2>1 DEF EndsOf
  <2>3. k \in 1..Len(ms) /\ k - 1 \in Nat /\ k - 1 \in 0..Len(ms) /\ ~(k <= k - 1)
    BY <2>1, <2>2
  <2>4. ends[k - 1] = stops[k - 1]
    BY <2>1, <2>3
  <2>5. ends[k] = ends[k - 1] + Size(ms[k]) /\ stops[k] = stops[k - 1] + Size(ms[k])
    BY <2>3 DEF EndsOf
  <2> QED  BY <2>1, <2>4, <2>5
<1> QED  BY <1>1

\* Every byte belongs to a message.
LEMMA Covered ==
    ASSUME NEW bytes \in Seq(Byte), NEW ms \in Seq(Messages),
           NEW ends \in [0..Len(ms) -> Nat], EndsOf(ends, bytes, ms), NEW p \in 1..Len(bytes)
    PROVE  \E k \in 1..Len(ms) : \E i \in 1..Size(ms[k]) : p = ends[k - 1] + i
<1> DEFINE Reach == {k \in Nat : k \in 0..Len(ms) /\ p <= ends[k]}
<1>1. Len(ms) \in Reach
  BY DEF EndsOf
<1>2. PICK k \in Reach : \A j \in Reach : k <= j
  BY <1>1, LeastNumber
<1>3. k # 0
  BY <1>2 DEF EndsOf
<1>4. k \in 1..Len(ms) /\ k - 1 \in Nat /\ k - 1 \in 0..Len(ms) /\ ~(k <= k - 1)
  BY <1>2, <1>3
<1>5. ends[k - 1] \in Nat /\ ends[k] \in Nat /\ ~(p <= ends[k - 1]) /\ p <= ends[k]
  BY <1>2, <1>4
<1>6. ms[k] \in Messages /\ Len(ms[k].body) <= TLS_HANDSHAKE_MAX_BODY_LEN
      /\ ends[k] = ends[k - 1] + Size(ms[k])
  BY <1>4 DEF EndsOf, StandsAfter
<1>7. Size(ms[k]) \in Nat
  BY <1>6, OneMessage
<1>8. p - ends[k - 1] \in 1..Size(ms[k]) /\ p = ends[k - 1] + (p - ends[k - 1])
  BY <1>5, <1>6, <1>7
<1> QED  BY <1>4, <1>8

\* The messages tell the bytes.
LEMMA MessagesTellBytes ==
    ASSUME NEW bytes \in Seq(Byte), NEW others \in Seq(Byte), NEW ms \in Seq(Messages),
           Encodes(bytes, ms), Encodes(others, ms)
    PROVE  bytes = others
<1>1. PICK ends \in [0..Len(ms) -> Nat] : EndsOf(ends, bytes, ms)
  BY DEF Encodes
<1>2. PICK stops \in [0..Len(ms) -> Nat] : EndsOf(stops, others, ms)
  BY DEF Encodes
<1>3. \A k \in 0..Len(ms) : ends[k] = stops[k]
  BY <1>1, <1>2, EndsAgree
<1>4. Len(bytes) = Len(others)
  <2>1. Len(ms) \in 0..Len(ms)
    OBVIOUS
  <2> QED  BY <1>1, <1>2, <1>3, <2>1 DEF EndsOf
<1>5. ASSUME NEW p \in 1..Len(bytes) PROVE bytes[p] = others[p]
  <2>1. PICK k \in 1..Len(ms) : \E i \in 1..Size(ms[k]) : p = ends[k - 1] + i
    BY <1>1, Covered
  <2>2. PICK i \in 1..Size(ms[k]) : p = ends[k - 1] + i
    BY <2>1
  <2>3. ends[k - 1] = stops[k - 1]
    <3>1. k - 1 \in 0..Len(ms)
      BY <2>1
    <3> QED  BY <1>3, <3>1
  <2>4. bytes[ends[k - 1] + i] = Encode(ms[k])[i] /\ others[stops[k - 1] + i] = Encode(ms[k])[i]
    BY <1>1, <1>2, <2>1, <2>2 DEF EndsOf, StandsAfter
  <2> QED  BY <2>2, <2>3, <2>4
<1> QED  BY <1>4, <1>5

-----------------------------------------------------------------------------
(* The state machine *)

\* What the library's calls make of a context.
LEMMA ContextTypes ==
    /\ NoContext \in Contexts
    /\ \A s \in Seq(Byte) : Context("open", s) \in Contexts /\ Context("open", s) # NoContext
    /\ \A c \in Contexts :
          /\ Digested(c) \in Seq(Byte) /\ (c.state = "open" => Digested(c) = c.fed)
          /\ DigestFinal(c) \in Contexts /\ DigestFinal(c) # NoContext
          /\ \A data \in Seq(Byte) :
                DigestUpdate(c, data) \in Contexts /\ DigestUpdate(c, data) # NoContext
<1>1. NoContext \in Contexts
  BY DEF NoContext, Context, Contexts
<1>2. ASSUME NEW s \in Seq(Byte), NEW state \in {"open", "final"}
      PROVE  Context(state, s) \in Contexts /\ Context(state, s) # NoContext
  <2>1. Context(state, s) \in Contexts
    BY DEF Context, Contexts
  <2>2. Context(state, s).state = state /\ NoContext.state = "null"
    BY DEF Context, NoContext
  <2> QED  BY <2>1, <2>2
<1>3. ASSUME NEW c \in Contexts
      PROVE  Digested(c) \in Seq(Byte) /\ (c.state = "open" => Digested(c) = c.fed)
  <2>1. c.fed \in Seq(Byte) /\ Padding \in Seq(Byte)
    BY BaseAssumption DEF Contexts, Padding, Byte
  <2>2. c.fed \o Padding \in Seq(Byte)
    BY <2>1, Concatenation
  <2> QED  BY <2>1, <2>2 DEF Digested
<1>4. ASSUME NEW c \in Contexts
      PROVE  DigestFinal(c) \in Contexts /\ DigestFinal(c) # NoContext
  BY <1>2, <1>3 DEF DigestFinal
<1>5. ASSUME NEW c \in Contexts, NEW data \in Seq(Byte)
      PROVE  DigestUpdate(c, data) \in Contexts /\ DigestUpdate(c, data) # NoContext
  <2>1. Digested(c) \o data \in Seq(Byte)
    BY <1>3, Concatenation
  <2> QED  BY <1>2, <2>1 DEF DigestUpdate
<1> QED  BY <1>1, <1>2, <1>3, <1>4, <1>5

HashType == [bytes : Seq(Byte), messages : Seq(Messages)]

\* One more hash.
LEMMA HashTaken ==
    ASSUME TypeOK, NEW t \in Transcripts, NEW c \in Contexts
    PROVE  /\ Hash(t, c) \in HashType
           /\ Append(hashes[t], Hash(t, c)) \in Seq(HashType)
           /\ \A i \in DOMAIN Append(hashes[t], Hash(t, c)) :
                 \/ Append(hashes[t], Hash(t, c))[i] = Hash(t, c)
                 \/ i \in DOMAIN hashes[t] /\ Append(hashes[t], Hash(t, c))[i] = hashes[t][i]
<1>1. PICK Set : Set = HashType
  OBVIOUS
<1>2. PICK hash \in Set : hash = Hash(t, c)
  BY <1>1, ContextTypes DEF TypeOK, Hash, HashType
<1>3. PICK before \in Seq(Set) : before = hashes[t]
  BY <1>1 DEF TypeOK, HashType
<1>4. /\ Append(before, hash) \in Seq(Set)
      /\ \A i \in DOMAIN Append(before, hash) :
            Append(before, hash)[i] = hash \/ (i \in DOMAIN before /\ Append(before, hash)[i] = before[i])
  OBVIOUS
<1> QED  BY <1>1, <1>2, <1>3, <1>4

\* Every step keeps what a transcript and a hash of one may hold.
LEMMA TypeKept == ASSUME TypeOK, [Next]_vars PROVE TypeOK'
<1> USE DEF TypeOK, MovesTo
<1>1. ASSUME NEW t \in Transcripts, transcript_init(t) PROVE TypeOK'
  <2>1. Context("open", <<>>) \in Contexts /\ Context("open", <<>>) # NoContext
    <3>1. <<>> \in Seq(Byte)
      OBVIOUS
    <3> QED  BY <3>1, ContextTypes
  <2>2. CASE MovesTo(t, "idle") /\ ctx' = [ctx EXCEPT ![t] = Context("open", <<>>)]
    BY <1>1, <2>1, <2>2 DEF transcript_init
  <2>3. CASE MovesTo(t, "end") /\ ctx' = ctx
    BY <1>1, <2>3 DEF transcript_init
  <2> QED  BY <1>1, <2>2, <2>3 DEF transcript_init
<1>2. ASSUME NEW t \in Transcripts, NEW m \in Messages, transcript_update_handshake_msg(t, m)
      PROVE  TypeOK'
  <2>1. Encode(m) \in Seq(Byte)
    BY <1>2, OneMessage DEF transcript_update_handshake_msg
  <2>2. PICK c \in Contexts : c = DigestUpdate(ctx[t], Encode(m)) /\ c # NoContext
    BY <2>1, ContextTypes
  <2>3. ctx' = [ctx EXCEPT ![t] = c]
    BY <1>2, <2>2 DEF transcript_update_handshake_msg
  <2>4. messages' \in [Transcripts -> Seq(Messages)]
    BY <1>2 DEF transcript_update_handshake_msg
  <2> QED  BY <1>2, <2>2, <2>3, <2>4 DEF transcript_update_handshake_msg
<1>3. ASSUME NEW t \in Transcripts, CopyContext(t) PROVE TypeOK'
  BY <1>3 DEF CopyContext
<1>4. ASSUME NEW t \in Transcripts, FinaliseCopy(t) PROVE TypeOK'
  <2>1. PICK c \in Contexts : c = DigestFinal(copy[t]) /\ c # NoContext
    BY ContextTypes
  <2>2. copy' = [copy EXCEPT ![t] = c]
    BY <1>4, <2>1 DEF FinaliseCopy
  <2>3. hashes' \in [Transcripts -> Seq(HashType)]
    <3>1. Append(hashes[t], Hash(t, copy[t])) \in Seq(HashType)
      BY HashTaken
    <3>2. hashes' = [hashes EXCEPT ![t] = Append(hashes[t], Hash(t, copy[t]))]
      BY <1>4 DEF FinaliseCopy
    <3>3. hashes \in [Transcripts -> Seq(HashType)]
      BY DEF HashType
    <3> QED  BY <3>1, <3>2, <3>3
  <2>4. /\ at' = [at EXCEPT ![t] = "hashed"] /\ at[t] = "copied"
        /\ UNCHANGED <<ctx, messages>>
    BY <1>4 DEF FinaliseCopy
  <2> HIDE DEF TypeOK
  <2>5. hashes' \in [Transcripts -> Seq([bytes : Seq(Byte), messages : Seq(Messages)])]
    BY <2>3 DEF HashType
  <2>6. /\ at' \in [Transcripts -> {"start", "idle", "copied", "hashed", "end"}]
        /\ copy' \in [Transcripts -> Contexts]
        /\ \A u \in Transcripts :
              /\ ctx'[u] = NoContext <=> at'[u] \in {"start", "end"}
              /\ copy'[u] = NoContext <=> at'[u] \notin {"copied", "hashed"}
    BY <2>1, <2>2, <2>4 DEF TypeOK
  <2> QED  BY <2>4, <2>5, <2>6 DEF TypeOK
<1>5. ASSUME NEW t \in Transcripts, FreeCopy(t) PROVE TypeOK'
  BY <1>5, ContextTypes DEF FreeCopy
<1>6. ASSUME NEW t \in Transcripts, Ends(t) PROVE TypeOK'
  BY <1>6, ContextTypes DEF Ends
<1>7. CASE UNCHANGED vars
  BY <1>7 DEF vars
<1> HIDE DEF TypeOK, MovesTo
<1> QED  BY <1>1, <1>2, <1>3, <1>4, <1>5, <1>6, <1>7
         DEF Next, AllEnded, UpdateRefuses, LibraryFails, transcript_free

THEOREM TypeCorrect == Spec => []TypeOK
<1>1. Init => TypeOK
  BY ContextTypes DEF Init, TypeOK
<1>2. TypeOK /\ [Next]_vars => TypeOK'
  BY TypeKept
<1> QED  BY <1>1, <1>2, PTL DEF Spec

\* The context of a transcript is never finalised, and what it has been fed
\* encodes its messages; the copy is that context; and each hash was taken of
\* the encoding of the messages it came after.
Encoded(t) ==
    /\ at[t] = "start" => messages[t] = <<>>
    /\ at[t] \notin {"start", "end"} => ctx[t].state = "open" /\ Encodes(ctx[t].fed, messages[t])
    /\ at[t] = "copied" => copy[t] = ctx[t]
    /\ \A i \in DOMAIN hashes[t] : Encodes(hashes[t][i].bytes, hashes[t][i].messages)

TranscriptInv == TypeOK /\ \A t \in Transcripts : Encoded(t)

\* A step of one side is no business of the other.
LEMMA OneSide ==
    ASSUME TypeOK, TypeOK', \A u \in Transcripts : Encoded(u), NEW t \in Transcripts, Encoded(t)',
           \A u \in Transcripts \ {t} : /\ at'[u] = at[u] /\ ctx'[u] = ctx[u] /\ copy'[u] = copy[u]
                                        /\ messages'[u] = messages[u] /\ hashes'[u] = hashes[u]
    PROVE  TranscriptInv'
<1>1. ASSUME NEW u \in Transcripts \ {t} PROVE Encoded(u)'
  BY DEF Encoded
<1> QED  BY <1>1 DEF TranscriptInv

LEMMA EncodingKept == ASSUME TranscriptInv, [Next]_vars PROVE TranscriptInv'
<1>1. TypeOK /\ TypeOK' /\ \A t \in Transcripts : Encoded(t)
  BY TypeKept DEF TranscriptInv
<1>2. ASSUME NEW t \in Transcripts, transcript_init(t) PROVE TranscriptInv'
  <2>1. /\ messages'[t] = <<>> /\ hashes'[t] = hashes[t]
        /\ (at'[t] = "idle" /\ ctx'[t] = Context("open", <<>>)) \/ at'[t] = "end"
    BY <1>1, <1>2 DEF transcript_init, MovesTo, Encoded, TypeOK
  <2>2. Context("open", <<>>).state = "open" /\ Context("open", <<>>).fed = <<>>
    BY DEF Context
  <2>3. Encoded(t)'
    BY <1>1, <2>1, <2>2, NoMessage DEF Encoded
  <2> QED  BY <1>1, <1>2, <2>3, OneSide DEF transcript_init, MovesTo, TypeOK
<1>3. ASSUME NEW t \in Transcripts, NEW m \in Messages, transcript_update_handshake_msg(t, m)
      PROVE  TranscriptInv'
  <2>1. PICK bytes \in Seq(Byte), ms \in Seq(Messages) : bytes = ctx[t].fed /\ ms = messages[t]
    BY <1>1 DEF TypeOK, Contexts
  <2>2. /\ ctx[t].state = "open" /\ Encodes(bytes, ms)
        /\ Len(m.body) <= TLS_HANDSHAKE_MAX_BODY_LEN /\ ctx[t] \in Contexts
    BY <1>1, <1>3, <2>1 DEF transcript_update_handshake_msg, Encoded, TypeOK
  <2>3. Encodes(bytes \o Encode(m), Append(ms, m))
    BY <2>2, OneMoreMessage
  <2>4. DigestUpdate(ctx[t], Encode(m)).state = "open"
        /\ DigestUpdate(ctx[t], Encode(m)).fed = bytes \o Encode(m)
    BY <2>1, <2>2, ContextTypes DEF DigestUpdate, Context
  <2>5. /\ ctx'[t] = DigestUpdate(ctx[t], Encode(m)) /\ messages'[t] = Append(ms, m)
        /\ at'[t] = "idle" /\ hashes'[t] = hashes[t]
    BY <1>1, <1>3, <2>1 DEF transcript_update_handshake_msg, TypeOK
  <2>6. Encoded(t)'
    BY <1>1, <2>3, <2>4, <2>5 DEF Encoded
  <2> QED  BY <1>1, <1>3, <2>6, OneSide DEF transcript_update_handshake_msg, TypeOK
<1>4. ASSUME NEW t \in Transcripts, CopyContext(t) PROVE TranscriptInv'
  <2>1. /\ at[t] = "idle" /\ at'[t] = "copied" /\ ctx'[t] = ctx[t] /\ copy'[t] = ctx[t]
        /\ messages'[t] = messages[t] /\ hashes'[t] = hashes[t]
    BY <1>1, <1>4 DEF CopyContext, MovesTo, TypeOK
  <2>2. Encoded(t)'
    BY <1>1, <2>1 DEF Encoded
  <2> QED  BY <1>1, <1>4, <2>2, OneSide DEF CopyContext, MovesTo, TypeOK
<1>5. ASSUME NEW t \in Transcripts, FinaliseCopy(t) PROVE TranscriptInv'
  <2>1. /\ at[t] = "copied" /\ at'[t] = "hashed" /\ ctx'[t] = ctx[t] /\ copy[t] = ctx[t]
        /\ messages'[t] = messages[t] /\ copy[t] \in Contexts
        /\ hashes'[t] = Append(hashes[t], Hash(t, copy[t]))
    BY <1>1, <1>5 DEF FinaliseCopy, MovesTo, TypeOK, Encoded
  <2>2. Encodes(Hash(t, copy[t]).bytes, Hash(t, copy[t]).messages)
    BY <1>1, <2>1, ContextTypes DEF Encoded, Hash
  <2>3. PICK hash, after : hash = Hash(t, copy[t]) /\ after = Append(hashes[t], Hash(t, copy[t]))
    OBVIOUS
  <2>4. \A i \in DOMAIN after : after[i] = hash \/ (i \in DOMAIN hashes[t] /\ after[i] = hashes[t][i])
    BY <1>1, <2>1, <2>3, HashTaken
  <2>5. \A i \in DOMAIN after : Encodes(after[i].bytes, after[i].messages)
    BY <1>1, <2>2, <2>3, <2>4 DEF Encoded
  <2>6. hashes'[t] = after
    BY <2>1, <2>3
  <2>7. Encoded(t)'
    BY <1>1, <2>1, <2>5, <2>6 DEF Encoded
  <2> QED  BY <1>1, <1>5, <2>7, OneSide DEF FinaliseCopy, MovesTo, TypeOK
<1>6. ASSUME NEW t \in Transcripts, FreeCopy(t) PROVE TranscriptInv'
  <2>1. /\ at[t] = "hashed" /\ at'[t] = "idle" /\ ctx'[t] = ctx[t]
        /\ messages'[t] = messages[t] /\ hashes'[t] = hashes[t]
    BY <1>1, <1>6 DEF FreeCopy, MovesTo, TypeOK
  <2>2. Encoded(t)'
    BY <1>1, <2>1 DEF Encoded
  <2> QED  BY <1>1, <1>6, <2>2, OneSide DEF FreeCopy, MovesTo, TypeOK
<1>7. ASSUME NEW t \in Transcripts, Ends(t) PROVE TranscriptInv'
  <2>1. at'[t] = "end" /\ messages'[t] = messages[t] /\ hashes'[t] = hashes[t]
    BY <1>1, <1>7 DEF Ends, MovesTo, TypeOK
  <2>2. Encoded(t)'
    BY <1>1, <2>1 DEF Encoded
  <2> QED  BY <1>1, <1>7, <2>2, OneSide DEF Ends, MovesTo, TypeOK
<1>8. CASE UNCHANGED vars
  BY <1>1, <1>8 DEF TranscriptInv, Encoded, vars
<1> QED  BY <1>2, <1>3, <1>4, <1>5, <1>6, <1>7, <1>8
         DEF Next, AllEnded, UpdateRefuses, LibraryFails, transcript_free

LEMMA EncodingInvariant == Spec => []TranscriptInv
<1>1. Init => TranscriptInv
  <2> SUFFICES ASSUME Init PROVE TranscriptInv
    OBVIOUS
  <2>1. TypeOK
    BY ContextTypes DEF Init, TypeOK
  <2>2. \A i \in DOMAIN <<>> : FALSE
    OBVIOUS
  <2>3. \A t \in Transcripts : at[t] = "start" /\ messages[t] = <<>> /\ hashes[t] = <<>>
    BY DEF Init
  <2> QED  BY <2>1, <2>2, <2>3 DEF TranscriptInv, Encoded
<1>2. TranscriptInv /\ [Next]_vars => TranscriptInv'
  BY EncodingKept
<1> QED  BY <1>1, <1>2, PTL DEF Spec

\* Any two hashes: what they were taken of, and after which messages.
LEMMA TwoHashes ==
    ASSUME TranscriptInv, NEW t \in Transcripts, NEW i \in DOMAIN hashes[t]
    PROVE  /\ hashes[t][i].bytes \in Seq(Byte) /\ hashes[t][i].messages \in Seq(Messages)
           /\ Encodes(hashes[t][i].bytes, hashes[t][i].messages)
<1>1. PICK Set : Set = [bytes : Seq(Byte), messages : Seq(Messages)]
  OBVIOUS
<1>2. hashes[t] \in Seq(Set)
  BY <1>1 DEF TranscriptInv, TypeOK
<1>3. hashes[t][i] \in Set
  BY <1>2
<1>4. hashes[t][i].bytes \in Seq(Byte) /\ hashes[t][i].messages \in Seq(Messages)
  BY <1>1, <1>3
<1> QED  BY <1>4 DEF TranscriptInv, Encoded

\* Hashes of equal bytes were taken after the same messages, whatever the
\* messages, their lengths and their number.
THEOREM HashTellsMessagesHolds == Spec => []HashTellsMessages
<1>1. TranscriptInv => HashTellsMessages
  BY TwoHashes, BytesTellMessages DEF HashTellsMessages
<1> QED  BY <1>1, EncodingInvariant, PTL

\* Hashes taken after the same messages are equal, whatever was hashed before
\* them and in between, and whichever calls of the library failed.
THEOREM HashesAgreeHolds == Spec => []HashesAgree
<1>1. TranscriptInv => HashesAgree
  BY TwoHashes, MessagesTellBytes DEF HashesAgree
<1> QED  BY <1>1, EncodingInvariant, PTL
=============================================================================
