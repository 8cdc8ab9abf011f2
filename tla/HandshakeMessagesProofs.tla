----------------------- MODULE HandshakeMessagesProofs -----------------------
(***************************************************************************)
(* The boundary between two handshake messages is never lost, whatever the *)
(* script, the bytes, the buffer and the alterations.                      *)
(***************************************************************************)
EXTENDS HandshakeMessagesInvariant, FramingProofs

(* Sequences *)

\* A byte moved from the front of one sequence to the end of the one before it.
LEMMA Moved ==
    ASSUME NEW S, NEW s \in Seq(S), NEW t \in Seq(S), t # <<>>
    PROVE  /\ Append(s, Head(t)) \o Tail(t) = s \o t
           /\ Append(s, Head(t)) \in Seq(S) /\ Tail(t) \in Seq(S)
           /\ Len(Append(s, Head(t))) = Len(s) + 1 /\ Len(Tail(t)) = Len(t) - 1
OBVIOUS

\* Where the elements of a concatenation come from.
LEMMA Joined ==
    ASSUME NEW S, NEW s \in Seq(S), NEW t \in Seq(S)
    PROVE  /\ s \o t \in Seq(S) /\ Len(s \o t) = Len(s) + Len(t)
           /\ \A i \in 1..Len(s) : (s \o t)[i] = s[i]
           /\ \A i \in 1..Len(t) : (s \o t)[Len(s) + i] = t[i]
OBVIOUS

LEMMA JoinedBytes ==
    ASSUME NEW s \in Seq(Bytes), NEW t \in Seq(Bytes)
    PROVE  /\ s \o t \in Seq(Bytes) /\ Len(s \o t) = Len(s) + Len(t)
           /\ \A i \in 1..Len(s) : (s \o t)[i] = s[i]
           /\ \A i \in 1..Len(t) : (s \o t)[Len(s) + i] = t[i]
BY Joined

LEMMA Associative ==
    ASSUME NEW S, NEW s \in Seq(S), NEW t \in Seq(S), NEW u \in Seq(S)
    PROVE  (s \o t) \o u = s \o (t \o u)
OBVIOUS

LEMMA AssociativeBytes ==
    ASSUME NEW s \in Seq(Bytes), NEW t \in Seq(Bytes), NEW u \in Seq(Bytes)
    PROVE  (s \o t) \o u = s \o (t \o u)
BY Associative

\* A message of the script is one of its elements.
LEMMA ScriptElement ==
    \A k : k \in DOMAIN Script <=> k \in Nat /\ k \in 1..Len(Script)
BY ScriptAssumption

LEMMA Element ==
    ASSUME NEW s \in Seq(Bytes), NEW i \in 1..Len(s)
    PROVE  s[i] \in Bytes
OBVIOUS

LEMMA Nothing ==
    ASSUME NEW S, NEW s \in Seq(S)
    PROVE  s \o <<>> = s /\ <<>> \o s = s /\ <<>> \in Seq(S)
OBVIOUS

\* d is s but for e in place of element j.
Replaces(d, s, j, e) ==
    Len(d) = Len(s) /\ \A i \in 1..Len(s) : d[i] = IF i = j THEN e ELSE s[i]

LEMMA Updated ==
    ASSUME NEW S, NEW s \in Seq(S), NEW j \in DOMAIN s, NEW e \in S
    PROVE  [s EXCEPT ![j] = e] \in Seq(S) /\ Replaces([s EXCEPT ![j] = e], s, j, e)
<1>1. PICK n \in Nat : n = Len(s)
  OBVIOUS
<1>2. s \in [1..n -> S] /\ j \in 1..n
  BY <1>1
<1>3. PICK d : d = [s EXCEPT ![j] = e]
  OBVIOUS
<1>4. d \in [1..n -> S] /\ \A i \in 1..n : d[i] = IF i = j THEN e ELSE s[i]
  BY <1>2, <1>3
<1>5. \A m \in Nat : \A f \in [1..m -> S] : f \in Seq(S) /\ Len(f) = m
  OBVIOUS
<1>6. d \in Seq(S) /\ Len(d) = n
  BY <1>4, <1>5
<1> QED  BY <1>1, <1>3, <1>4, <1>6 DEF Replaces

\* One element of the second part replaced, or of the first.
LEMMA ReplacedInSecond ==
    ASSUME NEW S, NEW s \in Seq(S), NEW t \in Seq(S), NEW j \in DOMAIN t, NEW e \in S,
           NEW d \in Seq(S), Replaces(d, t, j, e)
    PROVE  /\ Replaces(s \o d, s \o t, Len(s) + j, e)
           /\ Len(s) + j \in DOMAIN (s \o t) /\ (s \o t)[Len(s) + j] = t[j]
<1>1. Len(d) = Len(t) /\ \A i \in 1..Len(t) : d[i] = IF i = j THEN e ELSE t[i]
  BY DEF Replaces
<1>2. /\ s \o t \in Seq(S) /\ Len(s \o t) = Len(s) + Len(t)
      /\ \A i \in 1..Len(s) : (s \o t)[i] = s[i]
      /\ \A i \in 1..Len(t) : (s \o t)[Len(s) + i] = t[i]
  BY Joined
<1>3. /\ s \o d \in Seq(S) /\ Len(s \o d) = Len(s) + Len(d)
      /\ \A i \in 1..Len(s) : (s \o d)[i] = s[i]
      /\ \A i \in 1..Len(d) : (s \o d)[Len(s) + i] = d[i]
  BY Joined
<1>4. PICK a \in Seq(S), b \in Seq(S) : a = s \o t /\ b = s \o d
  BY <1>2, <1>3
<1>5. PICK l \in Nat, m \in Nat : l = Len(s) /\ m = Len(t)
  OBVIOUS
<1>6. j \in 1..m /\ j \in Nat
  BY <1>5
<1>7. /\ Len(a) = l + m /\ Len(b) = l + m
      /\ \A i \in 1..l : a[i] = s[i] /\ b[i] = s[i]
      /\ \A i \in 1..m : a[l + i] = t[i] /\ b[l + i] = IF i = j THEN e ELSE t[i]
  BY <1>1, <1>2, <1>3, <1>4, <1>5
<1>8. ASSUME NEW i \in 1..(l + m) PROVE b[i] = IF i = l + j THEN e ELSE a[i]
  <2>1. CASE i \in 1..l
    <3>1. i # l + j
      BY <1>6, <2>1
    <3> QED  BY <1>7, <2>1, <3>1
  <2>2. ASSUME NEW k \in 1..m, i = l + k PROVE b[i] = IF i = l + j THEN e ELSE a[i]
    <3>1. CASE k = j
      <4>1. i = l + j
        BY <2>2, <3>1
      <4> QED  BY <1>7, <2>2, <3>1, <4>1
    <3>2. CASE k # j
      <4>1. k \in Nat
        OBVIOUS
      <4>2. i # l + j
        BY <1>6, <2>2, <3>2, <4>1
      <4> QED  BY <1>7, <2>2, <3>2, <4>2
    <3> QED  BY <3>1, <3>2
  <2>3. i \in 1..l \/ (i - l \in 1..m /\ i = l + (i - l))
    OBVIOUS
  <2> QED  BY <2>1, <2>2, <2>3
<1>9. Replaces(b, a, l + j, e)
  BY <1>7, <1>8 DEF Replaces
<1>10. l + j \in DOMAIN a /\ a[l + j] = t[j]
  BY <1>6, <1>7
<1> QED  BY <1>4, <1>5, <1>9, <1>10

LEMMA ReplacedInFirst ==
    ASSUME NEW S, NEW s \in Seq(S), NEW t \in Seq(S), NEW j \in DOMAIN s, NEW e \in S,
           NEW d \in Seq(S), Replaces(d, s, j, e)
    PROVE  /\ Replaces(d \o t, s \o t, j, e)
           /\ j \in DOMAIN (s \o t) /\ (s \o t)[j] = s[j]
<1>1. Len(d) = Len(s) /\ \A i \in 1..Len(s) : d[i] = IF i = j THEN e ELSE s[i]
  BY DEF Replaces
<1>2. /\ s \o t \in Seq(S) /\ Len(s \o t) = Len(s) + Len(t)
      /\ \A i \in 1..Len(s) : (s \o t)[i] = s[i]
      /\ \A i \in 1..Len(t) : (s \o t)[Len(s) + i] = t[i]
  BY Joined
<1>3. /\ d \o t \in Seq(S) /\ Len(d \o t) = Len(d) + Len(t)
      /\ \A i \in 1..Len(d) : (d \o t)[i] = d[i]
      /\ \A i \in 1..Len(t) : (d \o t)[Len(d) + i] = t[i]
  BY Joined
<1>4. PICK a \in Seq(S), b \in Seq(S) : a = s \o t /\ b = d \o t
  BY <1>2, <1>3
<1>5. PICK l \in Nat, m \in Nat : l = Len(s) /\ m = Len(t)
  OBVIOUS
<1>6. j \in 1..l /\ j \in Nat
  BY <1>5
<1>7. /\ Len(a) = l + m /\ Len(b) = l + m
      /\ \A i \in 1..l : a[i] = s[i] /\ b[i] = IF i = j THEN e ELSE s[i]
      /\ \A i \in 1..m : a[l + i] = t[i] /\ b[l + i] = t[i]
  BY <1>1, <1>2, <1>3, <1>4, <1>5
<1>8. ASSUME NEW i \in 1..(l + m) PROVE b[i] = IF i = j THEN e ELSE a[i]
  <2>1. CASE i \in 1..l
    BY <1>7, <2>1
  <2>2. ASSUME NEW k \in 1..m, i = l + k PROVE b[i] = IF i = j THEN e ELSE a[i]
    <3>1. i # j
      BY <1>6, <2>2
    <3> QED  BY <1>7, <2>2, <3>1
  <2>3. i \in 1..l \/ (i - l \in 1..m /\ i = l + (i - l))
    OBVIOUS
  <2> QED  BY <2>1, <2>2, <2>3
<1>9. Replaces(b, a, j, e)
  BY <1>7, <1>8 DEF Replaces
<1>10. j \in DOMAIN a /\ a[j] = s[j]
  BY <1>6, <1>7
<1> QED  BY <1>4, <1>9, <1>10

-----------------------------------------------------------------------------
(* The chain *)

\* A chain with nothing in it.
LEMMA EmptyChain ==
    ASSUME NEW ms, NEW dirty
    PROVE  ChainOf(<<>>, Len(ms) + 1, ms, dirty)
<1>1. \A i \in DOMAIN <<>> : FALSE
  OBVIOUS
<1> QED  BY <1>1 DEF ChainOf, Contiguous, Ends, Unaltered

\* Where the first message of a chain stands.
LEMMA FirstMessage ==
    ASSUME NEW c \in Seq(Bytes), NEW k \in Nat, NEW ms, NEW dirty, ChainOf(c, k, ms, dirty),
           Size(k) \in Nat
    PROVE  \A i \in DOMAIN c : i <= Size(k) => c[i].of = k /\ c[i].at = i
<1> SUFFICES ASSUME NEW i \in DOMAIN c, i <= Size(k) PROVE c[i].of = k /\ c[i].at = i
  OBVIOUS
<1>1. c # <<>> /\ 1 \in DOMAIN c /\ 1 <= i
  OBVIOUS
<1>2. c[1].of = k /\ c[1].at = 1
  BY <1>1 DEF ChainOf, Ends
<1>3. c[1].at + (i - 1) <= Size(c[1].of) => c[i].of = c[1].of /\ c[i].at = c[1].at + (i - 1)
  BY <1>1 DEF ChainOf, Contiguous
<1>4. 1 + (i - 1) = i
  OBVIOUS
<1> QED  BY <1>2, <1>3, <1>4

\* A byte of the chain altered, and its message with it.
LEMMA AlteredChain ==
    ASSUME NEW c \in Seq(Bytes), NEW k, NEW ms, NEW dirty, ChainOf(c, k, ms, dirty),
           NEW n \in DOMAIN c, NEW e \in Bytes, e.of = c[n].of, e.at = c[n].at,
           NEW d \in Seq(Bytes), Replaces(d, c, n, e)
    PROVE  ChainOf(d, k, ms, dirty \union {e.of}) /\ e.of \in 1..Len(ms) /\ Len(c) \in Nat
<1>1. Len(d) = Len(c) /\ \A i \in 1..Len(c) : d[i] = IF i = n THEN e ELSE c[i]
  BY DEF Replaces
<1>2. DOMAIN d = DOMAIN c /\ \A i \in DOMAIN c : i # n => d[i] = c[i]
  BY <1>1
<1>3. \A i \in DOMAIN c : d[i].of = c[i].of /\ d[i].at = c[i].at
  BY <1>1
<1>4. Contiguous(d)
  BY <1>2, <1>3 DEF ChainOf, Contiguous
<1>5. Ends(d, k, ms)
  <2>1. c # <<>> /\ d # <<>> /\ 1 \in DOMAIN c /\ Len(c) \in DOMAIN c
    BY <1>1
  <2> QED  BY <1>1, <1>3, <2>1 DEF ChainOf, Ends
<1>6. Unaltered(d, ms, dirty \union {e.of})
  BY <1>2, <1>3 DEF ChainOf, Unaltered
<1>7. e.of \in 1..Len(ms)
  BY DEF ChainOf, Unaltered
<1> QED  BY <1>4, <1>5, <1>6, <1>7 DEF ChainOf

\* A message of the script has a header and a body of at least one byte.
LEMMA SizeOfMessage ==
    ASSUME NEW k \in DOMAIN Script
    PROVE  /\ Script[k].type \in Byte /\ Script[k].length \in 1..TLS_HANDSHAKE_MAX_BODY_LEN
           /\ Script[k].length \in Nat /\ Size(k) \in Nat /\ Size(k) = 4 + Script[k].length
           /\ Size(k) > 4
<1>1. Script[k] \in [type : Byte, length : 1..TLS_HANDSHAKE_MAX_BODY_LEN, signed : BOOLEAN]
  <2>1. \A S : \A s \in Seq(S) : \A i \in DOMAIN s : s[i] \in S
    OBVIOUS
  <2> QED  BY <2>1, ScriptAssumption
<1>2. Script[k].type \in Byte /\ Script[k].length \in 1..TLS_HANDSHAKE_MAX_BODY_LEN
  BY <1>1
<1>3. TLS_HANDSHAKE_MAX_BODY_LEN \in Nat
  BY BaseAssumption DEF TLS_HANDSHAKE_MAX_BODY_LEN
<1> QED  BY <1>2, <1>3 DEF Size, TLS_HANDSHAKE_HEADER_LEN

\* The bytes of message n, which is m.
Whole(t, n, m) ==
    /\ Len(t) = Size(n)
    /\ \A i \in 1..Size(n) : t[i].of = n /\ t[i].at = i /\ t[i].value = Encode(m)[i]

\* A whole message added at the end of the chain.
LEMMA AddedMessage ==
    ASSUME NEW c \in Seq(Bytes), NEW k \in Nat, NEW ms \in Seq(Messages), NEW dirty,
           ChainOf(c, k, ms, dirty), NEW m \in Messages,
           NEW n \in DOMAIN Script, n = Len(ms) + 1, k <= n,
           NEW t \in Seq(Bytes), Whole(t, n, m)
    PROVE  ChainOf(c \o t, k, Append(ms, m), dirty)
<1>1. PICK l \in Nat, z \in Nat : l = Len(c) /\ z = Size(n) /\ z > 4 /\ n \in Nat
  BY SizeOfMessage, ScriptAssumption
<1>2. PICK d \in Seq(Bytes) : /\ d = c \o t /\ Len(d) = l + z
                              /\ \A i \in 1..l : d[i] = c[i]
                              /\ \A i \in 1..z : d[l + i] = t[i]
  <2>0. Len(t) = z
    BY <1>1 DEF Whole
  <2>1. /\ c \o t \in Seq(Bytes) /\ Len(c \o t) = Len(c) + Len(t)
        /\ \A i \in 1..Len(c) : (c \o t)[i] = c[i]
        /\ \A i \in 1..Len(t) : (c \o t)[Len(c) + i] = t[i]
    BY JoinedBytes
  <2>2. \A i \in 1..z : (c \o t)[l + i] = t[i]
    BY <1>1, <2>0, <2>1
  <2> QED  BY <1>1, <2>0, <2>1, <2>2
<1>3. PICK all \in Seq(Messages) : /\ all = Append(ms, m) /\ Len(all) = n /\ all[n] = m
                                   /\ \A i \in 1..Len(ms) : all[i] = ms[i]
  <2>1. /\ Append(ms, m) \in Seq(Messages) /\ Len(Append(ms, m)) = Len(ms) + 1
        /\ Append(ms, m)[Len(ms) + 1] = m /\ \A i \in 1..Len(ms) : Append(ms, m)[i] = ms[i]
    OBVIOUS
  <2> QED  BY <2>1
<1>4. \A i \in 1..z : d[l + i].of = n /\ d[l + i].at = i /\ d[l + i].value = Encode(m)[i]
  BY <1>1, <1>2 DEF Whole
<1>5. \A i \in 1..(l + z) : i \in 1..l \/ (i - l \in 1..z /\ i = l + (i - l))
  OBVIOUS
<1>6. Len(ms) \in Nat /\ n > Len(ms)
  OBVIOUS
<1>7. \A i \in 1..l : d[i].of \in Nat /\ d[i].at \in Nat /\ d[i].of \in DOMAIN Script
  <2>1. \A i \in 1..l : c[i] \in Bytes /\ c[i].of \in 1..Len(ms)
    BY <1>1 DEF ChainOf, Unaltered
  <2>2. \A i \in 1..l : c[i].of \in Nat /\ c[i].at \in Nat
    BY <2>1 DEF Bytes
  <2>3. 1..Len(ms) \subseteq DOMAIN Script
    BY ScriptAssumption
  <2> QED  BY <1>2, <2>1, <2>2, <2>3
<1>8. /\ Contiguous(c) /\ Ends(c, k, ms) /\ Unaltered(c, ms, dirty)
       /\ DOMAIN c = 1..l
  BY <1>1 DEF ChainOf
<1>9. \A i \in 1..l :
          /\ d[i].of \in 1..Len(ms) /\ d[i].at \in 1..Size(d[i].of)
          /\ d[i].of \notin dirty => d[i].value = Encode(ms[d[i].of])[d[i].at]
  BY <1>2, <1>8 DEF Unaltered
<1>10. \A i \in 1..l : \A j \in 1..l : i <= j =>
          /\ d[i].of <= d[j].of
          /\ d[i].at + (j - i) <= Size(d[i].of) =>
                d[j].of = d[i].of /\ d[j].at = d[i].at + (j - i)
          /\ d[i].at = Size(d[i].of) /\ j = i + 1 => d[j].of = d[i].of + 1 /\ d[j].at = 1
  <2>1. \A i \in 1..l : \A j \in 1..l : i <= j =>
           /\ c[i].of <= c[j].of
           /\ c[i].at + (j - i) <= Size(c[i].of) =>
                 c[j].of = c[i].of /\ c[j].at = c[i].at + (j - i)
           /\ c[i].at = Size(c[i].of) /\ j = i + 1 => c[j].of = c[i].of + 1 /\ c[j].at = 1
    BY <1>8 DEF Contiguous
  <2> TAKE i \in 1..l
  <2> TAKE j \in 1..l
  <2>2. d[i] = c[i] /\ d[j] = c[j]
    BY <1>2
  <2> QED  BY <2>1, <2>2
<1>11. IF c = <<>> THEN l = 0 /\ k = n
       ELSE 1 \in 1..l /\ l \in 1..l /\ d[1].of = k /\ d[1].at = 1
               /\ d[l].of = Len(ms) /\ d[l].at = Size(Len(ms))
  <2>1. c = <<>> => l = 0 /\ k = n
    BY <1>1, <1>8 DEF Ends
  <2>2. c # <<>> => 1 \in 1..l /\ l \in 1..l
    BY <1>1
  <2>3. c # <<>> => c[1].of = k /\ c[1].at = 1 /\ c[l].of = Len(ms) /\ c[l].at = Size(Len(ms))
    BY <1>1, <1>8 DEF Ends
  <2> QED  BY <1>2, <2>1, <2>2, <2>3
<1>12. Contiguous(d)
  <2> SUFFICES ASSUME NEW i \in 1..(l + z), NEW j \in 1..(l + z), i <= j
               PROVE  /\ d[i].of <= d[j].of
                      /\ d[i].at + (j - i) <= Size(d[i].of) =>
                            d[j].of = d[i].of /\ d[j].at = d[i].at + (j - i)
                      /\ d[i].at = Size(d[i].of) /\ j = i + 1 =>
                            d[j].of = d[i].of + 1 /\ d[j].at = 1
    <3>1. DOMAIN d = 1..(l + z)
      BY <1>2
    <3> QED  BY <3>1 DEF Contiguous
  <2>1. CASE j \in 1..l
    <3>1. i \in 1..l
      BY <2>1
    <3> QED  BY <1>10, <2>1, <3>1
  <2>2. ASSUME i \in 1..l, NEW b \in 1..z, j = l + b
        PROVE  /\ d[i].of <= d[j].of
               /\ ~(d[i].at + (j - i) <= Size(d[i].of))
               /\ d[i].at = Size(d[i].of) /\ j = i + 1 =>
                     d[j].of = d[i].of + 1 /\ d[j].at = 1
    <3>1. PICK oi \in Nat, ai \in Nat, size \in Nat :
             oi = d[i].of /\ ai = d[i].at /\ size = Size(oi) /\ oi <= Len(ms)
      <4>1. d[i].of \in Nat /\ d[i].at \in Nat /\ d[i].of \in DOMAIN Script
        BY <1>7, <2>2
      <4>2. Size(d[i].of) \in Nat
        BY <4>1, SizeOfMessage
      <4>3. d[i].of \in 1..Len(ms)
        BY <1>9, <2>2
      <4>4. d[i].of <= Len(ms)
        BY <1>6, <4>3
      <4> QED  BY <4>1, <4>2, <4>4
    <3>2. l \in 1..l /\ l # 0 /\ i <= l /\ i \in Nat
      BY <1>1, <2>2
    <3>3. d[l].of = Len(ms) /\ d[l].at = Size(Len(ms))
      BY <1>11, <3>2
    <3>4. ai + (l - i) <= size => d[l].of = oi /\ d[l].at = ai + (l - i)
      BY <1>10, <2>2, <3>1, <3>2
    <3>5. ai + (l - i) >= size
      <4>1. ai + (l - i) <= size => size = ai + (l - i)
        BY <3>1, <3>3, <3>4
      <4>2. \A x, y \in Int : (x <= y => y = x) => x >= y
        OBVIOUS
      <4>3. ai + (l - i) \in Int /\ size \in Int
        BY <3>1, <3>2
      <4> QED  BY <4>1, <4>2, <4>3
    <3>6. ~(ai + (j - i) <= size)
      <4>1. ASSUME NEW x \in Nat, NEW y \in Nat, NEW e \in Nat, NEW f \in Nat, NEW g \in 1..z,
                   x + (e - f) >= y
            PROVE  ~(x + ((e + g) - f) <= y)
        BY <4>1
      <4> QED  BY <2>2, <3>1, <3>2, <3>5, <4>1
    <3>7. d[j].of = n /\ d[j].at = b
      BY <1>4, <2>2
    <3>8. j = i + 1 => i = l /\ b = 1
      BY <2>2, <3>2
    <3>9. d[i].of <= d[j].of
      BY <1>6, <3>1, <3>7
    <3>10. d[i].at = Size(d[i].of) /\ j = i + 1 => d[j].of = d[i].of + 1 /\ d[j].at = 1
      BY <3>3, <3>7, <3>8
    <3> QED  BY <3>1, <3>6, <3>9, <3>10
  <2>3. ASSUME NEW a \in 1..z, i = l + a, NEW b \in 1..z, j = l + b
        PROVE  /\ d[i].of <= d[j].of
               /\ d[j].of = d[i].of /\ d[j].at = d[i].at + (j - i)
               /\ ~(d[i].at = Size(d[i].of) /\ j = i + 1)
    <3>1. d[i].of = n /\ d[i].at = a /\ d[j].of = n /\ d[j].at = b
      BY <1>4, <2>3
    <3>2. j - i = b - a /\ a + (b - a) = b /\ (j = i + 1 => b = a + 1) /\ n <= n
      BY <1>1, <2>3
    <3>3. ~(a = z /\ b = a + 1)
      BY <1>1
    <3> QED  BY <1>1, <3>1, <3>2, <3>3
  <2>4. CASE i \in 1..l /\ j \notin 1..l
    <3>1. j - l \in 1..z /\ j = l + (j - l)
      BY <1>5, <2>4
    <3> QED  BY <2>2, <2>4, <3>1
  <2>5. CASE i \notin 1..l
    <3>1. j \notin 1..l
      BY <2>5
    <3>2. i - l \in 1..z /\ i = l + (i - l) /\ j - l \in 1..z /\ j = l + (j - l)
      BY <1>5, <2>5, <3>1
    <3> QED  BY <2>3, <3>2
  <2> QED  BY <2>1, <2>4, <2>5
<1>13. Ends(d, k, all)
  <2>1. d # <<>> /\ Len(d) = l + z /\ z \in 1..z /\ 1 \in 1..z
    BY <1>1, <1>2
  <2>2. d[Len(d)].of = n /\ d[Len(d)].at = Size(n)
    BY <1>1, <1>4, <2>1
  <2>3. d[1].of = k /\ d[1].at = 1
    <3>1. CASE c = <<>>
      <4>1. d[l + 1].of = n /\ d[l + 1].at = 1 /\ l + 1 = 1 /\ k = n
        BY <1>4, <1>11, <2>1, <3>1
      <4> QED  BY <4>1
    <3>2. CASE c # <<>>
      BY <1>11, <3>2
    <3> QED  BY <3>1, <3>2
  <2> QED  BY <1>3, <2>1, <2>2, <2>3 DEF Ends
<1>14. Unaltered(d, all, dirty)
  <2> SUFFICES ASSUME NEW i \in 1..(l + z)
               PROVE  /\ d[i].of \in 1..Len(all) /\ d[i].at \in 1..Size(d[i].of)
                      /\ d[i].of \notin dirty => d[i].value = Encode(all[d[i].of])[d[i].at]
    BY <1>2 DEF Unaltered
  <2>1. CASE i \in 1..l
    <3>1. /\ d[i].of \in 1..Len(ms) /\ d[i].at \in 1..Size(d[i].of)
          /\ d[i].of \notin dirty => d[i].value = Encode(ms[d[i].of])[d[i].at]
      BY <1>9, <2>1
    <3>2. d[i].of \in 1..Len(all) /\ all[d[i].of] = ms[d[i].of]
      BY <1>3, <1>6, <3>1
    <3> QED  BY <3>1, <3>2
  <2>2. ASSUME NEW a \in 1..z, i = l + a
        PROVE  /\ d[i].of \in 1..Len(all) /\ d[i].at \in 1..Size(d[i].of)
               /\ d[i].value = Encode(all[d[i].of])[d[i].at]
    <3>1. d[i].of = n /\ d[i].at = a /\ d[i].value = Encode(m)[a]
      BY <1>4, <2>2
    <3>2. n \in 1..Len(all) /\ a \in 1..Size(n)
      BY <1>1, <1>3, <1>6
    <3> QED  BY <1>3, <3>1, <3>2
  <2> QED  BY <1>5, <2>1, <2>2
<1> QED  BY <1>2, <1>3, <1>12, <1>13, <1>14 DEF ChainOf

\* A whole message taken off the front of the chain.
LEMMA DroppedMessage ==
    ASSUME NEW p \in Seq(Bytes), NEW r \in Seq(Bytes), NEW k \in DOMAIN Script,
           NEW ms \in Seq(Messages), NEW dirty, ChainOf(p \o r, k, ms, dirty), Len(p) = Size(k)
    PROVE  ChainOf(r, k + 1, ms, dirty) /\ \A i \in DOMAIN r : r[i].of > k
<1>1. PICK z \in Nat, l \in Nat : z = Size(k) /\ z > 4 /\ l = Len(r) /\ k \in Nat
  <2>1. k \in Nat /\ Size(k) \in Nat /\ Size(k) > 4
    BY SizeOfMessage, ScriptElement
  <2>2. Len(r) \in Nat
    OBVIOUS
  <2> QED  BY <2>1, <2>2
<1>2. PICK c \in Seq(Bytes) : /\ c = p \o r /\ Len(c) = z + l
                              /\ \A i \in 1..l : c[z + i] = r[i]
  <2>1. /\ p \o r \in Seq(Bytes) /\ Len(p \o r) = Len(p) + Len(r)
        /\ \A i \in 1..Len(p) : (p \o r)[i] = p[i]
        /\ \A i \in 1..Len(r) : (p \o r)[Len(p) + i] = r[i]
    BY JoinedBytes
  <2> QED  BY <1>1, <2>1
<1>3. ChainOf(c, k, ms, dirty) /\ Size(k) \in Nat
  BY <1>1, <1>2
<1>4. z \in DOMAIN c /\ c # <<>>
  BY <1>1, <1>2
<1>5. \A i \in DOMAIN c : i <= Size(k) => c[i].of = k /\ c[i].at = i
  BY <1>1, <1>3, FirstMessage
<1>6. c[z].of = k /\ c[z].at = Size(k)
  BY <1>1, <1>4, <1>5
<1>7. \A i \in 1..l : z + i \in DOMAIN c
  BY <1>2
<1>8. Contiguous(r)
  <2> SUFFICES ASSUME NEW i \in 1..l, NEW j \in 1..l, i <= j
               PROVE  /\ r[i].of <= r[j].of
                      /\ r[i].at + (j - i) <= Size(r[i].of) =>
                            r[j].of = r[i].of /\ r[j].at = r[i].at + (j - i)
                      /\ r[i].at = Size(r[i].of) /\ j = i + 1 =>
                            r[j].of = r[i].of + 1 /\ r[j].at = 1
    BY <1>1 DEF Contiguous
  <2>1. PICK a \in DOMAIN c, b \in DOMAIN c :
           a = z + i /\ b = z + j /\ a <= b /\ b - a = j - i /\ (j = i + 1 => b = a + 1)
    <3>1. /\ z + i <= z + j /\ (z + j) - (z + i) = j - i
          /\ j = i + 1 => z + j = (z + i) + 1
      OBVIOUS
    <3> QED  BY <1>7, <3>1
  <2>2. c[a] = r[i] /\ c[b] = r[j]
    BY <1>2, <2>1
  <2>3. /\ c[a].of <= c[b].of
        /\ c[a].at + (b - a) <= Size(c[a].of) => c[b].of = c[a].of /\ c[b].at = c[a].at + (b - a)
        /\ c[a].at = Size(c[a].of) /\ b = a + 1 => c[b].of = c[a].of + 1 /\ c[b].at = 1
    BY <1>3, <2>1 DEF ChainOf, Contiguous
  <2> QED  BY <2>1, <2>2, <2>3
<1>9. ASSUME r # <<>> PROVE r[1].of = k + 1 /\ r[1].at = 1
  <2>1. 1 \in 1..l /\ z + 1 \in DOMAIN c /\ c[z + 1] = r[1]
    BY <1>1, <1>2, <1>7, <1>9
  <2>2. c[z + 1].of = c[z].of + 1 /\ c[z + 1].at = 1
    BY <1>1, <1>3, <1>4, <1>6, <2>1 DEF ChainOf, Contiguous
  <2> QED  BY <1>6, <2>1, <2>2
<1>10. Ends(r, k + 1, ms)
  <2>1. c[Len(c)].of = Len(ms) /\ c[Len(c)].at = Size(Len(ms))
    BY <1>3, <1>4 DEF ChainOf, Ends
  <2>2. CASE r = <<>>
    <3>1. Len(c) = z
      BY <1>1, <1>2, <2>2
    <3> QED  BY <1>6, <2>1, <2>2, <3>1 DEF Ends
  <2>3. CASE r # <<>>
    <3>1. l \in 1..l /\ c[Len(c)] = r[l]
      BY <1>1, <1>2, <2>3
    <3> QED  BY <1>1, <1>9, <2>1, <2>3, <3>1 DEF Ends
  <2> QED  BY <2>2, <2>3
<1>11. Unaltered(r, ms, dirty)
  <2>1. \A i \in 1..l :
           /\ c[z + i].of \in 1..Len(ms) /\ c[z + i].at \in 1..Size(c[z + i].of)
           /\ c[z + i].of \notin dirty =>
                 c[z + i].value = Encode(ms[c[z + i].of])[c[z + i].at]
    BY <1>3, <1>7 DEF ChainOf, Unaltered
  <2>2. \A i \in 1..l : c[z + i] = r[i]
    BY <1>2
  <2> QED  BY <1>1, <2>1, <2>2 DEF Unaltered
<1>12. ASSUME NEW i \in DOMAIN r PROVE r[i].of > k
  <2>1. r # <<>> /\ 1 \in DOMAIN r /\ 1 <= i
    OBVIOUS
  <2>2. r[1].of <= r[i].of /\ r[1].of = k + 1
    BY <1>8, <1>9, <2>1 DEF Contiguous
  <2>3. r[i] \in Bytes
    OBVIOUS
  <2>4. r[i].of \in Nat
    BY <2>3 DEF Bytes
  <2> QED  BY <1>1, <2>2, <2>4
<1> QED  BY <1>8, <1>10, <1>11, <1>12 DEF ChainOf

-----------------------------------------------------------------------------
(* Messages and what is read of them *)

\* A message of the script as Encode takes it and as it travels.
LEMMA ScriptMessage ==
    ASSUME NEW k \in DOMAIN Script,
           NEW m \in [type : {Script[k].type}, body : [1..Script[k].length -> Byte]]
    PROVE  /\ m \in Messages /\ m.type = Script[k].type /\ m.body \in Seq(Byte)
           /\ Len(m.body) = Script[k].length
           /\ Encode(m)[1] = Script[k].type /\ BodyLength(Encode(m)) = Script[k].length
           /\ \A i \in 1..Script[k].length : Encode(m)[4 + i] = m.body[i]
           /\ Tagged(k, Encode(m)) \in Seq(Bytes) /\ Whole(Tagged(k, Encode(m)), k, m)
<1>1. PICK n \in Nat : n = Script[k].length /\ n \in 1..TLS_HANDSHAKE_MAX_BODY_LEN /\ Size(k) = 4 + n
  BY SizeOfMessage
<1>2. PICK type \in Byte, content \in [1..n -> Byte] :
         m = [type |-> type, body |-> content] /\ type = Script[k].type
  BY <1>1, SizeOfMessage
<1>3. content \in Seq(Byte) /\ Len(content) = n
  <2>1. \A l \in Nat : \A f \in [1..l -> Byte] : f \in Seq(Byte) /\ Len(f) = l
    OBVIOUS
  <2> QED  BY <2>1
<1>4. n \in 0..TLS_HANDSHAKE_MAX_BODY_LEN /\ Len(content) <= TLS_HANDSHAKE_MAX_BODY_LEN
  BY <1>1, <1>3, BaseAssumption DEF TLS_HANDSHAKE_MAX_BODY_LEN
<1>5. /\ Encode(m) \in Seq(Byte)
      /\ Len(Encode(m)) = TLS_HANDSHAKE_HEADER_LEN + Len(content)
      /\ \A i \in 1..TLS_HANDSHAKE_HEADER_LEN : Encode(m)[i] = HandshakeHeader(type, Len(content))[i]
      /\ \A i \in 1..Len(content) : Encode(m)[TLS_HANDSHAKE_HEADER_LEN + i] = content[i]
  <2>1. content \in Seq(Byte) /\ type \in Byte /\ m = [type |-> type, body |-> content]
    BY <1>2, <1>3
  <2>2. PICK r : r = [type |-> type, body |-> content]
    OBVIOUS
  <2>3. /\ Encode(r) \in Seq(Byte)
        /\ Len(Encode(r)) = TLS_HANDSHAKE_HEADER_LEN + Len(content)
        /\ \A i \in 1..TLS_HANDSHAKE_HEADER_LEN : Encode(r)[i] = HandshakeHeader(type, Len(content))[i]
        /\ \A i \in 1..Len(content) : Encode(r)[TLS_HANDSHAKE_HEADER_LEN + i] = content[i]
    <3>1. content \in Seq(Byte) /\ type \in Byte /\ Len(content) <= TLS_HANDSHAKE_MAX_BODY_LEN
      BY <1>4, <2>1
    <3> QED  BY <2>2, <3>1, EncodedMessage
  <2>4. r = m
    BY <2>1, <2>2
  <2> QED  BY <2>3, <2>4
<1>6. /\ HandshakeHeader(type, n)[1] = type
      /\ BodyLength(HandshakeHeader(type, n)) = n
  BY <1>4, LengthSurvives
<1>7. PICK code \in Seq(Byte) :
         /\ code = Encode(m) /\ Len(code) = 4 + n
         /\ \A i \in 1..4 : code[i] = HandshakeHeader(type, n)[i]
         /\ \A i \in 1..n : code[4 + i] = content[i]
  BY <1>3, <1>5 DEF TLS_HANDSHAKE_HEADER_LEN
<1>8. code[1] = type /\ BodyLength(code) = n
  BY <1>6, <1>7 DEF BodyLength
<1>9. PICK t : t = Tagged(k, code)
  OBVIOUS
<1>10. k \in Nat
  BY ScriptAssumption
<1>11. t \in [1..(4 + n) -> Bytes] /\ \A i \in 1..(4 + n) : t[i] = SentByte(k, i, code[i])
  <2>1. DOMAIN code = 1..(4 + n)
    BY <1>7
  <2>2. \A i \in 1..(4 + n) : SentByte(k, i, code[i]) \in Bytes
    BY <1>7, <1>10 DEF SentByte, Bytes
  <2> QED  BY <1>9, <2>1, <2>2 DEF Tagged
<1>12. t \in Seq(Bytes) /\ Len(t) = 4 + n
  <2>1. \A l \in Nat : \A f \in [1..l -> Bytes] : f \in Seq(Bytes) /\ Len(f) = l
    OBVIOUS
  <2> QED  BY <1>11, <2>1
<1>13. Whole(t, k, m)
  <2>1. \A i \in 1..(4 + n) : t[i].of = k /\ t[i].at = i /\ t[i].value = code[i]
    BY <1>11 DEF SentByte
  <2> QED  BY <1>1, <1>7, <1>12, <2>1 DEF Whole
<1>14. m \in Messages
  BY DEF Messages
<1> QED  BY <1>1, <1>2, <1>3, <1>7, <1>8, <1>9, <1>12, <1>13, <1>14

\* The length in four bytes is a number.
LEMMA LengthIsNumber ==
    ASSUME NEW h \in Seq(Bytes), Len(h) = TLS_HANDSHAKE_HEADER_LEN
    PROVE  /\ BodyLength(Values(h)) \in Nat
           /\ \A i \in 1..4 : Values(h)[i] = h[i].value
<1>1. DOMAIN h = 1..4
  BY DEF TLS_HANDSHAKE_HEADER_LEN
<1>2. \A i \in 1..4 : Values(h)[i] = h[i].value
  BY <1>1 DEF Values
<1>3. \A i \in 1..4 : h[i] \in Bytes
  BY Element DEF TLS_HANDSHAKE_HEADER_LEN
<1>4. \A i \in 1..4 : h[i].value \in Nat
  <2>1. \A e \in Bytes : e.value \in Byte
    BY DEF Bytes
  <2>2. Byte \subseteq Nat
    BY BaseAssumption DEF Byte
  <2> QED  BY <1>3, <2>1, <2>2
<1>5. PICK x \in Nat, y \in Nat, z \in Nat :
         x = Values(h)[2] /\ y = Values(h)[3] /\ z = Values(h)[4]
  BY <1>2, <1>4
<1>6. \A n \in Nat : Base * n \in Nat
  BY BaseAssumption
<1>7. Base * (Base * x + y) + z \in Nat
  <2>1. \A p, q \in Nat : p + q \in Nat
    OBVIOUS
  <2>2. Base * x \in Nat
    BY <1>6
  <2>3. Base * x + y \in Nat
    BY <2>1, <2>2
  <2>4. Base * (Base * x + y) \in Nat
    BY <1>6, <2>3
  <2> QED  BY <2>1, <2>4
<1> QED  BY <1>2, <1>5, <1>7 DEF BodyLength

\* The message the receiver is reading was started, and stands at the front of
\* the chain, its header first.
LEMMA Front ==
    ASSUME TypeOK, StartedInv, CallInv, ChainInv, receiver \notin ReceiverStopped, header # <<>>,
           NEW k \in Nat, k = Len(delivered) + 1
    PROVE  /\ k \in DOMAIN Script /\ k \in 1..Len(started)
           /\ started[k] \in [type : {Script[k].type}, body : [1..Script[k].length -> Byte]]
           /\ \A i \in DOMAIN header : header[i].of = k /\ header[i].at = i
           /\ \A i \in DOMAIN body : body[i].of = k /\ body[i].at = 4 + i
           /\ k \notin touched =>
                 /\ \A i \in DOMAIN header : header[i].value = Encode(started[k])[i]
                 /\ \A i \in DOMAIN body : body[i].value = Encode(started[k])[4 + i]
<1>1. PICK h \in Seq(Bytes), b \in Seq(Bytes), s \in Seq(Bytes), u \in Seq(Bytes) :
         h = header /\ b = body /\ s = stream /\ u = unsent
  BY DEF TypeOK
<1>2. /\ h \o b \in Seq(Bytes) /\ Len(h \o b) = Len(h) + Len(b)
      /\ \A i \in 1..Len(h) : (h \o b)[i] = h[i]
      /\ \A i \in 1..Len(b) : (h \o b)[Len(h) + i] = b[i]
  BY JoinedBytes
<1>3. PICK p \in Seq(Bytes), r \in Seq(Bytes) : p = h \o b /\ r = s \o u
  BY <1>2, JoinedBytes
<1>4. /\ p \o r \in Seq(Bytes) /\ Len(p \o r) = Len(p) + Len(r)
      /\ \A i \in 1..Len(p) : (p \o r)[i] = p[i]
      /\ \A i \in 1..Len(r) : (p \o r)[Len(p) + i] = r[i]
  BY JoinedBytes
<1>5. PICK c \in Seq(Bytes) : c = p \o r /\ Chain = c
  <2>1. (p \o s) \o u = p \o (s \o u)
    BY AssociativeBytes
  <2> QED  BY <1>1, <1>3, <1>4, <2>1 DEF Chain
<1>6. PICK l \in Nat, m \in Nat : l = Len(h) /\ m = Len(b) /\ l > 0 /\ l <= 4
  BY <1>1 DEF TypeOK, TLS_HANDSHAKE_HEADER_LEN
<1>7. /\ \A i \in 1..(l + m) : i \in DOMAIN c
      /\ \A i \in 1..l : c[i] = h[i] /\ i \in 1..(l + m)
      /\ \A i \in 1..m : c[l + i] = b[i] /\ l + i \in 1..(l + m)
  BY <1>2, <1>3, <1>4, <1>5, <1>6
<1>8. ChainOf(c, k, started, touched)
  BY <1>5 DEF ChainInv
<1>9. 1 \in DOMAIN c /\ c # <<>>
  BY <1>6, <1>7
<1>10. c[1].of = k /\ c[1].of \in 1..Len(started)
  BY <1>8, <1>9 DEF ChainOf, Ends, Unaltered
<1>11. k \in 1..Len(started) /\ k \in DOMAIN Script
  <2>1. k \in 1..Len(started)
    BY <1>10
  <2>2. Len(started) \in Nat /\ Len(Script) \in Nat /\ Len(started) <= Len(Script)
    BY ScriptAssumption DEF StartedInv, TypeOK
  <2>3. k \in 1..Len(Script)
    BY <2>1, <2>2
  <2> QED  BY <2>1, <2>3, ScriptElement
<1>12. /\ Size(k) \in Nat /\ Size(k) = 4 + Script[k].length /\ Script[k].length \in Nat
       /\ Size(k) > 4
  BY <1>11, SizeOfMessage
<1>13. \A i \in DOMAIN c : i <= Size(k) => c[i].of = k /\ c[i].at = i
  BY <1>8, <1>12, FirstMessage
<1>14. \A i \in DOMAIN c : c[i].of = k /\ k \notin touched => c[i].value = Encode(started[k])[c[i].at]
  BY <1>8 DEF ChainOf, Unaltered
<1>15. \A i \in 1..l : /\ h[i].of = k /\ h[i].at = i
                       /\ k \notin touched => h[i].value = Encode(started[k])[i]
  <2>1. \A i \in 1..l : i <= Size(k) /\ i \in DOMAIN c /\ c[i] = h[i]
    BY <1>6, <1>7, <1>12
  <2> QED  BY <1>13, <1>14, <2>1
<1>16. \A i \in 1..m : /\ b[i].of = k /\ b[i].at = 4 + i
                       /\ k \notin touched => b[i].value = Encode(started[k])[4 + i]
  <2>1. CASE b = <<>>
    BY <1>6, <2>1
  <2>2. CASE b # <<>>
    <3>1. Reading
      <4>1. result \in {-1, 0, 1} /\ receiver \in {"header", "body", "returned"}
        BY DEF TypeOK
      <4> QED  BY <1>1, <2>2, <4>1 DEF CallInv
    <3>2. l = 4 /\ m <= Announced /\ Announced <= Script[k].length
      BY <1>1, <1>6, <3>1 DEF Reading, HeaderRead, HeaderAccepted, Expected, TLS_HANDSHAKE_HEADER_LEN
    <3>3. Announced \in Nat
      BY <1>1, <3>1, LengthIsNumber DEF Announced, Reading, HeaderRead
    <3>4. PICK n \in Nat : n = Script[k].length /\ m <= n /\ Size(k) = 4 + n
      <4>1. PICK n \in Nat, a \in Nat : n = Script[k].length /\ a = Announced /\ Size(k) = 4 + n
        BY <1>12, <3>3
      <4>2. m <= a /\ a <= n
        BY <3>2, <4>1
      <4>3. m <= n
        BY <4>2
      <4> QED  BY <4>1, <4>3
    <3>5. \A i \in 1..m : 4 + i <= Size(k) /\ 4 + i \in DOMAIN c /\ c[4 + i] = b[i]
      <4>1. \A i \in 1..m : 4 + i <= 4 + n
        <5> SUFFICES ASSUME NEW i \in 1..m PROVE 4 + i <= 4 + n
          OBVIOUS
        <5>1. i \in Nat /\ i <= m
          BY <1>6
        <5>2. i <= n
          BY <3>4, <5>1
        <5>3. \A x, y \in Nat : x <= y => 4 + x <= 4 + y
          OBVIOUS
        <5>4. n \in Nat
          BY <3>4
        <5> QED  BY ONLY <5>1, <5>2, <5>3, <5>4
      <4> QED  BY <1>7, <3>2, <3>4, <4>1
    <3> QED  BY <1>13, <1>14, <3>5
  <2> QED  BY <2>1, <2>2
<1>17. DOMAIN header = 1..l /\ DOMAIN body = 1..m
  BY <1>1, <1>6
<1>18. started[k] \in [type : {Script[k].type}, body : [1..Script[k].length -> Byte]]
  BY <1>11 DEF StartedInv
<1> QED  BY <1>1, <1>11, <1>15, <1>16, <1>17, <1>18

\* A message that was not altered is what the receiver takes it for.
LEMMA ReadAsSent ==
    ASSUME TypeOK, StartedInv, CallInv, ChainInv, receiver \notin ReceiverStopped, HeaderRead,
           NEW k \in Nat, k = Len(delivered) + 1, k \notin touched
    PROVE  /\ HeaderAccepted /\ Announced = Script[k].length
           /\ Len(body) = Script[k].length => Values(body) = started[k].body
<1>1. Len(header) = 4 /\ header # <<>> /\ header \in Seq(Bytes) /\ DOMAIN header = 1..4
  <2>1. header \in Seq(Bytes)
    BY DEF TypeOK
  <2>2. Len(header) = 4
    BY DEF HeaderRead, TLS_HANDSHAKE_HEADER_LEN
  <2> QED  BY <2>1, <2>2
<1>2. /\ k \in DOMAIN Script
      /\ started[k] \in [type : {Script[k].type}, body : [1..Script[k].length -> Byte]]
      /\ \A i \in DOMAIN header : header[i].value = Encode(started[k])[i]
      /\ \A i \in DOMAIN body : body[i].value = Encode(started[k])[4 + i]
  BY <1>1, Front
<1>3. PICK m \in [type : {Script[k].type}, body : [1..Script[k].length -> Byte]] : m = started[k]
  BY <1>2
<1>4. /\ m.body \in Seq(Byte) /\ Len(m.body) = Script[k].length
      /\ Encode(m)[1] = Script[k].type /\ BodyLength(Encode(m)) = Script[k].length
      /\ \A i \in 1..Script[k].length : Encode(m)[4 + i] = m.body[i]
  BY <1>2, ScriptMessage
<1>5. \A i \in 1..4 : Values(header)[i] = Encode(m)[i] /\ header[i].value = Encode(m)[i]
  BY <1>1, <1>2, <1>3 DEF Values
<1>6. Announced = Script[k].length
  BY <1>4, <1>5 DEF Announced, BodyLength
<1>7. Script[k].length \in Nat
  BY <1>2, SizeOfMessage
<1>8. HeaderAccepted
  BY <1>4, <1>5, <1>6, <1>7 DEF HeaderAccepted, Expected
<1>9. ASSUME Len(body) = Script[k].length PROVE Values(body) = started[k].body
  <2>1. body \in Seq(Bytes)
    BY DEF TypeOK
  <2>2. DOMAIN body = 1..Script[k].length
    BY <1>9, <2>1
  <2>3. DOMAIN m.body = 1..Script[k].length /\ m.body \in [1..Script[k].length -> Byte]
    BY <1>3, <1>4
  <2>4. \A i \in 1..Script[k].length : body[i].value = m.body[i]
    BY <1>2, <1>3, <1>4, <2>2
  <2>5. Values(body) = [i \in 1..Script[k].length |-> body[i].value]
    BY <2>2 DEF Values
  <2> QED  BY <1>3, <2>3, <2>4, <2>5
<1> QED  BY <1>6, <1>8, <1>9

-----------------------------------------------------------------------------
(* The steps *)

LEMMA InitStep == Init => MessagesInv
<1> SUFFICES ASSUME Init PROVE MessagesInv
  OBVIOUS
<1>1. TypeOK
  BY BaseAssumption, ScriptAssumption, BoundsAssumption
     DEF Init, TypeOK, TLS_HANDSHAKE_HEADER_LEN
<1>2. StartedInv
  BY ScriptAssumption DEF Init, StartedInv
<1>3. CallInv
  BY DEF Init, CallInv, ReceiverStopped
<1>4. ChainInv
  <2>1. Chain = <<>>
    BY DEF Init, Chain
  <2>2. ChainOf(<<>>, Len(started) + 1, started, touched)
    BY EmptyChain
  <2> QED  BY <2>1, <2>2 DEF Init, ChainInv
<1>5. RefusesOnlyAltered
  BY DEF Init, RefusesOnlyAltered
<1> QED  BY <1>1, <1>2, <1>3, <1>4, <1>5 DEF MessagesInv

\* A message is started: the chain gets it at its end.
LEMMA StartStep ==
    ASSUME MessagesInv, Len(started) < Len(Script), NEW content \in Bodies(Len(started) + 1),
           Start(content)
    PROVE  MessagesInv'
<1>1. PICK n \in DOMAIN Script : n = Len(started) + 1 /\ n \in Nat
  BY ScriptAssumption DEF MessagesInv, TypeOK
<1>2. PICK m \in [type : {Script[n].type}, body : [1..Script[n].length -> Byte]] :
         m = [type |-> Script[n].type, body |-> content]
  BY <1>1, ScriptAssumption DEF Bodies
<1>3. m \in Messages /\ Tagged(n, Encode(m)) \in Seq(Bytes) /\ Whole(Tagged(n, Encode(m)), n, m)
  BY ScriptMessage
<1>4. PICK t \in Seq(Bytes) : t = Tagged(n, Encode(m)) /\ Whole(t, n, m)
  BY <1>3
<1>5. /\ started' = Append(started, m) /\ unsent' = t /\ sender' = "sending"
      /\ sender = "ready" /\ UNCHANGED <<stream, receiving, touched, altered>>
  BY <1>1, <1>2, <1>4 DEF Start
<1>6. PICK all \in Seq(Messages) : /\ all = Append(started, m) /\ Len(all) = n /\ all[n] = m
                                   /\ \A i \in 1..Len(started) : all[i] = started[i]
  <2>1. started \in Seq(Messages)
    BY DEF MessagesInv, TypeOK
  <2>2. /\ Append(started, m) \in Seq(Messages) /\ Len(Append(started, m)) = Len(started) + 1
        /\ Append(started, m)[Len(started) + 1] = m
        /\ \A i \in 1..Len(started) : Append(started, m)[i] = started[i]
    BY <1>3, <2>1
  <2> QED  BY <1>1, <2>2
<1>7. n <= Len(Script)
  BY <1>1, ScriptAssumption
<1>8. TypeOK'
  BY <1>5, <1>6, <1>7 DEF MessagesInv, TypeOK, receiving
<1>9. StartedInv'
  <2>1. \A i \in 1..n : i = n \/ i \in 1..Len(started)
    BY <1>1 DEF MessagesInv, TypeOK
  <2>2. \A i \in 1..n : all[i] \in [type : {Script[i].type}, body : [1..Script[i].length -> Byte]]
    BY <1>2, <1>6, <2>1 DEF MessagesInv, StartedInv
  <2>3. Len(delivered) <= n
    BY <1>1 DEF MessagesInv, TypeOK, StartedInv
  <2> QED  BY <1>5, <1>6, <1>7, <2>2, <2>3 DEF StartedInv, receiving
<1>10. CallInv'
  BY <1>5 DEF MessagesInv, CallInv, Reading, HeaderRead, HeaderAccepted, Announced, Expected, receiving
<1>11. ChainInv'
  <2> SUFFICES ASSUME receiver \notin ReceiverStopped
               PROVE  ChainOf(Chain, Len(delivered) + 1, started, touched)'
    BY <1>5 DEF ChainInv, receiving
  <2>1. PICK k \in Nat : k = Len(delivered) + 1 /\ k <= n
    BY <1>1 DEF MessagesInv, TypeOK, StartedInv
  <2>2. PICK x \in Seq(Bytes), s \in Seq(Bytes) : x = header \o body /\ s = stream
    <3>1. header \in Seq(Bytes) /\ body \in Seq(Bytes) /\ stream \in Seq(Bytes)
      BY DEF MessagesInv, TypeOK
    <3>2. header \o body \in Seq(Bytes)
      BY <3>1, JoinedBytes
    <3> QED  BY <3>1, <3>2
  <2>3. PICK c \in Seq(Bytes) : c = x \o s
    BY JoinedBytes
  <2>4. unsent = <<>>
    BY <1>5 DEF MessagesInv, StartedInv
  <2>5. Chain = c /\ Chain' = c \o t
    <3>1. c \o <<>> = c
      BY Nothing
    <3> QED  BY <1>5, <2>2, <2>3, <2>4, <3>1 DEF Chain, receiving
  <2>6. ChainOf(c, k, started, touched)
    BY <2>1, <2>5 DEF MessagesInv, ChainInv
  <2>7. started \in Seq(Messages)
    BY DEF MessagesInv, TypeOK
  <2>8. ChainOf(c \o t, k, Append(started, m), touched)
    BY <1>1, <1>3, <1>4, <2>1, <2>6, <2>7, AddedMessage
  <2> QED  BY <1>5, <2>1, <2>5, <2>8 DEF receiving
<1>12. RefusesOnlyAltered'
  BY <1>5 DEF MessagesInv, RefusesOnlyAltered, receiving
<1> QED  BY <1>8, <1>9, <1>10, <1>11, <1>12 DEF MessagesInv

\* The kernel takes a byte: it moves along the chain.
LEMMA SendStep ==
    ASSUME MessagesInv, SendByte
    PROVE  MessagesInv'
<1>1. stream \in Seq(Bytes) /\ unsent \in Seq(Bytes) /\ header \in Seq(Bytes) /\ body \in Seq(Bytes)
  BY DEF MessagesInv, TypeOK
<1>2. unsent # <<>> /\ UNCHANGED <<sender, started, receiving, touched, altered>>
  BY DEF SendByte
<1>3. /\ Append(stream, Head(unsent)) \o Tail(unsent) = stream \o unsent
      /\ Append(stream, Head(unsent)) \in Seq(Bytes) /\ Tail(unsent) \in Seq(Bytes)
  BY <1>1, <1>2, Moved
<1>4. stream' \in Seq(Bytes) /\ unsent' \in Seq(Bytes)
  BY <1>1, <1>3 DEF SendByte
<1>5. TypeOK'
  BY <1>2, <1>4 DEF MessagesInv, TypeOK, receiving
<1>6. StartedInv'
  <2>1. sender' # "ready"
    BY DEF SendByte
  <2> QED  BY <1>2, <2>1 DEF MessagesInv, StartedInv, receiving
<1>7. CallInv'
  <2>1. receiver \in ReceiverStopped => stream' = stream
    BY DEF SendByte
  <2> QED  BY <1>2, <2>1 DEF MessagesInv, CallInv, Reading, HeaderRead, HeaderAccepted, Announced,
                             Expected, receiving
<1>8. ChainInv'
  <2> SUFFICES ASSUME receiver \notin ReceiverStopped
               PROVE  ChainOf(Chain, Len(delivered) + 1, started, touched)'
    BY <1>2 DEF ChainInv, receiving
  <2>1. stream' = Append(stream, Head(unsent)) /\ unsent' = Tail(unsent)
    BY DEF SendByte
  <2>2. PICK x \in Seq(Bytes) : x = header \o body
    BY <1>1, JoinedBytes
  <2>3. (x \o stream') \o unsent' = x \o (stream' \o unsent')
    BY <1>4, AssociativeBytes
  <2>4. (x \o stream) \o unsent = x \o (stream \o unsent)
    BY <1>1, AssociativeBytes
  <2>5. Chain' = Chain
    BY <1>2, <1>3, <2>1, <2>2, <2>3, <2>4 DEF Chain, receiving
  <2> QED  BY <1>2, <2>5 DEF MessagesInv, ChainInv, receiving
<1>9. RefusesOnlyAltered'
  BY <1>2 DEF MessagesInv, RefusesOnlyAltered, receiving
<1> QED  BY <1>5, <1>6, <1>7, <1>8, <1>9 DEF MessagesInv

\* A call returns, or the sender ends: the chain does not change.
LEMMA SenderReturnsStep ==
    ASSUME MessagesInv, SendReturns \/ SenderStops \/ UNCHANGED vars
    PROVE  MessagesInv'
<1>1. UNCHANGED <<started, unsent, stream, receiving, touched, altered>>
  BY DEF SendReturns, SenderStops, vars, sending
<1>2. sender' \in {"ready", "sending"} \union SenderStopped /\ (sender' = "ready" => unsent = <<>>)
  BY DEF SendReturns, SenderStops, SenderStopped, vars, sending, MessagesInv, TypeOK, StartedInv
<1>3. TypeOK'
  BY <1>1, <1>2 DEF MessagesInv, TypeOK, receiving
<1>4. StartedInv'
  BY <1>1, <1>2 DEF MessagesInv, StartedInv, receiving
<1>5. CallInv'
  BY <1>1 DEF MessagesInv, CallInv, Reading, HeaderRead, HeaderAccepted, Announced, Expected, receiving
<1>6. ChainInv'
  BY <1>1 DEF MessagesInv, ChainInv, Chain, receiving
<1>7. RefusesOnlyAltered'
  BY <1>1 DEF MessagesInv, RefusesOnlyAltered, receiving
<1> QED  BY <1>3, <1>4, <1>5, <1>6, <1>7 DEF MessagesInv

\* recv takes a byte of the header: it moves along the chain.
LEMMA HeaderByteStep ==
    ASSUME MessagesInv, RecvHeaderByte
    PROVE  MessagesInv'
<1>1. stream \in Seq(Bytes) /\ unsent \in Seq(Bytes) /\ header \in Seq(Bytes)
  BY DEF MessagesInv, TypeOK
<1>2. /\ receiver = "header" /\ body = <<>> /\ stream # <<>>
      /\ header' = Append(header, Head(stream)) /\ stream' = Tail(stream)
      /\ UNCHANGED <<sending, receiver, body, result, bodyLen, delivered, touched, altered>>
  BY DEF MessagesInv, CallInv, RecvHeaderByte
<1>3. /\ header' \o stream' = header \o stream
      /\ header' \in Seq(Bytes) /\ stream' \in Seq(Bytes) /\ Len(header') = Len(header) + 1
  BY <1>1, <1>2, Moved
<1>4. TypeOK'
  <2>1. Len(header) \in Nat /\ Len(header) <= 4 /\ Len(header) # 4
    BY <1>1 DEF RecvHeaderByte, MessagesInv, TypeOK, HeaderRead, TLS_HANDSHAKE_HEADER_LEN
  <2>2. Len(header') <= TLS_HANDSHAKE_HEADER_LEN
    <3>1. PICK n \in Nat : n = Len(header)
      BY <2>1
    <3>2. n + 1 <= 4
      BY <2>1, <3>1
    <3> QED  BY <1>3, <3>1, <3>2 DEF TLS_HANDSHAKE_HEADER_LEN
  <2> QED  BY <1>2, <1>3, <2>2 DEF MessagesInv, TypeOK, sending
<1>5. StartedInv'
  BY <1>2 DEF MessagesInv, StartedInv, sending
<1>6. CallInv'
  BY <1>2 DEF CallInv, ReceiverStopped
<1>7. ChainInv'
  <2>1. header \o <<>> = header /\ header' \o <<>> = header'
    BY <1>1, <1>3, Nothing
  <2>2. Chain' = Chain
    BY <1>2, <1>3, <2>1 DEF Chain, sending
  <2> QED  BY <1>2, <2>2 DEF MessagesInv, ChainInv, sending
<1>8. RefusesOnlyAltered'
  BY <1>2 DEF RefusesOnlyAltered
<1> QED  BY <1>4, <1>5, <1>6, <1>7, <1>8 DEF MessagesInv

\* The header is accepted.
LEMMA BodyStartsStep ==
    ASSUME MessagesInv, BodyStarts
    PROVE  MessagesInv'
<1>1. /\ receiver = "header" /\ receiver' = "body" /\ body = <<>> /\ HeaderRead /\ HeaderAccepted
      /\ UNCHANGED <<sending, stream, header, body, result, bodyLen, delivered, touched, altered>>
  BY DEF MessagesInv, CallInv, BodyStarts
<1>2. TypeOK'
  BY <1>1 DEF MessagesInv, TypeOK, sending
<1>3. StartedInv'
  BY <1>1 DEF MessagesInv, StartedInv, sending
<1>4. CallInv'
  <2>1. Len(body) = 0
    BY <1>1
  <2>2. Announced \in Nat
    BY <1>1, LengthIsNumber DEF MessagesInv, TypeOK, HeaderRead, Announced
  <2>3. Reading
    BY <1>1, <2>1, <2>2 DEF Reading
  <2>4. Reading'
    BY <1>1, <2>3 DEF Reading, HeaderRead, HeaderAccepted, Announced, Expected
  <2> QED  BY <1>1, <2>4 DEF CallInv, ReceiverStopped
<1>5. ChainInv'
  <2>1. receiver \notin ReceiverStopped
    BY <1>1 DEF ReceiverStopped
  <2> QED  BY <1>1, <2>1 DEF MessagesInv, ChainInv, Chain, sending
<1>6. RefusesOnlyAltered'
  BY <1>1 DEF RefusesOnlyAltered
<1> QED  BY <1>2, <1>3, <1>4, <1>5, <1>6 DEF MessagesInv

\* recv takes a byte of the body.
LEMMA BodyByteStep ==
    ASSUME MessagesInv, RecvBodyByte
    PROVE  MessagesInv'
<1>1. /\ stream \in Seq(Bytes) /\ unsent \in Seq(Bytes) /\ header \in Seq(Bytes)
      /\ body \in Seq(Bytes)
  BY DEF MessagesInv, TypeOK
<1>2. /\ receiver = "body" /\ Reading /\ Len(body) < Announced /\ stream # <<>>
      /\ body' = Append(body, Head(stream)) /\ stream' = Tail(stream)
      /\ UNCHANGED <<sending, receiver, header, result, bodyLen, delivered, touched, altered>>
  BY DEF MessagesInv, CallInv, RecvBodyByte
<1>3. /\ body' \o stream' = body \o stream
      /\ body' \in Seq(Bytes) /\ stream' \in Seq(Bytes) /\ Len(body') = Len(body) + 1
  BY <1>1, <1>2, Moved
<1>4. TypeOK'
  BY <1>2, <1>3 DEF MessagesInv, TypeOK, sending
<1>5. StartedInv'
  BY <1>2 DEF MessagesInv, StartedInv, sending
<1>6. CallInv'
  <2>1. Announced \in Nat /\ Len(body) \in Nat
    BY <1>1, <1>2, LengthIsNumber DEF Reading, HeaderRead, Announced
  <2>2. Len(body') <= Announced
    BY <1>2, <1>3, <2>1
  <2>3. Reading'
    BY <1>2, <2>2 DEF Reading, HeaderRead, HeaderAccepted, Announced, Expected
  <2> QED  BY <1>2, <2>3 DEF CallInv, ReceiverStopped
<1>7. ChainInv'
  <2>1. (header \o body) \o stream = header \o (body \o stream)
    BY <1>1, AssociativeBytes
  <2>2. (header \o body') \o stream' = header \o (body' \o stream')
    <3>1. PICK b \in Seq(Bytes), t \in Seq(Bytes) : b = body' /\ t = stream'
      BY <1>3
    <3>2. PICK h \in Seq(Bytes) : h = header
      BY <1>1
    <3>3. (h \o b) \o t = h \o (b \o t)
      BY AssociativeBytes
    <3> QED  BY <3>1, <3>2, <3>3
  <2>3. Chain' = Chain
    BY <1>2, <1>3, <2>1, <2>2 DEF Chain, sending
  <2> QED  BY <1>2, <2>3 DEF MessagesInv, ChainInv, sending
<1>8. RefusesOnlyAltered'
  BY <1>2 DEF RefusesOnlyAltered
<1> QED  BY <1>4, <1>5, <1>6, <1>7, <1>8 DEF MessagesInv

\* recv_handshake_msg returns.
LEMMA ReturnStep ==
    ASSUME MessagesInv, RecvSucceeds \/ RecvRefuses \/ RecvEnds
    PROVE  MessagesInv'
<1>1. PICK rc \in {-1, 0, 1} :
         /\ Returns(rc) /\ receiver \in {"header", "body"}
         /\ rc = 0 => receiver = "body" /\ Len(body) = Announced
  <2>1. EndOfStream \in {-1, 1}
    BY DEF EndOfStream
  <2> QED  BY <2>1 DEF RecvSucceeds, RecvRefuses, RecvEnds
<1>2. /\ receiver' = "returned" /\ result' = rc /\ bodyLen' = IF rc = 0 THEN Announced ELSE bodyLen
      /\ UNCHANGED <<sending, stream, header, body, delivered, touched, altered>>
  BY <1>1 DEF Returns
<1>3. (receiver = "body" => Reading) /\ (receiver = "header" => body = <<>>)
  BY DEF MessagesInv, CallInv
<1>4. rc = 0 => Announced \in Nat
  BY <1>1, <1>3, LengthIsNumber DEF MessagesInv, TypeOK, Reading, HeaderRead, Announced
<1>5. TypeOK'
  <2>1. bodyLen' \in Nat \union {NoLength}
    BY <1>2, <1>4 DEF MessagesInv, TypeOK
  <2> QED  BY <1>2, <2>1 DEF MessagesInv, TypeOK, sending
<1>6. StartedInv'
  BY <1>2 DEF MessagesInv, StartedInv, sending
<1>7. CallInv'
  <2>1. Reading => Reading'
    BY <1>2 DEF Reading, HeaderRead, HeaderAccepted, Announced, Expected
  <2>2. Announced' = Announced
    BY <1>2 DEF Announced
  <2>3. rc = 0 => Reading' /\ Len(body') = Announced' /\ bodyLen' = Announced'
    BY <1>1, <1>2, <1>3, <2>1, <2>2
  <2>4. rc # 0 => body' = <<>> \/ Reading'
    BY <1>1, <1>2, <1>3, <2>1
  <2> QED  BY <1>2, <2>3, <2>4 DEF CallInv, ReceiverStopped
<1>8. ChainInv'
  <2>1. receiver \notin ReceiverStopped
    BY <1>1 DEF ReceiverStopped
  <2> QED  BY <1>2, <2>1 DEF MessagesInv, ChainInv, Chain, sending
<1>9. RefusesOnlyAltered'
  BY <1>2 DEF RefusesOnlyAltered
<1> QED  BY <1>5, <1>6, <1>7, <1>8, <1>9 DEF MessagesInv

\* The program goes on: the message is taken off the front of the chain.
LEMMA GoesOnStep ==
    ASSUME MessagesInv, CallerGoesOn, NEW k \in Nat, k = Len(delivered) + 1
    PROVE  /\ MessagesInv'
           /\ k \in 1..Len(SentMessages) /\ SentMessages[k] = started[k]
           /\ \E m \in Messages :
                 /\ delivered' = Append(delivered, m)
                 /\ m.type = started[k].type /\ Len(m.body) = Len(started[k].body)
                 /\ k \notin touched => m = started[k]
<1>1. /\ stream \in Seq(Bytes) /\ unsent \in Seq(Bytes) /\ header \in Seq(Bytes)
      /\ body \in Seq(Bytes) /\ started \in Seq(Messages) /\ delivered \in Seq(Messages)
      /\ Len(started) <= Len(Script)
  BY DEF MessagesInv, TypeOK
<1>2. /\ receiver = "returned" /\ BodyAccepted
      /\ header' = <<>> /\ body' = <<>>
      /\ UNCHANGED <<sending, stream, result, bodyLen, touched, altered>>
  BY DEF CallerGoesOn
<1>3. result = 0
  BY DEF CallerGoesOn, Failed, MessagesInv, TypeOK
<1>4. Reading /\ Len(body) = Announced /\ bodyLen = Announced
  BY <1>2, <1>3 DEF MessagesInv, CallInv
<1>5. Len(header) = 4 /\ header # <<>>
  <2>1. Len(header) = 4
    BY <1>4 DEF Reading, HeaderRead, TLS_HANDSHAKE_HEADER_LEN
  <2> QED  BY <2>1
<1>6. receiver \notin ReceiverStopped
  BY <1>2 DEF ReceiverStopped
<1>7. /\ k \in DOMAIN Script /\ k \in 1..Len(started)
      /\ started[k] \in [type : {Script[k].type}, body : [1..Script[k].length -> Byte]]
  BY <1>5, <1>6, Front DEF MessagesInv
<1>8. PICK n \in Nat : n = Script[k].length /\ Size(k) = 4 + n /\ n > 0
  BY <1>7, SizeOfMessage
<1>9. PICK sent \in [type : {Script[k].type}, body : [1..Script[k].length -> Byte]] : sent = started[k]
  BY <1>7
<1>10. /\ sent \in Messages /\ sent.type = Script[k].type /\ sent.body \in Seq(Byte)
       /\ Len(sent.body) = n
  BY <1>7, <1>8, ScriptMessage
<1>11. Len(body) = n
  <2>1. CASE Script[k].signed
    <3>1. Values(body) = sent.body
      BY <1>2, <1>9, <2>1 DEF BodyAccepted, Expected
    <3>2. DOMAIN Values(body) = 1..Len(body)
      BY <1>1 DEF Values
    <3>3. DOMAIN sent.body = 1..n
      BY <1>10
    <3> QED  BY <1>1, <3>1, <3>2, <3>3
  <2>2. CASE ~Script[k].signed
    BY <1>2, <1>4, <1>8, <2>2 DEF BodyAccepted, Expected
  <2> QED  BY <2>1, <2>2
<1>12. PICK m \in Messages :
         /\ m = [type |-> Script[k].type, body |-> Values(body)]
         /\ m.type = Script[k].type /\ Len(m.body) = n
  <2>1. DOMAIN body = 1..n /\ \A i \in 1..n : body[i] \in Bytes
    BY <1>1, <1>11
  <2>2. \A e \in Bytes : e.value \in Byte
    BY DEF Bytes
  <2>3. Values(body) \in [1..n -> Byte]
    BY <2>1, <2>2 DEF Values
  <2>4. PICK m \in [type : {Script[k].type}, body : [1..Script[k].length -> Byte]] :
           m = [type |-> Script[k].type, body |-> Values(body)]
    BY <1>8, <2>3
  <2>5. m \in Messages /\ m.type = Script[k].type /\ Len(m.body) = n
    BY <1>7, <1>8, ScriptMessage
  <2> QED  BY <2>4, <2>5
<1>13. delivered' = Append(delivered, m)
  BY <1>12 DEF CallerGoesOn, Expected
<1>14. /\ Append(delivered, m) \in Seq(Messages) /\ Len(Append(delivered, m)) = k
  BY <1>1
<1>15. k \notin touched => m = started[k]
  <2> SUFFICES ASSUME k \notin touched PROVE m = started[k]
    OBVIOUS
  <2>1. Values(body) = started[k].body
    BY <1>4, <1>6, <1>8, <1>11, ReadAsSent DEF MessagesInv, Reading
  <2>2. sent = [type |-> sent.type, body |-> sent.body]
    OBVIOUS
  <2> QED  BY <1>9, <1>10, <1>12, <2>1, <2>2
<1>16. PICK p \in Seq(Bytes), r \in Seq(Bytes) :
          /\ p = header \o body /\ r = stream \o unsent /\ Len(p) = Size(k)
          /\ Len(r) = Len(stream) + Len(unsent)
  <2>1. header \o body \in Seq(Bytes) /\ Len(header \o body) = Len(header) + Len(body)
    BY <1>1, JoinedBytes
  <2>2. stream \o unsent \in Seq(Bytes) /\ Len(stream \o unsent) = Len(stream) + Len(unsent)
    BY <1>1, JoinedBytes
  <2> QED  BY <1>5, <1>8, <1>11, <2>1, <2>2
<1>17. Chain = p \o r
  <2>1. (p \o stream) \o unsent = p \o (stream \o unsent)
    <3>1. stream \in Seq(Bytes) /\ unsent \in Seq(Bytes)
      BY <1>1
    <3> QED  BY <3>1, AssociativeBytes
  <2> QED  BY <1>16, <2>1 DEF Chain
<1>18. ChainOf(p \o r, k, started, touched)
  BY <1>6, <1>17 DEF MessagesInv, ChainInv
<1>19. ChainOf(r, k + 1, started, touched) /\ \A i \in DOMAIN r : r[i].of > k
  BY <1>1, <1>7, <1>16, <1>18, DroppedMessage
<1>20. \A i \in DOMAIN r : r[i].of \in 1..Len(started)
  BY <1>19 DEF ChainOf, Unaltered
<1>21. k = Len(started) => stream = <<>> /\ unsent = <<>>
  <2> SUFFICES ASSUME k = Len(started) PROVE stream = <<>> /\ unsent = <<>>
    OBVIOUS
  <2>1. ASSUME r # <<>> PROVE FALSE
    <3>1. 1 \in DOMAIN r
      BY <2>1
    <3>2. r[1].of > k /\ r[1].of \in 1..k
      BY <1>19, <1>20, <3>1
    <3> QED  BY <3>2
  <2>2. Len(r) = 0
    BY <2>1
  <2> QED  BY <1>1, <1>16, <2>2
<1>22. TypeOK'
  <2>1. receiver' \in {"done", "header"}
    BY DEF CallerGoesOn
  <2>2. <<>> \in Seq(Bytes) /\ Len(<<>>) <= TLS_HANDSHAKE_HEADER_LEN
    BY DEF TLS_HANDSHAKE_HEADER_LEN
  <2> QED  BY <1>2, <1>13, <1>14, <2>1, <2>2 DEF MessagesInv, TypeOK, sending, ReceiverStopped
<1>23. StartedInv'
  BY <1>2, <1>7, <1>13, <1>14 DEF MessagesInv, StartedInv, sending
<1>24. CallInv'
  <2>1. receiver' = IF k = Len(Script) THEN "done" ELSE "header"
    BY <1>13, <1>14 DEF CallerGoesOn
  <2>2. k = Len(Script) => k = Len(started)
    BY <1>1, <1>7, ScriptAssumption
  <2> QED  BY <1>2, <1>21, <2>1, <2>2 DEF CallInv, ReceiverStopped
<1>25. ChainInv'
  <2>1. (<<>> \o <<>>) \o stream = stream
    BY <1>1
  <2>2. Chain' = r
    BY <1>2, <1>16, <2>1 DEF Chain, sending
  <2>3. Len(delivered') = k /\ started' = started /\ touched' = touched
    BY <1>2, <1>13, <1>14 DEF sending
  <2> QED  BY <1>19, <2>2, <2>3 DEF ChainInv
<1>26. RefusesOnlyAltered'
  <2>1. receiver' # "refused"
    BY DEF CallerGoesOn
  <2> QED  BY <2>1 DEF RefusesOnlyAltered
<1>27. k \in 1..Len(SentMessages) /\ SentMessages[k] = started[k]
  <2>1. CASE unsent = <<>>
    BY <1>7, <2>1 DEF SentMessages
  <2>2. CASE unsent # <<>>
    <3>1. PICK l \in Nat : l = Len(started) /\ k < l
      BY <1>1, <1>7, <1>21, <2>2
    <3>2. /\ SubSeq(started, 1, l - 1) \in Seq(Messages) /\ Len(SubSeq(started, 1, l - 1)) = l - 1
          /\ \A i \in 1..(l - 1) : SubSeq(started, 1, l - 1)[i] = started[i]
      BY <1>1, <3>1
    <3>3. SentMessages = SubSeq(started, 1, l - 1)
      BY <2>2, <3>1 DEF SentMessages
    <3> QED  BY <1>7, <3>1, <3>2, <3>3
  <2> QED  BY <2>1, <2>2
<1>28. MessagesInv'
  BY <1>22, <1>23, <1>24, <1>25, <1>26 DEF MessagesInv
<1> QED  BY <1>9, <1>10, <1>12, <1>13, <1>15, <1>27, <1>28

\* The program ends: a refusal is of a message that was altered.
LEMMA ReceiverStopsStep ==
    ASSUME MessagesInv, CallerStops \/ ReceiverFails
    PROVE  MessagesInv'
<1>1. PICK outcome \in {"refused", "disconnected", "failed"} :
         /\ ReceiverStopsAs(outcome) /\ receiver \notin ReceiverStopped
         /\ outcome = "refused" =>
               /\ receiver = "returned" /\ (Failed(result) \/ ~BodyAccepted)
               /\ HeaderRead /\ (result = 0 \/ ~HeaderAccepted)
  BY DEF CallerStops, ReceiverFails, ReceiverStopped
<1>2. /\ receiver' = outcome /\ stream' = <<>> /\ header' = <<>> /\ body' = <<>>
      /\ UNCHANGED <<sending, result, bodyLen, delivered, touched, altered>>
  BY <1>1 DEF ReceiverStopsAs
<1>3. TypeOK'
  <2>1. <<>> \in Seq(Bytes) /\ Len(<<>>) <= TLS_HANDSHAKE_HEADER_LEN
    BY DEF TLS_HANDSHAKE_HEADER_LEN
  <2> QED  BY <1>2, <2>1 DEF MessagesInv, TypeOK, sending, ReceiverStopped
<1>4. StartedInv'
  BY <1>2 DEF MessagesInv, StartedInv, sending
<1>5. CallInv'
  BY <1>2 DEF CallInv, ReceiverStopped
<1>6. ChainInv'
  BY <1>2 DEF ChainInv, ReceiverStopped
<1>7. RefusesOnlyAltered'
  <2>1. PICK k \in Nat : k = Len(delivered) + 1
    BY DEF MessagesInv, TypeOK
  <2>2. ASSUME outcome = "refused", k \notin touched PROVE FALSE
    <3>1. /\ HeaderRead /\ (result = 0 \/ ~HeaderAccepted)
          /\ receiver = "returned" /\ (Failed(result) \/ ~BodyAccepted)
      BY <1>1, <2>2
    <3>2. /\ HeaderAccepted /\ Announced = Script[k].length
          /\ Len(body) = Script[k].length => Values(body) = started[k].body
      BY <1>1, <2>1, <2>2, <3>1, ReadAsSent DEF MessagesInv
    <3>3. result = 0
      BY <3>1, <3>2
    <3>4. ~BodyAccepted
      BY <3>1, <3>3 DEF Failed
    <3>5. receiver = "returned"
      BY <3>1
    <3>6. Len(body) = Announced /\ bodyLen = Announced
      BY <3>3, <3>5 DEF MessagesInv, CallInv
    <3>7. header # <<>>
      BY <3>1 DEF HeaderRead, TLS_HANDSHAKE_HEADER_LEN
    <3>8. k \in DOMAIN Script
      BY <1>1, <2>1, <3>7, Front DEF MessagesInv
    <3>9. Script[k].length \in Nat /\ Script[k].length \in 1..TLS_HANDSHAKE_MAX_BODY_LEN
      BY <3>8, SizeOfMessage
    <3>10. bodyLen \in 1..Script[k].length /\ bodyLen = Script[k].length
      BY <3>2, <3>6, <3>9
    <3>11. BodyAccepted
      BY <2>1, <3>2, <3>6, <3>10 DEF BodyAccepted, Expected
    <3> QED  BY <3>4, <3>11
  <2> QED  BY <1>2, <2>1, <2>2 DEF RefusesOnlyAltered
<1> QED  BY <1>3, <1>4, <1>5, <1>6, <1>7 DEF MessagesInv

\* A byte on its way is altered, and with it the message it belongs to, which
\* the receiver has not gone on with.
LEMMA GarbleStep ==
    ASSUME MessagesInv, Garble
    PROVE  /\ MessagesInv'
           /\ \E n \in 1..Len(started) : n > Len(delivered) /\ touched' = touched \union {n}
<1>1. PICK i \in DOMAIN stream : \E value \in Byte \ {stream[i].value} :
         /\ stream' = [stream EXCEPT ![i] = [stream[i] EXCEPT !.value = value]]
         /\ touched' = touched \union {stream[i].of}
  BY DEF Garble
<1>2. PICK value \in Byte :
         /\ stream' = [stream EXCEPT ![i] = [stream[i] EXCEPT !.value = value]]
         /\ touched' = touched \union {stream[i].of}
  BY <1>1
<1>3. /\ stream \in Seq(Bytes) /\ unsent \in Seq(Bytes) /\ header \in Seq(Bytes)
      /\ body \in Seq(Bytes) /\ started \in Seq(Messages) /\ Len(started) <= Len(Script)
  BY DEF MessagesInv, TypeOK
<1>4. altered' = altered + 1 /\ altered < MaxAltered /\ UNCHANGED <<sending, receiving>>
  BY DEF Garble
<1>5. PICK e \in Bytes : /\ e = [stream[i] EXCEPT !.value = value]
                         /\ e.of = stream[i].of /\ e.at = stream[i].at
  <2>1. stream[i] \in Bytes
    BY <1>3
  <2>2. \A b \in Bytes : /\ [b EXCEPT !.value = value] \in Bytes
                         /\ [b EXCEPT !.value = value].of = b.of
                         /\ [b EXCEPT !.value = value].at = b.at
    BY DEF Bytes
  <2> QED  BY <2>1, <2>2
<1>6. PICK d \in Seq(Bytes) : d = stream' /\ Replaces(d, stream, i, e)
  <2>1. [stream EXCEPT ![i] = e] \in Seq(Bytes) /\ Replaces([stream EXCEPT ![i] = e], stream, i, e)
    BY <1>3, Updated
  <2> QED  BY <1>2, <1>5, <2>1
<1>7. receiver \notin ReceiverStopped
  <2>1. stream # <<>>
    BY <1>1
  <2> QED  BY <2>1 DEF MessagesInv, CallInv
<1>8. PICK x \in Seq(Bytes) : x = header \o body
  BY <1>3, JoinedBytes
<1>9. /\ Replaces(x \o d, x \o stream, Len(x) + i, e)
      /\ Len(x) + i \in DOMAIN (x \o stream) /\ (x \o stream)[Len(x) + i] = stream[i]
  BY <1>3, <1>6, ReplacedInSecond
<1>10. PICK j \in Nat : j = Len(x) + i
  BY <1>3
<1>11. PICK y \in Seq(Bytes), z \in Seq(Bytes) :
          /\ j \in DOMAIN y /\ y = x \o stream /\ z = x \o d
          /\ Replaces(z, y, j, e) /\ y[j] = stream[i]
  <2>1. x \o stream \in Seq(Bytes) /\ x \o d \in Seq(Bytes)
    BY <1>3, JoinedBytes
  <2> QED  BY <1>9, <1>10, <2>1
<1>12. /\ Replaces(z \o unsent, y \o unsent, j, e)
       /\ j \in DOMAIN (y \o unsent) /\ (y \o unsent)[j] = y[j]
  <2>1. unsent \in Seq(Bytes) /\ j \in DOMAIN y /\ Replaces(z, y, j, e)
    BY <1>3, <1>11
  <2> QED  BY <2>1, ReplacedInFirst
<1>13. PICK c \in Seq(Bytes), new \in Seq(Bytes) :
          /\ j \in DOMAIN c /\ c = y \o unsent /\ new = z \o unsent
          /\ Replaces(new, c, j, e) /\ c[j] = stream[i]
  <2>1. y \o unsent \in Seq(Bytes) /\ z \o unsent \in Seq(Bytes)
    BY <1>3, JoinedBytes
  <2> QED  BY <1>11, <1>12, <2>1
<1>14. PICK k \in Nat : k = Len(delivered) + 1
  BY DEF MessagesInv, TypeOK
<1>15. Chain = c /\ Chain' = new
  BY <1>4, <1>6, <1>8, <1>11, <1>13 DEF Chain, sending, receiving
<1>16. ChainOf(c, k, started, touched)
  BY <1>7, <1>14, <1>15 DEF MessagesInv, ChainInv
<1>17. ChainOf(new, k, started, touched \union {e.of}) /\ e.of \in 1..Len(started)
  BY <1>5, <1>13, <1>16, AlteredChain
<1>18. touched' = touched \union {e.of}
  BY <1>2, <1>5
<1>19. e.of > Len(delivered)
  <2>1. c # <<>> /\ 1 \in DOMAIN c /\ j \in DOMAIN c /\ 1 <= j
    BY <1>13
  <2>2. Contiguous(c) /\ Ends(c, k, started)
    BY <1>16 DEF ChainOf
  <2>3. c[1].of = k
    BY <2>1, <2>2 DEF Ends
  <2>4. c[1].of <= c[j].of
    BY <2>1, <2>2 DEF Contiguous
  <2>5. e.of \in Nat /\ Len(delivered) \in Nat
    BY DEF Bytes, MessagesInv, TypeOK
  <2> QED  BY <1>5, <1>13, <1>14, <2>3, <2>4, <2>5
<1>20. TypeOK'
  <2>1. altered' \in 0..MaxAltered
    BY <1>4, BoundsAssumption DEF MessagesInv, TypeOK
  <2>2. touched' \subseteq DOMAIN Script
    BY <1>3, <1>17, <1>18, ScriptAssumption DEF MessagesInv, TypeOK
  <2> QED  BY <1>4, <1>6, <2>1, <2>2 DEF MessagesInv, TypeOK, sending, receiving
<1>21. StartedInv'
  BY <1>4 DEF MessagesInv, StartedInv, sending, receiving
<1>22. CallInv'
  BY <1>4, <1>7 DEF MessagesInv, CallInv, Reading, HeaderRead, HeaderAccepted, Announced, Expected,
                    receiving
<1>23. ChainInv'
  BY <1>4, <1>14, <1>15, <1>17, <1>18 DEF ChainInv, sending, receiving
<1>24. RefusesOnlyAltered'
  BY <1>4, <1>7 DEF RefusesOnlyAltered, receiving, ReceiverStopped
<1>25. MessagesInv'
  BY <1>20, <1>21, <1>22, <1>23, <1>24 DEF MessagesInv
<1> QED  BY <1>17, <1>18, <1>19, <1>25

-----------------------------------------------------------------------------
(* The theorems *)

LEMMA NextStep == MessagesInv /\ [Next]_vars => MessagesInv'
<1> SUFFICES ASSUME MessagesInv, [Next]_vars PROVE MessagesInv'
  OBVIOUS
<1>1. PICK k \in Nat : k = Len(delivered) + 1
  BY DEF MessagesInv, TypeOK
<1>2. ASSUME Len(started) < Len(Script), NEW content \in Bodies(Len(started) + 1), Start(content)
      PROVE  MessagesInv'
  BY <1>2, StartStep
<1>3. CASE SendByte
  BY <1>3, SendStep
<1>4. CASE SendReturns \/ SenderStops \/ UNCHANGED vars
  BY <1>4, SenderReturnsStep
<1>5. CASE RecvHeaderByte
  BY <1>5, HeaderByteStep
<1>6. CASE BodyStarts
  BY <1>6, BodyStartsStep
<1>7. CASE RecvBodyByte
  BY <1>7, BodyByteStep
<1>8. CASE RecvSucceeds \/ RecvRefuses \/ RecvEnds
  BY <1>8, ReturnStep
<1>9. CASE CallerGoesOn
  BY <1>1, <1>9, GoesOnStep
<1>10. CASE CallerStops \/ ReceiverFails
  BY <1>10, ReceiverStopsStep
<1>11. CASE Garble
  BY <1>11, GarbleStep
<1> QED  BY <1>2, <1>3, <1>4, <1>5, <1>6, <1>7, <1>8, <1>9, <1>10, <1>11
         DEF Next, SenderStep, ReceiverStep, BothStopped

\* The chain and the progress of the two calls are kept by every step, and
\* with them the types and RefusesOnlyAltered.
THEOREM MessagesInvariance == Spec => []MessagesInv
BY InitStep, NextStep, PTL DEF Spec

\* What the variables hold.
THEOREM TypeOKHolds == Spec => []TypeOK
<1>1. MessagesInv => TypeOK
  BY DEF MessagesInv
<1> QED  BY <1>1, MessagesInvariance, PTL

\* A receiver never takes a byte for another than it was sent as, whatever the
\* network alters.
THEOREM BoundaryKeptHolds == Spec => []BoundaryKept
<1>1. MessagesInv => BoundaryKept
  <2> SUFFICES ASSUME MessagesInv PROVE BoundaryKept
    OBVIOUS
  <2>1. PICK k \in Nat : k = Len(delivered) + 1
    BY DEF MessagesInv, TypeOK
  <2>2. CASE header = <<>>
    <3>1. Len(header) = 0
      BY <2>2
    <3>2. ~Reading
      BY <3>1 DEF Reading, HeaderRead, TLS_HANDSHAKE_HEADER_LEN
    <3>3. body = <<>>
      BY <3>2 DEF MessagesInv, TypeOK, CallInv
    <3>4. \A i \in DOMAIN <<>> : FALSE
      OBVIOUS
    <3> QED  BY <2>2, <3>3, <3>4 DEF BoundaryKept
  <2>3. CASE header # <<>>
    <3>1. receiver \notin ReceiverStopped
      BY <2>3 DEF MessagesInv, CallInv
    <3>2. /\ \A i \in DOMAIN header : header[i].of = k /\ header[i].at = i
          /\ \A i \in DOMAIN body : body[i].of = k /\ body[i].at = 4 + i
      BY <2>1, <2>3, <3>1, Front DEF MessagesInv
    <3> QED  BY <2>1, <3>2 DEF BoundaryKept, TLS_HANDSHAKE_HEADER_LEN
  <2> QED  BY <2>2, <2>3
<1> QED  BY <1>1, MessagesInvariance, PTL

\* A receiver refuses no message that the network left alone: every length
\* survives, and no byte is lost or read twice.
THEOREM RefusesOnlyAlteredHolds == Spec => []RefusesOnlyAltered
<1>1. MessagesInv => RefusesOnlyAltered
  BY DEF MessagesInv
<1> QED  BY <1>1, MessagesInvariance, PTL

\* The messages sent in full only change when the kernel takes the last byte
\* of the latest one.
LEMMA SentStep ==
    ASSUME MessagesInv, [Next]_vars
    PROVE  \/ SentMessages' = SentMessages
           \/ /\ \E m \in Messages : SentMessages' = Append(SentMessages, m)
              /\ UNCHANGED <<delivered, touched>>
<1> USE DEF SentMessages
<1>1. ASSUME Len(started) < Len(Script), NEW content \in Bodies(Len(started) + 1), Start(content)
      PROVE  SentMessages' = SentMessages
  <2>1. PICK n \in DOMAIN Script : n = Len(started) + 1
    BY <1>1, ScriptAssumption DEF MessagesInv, TypeOK
  <2>2. PICK m \in [type : {Script[n].type}, body : [1..Script[n].length -> Byte]] :
           m = [type |-> Script[n].type, body |-> content]
    BY <1>1, <2>1, ScriptAssumption DEF Bodies
  <2>3. m \in Messages /\ Whole(Tagged(n, Encode(m)), n, m) /\ Size(n) > 4 /\ Size(n) \in Nat
    BY ScriptMessage, SizeOfMessage
  <2>4. started' = Append(started, m) /\ unsent' = Tagged(n, Encode(m)) /\ unsent = <<>>
    BY <1>1, <2>1, <2>2 DEF Start, MessagesInv, StartedInv
  <2>5. unsent' # <<>>
    BY <2>3, <2>4 DEF Whole
  <2>6. SubSeq(Append(started, m), 1, Len(Append(started, m)) - 1) = started
    <3>1. started \in Seq(Messages)
      BY DEF MessagesInv, TypeOK
    <3> QED  BY <2>3, <3>1
  <2> QED  BY <2>4, <2>5, <2>6
<1>2. CASE SendByte
  <2>1. UNCHANGED <<started, delivered, touched>>
    BY <1>2 DEF SendByte, receiving
  <2>2. CASE unsent' # <<>>
    BY <1>2, <2>1, <2>2 DEF SendByte
  <2>3. CASE unsent' = <<>>
    <3>1. PICK c \in Seq(Bytes), s \in Seq(Messages) : c = unsent /\ s = started
      BY DEF MessagesInv, TypeOK
    <3>2. SentMessages = SubSeq(s, 1, Len(s) - 1) /\ SentMessages' = s
      BY <1>2, <2>1, <2>3, <3>1 DEF SendByte
    <3>3. CASE s = <<>>
      <4>1. SubSeq(<<>>, 1, Len(<<>>) - 1) = <<>>
        OBVIOUS
      <4> QED  BY <3>2, <3>3, <4>1
    <3>4. CASE s # <<>>
      <4>1. s = Append(SubSeq(s, 1, Len(s) - 1), s[Len(s)]) /\ s[Len(s)] \in Messages
        BY <3>4
      <4> QED  BY <2>1, <3>2, <4>1
    <3> QED  BY <3>3, <3>4
  <2> QED  BY <2>2, <2>3
<1>3. CASE UNCHANGED <<started, unsent>>
  BY <1>3
<1> QED  BY <1>1, <1>2, <1>3
         DEF Next, SenderStep, ReceiverStep, BothStopped, vars, sending, receiving,
             SendReturns, SenderStops, RecvHeaderByte, BodyStarts, RecvBodyByte,
             RecvSucceeds, RecvRefuses, RecvEnds, Returns, CallerGoesOn, CallerStops,
             ReceiverFails, ReceiverStopsAs, Garble

\* The messages the program goes on with only change when it goes on with one,
\* and those that were altered only when the network alters a byte.
LEMMA DeliveredStep ==
    ASSUME MessagesInv, [Next]_vars
    PROVE  UNCHANGED <<delivered, touched>> \/ CallerGoesOn \/ Garble
BY DEF Next, SenderStep, ReceiverStep, BothStopped, vars, sending, receiving, Start, SendByte,
       SendReturns, SenderStops, RecvHeaderByte, BodyStarts, RecvBodyByte,
       RecvSucceeds, RecvRefuses, RecvEnds, Returns, CallerStops, ReceiverFails, ReceiverStopsAs

\* Every step of the two programs and the network is one of the stream of
\* messages, or leaves it as it is: whole messages, in order, each changed
\* only if one of its own bytes was altered.
THEOREM StreamSpecHolds == Spec => StreamSpec
<1>1. Init => Stream!Init
  BY DEF Init, Stream!Init, SentMessages
<1>2. MessagesInv /\ [Next]_vars => [Stream!Next]_(Stream!vars)
  <2> SUFFICES ASSUME MessagesInv, [Next]_vars PROVE [Stream!Next]_(Stream!vars)
    OBVIOUS
  <2>1. PICK k \in Nat : k = Len(delivered) + 1
    BY DEF MessagesInv, TypeOK
  <2>2. CASE CallerGoesOn
    <3>1. PICK m \in Messages :
             /\ k \in 1..Len(SentMessages) /\ SentMessages[k] = started[k]
             /\ delivered' = Append(delivered, m)
             /\ m.type = started[k].type /\ Len(m.body) = Len(started[k].body)
             /\ k \notin touched => m = started[k]
      BY <2>1, <2>2, GoesOnStep
    <3>2. SentMessages' = SentMessages /\ touched' = touched
      BY <2>2 DEF CallerGoesOn, sending, SentMessages
    <3>3. Stream!Deliver(m)
      BY <2>1, <3>1, <3>2 DEF Stream!Deliver
    <3> QED  BY <3>3 DEF Stream!Next
  <2>3. CASE Garble
    <3>1. PICK n \in 1..Len(started) : n > Len(delivered) /\ touched' = touched \union {n}
      BY <2>3, GarbleStep
    <3>2. SentMessages' = SentMessages /\ delivered' = delivered
      BY <2>3 DEF Garble, sending, receiving, SentMessages
    <3>3. n \in 1..(Len(SentMessages) + 1)
      <4>1. started \in Seq(Messages)
        BY DEF MessagesInv, TypeOK
      <4>2. Len(SubSeq(started, 1, Len(started) - 1)) + 1 >= Len(started)
        BY <4>1
      <4>3. Len(SentMessages) \in Nat /\ Len(SentMessages) + 1 >= Len(started)
        BY <4>1, <4>2 DEF SentMessages
      <4> QED  BY <4>1, <4>3
    <3>4. Stream!Alter(n)
      BY <3>1, <3>2 DEF Stream!Alter
    <3> QED  BY <3>3, <3>4 DEF Stream!Next
  <2>4. CASE UNCHANGED <<delivered, touched>>
    <3>1. CASE SentMessages' = SentMessages
      BY <2>4, <3>1 DEF Stream!vars
    <3>2. ASSUME NEW m \in Messages, SentMessages' = Append(SentMessages, m)
          PROVE  [Stream!Next]_(Stream!vars)
      BY <2>4, <3>2 DEF Stream!Send, Stream!Next
    <3> QED  BY <3>1, <3>2, SentStep
  <2> QED  BY <2>2, <2>3, <2>4, DeliveredStep
<1> QED  BY <1>1, <1>2, MessagesInvariance, PTL DEF Spec, StreamSpec, Stream!Spec
=============================================================================
