---------------------------- MODULE RecordProofs ----------------------------
(***************************************************************************)
(* Proofs about one direction of the record layer: its types, that no      *)
(* nonce is used twice, that it implements SecureChannel, and that its     *)
(* receiver never loses the boundary between two records.                  *)
(***************************************************************************)
EXTENDS RecordInvariant, TLAPS

-----------------------------------------------------------------------------
(* Types *)

\* A sealed record has a nonce of a sequence number.
LEMMA SealedType ==
    ASSUME TypeOK, NEW text \in Texts, NEW length \in 1..MaxPlaintext
    PROVE  [nonce |-> Nonce(sendSeq), text |-> text, length |-> length] \in Records
BY DEF TypeOK, Records, Nonces

\* A sequence number stays one.
LEMMA NextSequenceType ==
    ASSUME NEW n \in 0..(Modulus - 1)
    PROVE  NextSequence(n) \in 0..(Modulus - 1)
BY RecordsAssumption DEF NextSequence

\* The length of the fragment of a record.
LEMMA EncryptedLenType ==
    ASSUME NEW r \in Records
    PROVE  /\ EncryptedLen(r) \in Nat
           /\ EncryptedLen(r) > 0
           /\ EncryptedLen(r) <= MaxPlaintext + TagLen
BY SizeAssumption DEF EncryptedLen, Records

\* The four kinds of byte, told apart by their first field.
LEMMA ByteKinds ==
    ASSUME NEW b \in Bytes
    PROVE  /\ b.part = "header" => b \in [part : {"header"}, length : Nat]
           /\ b.part = "fragment" => b \in [part : {"fragment"}, of : Records, at : Nat]
<1>1. \/ b \in [part : {"header"}, length : Nat]
      \/ b \in {BadHeader, Noise}
      \/ b \in [part : {"fragment"}, of : Records, at : Nat]
  BY DEF Bytes
<1>2. ASSUME b \in {BadHeader, Noise} PROVE b.part \in {"bad header", "noise"}
  <2>1. CASE b = BadHeader
    BY <2>1 DEF BadHeader
  <2>2. CASE b = Noise
    BY <2>2 DEF Noise
  <2> QED  BY <1>2, <2>1, <2>2
<1>3. ASSUME b \in [part : {"header"}, length : Nat] PROVE b.part = "header"
  BY <1>3
<1>4. ASSUME b \in [part : {"fragment"}, of : Records, at : Nat] PROVE b.part = "fragment"
  BY <1>4
<1> QED  BY <1>1, <1>2, <1>3, <1>4

\* Numbers below the modulus are themselves.
LEMMA SmallModulo ==
    ASSUME NEW n \in Nat, n < Modulus
    PROVE  n % Modulus = n
BY RecordsAssumption

\* What alteration makes of a byte is a byte, and no unaltered one.
LEMMA AlteredBytes ==
    ASSUME NEW byte \in Bytes, NEW b \in Altered(byte)
    PROVE  b \in Bytes /\ ~Unaltered(b)
<1>1. CASE byte.part = "header"
  <2>1. PICK n \in 0..(MaxPlaintext + TagLen + 1) : b \in {BadHeader, Header(n)}
    BY <1>1, SizeAssumption DEF Altered
  <2>2. n \in Nat
    BY <2>1, SizeAssumption
  <2>3. CASE b = BadHeader
    BY <2>3 DEF Bytes, BadHeader, Unaltered
  <2>4. CASE b = Header(n)
    BY <2>2, <2>4 DEF Bytes, Header, Unaltered
  <2> QED  BY <2>1, <2>3, <2>4
<1>2. CASE byte.part # "header"
  BY <1>2 DEF Altered, Bytes, Noise, Unaltered
<1> QED  BY <1>1, <1>2

\* The record a call of send_encrypted_record works on.
LEMMA LatestType ==
    ASSUME TypeOK, SenderInv, sender \in {"header", "fragment"}
    PROVE  /\ Len(sealed) \in DOMAIN sealed
           /\ Latest \in Records
           /\ SequenceOf(Latest) = Len(sealed) - 1
<1>1. Len(sealed) \in Nat /\ Len(sealed) > 0 /\ sealed \in Seq(Records)
  BY DEF TypeOK, SenderInv
<1>2. Len(sealed) \in DOMAIN sealed /\ Latest \in Records
  BY <1>1 DEF Latest
<1>3. Latest.nonce = Nonce(Len(sealed) - 1)
  BY <1>2 DEF SenderInv, Latest
<1> QED  BY <1>2, <1>3 DEF SequenceOf, Nonce

\* What the bytes on their way are.
LEMMA ByteTypes ==
    ASSUME NEW r \in Records, NEW n \in Nat
    PROVE  FragmentByte(r, n) \in Bytes /\ Header(n) \in Bytes
BY DEF FragmentByte, Header, Bytes

\* A nonce names one number, hence one record.
LEMMA SealedUnder ==
    ASSUME TypeOK, SenderInv, NEW i \in DOMAIN sealed, NEW n \in Nat, sealed[i].nonce = Nonce(n)
    PROVE  i = n + 1
<1>1. i \in Nat
  BY DEF TypeOK
<1>2. sealed[i].nonce = Nonce(i - 1)
  BY DEF SenderInv
<1> QED  BY <1>1, <1>2 DEF Nonce

\* A fragment whose tag matches decrypts to the record sealed under that number.
LEMMA Opened ==
    ASSUME TypeOK, SenderInv, TagMatches(Nonce(recvSeq))
    PROVE  /\ recvSeq + 1 \in DOMAIN sealed
           /\ fragment = Fragment(sealed[recvSeq + 1])
           /\ Plaintext = sealed[recvSeq + 1]
<1> DEFINE Made(r) == r.nonce = Nonce(recvSeq) /\ fragment = Fragment(r)
<1>1. recvSeq \in Nat
  BY RecordsAssumption DEF TypeOK
<1>2. PICK i \in DOMAIN sealed : Made(sealed[i])
  BY DEF TagMatches
<1>3. \A j \in DOMAIN sealed : Made(sealed[j]) => j = recvSeq + 1
  BY <1>1, SealedUnder
<1>4. i = recvSeq + 1
  BY <1>2, <1>3
<1>5. (CHOOSE j \in DOMAIN sealed : Made(sealed[j])) = recvSeq + 1
  <2> HIDE DEF Made
  <2> QED  BY <1>2, <1>3
<1>6. Plaintext = sealed[CHOOSE j \in DOMAIN sealed : Made(sealed[j])]
  BY <1>2 DEF Plaintext
<1> QED  BY <1>2, <1>4, <1>5, <1>6

\* One byte of the stream is replaced by an altered one.
LEMMA GarbledStream ==
    ASSUME TypeOK, Garble
    PROVE  /\ stream' \in Seq(Bytes)
           /\ DOMAIN stream' = DOMAIN stream
           /\ \A k \in DOMAIN stream : stream'[k] = stream[k] \/ ~Unaltered(stream'[k])
<1>1. PICK i \in DOMAIN stream : \E byte \in Altered(stream[i]) : stream' = [stream EXCEPT ![i] = byte]
  BY DEF Garble
<1>2. stream \in Seq(Bytes) /\ stream[i] \in Bytes
  BY DEF TypeOK
<1>3. PICK byte \in Altered(stream[i]) : stream' = [stream EXCEPT ![i] = byte]
  BY <1>1
<1>4. byte \in Bytes /\ ~Unaltered(byte)
  BY <1>2, AlteredBytes
<1> QED  BY <1>2, <1>3, <1>4

\* The count of the bytes altered stays within its bound.
LEMMA OneMoreGarbled ==
    ASSUME NEW n \in 0..MaxGarbled, n < MaxGarbled
    PROVE  n + 1 \in 0..MaxGarbled
BY SizeAssumption

LEMMA RecordInit == Init => RecordInv
<1> SUFFICES ASSUME Init PROVE RecordInv
  OBVIOUS
<1>1. TypeOK
  <2>1. 0 \in 0..(MaxPlaintext + TagLen) /\ 0 \in 0..(Modulus - 1) /\ 0 \in 0..MaxGarbled
    BY SizeAssumption, RecordsAssumption
  <2> QED  BY <2>1 DEF Init, TypeOK
<1>2. SenderInv
  BY RecordsAssumption DEF Init, SenderInv
<1>3. ReceiverInv
  BY RecordsAssumption DEF Init, ReceiverInv
<1>4. BytesInv
  <2>1. \A k \in DOMAIN <<>> : FALSE
    OBVIOUS
  <2> QED  BY <2>1 DEF Init, BytesInv
<1> QED  BY <1>1, <1>2, <1>3, <1>4 DEF RecordInv

-----------------------------------------------------------------------------
(* Types *)

LEMMA RecordTypeStep ==
    ASSUME TypeOK, SenderInv, [Next]_vars
    PROVE  TypeOK'
<1> USE DEF TypeOK, sending, receiving
<1>1. ASSUME NEW text \in Texts, NEW length \in 1..MaxPlaintext, Seal(text, length)
      PROVE  TypeOK'
  <2>1. sealed' \in Seq(Records)
    BY <1>1, SealedType DEF Seal
  <2> QED  BY <1>1, <2>1 DEF Seal
<1>2. CASE SendHeader
  <2>1. Header(EncryptedLen(Latest)) \in Bytes
    BY <1>2, LatestType, EncryptedLenType, ByteTypes DEF SendHeader
  <2>2. stream' \in Seq(Bytes)
    BY <1>2, <2>1 DEF SendHeader, Put
  <2> QED  BY <1>2, <2>2 DEF SendHeader
<1>3. CASE SendByte
  <2>1. Latest \in Records /\ EncryptedLen(Latest) \in Nat /\ EncryptedLen(Latest) <= MaxPlaintext + TagLen
    BY <1>3, LatestType, EncryptedLenType DEF SendByte
  <2>2. current + 1 \in Nat /\ current + 1 <= MaxPlaintext + TagLen
    BY <1>3, <2>1, SizeAssumption DEF SendByte
  <2>3. FragmentByte(Latest, current + 1) \in Bytes
    BY <2>1, <2>2, ByteTypes
  <2>4. stream' \in Seq(Bytes)
    BY <1>3, <2>3 DEF SendByte, Put
  <2>5. sent' \in Seq(Records)
    BY <1>3, <2>1 DEF SendByte
  <2> QED  BY <1>3, <2>2, <2>4, <2>5, SizeAssumption DEF SendByte
<1>4. CASE SendReturns
  BY <1>4, NextSequenceType, SizeAssumption DEF SendReturns
<1>5. CASE SenderStops
  BY <1>5, SizeAssumption DEF SenderStops
<1>6. CASE RecvHeader
  <2>1. Head(stream) \in Bytes /\ Tail(stream) \in Seq(Bytes)
    BY <1>6 DEF RecvHeader
  <2>2. Head(stream) \in [part : {"header"}, length : Nat]
    BY <1>6, <2>1, ByteKinds DEF RecvHeader, HeaderAccepted
  <2> QED  BY <1>6, <2>1, <2>2 DEF RecvHeader
<1>7. ASSUME NEW outcome \in ReceiverStopped, ReceiverStopsAs(outcome)
      PROVE  TypeOK'
  BY <1>7 DEF ReceiverStopsAs
<1>8. CASE RecvByte
  BY <1>8 DEF RecvByte, Readable
<1>9. CASE Deliver
  <2>1. Plaintext \in Records
    BY <1>9, Opened DEF Deliver
  <2> QED  BY <1>9, <2>1, NextSequenceType DEF Deliver
<1>10. CASE Garble
  <2>1. stream' \in Seq(Bytes)
    BY <1>10, GarbledStream
  <2>2. garbled' \in 0..MaxGarbled
    <3>1. garbled \in 0..MaxGarbled /\ garbled < MaxGarbled /\ garbled' = garbled + 1
      BY <1>10 DEF Garble
    <3> QED  BY <3>1, OneMoreGarbled
  <2>3. UNCHANGED <<sender, current, sendSeq, sealed, sent, receiver, header, fragment, recvSeq, delivered>>
    BY <1>10 DEF Garble
  <2> QED  BY <2>1, <2>2, <2>3
<1>11. CASE UNCHANGED vars
  BY <1>11 DEF vars
<1> QED
  BY <1>1, <1>2, <1>3, <1>4, <1>5, <1>6, <1>7, <1>8, <1>9, <1>10, <1>11
     DEF Next, SenderStep, ReceiverStep, RejectHeader, RejectTag, RecvEnds, ReceiverFails,
         BothStopped, ReceiverStopped
-----------------------------------------------------------------------------
(* The sender *)

LEMMA SenderInvStep ==
    ASSUME RecordInv, [Next]_vars
    PROVE  SenderInv'
<1> USE DEF RecordInv
<1>0. /\ sealed \in Seq(Records) /\ sent \in Seq(Records)
      /\ Len(sealed) \in Nat /\ Len(sent) \in Nat /\ current \in Nat
  BY SizeAssumption DEF TypeOK
<1>1. ASSUME NEW text \in Texts, NEW length \in 1..MaxPlaintext, Seal(text, length)
      PROVE  SenderInv'
  <2> DEFINE r == [nonce |-> Nonce(sendSeq), text |-> text, length |-> length]
  <2>1. r \in Records /\ r.nonce = Nonce(sendSeq)
    BY SealedType
  <2> HIDE DEF r
  <2>2. sealed' = Append(sealed, r) /\ sender' = "header" /\ UNCHANGED <<current, sendSeq, sent>>
    BY <1>1 DEF Seal, r
  <2>3. Len(sent) = Len(sealed) /\ current = 0 /\ sendSeq = Len(sealed) % Modulus /\ Len(sealed) < MaxRecords
    BY <1>1 DEF Seal, SenderInv
  <2>4. sendSeq = Len(sealed)
    BY <1>0, <2>3, RecordsAssumption
  <2>5. Len(sealed') = Len(sealed) + 1 /\ Latest' = r
    BY <1>0, <2>1, <2>2 DEF Latest
  <2>6. \A i \in DOMAIN sealed' : (i \in DOMAIN sealed /\ sealed'[i] = sealed[i]) \/ (i = Len(sealed) + 1 /\ sealed'[i] = r)
    BY <1>0, <2>1, <2>2
  <2>7. \A i \in DOMAIN sealed' : sealed'[i].nonce = Nonce(i - 1)
    BY <1>0, <2>1, <2>4, <2>6 DEF SenderInv
  <2>8. \A i \in DOMAIN sent : i \in DOMAIN sealed /\ sealed'[i] = sealed[i] /\ sent[i] = sealed[i]
    BY <1>0, <2>1, <2>2, <2>3 DEF SenderInv
  <2>9. EncryptedLen(r) \in Nat /\ EncryptedLen(r) > 0
    BY <2>1, EncryptedLenType
  <2>10. EncryptedLen(Latest)' = EncryptedLen(r)
    BY <2>5 DEF EncryptedLen
  <2> QED
    BY <1>0, <2>2, <2>3, <2>4, <2>5, <2>7, <2>8, <2>9, <2>10, RecordsAssumption DEF SenderInv
<1>2. CASE SendHeader
  BY <1>2 DEF SendHeader, SenderInv, Latest, EncryptedLen
<1>3. CASE SendByte
  <2>1. /\ sender = "fragment" /\ current < EncryptedLen(Latest) /\ current' = current + 1
        /\ sent' = IF current' = EncryptedLen(Latest) THEN Append(sent, Latest) ELSE sent
        /\ UNCHANGED <<sender, sendSeq, sealed>>
    BY <1>3 DEF SendByte
  <2>2. Latest \in Records /\ EncryptedLen(Latest) \in Nat
    BY <2>1, LatestType, EncryptedLenType
  <2>3. Latest' = Latest /\ EncryptedLen(Latest)' = EncryptedLen(Latest)
    BY <2>1 DEF Latest, EncryptedLen
  <2>4. Len(sealed) > 0 /\ Len(sent) = Len(sealed) - 1 /\ sendSeq = Len(sealed) - 1
    BY <1>0, <2>1, <2>2 DEF SenderInv
  <2>5. CASE current + 1 = EncryptedLen(Latest)
    <3>1. sent' = Append(sent, Latest)
      BY <2>1, <2>5
    <3>2. Len(sent') = Len(sealed)
      BY <1>0, <2>2, <2>4, <3>1
    <3>3. \A i \in DOMAIN sent' : i \in DOMAIN sealed /\ sent'[i] = sealed[i]
      BY <1>0, <2>2, <2>4, <3>1 DEF SenderInv, Latest
    <3> QED  BY <1>0, <2>1, <2>2, <2>3, <2>4, <2>5, <3>2, <3>3 DEF SenderInv
  <2>6. CASE current + 1 # EncryptedLen(Latest)
    <3>1. sent' = sent
      BY <2>1, <2>6
    <3> QED  BY <1>0, <2>1, <2>2, <2>3, <2>4, <2>6, <3>1 DEF SenderInv
  <2> QED  BY <2>5, <2>6
<1>4. CASE SendReturns
  <2>1. /\ sender = "fragment" /\ current = EncryptedLen(Latest) /\ sender' = "ready" /\ current' = 0
        /\ sendSeq' = (sendSeq + 1) % Modulus /\ UNCHANGED <<sealed, sent>>
    BY <1>4 DEF SendReturns, NextSequence
  <2>2. sendSeq = Len(sealed) - 1 /\ Len(sent) = Len(sealed)
    BY <2>1 DEF SenderInv
  <2>3. sendSeq + 1 = Len(sealed)
    BY <1>0, <2>2
  <2> QED  BY <2>1, <2>2, <2>3 DEF SenderInv
<1>5. CASE SenderStops
  BY <1>5 DEF SenderStops, SenderStopped, SenderInv
<1>6. ASSUME UNCHANGED sending PROVE SenderInv'
  BY <1>6 DEF sending, SenderInv, Latest, EncryptedLen
<1> QED
  BY <1>1, <1>2, <1>3, <1>4, <1>5, <1>6
     DEF Next, vars, SenderStep, ReceiverStep, RecvHeader, RejectHeader, RecvByte, Deliver, RejectTag,
         RecvEnds, ReceiverFails, ReceiverStopsAs, Garble, BothStopped
-----------------------------------------------------------------------------
(* The receiver *)

\* The record that Deliver accepts is the first of those sent and not yet
\* accepted, and no byte of it is left in the stream.
LEMMA DeliversNext ==
    ASSUME RecordInv, Deliver
    PROVE  /\ recvSeq = Len(delivered)
           /\ Len(delivered) < Len(sent)
           /\ Plaintext = sent[Len(delivered) + 1]
           /\ \A k \in DOMAIN stream : Unaltered(stream[k]) =>
                 SequenceOf(stream[k].of) >= Len(delivered) + 1
<1> USE DEF RecordInv
<1> DEFINE r == sealed[recvSeq + 1]
           last == EncryptedLen(r)
<1>1. /\ sealed \in Seq(Records) /\ sent \in Seq(Records) /\ delivered \in Seq(Records)
      /\ stream \in Seq(Bytes) /\ recvSeq \in Nat /\ recvSeq < Modulus
      /\ Len(sent) \in Nat /\ Len(delivered) \in Nat /\ Len(sealed) \in Nat
  BY RecordsAssumption DEF TypeOK
<1>2. /\ recvSeq + 1 \in DOMAIN sealed
      /\ fragment = Fragment(r)
      /\ Plaintext = r
  BY Opened DEF Deliver
<1>3. r \in Records /\ last \in Nat /\ last > 0
  BY <1>1, <1>2, EncryptedLenType
<1>4. r.nonce = Nonce(recvSeq)
  BY <1>1, <1>2 DEF SenderInv
<1>5. SequenceOf(r) = recvSeq
  BY <1>4 DEF SequenceOf, Nonce
<1>6. last \in DOMAIN fragment /\ fragment[last] = FragmentByte(r, last)
  BY <1>2, <1>3 DEF Fragment
<1>7. Unaltered(fragment[last]) /\ fragment[last].of = r /\ fragment[last].at = last
  BY <1>6 DEF FragmentByte, Unaltered
<1>8. recvSeq >= Len(delivered) /\ recvSeq < Len(sent)
  BY <1>5, <1>6, <1>7 DEF BytesInv, InFlight
<1>9. recvSeq = Len(delivered)
  <2>1. recvSeq = Len(delivered) % Modulus
    BY DEF ReceiverInv
  <2>2. Len(delivered) < Modulus
    BY <1>1, <1>8, RecordsAssumption DEF SenderInv
  <2> QED  BY <1>1, <2>1, <2>2, SmallModulo
<1>10. Plaintext = sent[Len(delivered) + 1]
  <2>1. recvSeq + 1 \in DOMAIN sent
    BY <1>1, <1>8
  <2>2. sent[recvSeq + 1] = r
    BY <2>1 DEF SenderInv
  <2> QED  BY <1>2, <1>9, <2>2
<1>11. ASSUME NEW k \in DOMAIN stream, Unaltered(stream[k])
       PROVE  SequenceOf(stream[k].of) >= Len(delivered) + 1
  <2> DEFINE b == stream[k]
  <2>1. /\ SequenceOf(b.of) + 1 \in DOMAIN sealed
        /\ b.of = sealed[SequenceOf(b.of) + 1]
        /\ b.at <= EncryptedLen(b.of)
    BY <1>11 DEF BytesInv, InFlight
  <2>2. b \in [part : {"fragment"}, of : Records, at : Nat]
    BY <1>1, <1>11, ByteKinds DEF Unaltered
  <2>3. SequenceOf(b.of) \in Nat /\ b.at \in Nat
    BY <2>2, RecordsAssumption DEF Records, Nonces, Nonce, SequenceOf
  <2>4. Precedes(fragment[last], b)
    BY <1>6 DEF BytesInv
  <2>5. recvSeq < SequenceOf(b.of) \/ (recvSeq = SequenceOf(b.of) /\ last < b.at)
    BY <1>5, <1>7, <1>11, <2>4 DEF Precedes
  <2>6. CASE recvSeq = SequenceOf(b.of) /\ last < b.at
    <3>1. b.of = r
      BY <2>1, <2>6
    <3> QED  BY <1>3, <2>1, <2>3, <2>6, <3>1
  <2> QED  BY <1>1, <1>9, <2>3, <2>5, <2>6
<1> QED  BY <1>1, <1>8, <1>9, <1>10, <1>11

LEMMA ReceiverInvStep ==
    ASSUME RecordInv, [Next]_vars
    PROVE  ReceiverInv'
<1> USE DEF RecordInv
<1>1. /\ sent \in Seq(Records) /\ delivered \in Seq(Records)
      /\ Len(sent) \in Nat /\ Len(delivered) \in Nat
  BY DEF TypeOK
<1>2. CASE SendByte
  <2>1. UNCHANGED <<recvSeq, delivered>> /\ (sent' = sent \/ sent' = Append(sent, Latest))
    BY <1>2 DEF SendByte, receiving
  <2>2. Latest \in Records
    BY <1>2, LatestType DEF SendByte
  <2>3. Len(sent) <= Len(sent') /\ \A i \in DOMAIN sent : i \in DOMAIN sent' /\ sent'[i] = sent[i]
    BY <1>1, <2>1, <2>2
  <2>4. sent' \in Seq(Records)
    BY <1>1, <2>1, <2>2
  <2> QED  BY <1>1, <2>1, <2>3, <2>4 DEF ReceiverInv
<1>3. CASE Deliver
  <2>1. /\ recvSeq = Len(delivered) /\ Len(delivered) < Len(sent)
        /\ Plaintext = sent[Len(delivered) + 1]
    BY <1>3, DeliversNext
  <2>2. /\ delivered' = Append(delivered, Plaintext) /\ recvSeq' = (recvSeq + 1) % Modulus
        /\ sent' = sent
    BY <1>3 DEF Deliver, NextSequence, sending
  <2>3. Plaintext \in Records
    BY <1>1, <2>1
  <2>4. Len(delivered') = Len(delivered) + 1
    BY <1>1, <2>2, <2>3
  <2>5. \A i \in DOMAIN delivered' : delivered'[i] = sent[i]
    BY <1>1, <2>1, <2>2, <2>3 DEF ReceiverInv
  <2> QED  BY <1>1, <2>1, <2>2, <2>4, <2>5 DEF ReceiverInv
<1>4. ASSUME UNCHANGED <<recvSeq, delivered, sent>> PROVE ReceiverInv'
  BY <1>4 DEF ReceiverInv
<1> QED
  BY <1>2, <1>3, <1>4
     DEF Next, vars, sending, receiving, SenderStep, ReceiverStep, Seal, SendHeader, SendReturns,
         SenderStops, RecvHeader, RejectHeader, RecvByte, RejectTag, RecvEnds, ReceiverFails,
         ReceiverStopsAs, Garble, BothStopped
-----------------------------------------------------------------------------
(* The bytes on their way *)

\* An unaltered byte has the number of its record and a place in it.
LEMMA ByteNumbers ==
    ASSUME NEW b \in Bytes, Unaltered(b)
    PROVE  SequenceOf(b.of) \in Nat /\ b.at \in Nat /\ b.of \in Records
<1>1. b \in [part : {"fragment"}, of : Records, at : Nat]
  BY ByteKinds DEF Unaltered
<1> QED  BY <1>1, RecordsAssumption DEF Records, Nonces, Nonce, SequenceOf

\* Every step but Deliver keeps what is known of a byte on its way.
LEMMA InFlightStep ==
    ASSUME RecordInv, [Next]_vars, ~Deliver, NEW b \in Bytes, InFlight(b)
    PROVE  InFlight(b)'
<1> USE DEF RecordInv
<1> SUFFICES ASSUME Unaltered(b) PROVE InFlight(b)'
  BY DEF InFlight
<1>1. /\ sealed \in Seq(Records) /\ sent \in Seq(Records)
      /\ Len(sealed) \in Nat /\ Len(sent) \in Nat /\ current \in Nat
      /\ SequenceOf(b.of) \in Nat /\ b.at \in Nat
  BY ByteNumbers, SizeAssumption DEF TypeOK
<1>2. ASSUME NEW text \in Texts, NEW length \in 1..MaxPlaintext, Seal(text, length)
      PROVE  InFlight(b)'
  <2>1. PICK r \in Records : sealed' = Append(sealed, r)
    BY <1>2, SealedType DEF Seal
  <2>2. /\ Len(sealed') = Len(sealed) + 1
        /\ \A i \in DOMAIN sealed : i \in DOMAIN sealed' /\ sealed'[i] = sealed[i]
    BY <1>1, <2>1
  <2>3. sender' = "header" /\ UNCHANGED <<sent, delivered>>
    BY <1>2 DEF Seal, receiving
  <2> QED  BY <1>1, <2>2, <2>3 DEF InFlight, EncryptedLen
<1>3. CASE SendHeader
  BY <1>1, <1>3 DEF SendHeader, receiving, InFlight, EncryptedLen
<1>4. CASE SendByte
  <2>1. Latest \in Records
    BY <1>4, LatestType DEF SendByte
  <2>2. Len(sent) <= Len(sent') /\ Len(sent') \in Nat
    BY <1>1, <1>4, <2>1 DEF SendByte
  <2>3. sender = "fragment" /\ current' = current + 1 /\ UNCHANGED <<sender, sealed, delivered>>
    BY <1>4 DEF SendByte, receiving
  <2> QED  BY <1>1, <2>2, <2>3 DEF InFlight, EncryptedLen
<1>5. CASE SendReturns
  BY <1>5 DEF SendReturns, receiving, InFlight, EncryptedLen
<1>6. CASE SenderStops
  BY <1>6 DEF SenderStops, SenderStopped, receiving, InFlight, EncryptedLen
<1>7. ASSUME UNCHANGED <<sender, current, sealed, sent, delivered>> PROVE InFlight(b)'
  BY <1>7 DEF InFlight, EncryptedLen
<1> QED
  BY <1>2, <1>3, <1>4, <1>5, <1>6, <1>7
     DEF Next, vars, sending, receiving, SenderStep, ReceiverStep, RecvHeader, RejectHeader,
         RecvByte, RejectTag, RecvEnds, ReceiverFails, ReceiverStopsAs, Garble, BothStopped

\* A byte appended to the stream, or moved from it to the fragment, leaves all
\* others where they are.
LEMMA AppendByte ==
    ASSUME NEW q \in Seq(Bytes), NEW b \in Bytes
    PROVE  /\ Append(q, b) \in Seq(Bytes)
           /\ \A k \in DOMAIN Append(q, b) :
                 \/ k \in DOMAIN q /\ Append(q, b)[k] = q[k]
                 \/ k = Len(q) + 1 /\ Append(q, b)[k] = b
OBVIOUS

LEMMA TailBytes ==
    ASSUME NEW q \in Seq(Bytes), q # <<>>
    PROVE  /\ Head(q) \in Bytes /\ Head(q) = q[1] /\ 1 \in DOMAIN q
           /\ Tail(q) \in Seq(Bytes)
           /\ \A k \in DOMAIN Tail(q) : k \in Nat /\ k + 1 \in DOMAIN q /\ Tail(q)[k] = q[k + 1] /\ k + 1 > 1
OBVIOUS

Occurs(b, q) == \E k \in DOMAIN q : q[k] = b

\* BytesInv, said of each byte and of each pair of bytes.
LEMMA BytesInvHolds ==
    ASSUME RecordInv
    PROVE  /\ stream \in Seq(Bytes) /\ fragment \in Seq(Bytes)
           /\ \A b \in Bytes : Occurs(b, stream) \/ Occurs(b, fragment) => InFlight(b)
           /\ \A j, k \in DOMAIN stream : j < k => Precedes(stream[j], stream[k])
           /\ \A j \in DOMAIN fragment, k \in DOMAIN stream : Precedes(fragment[j], stream[k])
<1>1. stream \in Seq(Bytes) /\ fragment \in Seq(Bytes)
  BY DEF RecordInv, TypeOK
<1> QED  BY <1>1 DEF RecordInv, BytesInv, Occurs

LEMMA BytesInvNext ==
    ASSUME stream' \in Seq(Bytes), fragment' \in Seq(Bytes),
           \A b \in Bytes : Occurs(b, stream') \/ Occurs(b, fragment') => InFlight(b)',
           \A j, k \in DOMAIN stream' : j < k => Precedes(stream'[j], stream'[k]),
           \A j \in DOMAIN fragment', k \in DOMAIN stream' : Precedes(fragment'[j], stream'[k])
    PROVE  BytesInv'
<1>1. (\A k \in DOMAIN stream : InFlight(stream[k]))'
  <2>1. ASSUME NEW k \in DOMAIN stream', NEW b \in Bytes, b = stream'[k]
        PROVE  InFlight(b)'
    BY <2>1 DEF Occurs
  <2> QED  BY <2>1
<1>2. (\A k \in DOMAIN fragment : InFlight(fragment[k]))'
  <2>1. ASSUME NEW k \in DOMAIN fragment', NEW b \in Bytes, b = fragment'[k]
        PROVE  InFlight(b)'
    BY <2>1 DEF Occurs
  <2> QED  BY <2>1
<1> QED  BY <1>1, <1>2 DEF BytesInv, Precedes, SequenceOf, Unaltered

\* A byte the sender appends, behind all the others.
LEMMA PutStep ==
    ASSUME RecordInv, [Next]_vars, ~Deliver, NEW b \in Bytes, Put(b), UNCHANGED fragment,
           InFlight(b)',
           \A c \in Bytes : Occurs(c, stream) \/ Occurs(c, fragment) => Precedes(c, b)
    PROVE  BytesInv'
<1> USE BytesInvHolds
<1>1. \A c \in Bytes : Occurs(c, stream) \/ Occurs(c, fragment) => InFlight(c)'
  BY InFlightStep
<1>2. CASE stream' = stream
  BY <1>1, <1>2, BytesInvNext
<1>3. CASE stream' = Append(stream, b)
  <2>1. \A k \in DOMAIN stream' :
           \/ k \in DOMAIN stream /\ stream'[k] = stream[k]
           \/ k = Len(stream) + 1 /\ stream'[k] = b
    BY <1>3, AppendByte
  <2>2. stream' \in Seq(Bytes)
    BY <1>3, AppendByte
  <2>3. \A c \in Bytes : Occurs(c, stream') => Occurs(c, stream) \/ c = b
    BY <2>1 DEF Occurs
  <2>4. \A c \in Bytes : Occurs(c, stream') \/ Occurs(c, fragment') => InFlight(c)'
    BY <1>1, <2>3
  <2>5. \A k \in DOMAIN stream : Precedes(stream[k], b)
    BY DEF Occurs
  <2>6. ASSUME NEW j \in DOMAIN stream', NEW k \in DOMAIN stream', j < k
        PROVE  Precedes(stream'[j], stream'[k])
    <3>1. Len(stream) \in Nat /\ k \in Nat /\ j \in Nat /\ k <= Len(stream) + 1
      BY <2>1
    <3>2. j \in DOMAIN stream /\ stream'[j] = stream[j]
      BY <2>1, <2>6, <3>1
    <3> QED  BY <2>1, <2>5, <2>6, <3>2
  <2>7. \A j \in DOMAIN fragment : fragment[j] \in Bytes /\ Precedes(fragment[j], b)
    BY DEF Occurs
  <2>8. \A j \in DOMAIN fragment', k \in DOMAIN stream' : Precedes(fragment'[j], stream'[k])
    BY <2>1, <2>7
  <2> QED  BY <2>2, <2>4, <2>6, <2>8, BytesInvNext
<1> QED  BY <1>2, <1>3 DEF Put

LEMMA BytesInvStep ==
    ASSUME RecordInv, [Next]_vars
    PROVE  BytesInv'
<1>1. stream \in Seq(Bytes) /\ fragment \in Seq(Bytes)
  BY BytesInvHolds
<1>2. \A b, c : ~Unaltered(b) \/ ~Unaltered(c) => Precedes(b, c)
  BY DEF Precedes
<1>3. CASE SendHeader
  <2>1. PICK h \in Bytes : h = Header(EncryptedLen(Latest))
    BY <1>3, LatestType, EncryptedLenType, ByteTypes DEF SendHeader, RecordInv
  <2>2. ~Unaltered(h)
    BY <2>1 DEF Header, Unaltered
  <2>3. InFlight(h)'
    BY <2>2 DEF InFlight
  <2>4. Put(h) /\ UNCHANGED fragment /\ ~Deliver
    BY <1>3, <2>1 DEF SendHeader, receiving, Deliver, sending
  <2> QED  BY <1>2, <2>2, <2>3, <2>4, PutStep
<1>4. CASE SendByte
  <2>1. /\ sender = "fragment" /\ current < EncryptedLen(Latest) /\ current' = current + 1
        /\ UNCHANGED <<sender, sealed, delivered, fragment>> /\ ~Deliver
        /\ sent' = IF current' = EncryptedLen(Latest) THEN Append(sent, Latest) ELSE sent
    BY <1>4 DEF SendByte, receiving, Deliver, sending
  <2>2. /\ Latest \in Records /\ SequenceOf(Latest) = Len(sealed) - 1 /\ Len(sealed) \in DOMAIN sealed
        /\ EncryptedLen(Latest) \in Nat
    BY <2>1, LatestType, EncryptedLenType DEF RecordInv
  <2>3. /\ current \in Nat /\ Len(sealed) \in Nat /\ Len(sent) \in Nat /\ Len(delivered) \in Nat
        /\ sent \in Seq(Records)
    BY SizeAssumption DEF RecordInv, TypeOK
  <2>4. PICK b \in Bytes : b = FragmentByte(Latest, current + 1)
    BY <2>2, <2>3, ByteTypes
  <2>5. Unaltered(b) /\ b.of = Latest /\ b.at = current + 1
    BY <2>4 DEF FragmentByte, Unaltered
  <2>6. ASSUME NEW c \in Bytes, Occurs(c, stream) \/ Occurs(c, fragment)
        PROVE  Precedes(c, b)
    <3>1. SUFFICES ASSUME Unaltered(c) PROVE Precedes(c, b)
      BY <1>2
    <3>2. InFlight(c)
      BY <2>6, BytesInvHolds
    <3>3. SequenceOf(c.of) < Len(sealed) - 1 \/ c.at <= current
      BY <2>1, <3>1, <3>2 DEF InFlight
    <3>4. SequenceOf(c.of) \in Nat /\ c.at \in Nat /\ SequenceOf(c.of) + 1 \in 1..Len(sealed)
      BY <2>3, <3>1, <3>2, ByteNumbers DEF InFlight, RecordInv, TypeOK
    <3>5. SequenceOf(b.of) = Len(sealed) - 1
      BY <2>2, <2>5
    <3> QED  BY <2>3, <2>5, <3>3, <3>4, <3>5 DEF Precedes
  <2>7. Len(delivered) <= Len(sent) /\ Len(sent) = Len(sealed) - 1
    BY <2>1, <2>2, <2>3 DEF RecordInv, ReceiverInv, SenderInv
  <2>8. current + 1 = EncryptedLen(Latest) => Len(sent') = Len(sealed)
    BY <2>1, <2>2, <2>3, <2>7
  <2>9. Latest = sealed[SequenceOf(Latest) + 1]
    BY <2>2, <2>3 DEF Latest
  <2>10. InFlight(b)'
    BY <2>1, <2>2, <2>3, <2>5, <2>7, <2>8, <2>9 DEF InFlight, EncryptedLen
  <2>11. Put(b)
    BY <1>4, <2>4 DEF SendByte
  <2> QED  BY <2>1, <2>6, <2>10, <2>11, PutStep
<1>5. CASE RecvByte
  <2> DEFINE b == Head(stream)
  <2>1. /\ stream # <<>> /\ fragment' = Append(fragment, b) /\ stream' = Tail(stream) /\ ~Deliver
    BY <1>5 DEF RecvByte, Readable, Deliver
  <2>2. /\ b \in Bytes /\ b = stream[1] /\ 1 \in DOMAIN stream
        /\ stream' \in Seq(Bytes)
        /\ \A k \in DOMAIN stream' :
              k \in Nat /\ k + 1 \in DOMAIN stream /\ stream'[k] = stream[k + 1] /\ k + 1 > 1
    BY <1>1, <2>1, TailBytes
  <2>3. /\ fragment' \in Seq(Bytes)
        /\ \A k \in DOMAIN fragment' :
              \/ k \in DOMAIN fragment /\ fragment'[k] = fragment[k]
              \/ fragment'[k] = b
    BY <1>1, <2>1, <2>2, AppendByte
  <2> HIDE DEF b
  <2>4. \A c \in Bytes : Occurs(c, stream') \/ Occurs(c, fragment')
                            => Occurs(c, stream) \/ Occurs(c, fragment)
    BY <2>2, <2>3 DEF Occurs
  <2>5. \A c \in Bytes : Occurs(c, stream') \/ Occurs(c, fragment') => InFlight(c)'
    BY <2>1, <2>4, BytesInvHolds, InFlightStep
  <2>6. \A j, k \in DOMAIN stream' : j < k => Precedes(stream'[j], stream'[k])
    BY <2>2, BytesInvHolds
  <2>7. \A k \in DOMAIN stream' : Precedes(b, stream'[k])
    BY <2>2, BytesInvHolds
  <2>8. \A j \in DOMAIN fragment', k \in DOMAIN stream' : Precedes(fragment'[j], stream'[k])
    BY <2>2, <2>3, <2>7, BytesInvHolds
  <2> QED  BY <2>2, <2>3, <2>5, <2>6, <2>8, BytesInvNext
<1>6. CASE RecvHeader
  <2>1. stream # <<>> /\ stream' = Tail(stream) /\ fragment' = fragment /\ ~Deliver
    BY <1>6 DEF RecvHeader, Deliver
  <2>2. /\ stream' \in Seq(Bytes)
        /\ \A k \in DOMAIN stream' :
              k \in Nat /\ k + 1 \in DOMAIN stream /\ stream'[k] = stream[k + 1]
    BY <1>1, <2>1, TailBytes
  <2>3. \A c \in Bytes : Occurs(c, stream') \/ Occurs(c, fragment') => InFlight(c)'
    <3>1. \A c \in Bytes : Occurs(c, stream') => Occurs(c, stream)
      BY <2>2 DEF Occurs
    <3> QED  BY <2>1, <3>1, BytesInvHolds, InFlightStep
  <2>4. \A j, k \in DOMAIN stream' : j < k => Precedes(stream'[j], stream'[k])
    BY <2>2, BytesInvHolds
  <2>5. \A j \in DOMAIN fragment', k \in DOMAIN stream' : Precedes(fragment'[j], stream'[k])
    BY <2>1, <2>2, BytesInvHolds
  <2> QED  BY <1>1, <2>1, <2>2, <2>3, <2>4, <2>5, BytesInvNext
<1>7. CASE Deliver
  <2>1. /\ fragment' = <<>> /\ stream' = stream
        /\ UNCHANGED <<sender, current, sealed, sent>>
        /\ delivered' = Append(delivered, Plaintext)
    BY <1>7 DEF Deliver, sending
  <2>2. delivered \in Seq(Records) /\ Plaintext \in Records
    BY <1>7, Opened DEF RecordInv, TypeOK, Deliver
  <2>3. Len(delivered') = Len(delivered) + 1
    BY <2>1, <2>2
  <2>4. \A c \in Bytes : ~Occurs(c, fragment')
    <3>1. \A k \in DOMAIN <<>> : FALSE
      OBVIOUS
    <3> QED  BY <2>1, <3>1 DEF Occurs
  <2>5. ASSUME NEW c \in Bytes, Occurs(c, stream) PROVE InFlight(c)'
    <3>1. InFlight(c)
      BY <2>5, BytesInvHolds
    <3>2. Unaltered(c) => SequenceOf(c.of) >= Len(delivered')
      BY <1>7, <2>3, <2>5, DeliversNext DEF Occurs
    <3> QED  BY <2>1, <3>1, <3>2 DEF InFlight, EncryptedLen
  <2>6. \A c \in Bytes : Occurs(c, stream') \/ Occurs(c, fragment') => InFlight(c)'
    BY <2>1, <2>4, <2>5
  <2>7. fragment' \in Seq(Bytes) /\ \A k \in DOMAIN fragment' : FALSE
    BY <2>1
  <2> QED  BY <1>1, <2>1, <2>6, <2>7, BytesInvHolds, BytesInvNext
<1>8. CASE Garble
  <2>1. /\ stream' \in Seq(Bytes) /\ DOMAIN stream' = DOMAIN stream
        /\ \A k \in DOMAIN stream : stream'[k] = stream[k] \/ ~Unaltered(stream'[k])
    BY <1>8, GarbledStream DEF RecordInv
  <2>2. fragment' = fragment /\ UNCHANGED <<sender, current, sealed, sent, delivered>>
    BY <1>8 DEF Garble, sending, receiving
  <2>3. \A c \in Bytes : InFlight(c) => InFlight(c)'
    BY <2>2 DEF InFlight, EncryptedLen
  <2>4. \A c \in Bytes : ~Unaltered(c) => InFlight(c)'
    BY DEF InFlight
  <2>5. \A c \in Bytes : Occurs(c, stream') => Occurs(c, stream) \/ ~Unaltered(c)
    BY <2>1 DEF Occurs
  <2>6. \A c \in Bytes : Occurs(c, stream') \/ Occurs(c, fragment') => InFlight(c)'
    BY <2>2, <2>3, <2>4, <2>5, BytesInvHolds
  <2>7. \A j, k \in DOMAIN stream' : j < k => Precedes(stream'[j], stream'[k])
    BY <1>2, <2>1, BytesInvHolds
  <2>8. \A j \in DOMAIN fragment', k \in DOMAIN stream' : Precedes(fragment'[j], stream'[k])
    BY <1>2, <2>1, <2>2, BytesInvHolds
  <2> QED  BY <1>1, <2>1, <2>2, <2>6, <2>7, <2>8, BytesInvNext
<1>9. ASSUME UNCHANGED <<stream, fragment>>, ~Deliver PROVE BytesInv'
  BY <1>9, BytesInvHolds, BytesInvNext, InFlightStep
<1>10. ASSUME stream' = <<>>, fragment' = <<>> PROVE BytesInv'
  <2>1. \A k \in DOMAIN <<>> : FALSE
    OBVIOUS
  <2> QED  BY <1>10, <2>1 DEF BytesInv
<1> QED
  BY <1>3, <1>4, <1>5, <1>6, <1>7, <1>8, <1>9, <1>10
     DEF Next, vars, sending, receiving, SenderStep, ReceiverStep, Seal, SendReturns, SenderStops,
         RejectHeader, RejectTag, RecvEnds, ReceiverFails, ReceiverStopsAs, BothStopped
-----------------------------------------------------------------------------
(* The theorems *)

\* The inductive invariant holds of one direction of the record layer, for any
\* sizes, any number of altered bytes and any failures.
THEOREM RecordInvariance == Spec => []RecordInv
<1>1. Init => RecordInv
  BY RecordInit
<1>2. RecordInv /\ [Next]_vars => RecordInv'
  <2> SUFFICES ASSUME RecordInv, [Next]_vars PROVE RecordInv'
    OBVIOUS
  <2>1. TypeOK' /\ SenderInv' /\ ReceiverInv' /\ BytesInv'
    BY RecordTypeStep, SenderInvStep, ReceiverInvStep, BytesInvStep DEF RecordInv
  <2> QED  BY <2>1 DEF RecordInv
<1> QED  BY <1>1, <1>2, PTL DEF Spec

\* The variables of tls_record.c's two calls keep their types.
THEOREM RecordTypeCorrect == Spec => []TypeOK
<1>1. RecordInv => TypeOK
  BY DEF RecordInv
<1> QED  BY <1>1, RecordInvariance, PTL

\* No two calls of send_encrypted_record encrypt under the same nonce.
THEOREM NonceUniqueHolds == Spec => []NonceUnique
<1>1. RecordInv => NonceUnique
  <2> SUFFICES ASSUME RecordInv,
                      NEW i \in DOMAIN sealed, NEW j \in DOMAIN sealed,
                      sealed[i].nonce = sealed[j].nonce
               PROVE  i = j
    BY DEF NonceUnique
  <2>1. i \in Nat /\ j \in Nat /\ j - 1 \in Nat
    BY DEF RecordInv, TypeOK
  <2>2. sealed[i].nonce = Nonce(j - 1)
    BY DEF RecordInv, SenderInv
  <2>3. i = (j - 1) + 1
    BY <2>1, <2>2, SealedUnder DEF RecordInv
  <2> QED  BY <2>1, <2>3
<1> QED  BY <1>1, RecordInvariance, PTL

\* What recv_encrypted_record returns is a prefix of what was sent: every step
\* of the record layer is a step of SecureChannel or leaves it alone.
THEOREM ChannelRefinement == Spec => ChannelSpec
<1>1. Init => Channel!Init
  BY DEF Init, Channel!Init
<1>2. RecordInv /\ [Next]_vars => [Channel!Next]_(Channel!vars)
  <2> SUFFICES ASSUME RecordInv, [Next]_vars PROVE [Channel!Next]_(Channel!vars)
    OBVIOUS
  <2>1. CASE SendByte
    <3>1. Latest \in Records
      BY <2>1, LatestType DEF SendByte, RecordInv
    <3>2. delivered' = delivered /\ (sent' = Append(sent, Latest) \/ sent' = sent)
      BY <2>1 DEF SendByte, receiving
    <3> QED  BY <3>1, <3>2 DEF Channel!Next, Channel!Send, Channel!vars
  <2>2. CASE Deliver
    <3>1. /\ Len(delivered) < Len(sent) /\ Plaintext = sent[Len(delivered) + 1]
      BY <2>2, DeliversNext
    <3>2. delivered' = Append(delivered, Plaintext) /\ sent' = sent
      BY <2>2 DEF Deliver, sending
    <3> QED  BY <3>1, <3>2 DEF Channel!Next, Channel!Deliver
  <2>3. ASSUME UNCHANGED <<sent, delivered>> PROVE [Channel!Next]_(Channel!vars)
    BY <2>3 DEF Channel!vars
  <2> QED
    BY <2>1, <2>2, <2>3
       DEF Next, vars, sending, receiving, SenderStep, ReceiverStep, Seal, SendHeader, SendReturns,
           SenderStops, RecvHeader, RejectHeader, RecvByte, RejectTag, RecvEnds, ReceiverFails,
           ReceiverStopsAs, Garble, BothStopped
<1> QED  BY <1>1, <1>2, RecordInvariance, PTL DEF Spec, ChannelSpec, Channel!Spec

-----------------------------------------------------------------------------
(* The boundary between two records *)

\* What the steps below look into.
LEMMA Sizes ==
    ASSUME RecordInv
    PROVE  /\ sealed \in Seq(Records) /\ stream \in Seq(Bytes) /\ fragment \in Seq(Bytes)
           /\ Len(sealed) \in Nat /\ Len(stream) \in Nat /\ Len(fragment) \in Nat
           /\ Len(delivered) \in Nat /\ Expected \in Nat /\ current \in Nat
           /\ Len(delivered) <= Len(sealed)
           /\ \A i \in DOMAIN sealed : EncryptedLen(sealed[i]) \in Nat /\ EncryptedLen(sealed[i]) > 0
<1>1. /\ sealed \in Seq(Records) /\ stream \in Seq(Bytes) /\ fragment \in Seq(Bytes)
      /\ delivered \in Seq(Records) /\ sent \in Seq(Records) /\ current \in Nat
  BY SizeAssumption DEF RecordInv, TypeOK
<1>2. Len(delivered) <= Len(sealed)
  BY <1>1 DEF RecordInv, ReceiverInv, SenderInv
<1>3. \A i \in DOMAIN sealed : EncryptedLen(sealed[i]) \in Nat /\ EncryptedLen(sealed[i]) > 0
  BY <1>1, EncryptedLenType
<1> QED  BY <1>1, <1>2, <1>3 DEF Expected

\* The record send_all is working on is the last one.
LEMMA LatestPlace ==
    ASSUME RecordInv, sender \in {"header", "fragment"}
    PROVE  Len(sealed) \in DOMAIN sealed /\ Latest = sealed[Len(sealed)]
BY LatestType DEF RecordInv, Latest

\* A step of the sender that puts nothing into the stream moves no place.
LEMMA LayoutStays ==
    ASSUME RecordInv, LayoutInv, Aligned,
           UNCHANGED <<stream, receiver, header, fragment, delivered, garbled>>,
           \A i \in DOMAIN sealed : i \in DOMAIN sealed' /\ sealed'[i] = sealed[i],
           \A r, i \in Nat : SendsAt(r, i) => SendsAt(r, i)'
    PROVE  (\E rec, at \in [1..(Len(stream) + 1) -> Nat] : Layout(rec, at))'
<1>1. PICK rec, at \in [1..(Len(stream) + 1) -> Nat] : Layout(rec, at)
  BY DEF LayoutInv
<1>2. Consecutive(Len(stream), rec, at)'
  BY <1>1 DEF Layout, Consecutive, EncryptedLen
<1>3. ReadsAt(rec[1], at[1])'
  BY <1>1 DEF Layout, LayoutInv, ReadInv, ReadsAt, Expected, EncryptedLen
<1>4. SendsAt(rec[Len(stream) + 1], at[Len(stream) + 1])'
  <2>1. PICK m \in Nat : m = Len(stream) /\ m + 1 \in 1..(Len(stream) + 1)
    BY Sizes
  <2>2. SendsAt(rec[m + 1], at[m + 1])
    BY <1>1, <2>1 DEF Layout
  <2>3. rec[m + 1] \in Nat /\ at[m + 1] \in Nat
    BY <1>1, <2>1
  <2>4. SendsAt(rec[m + 1], at[m + 1])'
    BY <2>2, <2>3
  <2> QED  BY <2>1, <2>4 DEF SendsAt
<1>5. (garbled = 0 => \A k \in DOMAIN stream : stream[k] = OriginalByte(rec[k], at[k]))'
  <2> SUFFICES ASSUME garbled = 0, NEW k \in DOMAIN stream
               PROVE  stream[k] = OriginalByte(rec[k], at[k])'
    OBVIOUS
  <2>1. k \in 1..Len(stream)
    BY Sizes
  <2>2. sealed'[rec[k]] = sealed[rec[k]]
    BY <1>1, <2>1 DEF Layout, Consecutive
  <2> QED  BY <1>1, <2>2 DEF Layout, OriginalByte, EncryptedLen
<1>6. Layout(rec, at)'
  BY <1>2, <1>3, <1>4, <1>5 DEF Layout
<1> QED  BY <1>1, <1>6

\* The sender's next byte is put behind the others, at the place it is meant for.
LEMMA LayoutPut ==
    ASSUME RecordInv,
           NEW rec \in [1..(Len(stream) + 1) -> Nat], NEW at \in [1..(Len(stream) + 1) -> Nat],
           Layout(rec, at), NEW b \in Bytes, NEW r \in DOMAIN sealed, NEW i \in Nat,
           SendsAt(r, i), i <= EncryptedLen(sealed[r]), b = OriginalByte(r, i),
           \A s, j \in Nat : SendsAt(s, j) => s = r /\ j = i,
           stream' = Append(stream, b),
           UNCHANGED <<receiver, header, fragment, delivered, sealed, garbled>>,
           IF i < EncryptedLen(sealed[r]) THEN SendsAt(r, i + 1)' ELSE SendsAt(r + 1, 0)'
    PROVE  \E new, place \in [1..(Len(stream') + 1) -> Nat] : Layout(new, place)'
<1>1. PICK n \in Nat : n = Len(stream)
  BY Sizes
<1>2. PICK r2 \in Nat, i2 \in Nat :
         /\ IF i < EncryptedLen(sealed[r]) THEN r2 = r /\ i2 = i + 1 ELSE r2 = r + 1 /\ i2 = 0
         /\ SendsAt(r2, i2)'
  <2>1. r \in Nat /\ r + 1 \in Nat /\ 0 \in Nat
    BY Sizes
  <2> QED  BY <2>1
<1> DEFINE new == [k \in 1..(n + 2) |-> IF k = n + 2 THEN r2 ELSE rec[k]]
           place == [k \in 1..(n + 2) |-> IF k = n + 2 THEN i2 ELSE at[k]]
<1>3. new \in [1..(n + 2) -> Nat] /\ place \in [1..(n + 2) -> Nat]
  BY <1>1
<1>4. rec[n + 1] = r /\ at[n + 1] = i /\ Len(stream') = n + 1
  <2>1. n + 1 \in 1..(n + 1)
    OBVIOUS
  <2>2. rec[n + 1] \in Nat /\ at[n + 1] \in Nat
    BY <1>1, <2>1
  <2> QED  BY <1>1, <2>2, Sizes DEF Layout
<1>5. /\ \A k \in 1..(n + 1) : new[k] = rec[k] /\ place[k] = at[k]
      /\ new[n + 2] = r2 /\ place[n + 2] = i2
  OBVIOUS
<1> HIDE DEF new, place
<1>6. Consecutive(n + 1, new, place)
  <2> SUFFICES ASSUME NEW k \in 1..(n + 1)
               PROVE  /\ new[k] \in DOMAIN sealed
                      /\ place[k] <= EncryptedLen(sealed[new[k]])
                      /\ IF place[k] < EncryptedLen(sealed[new[k]])
                         THEN new[k + 1] = new[k] /\ place[k + 1] = place[k] + 1
                         ELSE new[k + 1] = new[k] + 1 /\ place[k + 1] = 0
    BY DEF Consecutive
  <2>1. CASE k = n + 1
    <3>1. k + 1 = n + 2
      BY <2>1
    <3> QED  BY <1>2, <1>4, <1>5, <2>1, <3>1
  <2>2. CASE k # n + 1
    <3>1. k \in 1..n /\ k + 1 \in 1..(n + 1)
      BY <2>2
    <3>2. Consecutive(n, rec, at)
      BY <1>1 DEF Layout
    <3> QED  BY <1>5, <3>1, <3>2 DEF Consecutive
  <2> QED  BY <2>1, <2>2
<1>7. Consecutive(Len(stream), new, place)'
  BY <1>4, <1>6 DEF Consecutive, EncryptedLen
<1>8. ReadsAt(new[1], place[1])'
  <2>1. new[1] = rec[1] /\ place[1] = at[1]
    BY <1>5
  <2>2. ReadsAt(rec[1], at[1])
    BY DEF Layout
  <2> QED  BY <2>1, <2>2 DEF ReadsAt, Expected, EncryptedLen
<1>9. SendsAt(new[Len(stream) + 1], place[Len(stream) + 1])'
  <2>1. Len(stream') + 1 = n + 2
    BY <1>4
  <2> QED  BY <1>2, <1>5, <2>1 DEF SendsAt
<1>10. (garbled = 0 => \A k \in DOMAIN stream : stream[k] = OriginalByte(new[k], place[k]))'
  <2> SUFFICES ASSUME garbled = 0, NEW k \in DOMAIN stream'
               PROVE  stream'[k] = OriginalByte(new[k], place[k])'
    OBVIOUS
  <2>1. \A s, j : OriginalByte(s, j)' = OriginalByte(s, j)
    BY DEF OriginalByte, EncryptedLen
  <2>2. CASE k = n + 1
    <3>1. stream'[k] = b
      BY <1>1, <2>2, Sizes
    <3>2. new[k] = r /\ place[k] = i
      BY <1>4, <1>5, <2>2
    <3> QED  BY <2>1, <3>1, <3>2
  <2>3. CASE k # n + 1
    <3>1. k \in DOMAIN stream /\ k \in 1..(n + 1) /\ stream'[k] = stream[k]
      BY <1>1, <1>4, <2>3, Sizes
    <3>2. stream[k] = OriginalByte(rec[k], at[k])
      BY <3>1 DEF Layout
    <3> QED  BY <1>5, <2>1, <3>1, <3>2
  <2> QED  BY <2>2, <2>3
<1>11. Layout(new, place)'
  BY <1>7, <1>8, <1>9, <1>10 DEF Layout
<1>12. n + 2 = Len(stream') + 1
  BY <1>4
<1> QED  BY <1>3, <1>11, <1>12

\* The receiver takes the first byte and goes on to the place of the next.
LEMMA LayoutTake ==
    ASSUME RecordInv,
           NEW rec \in [1..(Len(stream) + 1) -> Nat], NEW at \in [1..(Len(stream) + 1) -> Nat],
           Layout(rec, at), stream # <<>>, stream' = Tail(stream),
           UNCHANGED <<sending, delivered, garbled>>,
           ReadsAt(rec[2], at[2])'
    PROVE  \E new, place \in [1..(Len(stream') + 1) -> Nat] : Layout(new, place)'
<1>1. PICK n \in Nat : n = Len(stream) /\ n > 0 /\ Len(stream') + 1 = n
  BY Sizes
<1> DEFINE new == [k \in 1..n |-> rec[k + 1]]
           place == [k \in 1..n |-> at[k + 1]]
<1>2. new \in [1..n -> Nat] /\ place \in [1..n -> Nat]
  BY <1>1
<1>3. \A k \in 1..n : new[k] = rec[k + 1] /\ place[k] = at[k + 1]
  OBVIOUS
<1> HIDE DEF new, place
<1>4. Consecutive(Len(stream), new, place)'
  <2>1. Consecutive(n, rec, at)
    BY <1>1 DEF Layout
  <2>2. ASSUME NEW k \in 1..(n - 1)
        PROVE  k \in 1..n /\ k + 1 \in 1..n
    OBVIOUS
  <2>3. Consecutive(n - 1, new, place)
    BY <1>3, <2>1, <2>2 DEF Consecutive
  <2>4. Len(stream') = n - 1
    BY <1>1
  <2> QED  BY <2>3, <2>4 DEF Consecutive, EncryptedLen, sending
<1>5. ReadsAt(new[1], place[1])'
  <2>1. new[1] = rec[2] /\ place[1] = at[2]
    BY <1>1, <1>3
  <2> QED  BY <2>1 DEF ReadsAt
<1>6. SendsAt(new[Len(stream) + 1], place[Len(stream) + 1])'
  <2>1. new[n] = rec[n + 1] /\ place[n] = at[n + 1]
    BY <1>1, <1>3
  <2>2. SendsAt(rec[n + 1], at[n + 1])
    BY <1>1 DEF Layout
  <2>3. SendsAt(new[n], place[n])'
    BY <2>1, <2>2 DEF SendsAt, EncryptedLen, Latest, sending
  <2> QED  BY <1>1, <2>3
<1>7. (garbled = 0 => \A k \in DOMAIN stream : stream[k] = OriginalByte(new[k], place[k]))'
  <2> SUFFICES ASSUME garbled = 0, NEW k \in DOMAIN stream'
               PROVE  stream'[k] = OriginalByte(new[k], place[k])'
    OBVIOUS
  <2>1. \A s, j : OriginalByte(s, j)' = OriginalByte(s, j)
    BY DEF OriginalByte, EncryptedLen, sending
  <2>2. k + 1 \in DOMAIN stream /\ stream'[k] = stream[k + 1] /\ k \in 1..n
    BY <1>1, Sizes
  <2>3. stream[k + 1] = OriginalByte(rec[k + 1], at[k + 1])
    BY <2>2 DEF Layout
  <2> QED  BY <1>3, <2>1, <2>2, <2>3
<1>8. Layout(new, place)'
  BY <1>4, <1>5, <1>6, <1>7 DEF Layout
<1> QED  BY <1>1, <1>2, <1>8

\* A receiver that has not lost the boundary has read, when it accepts a
\* record, the next one; and it keeps the boundary.
LEMMA DeliversAligned ==
    ASSUME RecordInv, Deliver
    PROVE  /\ Aligned
           /\ Len(fragment) = EncryptedLen(sealed[Expected])
           /\ Len(delivered') = Len(delivered) + 1
<1>1. recvSeq = Len(delivered) /\ Plaintext = sent[Len(delivered) + 1] /\ Len(delivered) < Len(sent)
  BY DeliversNext
<1>2. recvSeq \in Nat
  BY RecordsAssumption DEF RecordInv, TypeOK
<1>3. PICK i \in DOMAIN sealed : sealed[i].nonce = Nonce(recvSeq) /\ header = Header(EncryptedLen(sealed[i]))
  BY DEF Deliver, TagMatches
<1>4. i = recvSeq + 1
  BY <1>2, <1>3, SealedUnder DEF RecordInv
<1>5. Aligned
  BY <1>1, <1>3, <1>4 DEF Aligned, Deliver, Expected
<1>6. Len(fragment) = EncryptedLen(sealed[Expected])
  BY <1>1, <1>3, <1>4 DEF Deliver, Header, Expected
<1>7. Plaintext \in Records
  BY Opened DEF RecordInv, TypeOK, Deliver
<1>8. Len(delivered') = Len(delivered) + 1
  BY <1>7 DEF Deliver, RecordInv, TypeOK
<1> QED  BY <1>5, <1>6, <1>8

\* The places are kept by every step that leaves the receiver at a boundary.
LEMMA LayoutStep ==
    ASSUME RecordInv, LayoutInv, [Next]_vars, Aligned'
    PROVE  (\E rec, at \in [1..(Len(stream) + 1) -> Nat] : Layout(rec, at))'
<1>0. /\ sealed \in Seq(Records) /\ stream \in Seq(Bytes) /\ fragment \in Seq(Bytes)
      /\ Len(sealed) \in Nat /\ Len(stream) \in Nat /\ Len(fragment) \in Nat
      /\ Len(delivered) \in Nat /\ Expected \in Nat /\ current \in Nat /\ garbled \in Nat
      /\ Len(delivered) <= Len(sealed)
      /\ \A i \in DOMAIN sealed : EncryptedLen(sealed[i]) \in Nat /\ EncryptedLen(sealed[i]) > 0
  BY Sizes DEF RecordInv, TypeOK
<1>1. ASSUME Aligned
      PROVE  \E rec, at \in [1..(Len(stream) + 1) -> Nat] : Layout(rec, at)
  BY <1>1 DEF LayoutInv
<1>2. ASSUME NEW text \in Texts, NEW length \in 1..MaxPlaintext, Seal(text, length)
      PROVE  (\E rec, at \in [1..(Len(stream) + 1) -> Nat] : Layout(rec, at))'
  <2>1. PICK r \in Records : sealed' = Append(sealed, r)
    BY <1>2, SealedType DEF Seal, RecordInv
  <2>2. /\ Len(sealed') = Len(sealed) + 1
        /\ \A i \in DOMAIN sealed : i \in DOMAIN sealed' /\ sealed'[i] = sealed[i]
    BY <1>0, <2>1
  <2>3. /\ sender = "ready" /\ sender' = "header"
        /\ UNCHANGED <<stream, receiver, header, fragment, delivered, garbled>>
    BY <1>2 DEF Seal, receiving
  <2>4. \A r2, i \in Nat : SendsAt(r2, i) => SendsAt(r2, i)'
    BY <2>2, <2>3 DEF SendsAt
  <2>5. Aligned
    BY <2>2, <2>3 DEF Aligned, LayoutInv, ReadInv, Expected, EncryptedLen
  <2> QED  BY <2>2, <2>3, <2>4, <2>5, LayoutStays
<1>3. CASE SendHeader
  <2>1. /\ sender = "header" /\ sender' = "fragment" /\ Put(Header(EncryptedLen(Latest)))
        /\ UNCHANGED <<current, sealed, receiver, header, fragment, delivered, garbled>>
    BY <1>3 DEF SendHeader, receiving
  <2>2. Aligned /\ receiver \notin ReceiverStopped
    BY <2>1 DEF Aligned, Expected, EncryptedLen, ReceiverStopped
  <2>3. /\ Len(sealed) \in DOMAIN sealed /\ Latest = sealed[Len(sealed)] /\ current = 0
    BY <2>1, LatestPlace DEF RecordInv, SenderInv
  <2>4. OriginalByte(Len(sealed), 0) \in Bytes /\ stream' = Append(stream, OriginalByte(Len(sealed), 0))
    BY <1>0, <2>1, <2>2, <2>3, ByteTypes DEF OriginalByte, Put
  <2>5. PICK rec, at \in [1..(Len(stream) + 1) -> Nat] : Layout(rec, at)
    BY <1>1, <2>2
  <2>6. PICK r \in DOMAIN sealed : r = Len(sealed) /\ r + 1 \in Nat
    <3>1. ASSUME NEW n \in Nat PROVE n + 1 \in Nat
      OBVIOUS
    <3> QED  BY <1>0, <2>3, <3>1
  <2>7. SendsAt(r, 0) /\ \A s, j \in Nat : SendsAt(s, j) => s = r /\ j = 0
    BY <2>1, <2>6 DEF SendsAt
  <2>8. 0 < EncryptedLen(sealed[r]) /\ 0 + 1 = 1
    BY <1>0
  <2>9. EncryptedLen(Latest)' = EncryptedLen(sealed[r])
    BY <2>1, <2>3, <2>6 DEF Latest, EncryptedLen
  <2>10. SendsAt(r, 1)'
    BY <2>1, <2>3, <2>6, <2>8, <2>9 DEF SendsAt
  <2>11. PICK b \in Bytes : b = OriginalByte(r, 0) /\ stream' = Append(stream, b)
    BY <2>4, <2>6
  <2>12. /\ 0 \in Nat /\ 0 <= EncryptedLen(sealed[r])
         /\ IF 0 < EncryptedLen(sealed[r]) THEN SendsAt(r, 0 + 1)' ELSE SendsAt(r + 1, 0)'
    BY <1>0, <2>8, <2>10
  <2> QED  BY <2>1, <2>5, <2>7, <2>11, <2>12, LayoutPut
<1>4. CASE SendByte
  <2>1. /\ sender = "fragment" /\ sender' = "fragment" /\ current < EncryptedLen(Latest)
        /\ Put(FragmentByte(Latest, current + 1)) /\ current' = current + 1
        /\ UNCHANGED <<sealed, receiver, header, fragment, delivered, garbled>>
    BY <1>4 DEF SendByte, receiving
  <2>2. Aligned /\ receiver \notin ReceiverStopped
    BY <2>1 DEF Aligned, Expected, EncryptedLen, ReceiverStopped
  <2>3. Len(sealed) \in DOMAIN sealed /\ Latest = sealed[Len(sealed)] /\ Latest \in Records
    BY <2>1, LatestPlace, LatestType DEF RecordInv
  <2>4. PICK r \in DOMAIN sealed, i \in Nat : r = Len(sealed) /\ i = current + 1 /\ i # 0
    <3>1. ASSUME NEW n \in Nat PROVE n + 1 \in Nat /\ n + 1 # 0
      OBVIOUS
    <3> QED  BY <1>0, <2>3, <3>1
  <2>5. r \in Nat /\ EncryptedLen(sealed[r]) \in Nat /\ i <= EncryptedLen(sealed[r])
    BY <1>0, <2>1, <2>3, <2>4
  <2>6. PICK b \in Bytes : b = OriginalByte(r, i) /\ stream' = Append(stream, b)
    BY <2>1, <2>2, <2>3, <2>4, ByteTypes DEF OriginalByte, Put
  <2>7. PICK rec, at \in [1..(Len(stream) + 1) -> Nat] : Layout(rec, at)
    BY <1>1, <2>2
  <2>8. SendsAt(r, i) /\ \A s, j \in Nat : SendsAt(s, j) => s = r /\ j = i
    BY <2>1, <2>4 DEF SendsAt
  <2>9. EncryptedLen(Latest)' = EncryptedLen(sealed[r])
    BY <2>1, <2>3, <2>4 DEF Latest, EncryptedLen
  <2>10. IF i < EncryptedLen(sealed[r]) THEN SendsAt(r, i + 1)' ELSE SendsAt(r + 1, 0)'
    <3>1. CASE i < EncryptedLen(sealed[r])
      <4>1. SendsAt(r, i + 1)'
        BY <2>1, <2>4, <2>9, <3>1 DEF SendsAt
      <4> QED  BY <3>1, <4>1
    <3>2. CASE ~(i < EncryptedLen(sealed[r]))
      <4>1. SendsAt(r + 1, 0)'
        BY <2>1, <2>4, <2>9, <3>2 DEF SendsAt
      <4> QED  BY <3>2, <4>1
    <3> QED  BY <3>1, <3>2
  <2> QED  BY <2>1, <2>5, <2>6, <2>7, <2>8, <2>10, LayoutPut
<1>5. CASE SendReturns
  <2>1. /\ sender = "fragment" /\ sender' = "ready" /\ current = EncryptedLen(Latest)
        /\ UNCHANGED <<sealed, stream, receiver, header, fragment, delivered, garbled>>
    BY <1>5 DEF SendReturns, receiving
  <2>2. Aligned
    BY <2>1 DEF Aligned, Expected, EncryptedLen
  <2>3. \A r, i \in Nat : SendsAt(r, i) => SendsAt(r, i)'
    <3>1. ~(current < EncryptedLen(Latest))
      BY <1>0, <2>1
    <3> QED  BY <2>1, <3>1 DEF SendsAt
  <2> QED  BY <2>1, <2>2, <2>3, LayoutStays
<1>6. CASE SenderStops
  <2>1. /\ sender' \in SenderStopped
        /\ UNCHANGED <<sealed, stream, receiver, header, fragment, delivered, garbled>>
    BY <1>6 DEF SenderStops, receiving
  <2>2. Aligned
    BY <2>1 DEF Aligned, Expected, EncryptedLen
  <2>3. \A r, i \in Nat : SendsAt(r, i) => SendsAt(r, i)'
    BY <2>1 DEF SendsAt, SenderStopped
  <2> QED  BY <2>1, <2>2, <2>3, LayoutStays
<1>7. CASE RecvHeader
  <2>1. /\ receiver = "header" /\ receiver' = "fragment" /\ stream # <<>>
        /\ header' = Head(stream) /\ stream' = Tail(stream)
        /\ UNCHANGED <<sending, fragment, delivered, garbled>>
    BY <1>7 DEF RecvHeader
  <2>2. PICK rec, at \in [1..(Len(stream) + 1) -> Nat] : Layout(rec, at)
    BY <1>1, <2>1 DEF Aligned
  <2>3. rec[1] = Expected /\ at[1] = 0
    BY <2>1, <2>2 DEF Layout, ReadsAt
  <2>4. 1 \in 1..Len(stream) /\ 1 + 1 = 2
    BY <1>0, <2>1
  <2>5. Expected \in DOMAIN sealed /\ rec[2] = Expected /\ at[2] = 1
    BY <1>0, <2>2, <2>3, <2>4 DEF Layout, Consecutive
  <2>6. Len(fragment) = 0
    BY <2>1 DEF LayoutInv, ReadInv
  <2>7. ReadsAt(rec[2], at[2])'
    BY <1>0, <2>1, <2>5, <2>6 DEF ReadsAt, Expected, EncryptedLen, sending
  <2> QED  BY <2>1, <2>2, <2>7, LayoutTake
<1>8. CASE RecvByte
  <2>1. /\ receiver = "fragment" /\ receiver' = "fragment" /\ stream # <<>>
        /\ Len(fragment) < header.length
        /\ fragment' = Append(fragment, Head(stream)) /\ stream' = Tail(stream)
        /\ UNCHANGED <<sending, header, delivered, garbled>>
    BY <1>8 DEF RecvByte, Readable
  <2>2. Aligned
    BY <2>1 DEF Aligned, Expected, EncryptedLen, sending
  <2>3. PICK rec, at \in [1..(Len(stream) + 1) -> Nat] : Layout(rec, at)
    BY <1>1, <2>2
  <2>4. /\ Expected \in DOMAIN sealed /\ Len(fragment) < EncryptedLen(sealed[Expected])
    BY <2>1, <2>2 DEF LayoutInv, ReadInv, Aligned, Header
  <2>5. rec[1] = Expected /\ at[1] = Len(fragment) + 1
    BY <2>1, <2>3, <2>4 DEF Layout, ReadsAt
  <2>6. 1 \in 1..Len(stream) /\ 1 + 1 = 2
    BY <1>0, <2>1
  <2>7. IF at[1] < EncryptedLen(sealed[Expected])
        THEN rec[2] = Expected /\ at[2] = at[1] + 1 ELSE rec[2] = Expected + 1 /\ at[2] = 0
    BY <2>3, <2>5, <2>6 DEF Layout, Consecutive
  <2>8. Len(fragment') = Len(fragment) + 1
    BY <1>0, <2>1
  <2>9. EncryptedLen(sealed[Expected])' = EncryptedLen(sealed[Expected]) /\ Expected' = Expected
    BY <2>1 DEF EncryptedLen, Expected, sending
  <2>10. ReadsAt(rec[2], at[2])'
    BY <1>0, <2>1, <2>4, <2>5, <2>7, <2>8, <2>9 DEF ReadsAt
  <2> QED  BY <2>1, <2>3, <2>10, LayoutTake
<1>9. CASE Deliver
  <2>1. /\ Aligned /\ Len(fragment) = EncryptedLen(sealed[Expected])
        /\ Len(delivered') = Len(delivered) + 1
    BY <1>9, DeliversAligned
  <2>2. PICK rec, at \in [1..(Len(stream) + 1) -> Nat] : Layout(rec, at)
    BY <1>1, <2>1
  <2>3. /\ receiver = "fragment" /\ receiver' = "header"
        /\ UNCHANGED <<sending, stream, garbled>>
    BY <1>9 DEF Deliver
  <2>4. rec[1] = Expected + 1 /\ at[1] = 0
    BY <1>0, <2>1, <2>2, <2>3 DEF Layout, ReadsAt
  <2>5. ReadsAt(rec[1], at[1])'
    BY <1>0, <2>1, <2>3, <2>4 DEF ReadsAt, Expected
  <2>6. /\ Consecutive(Len(stream), rec, at)'
        /\ SendsAt(rec[Len(stream) + 1], at[Len(stream) + 1])'
        /\ (garbled = 0 => \A k \in DOMAIN stream : stream[k] = OriginalByte(rec[k], at[k]))'
    BY <2>2, <2>3 DEF Layout, Consecutive, SendsAt, OriginalByte, EncryptedLen, Latest, sending
  <2>7. Layout(rec, at)'
    BY <2>5, <2>6 DEF Layout
  <2> QED  BY <2>2, <2>3, <2>7
<1>10. CASE Garble
  <2>1. /\ UNCHANGED <<sending, receiver, header, fragment, delivered>>
        /\ garbled' = garbled + 1
    BY <1>10 DEF Garble, receiving
  <2>2. Len(stream') = Len(stream)
    BY <1>0, <1>10, GarbledStream DEF RecordInv
  <2>3. Aligned
    BY <2>1 DEF Aligned, Expected, EncryptedLen, sending
  <2>4. PICK rec, at \in [1..(Len(stream) + 1) -> Nat] : Layout(rec, at)
    BY <1>1, <2>3
  <2>5. garbled' # 0
    BY <1>0, <2>1
  <2>6. Layout(rec, at)'
    BY <2>1, <2>2, <2>4, <2>5
       DEF Layout, Consecutive, ReadsAt, SendsAt, Expected, EncryptedLen, Latest, sending
  <2> QED  BY <2>2, <2>4, <2>6
<1>11. ASSUME UNCHANGED vars
       PROVE  (\E rec, at \in [1..(Len(stream) + 1) -> Nat] : Layout(rec, at))'
  <2>1. UNCHANGED <<sender, current, sealed, stream, receiver, header, fragment, delivered, garbled>>
    BY <1>11 DEF vars, sending, receiving
  <2>2. Aligned
    BY <2>1 DEF Aligned, Expected, EncryptedLen
  <2>3. \A r, i \in Nat : SendsAt(r, i) => SendsAt(r, i)'
    BY <2>1 DEF SendsAt, EncryptedLen, Latest
  <2> QED  BY <2>1, <2>2, <2>3, LayoutStays
<1>12. ASSUME receiver' \in ReceiverStopped PROVE FALSE
  BY <1>12 DEF ReceiverStopped, Aligned
<1> QED
  BY <1>2, <1>3, <1>4, <1>5, <1>6, <1>7, <1>8, <1>9, <1>10, <1>11, <1>12
     DEF Next, SenderStep, ReceiverStep, RejectHeader, RejectTag, RecvEnds, ReceiverFails,
         ReceiverStopsAs, ReceiverStopped, BothStopped

\* Until a byte is altered, the fragment is what the sender cut, and what is
\* refused is too large.
LEMMA ReadInvStep ==
    ASSUME RecordInv, LayoutInv, [Next]_vars
    PROVE  ReadInv'
<1>0. /\ sealed \in Seq(Records) /\ stream \in Seq(Bytes) /\ fragment \in Seq(Bytes)
      /\ Len(sealed) \in Nat /\ Len(stream) \in Nat /\ Len(fragment) \in Nat
      /\ Len(delivered) \in Nat /\ Expected \in Nat /\ garbled \in Nat
      /\ Len(delivered) <= Len(sealed)
      /\ \A i \in DOMAIN sealed : EncryptedLen(sealed[i]) \in Nat /\ EncryptedLen(sealed[i]) > 0
  BY Sizes DEF RecordInv, TypeOK
<1>2. ReadInv
  BY DEF LayoutInv
<1>3. ASSUME NEW text \in Texts, NEW length \in 1..MaxPlaintext, Seal(text, length)
      PROVE  ReadInv'
  <2>1. PICK r \in Records : sealed' = Append(sealed, r)
    BY <1>3, SealedType DEF Seal, RecordInv
  <2>2. \A i \in DOMAIN sealed : i \in DOMAIN sealed' /\ sealed'[i] = sealed[i]
    BY <1>0, <2>1
  <2>3. UNCHANGED <<receiver, header, fragment, delivered, garbled>>
    BY <1>3 DEF Seal, receiving
  <2> QED
    BY <1>2, <2>2, <2>3 DEF Aligned, Expected, OriginalByte, EncryptedLen, ReadInv, RejectsOnlyAltered
<1>4. ASSUME UNCHANGED <<sealed, receiver, header, fragment, delivered, garbled>>
      PROVE  ReadInv'
  BY <1>2, <1>4 DEF Aligned, Expected, OriginalByte, EncryptedLen, ReadInv, RejectsOnlyAltered
<1>5. CASE RecvHeader
  <2>1. /\ receiver = "header" /\ receiver' = "fragment" /\ stream # <<>>
        /\ header' = Head(stream)
        /\ UNCHANGED <<sending, fragment, delivered, garbled>>
    BY <1>5 DEF RecvHeader
  <2>2. PICK rec, at \in [1..(Len(stream) + 1) -> Nat] : Layout(rec, at)
    BY <2>1 DEF LayoutInv, Aligned
  <2>3. 1 \in 1..Len(stream) /\ 1 \in DOMAIN stream /\ Head(stream) = stream[1]
    BY <1>0, <2>1
  <2>4. rec[1] = Expected /\ at[1] = 0 /\ Expected \in DOMAIN sealed
    BY <2>1, <2>2, <2>3 DEF Layout, ReadsAt, Consecutive
  <2>5. garbled = 0 => header' = Header(EncryptedLen(sealed[Expected]))
    BY <2>1, <2>2, <2>3, <2>4 DEF Layout, OriginalByte
  <2>6. \A k \in DOMAIN fragment : FALSE
    BY <1>0, <1>2, <2>1 DEF ReadInv
  <2> QED
    BY <2>1, <2>4, <2>5, <2>6 DEF Aligned, Expected, EncryptedLen, ReadInv, RejectsOnlyAltered, sending
<1>6. CASE RecvByte
  <2>1. /\ receiver = "fragment" /\ receiver' = "fragment" /\ stream # <<>>
        /\ Len(fragment) < header.length
        /\ fragment' = Append(fragment, Head(stream))
        /\ UNCHANGED <<sending, header, delivered, garbled>>
    BY <1>6 DEF RecvByte, Readable
  <2>2. Expected \in DOMAIN sealed
    BY <1>2, <2>1 DEF ReadInv
  <2>3. 1 \in 1..Len(stream) /\ 1 \in DOMAIN stream /\ Head(stream) = stream[1] /\ Head(stream) \in Bytes
    BY <1>0, <2>1
  <2>4. ASSUME garbled = 0
        PROVE  \A k \in DOMAIN fragment' : fragment'[k] = OriginalByte(Expected, k)
    <3>1. Aligned
      BY <1>2, <2>1, <2>4 DEF ReadInv
    <3>2. PICK rec, at \in [1..(Len(stream) + 1) -> Nat] : Layout(rec, at)
      BY <3>1 DEF LayoutInv
    <3>3. Len(fragment) < EncryptedLen(sealed[Expected])
      BY <2>1, <3>1 DEF Aligned, Header
    <3>4. rec[1] = Expected /\ at[1] = Len(fragment) + 1
      BY <2>1, <3>2, <3>3 DEF Layout, ReadsAt
    <3>5. Head(stream) = OriginalByte(Expected, Len(fragment) + 1)
      BY <2>3, <2>4, <3>2, <3>4 DEF Layout
    <3>6. \A k \in DOMAIN fragment' :
             \/ k \in DOMAIN fragment /\ fragment'[k] = fragment[k]
             \/ k = Len(fragment) + 1 /\ fragment'[k] = Head(stream)
      BY <1>0, <2>1, <2>3, AppendByte
    <3> QED  BY <1>2, <2>1, <2>4, <3>5, <3>6 DEF ReadInv
  <2>5. Expected' = Expected /\ garbled' = garbled /\ (Aligned => Aligned')
    BY <2>1 DEF Expected, Aligned, EncryptedLen, sending
  <2>6. ASSUME garbled = 0, NEW k \in DOMAIN fragment'
        PROVE  fragment'[k] = OriginalByte(Expected, k)'
    BY <2>1, <2>4, <2>6 DEF Expected, OriginalByte, EncryptedLen, sending
  <2> QED
    BY <1>2, <2>1, <2>2, <2>5, <2>6 DEF ReadInv, RejectsOnlyAltered, sending
<1>7. CASE Deliver
  <2>1. receiver' = "header" /\ fragment' = <<>>
    BY <1>7 DEF Deliver
  <2> QED  BY <2>1 DEF ReadInv, RejectsOnlyAltered
<1>8. CASE RejectHeader
  <2>1. /\ receiver = "header" /\ receiver' = "rejected" /\ stream # <<>>
        /\ ~HeaderAccepted(Head(stream))
        /\ UNCHANGED <<sending, garbled>>
    BY <1>8 DEF RejectHeader, ReceiverStopsAs
  <2>2. PICK rec, at \in [1..(Len(stream) + 1) -> Nat] : Layout(rec, at)
    BY <2>1 DEF LayoutInv, Aligned
  <2>3. 1 \in 1..Len(stream) /\ 1 \in DOMAIN stream /\ Head(stream) = stream[1]
    BY <1>0, <2>1
  <2>4. rec[1] = Expected /\ at[1] = 0 /\ Expected \in DOMAIN sealed
    BY <2>1, <2>2, <2>3 DEF Layout, ReadsAt, Consecutive
  <2>5. ASSUME garbled = 0
        PROVE  sealed[Expected].length > Capacity
    <3>1. Head(stream) = Header(EncryptedLen(sealed[Expected]))
      BY <2>2, <2>3, <2>4, <2>5 DEF Layout, OriginalByte
    <3>2. sealed[Expected] \in Records
      BY <1>0, <2>4
    <3>3. sealed[Expected].length \in 1..MaxPlaintext
      BY <3>2 DEF Records
    <3>4. ~HeaderAccepted(Header(sealed[Expected].length + TagLen))
      BY <2>1, <3>1 DEF EncryptedLen
    <3>5. ~(/\ sealed[Expected].length + TagLen > TagLen
            /\ (sealed[Expected].length + TagLen) - TagLen <= MaxPlaintext
            /\ (sealed[Expected].length + TagLen) - TagLen <= Capacity)
      BY <3>4 DEF HeaderAccepted, Header
    <3>6. ASSUME NEW l \in 1..MaxPlaintext,
                 ~(l + TagLen > TagLen /\ (l + TagLen) - TagLen <= MaxPlaintext /\ (l + TagLen) - TagLen <= Capacity)
          PROVE  l > Capacity
      BY <3>6, SizeAssumption
    <3> QED  BY <3>3, <3>5, <3>6
  <2>6. garbled > 0 \/ sealed[Expected].length > Capacity
    BY <1>0, <2>5
  <2> QED  BY <2>1, <2>4, <2>6 DEF ReadInv, RejectsOnlyAltered, sending
<1>9. CASE RejectTag
  <2>1. /\ receiver = "fragment" /\ receiver' = "rejected" /\ Len(fragment) = header.length
        /\ ~TagMatches(Nonce(recvSeq))
        /\ UNCHANGED <<sending, garbled>>
    BY <1>9 DEF RejectTag, ReceiverStopsAs
  <2>2. garbled # 0
    <3> SUFFICES ASSUME garbled = 0 PROVE FALSE
      OBVIOUS
    <3>1. Expected \in DOMAIN sealed /\ header = Header(EncryptedLen(sealed[Expected]))
      BY <1>2, <2>1 DEF ReadInv, Aligned
    <3>2. Len(fragment) = EncryptedLen(sealed[Expected])
      BY <2>1, <3>1 DEF Header
    <3>3. \A k \in DOMAIN fragment : fragment[k] = FragmentByte(sealed[Expected], k)
      BY <1>0, <1>2, <2>1 DEF ReadInv, OriginalByte
    <3>4. fragment = Fragment(sealed[Expected])
      BY <1>0, <3>2, <3>3 DEF Fragment
    <3>5. Len(delivered) < Modulus /\ Len(delivered) + 1 <= Len(sealed)
      BY <1>0, <3>1, RecordsAssumption DEF Expected, RecordInv, SenderInv
    <3>6. recvSeq = Len(delivered)
      BY <1>0, <3>5, SmallModulo DEF RecordInv, ReceiverInv
    <3>7. sealed[Expected].nonce = Nonce(Expected - 1)
      BY <3>1 DEF RecordInv, SenderInv
    <3>8. Expected - 1 = recvSeq
      BY <1>0, <3>6 DEF Expected
    <3> QED  BY <2>1, <3>1, <3>4, <3>7, <3>8 DEF TagMatches
  <2> QED  BY <1>0, <2>1, <2>2 DEF ReadInv, RejectsOnlyAltered
<1>10. ASSUME ReceiverStopsAs("disconnected") \/ ReceiverStopsAs("failed")
       PROVE  ReadInv'
  BY <1>10 DEF ReceiverStopsAs, ReadInv, RejectsOnlyAltered
<1>11. CASE Garble
  <2>1. UNCHANGED <<sending, receiver, header, fragment, delivered>> /\ garbled' = garbled + 1
    BY <1>11 DEF Garble, receiving
  <2>2. garbled' > 0
    BY <1>0, <2>1
  <2> QED  BY <1>2, <2>1, <2>2 DEF ReadInv, RejectsOnlyAltered, Expected, sending
<1> QED
  BY <1>3, <1>4, <1>5, <1>6, <1>7, <1>8, <1>9, <1>10, <1>11
     DEF Next, vars, sending, receiving, SenderStep, ReceiverStep, SendHeader, SendByte, SendReturns,
         SenderStops, RecvEnds, ReceiverFails, BothStopped

LEMMA LayoutInvStep ==
    ASSUME RecordInv, LayoutInv, [Next]_vars
    PROVE  LayoutInv'
<1>1. (Aligned => \E rec, at \in [1..(Len(stream) + 1) -> Nat] : Layout(rec, at))'
  BY LayoutStep
<1> QED  BY <1>1, ReadInvStep DEF LayoutInv

LEMMA LayoutInit == Init => LayoutInv
<1> SUFFICES ASSUME Init PROVE LayoutInv
  OBVIOUS
<1> DEFINE rec == [k \in 1..1 |-> 1]
           at  == [k \in 1..1 |-> 0]
<1>1. /\ sender = "ready" /\ stream = <<>> /\ receiver = "header" /\ fragment = <<>>
      /\ sealed = <<>> /\ delivered = <<>>
  BY DEF Init
<1>2. Len(stream) = 0 /\ Len(sealed) = 0 /\ Len(delivered) = 0 /\ Len(fragment) = 0
  BY <1>1
<1>3. rec \in [1..(Len(stream) + 1) -> Nat] /\ at \in [1..(Len(stream) + 1) -> Nat]
  BY <1>2
<1>4. \A k \in DOMAIN stream : FALSE
  BY <1>1
<1>5. Consecutive(Len(stream), rec, at)
  BY <1>2 DEF Consecutive
<1>6. rec[1] = 1 /\ at[1] = 0
  OBVIOUS
<1> HIDE DEF rec, at
<1>7. Layout(rec, at)
  BY <1>1, <1>2, <1>4, <1>5, <1>6 DEF Layout, ReadsAt, SendsAt, Expected
<1> QED  BY <1>1, <1>2, <1>3, <1>7 DEF LayoutInv, ReadInv, RejectsOnlyAltered

\* The receiver keeps the boundary between two records, in every behaviour.
THEOREM LayoutInvariance == Spec => []LayoutInv
<1>1. Init => LayoutInv
  BY LayoutInit
<1>2. RecordInv /\ LayoutInv /\ [Next]_vars => LayoutInv'
  BY LayoutInvStep
<1> QED  BY <1>1, <1>2, RecordInvariance, PTL DEF Spec

\* Between two calls, with nothing on its way, both ends of a direction hold
\* the same sequence number.
THEOREM InStepHolds == Spec => []InStep
<1>1. RecordInv /\ LayoutInv => InStep
  <2> SUFFICES ASSUME RecordInv, LayoutInv, sender = "ready", stream = <<>>, receiver = "header"
               PROVE  sendSeq = recvSeq
    BY DEF InStep
  <2>1. PICK rec, at \in [1..(Len(stream) + 1) -> Nat] : Layout(rec, at)
    BY DEF LayoutInv, Aligned
  <2>2. Len(stream) + 1 = 1
    OBVIOUS
  <2>3. rec[1] = Len(delivered) + 1 /\ rec[1] = Len(sealed) + 1
    BY <2>1, <2>2 DEF Layout, ReadsAt, SendsAt, Expected
  <2>4. Len(delivered) = Len(sealed)
    BY <2>3, Sizes
  <2> QED  BY <2>4 DEF RecordInv, SenderInv, ReceiverInv
<1> QED  BY <1>1, RecordInvariance, LayoutInvariance, PTL

\* recv_encrypted_record refuses nothing but altered bytes and records larger
\* than its buffer.
THEOREM RejectsOnlyAlteredHolds == Spec => []RejectsOnlyAltered
<1>1. LayoutInv => RejectsOnlyAltered
  BY DEF LayoutInv, ReadInv
<1> QED  BY <1>1, LayoutInvariance, PTL
=============================================================================
