--------------------------- MODULE RecordInvariant ---------------------------
(***************************************************************************)
(* The inductive invariant of RecordLayer on which the uniqueness of the   *)
(* nonces and the order of the records rest.  It follows every unaltered   *)
(* byte from the record it was cut from to the receiver.                   *)
(***************************************************************************)
EXTENDS RecordLayer

\* The number a record was sealed under.
SequenceOf(r) == r.nonce.xor

Unaltered(b) == b.part = "fragment"

\* The order in which the sender cuts records into bytes.
Precedes(b, c) ==
    Unaltered(b) /\ Unaltered(c) =>
        \/ SequenceOf(b.of) < SequenceOf(c.of)
        \/ SequenceOf(b.of) = SequenceOf(c.of) /\ b.at < c.at

\* The calls of send_encrypted_record: one record per number, and the number
\* moves on exactly when a call has handed over its last byte and returns.
SenderInv ==
    /\ Len(sealed) <= MaxRecords
    /\ \A i \in DOMAIN sealed : sealed[i].nonce = Nonce(i - 1)
    /\ Len(sent) <= Len(sealed)
    /\ \A i \in DOMAIN sent : sent[i] = sealed[i]
    /\ sender = "ready" => Len(sent) = Len(sealed) /\ current = 0 /\ sendSeq = Len(sealed) % Modulus
    /\ sender = "header" => current = 0
    /\ sender \in {"header", "fragment"} =>
          /\ Len(sealed) > 0
          /\ sendSeq = Len(sealed) - 1
          /\ current <= EncryptedLen(Latest)
          /\ Len(sent) = IF current = EncryptedLen(Latest) THEN Len(sealed) ELSE Len(sealed) - 1

\* The receiver's number counts what it has accepted, which is what was sent first.
ReceiverInv ==
    /\ recvSeq = Len(delivered) % Modulus
    /\ Len(delivered) <= Len(sent)
    /\ \A i \in DOMAIN delivered : delivered[i] = sent[i]

\* A byte on its way belongs to a record not yet accepted, is not beyond what
\* the sender has cut, and if it is the last of its record that record was sent.
InFlight(b) ==
    Unaltered(b) =>
        /\ SequenceOf(b.of) + 1 \in DOMAIN sealed
        /\ b.of = sealed[SequenceOf(b.of) + 1]
        /\ SequenceOf(b.of) >= Len(delivered)
        /\ b.at <= EncryptedLen(b.of)
        /\ b.at = EncryptedLen(b.of) => SequenceOf(b.of) < Len(sent)
        /\ sender = "header" => SequenceOf(b.of) < Len(sealed) - 1
        /\ sender = "fragment" => SequenceOf(b.of) < Len(sealed) - 1 \/ b.at <= current

BytesInv ==
    /\ \A k \in DOMAIN stream : InFlight(stream[k])
    /\ \A k \in DOMAIN fragment : InFlight(fragment[k])
    /\ \A j, k \in DOMAIN stream : j < k => Precedes(stream[j], stream[k])
    /\ \A j \in DOMAIN fragment, k \in DOMAIN stream : Precedes(fragment[j], stream[k])

\* Nothing here speaks of headers or of altered bytes: what is delivered stays
\* right even where the receiver has lost the boundary between two records.
RecordInv == TypeOK /\ SenderInv /\ ReceiverInv /\ BytesInv

-----------------------------------------------------------------------------
(* Where the receiver stands in what the sender cut *)

\* A place is a record, and in it the header (0) or a byte of the fragment.
Expected == Len(delivered) + 1

OriginalByte(r, i) == IF i = 0 THEN Header(EncryptedLen(sealed[r])) ELSE FragmentByte(sealed[r], i)

\* The receiver has not lost the boundary: it stands between two records, or
\* has read the header of the next as it was sent.
Aligned ==
    \/ receiver = "header"
    \/ receiver = "fragment" /\ header = Header(EncryptedLen(sealed[Expected]))

\* n places that follow each other, and the one after them.
Consecutive(n, rec, at) ==
    \A k \in 1..n :
        /\ rec[k] \in DOMAIN sealed
        /\ at[k] <= EncryptedLen(sealed[rec[k]])
        /\ IF at[k] < EncryptedLen(sealed[rec[k]])
           THEN rec[k + 1] = rec[k] /\ at[k + 1] = at[k] + 1
           ELSE rec[k + 1] = rec[k] + 1 /\ at[k + 1] = 0

\* The place of the byte the receiver reads next.
ReadsAt(r, i) ==
    IF receiver = "fragment"
    THEN IF Len(fragment) < EncryptedLen(sealed[Expected])
         THEN r = Expected /\ i = Len(fragment) + 1
         ELSE r = Expected + 1 /\ i = 0
    ELSE r = Expected /\ i = 0

\* The place of the byte the sender sends next.
SendsAt(r, i) ==
    /\ sender = "ready" => r = Len(sealed) + 1 /\ i = 0
    /\ sender = "header" => r = Len(sealed) /\ i = 0
    /\ sender = "fragment" =>
          IF current < EncryptedLen(Latest)
          THEN r = Len(sealed) /\ i = current + 1
          ELSE r = Len(sealed) + 1 /\ i = 0

\* The stream is what lies between the two places.
Layout(rec, at) ==
    /\ Consecutive(Len(stream), rec, at)
    /\ ReadsAt(rec[1], at[1])
    /\ SendsAt(rec[Len(stream) + 1], at[Len(stream) + 1])
    /\ garbled = 0 => \A k \in DOMAIN stream : stream[k] = OriginalByte(rec[k], at[k])

\* What the receiver has read, and what that makes it refuse.
ReadInv ==
    /\ receiver = "header" => Len(fragment) = 0
    /\ receiver = "fragment" => Expected \in DOMAIN sealed
    /\ garbled = 0 /\ receiver = "fragment" =>
          /\ Aligned
          /\ \A k \in DOMAIN fragment : fragment[k] = OriginalByte(Expected, k)
    /\ RejectsOnlyAltered

LayoutInv ==
    /\ Aligned => \E rec, at \in [1..(Len(stream) + 1) -> Nat] : Layout(rec, at)
    /\ ReadInv
==============================================================================
