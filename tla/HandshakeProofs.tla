--------------------------- MODULE HandshakeProofs ---------------------------
(***************************************************************************)
(* The safety properties of Handshake and its refinement of SecureSession. *)
(* Types come first, then the keys (IInv), then what each side has read    *)
(* (SessionInv), then the two key files (SignatureInv).                    *)
(*                                                                         *)
(* TypeOK is not inductive: a step reads the buffers an earlier step       *)
(* filled, and only TypeInv says which buffers are filled at which step.   *)
(* One lemma per action, in the order of Next; the first lemmas are about  *)
(* the sets of messages and the constructors.                              *)
(***************************************************************************)
EXTENDS HandshakeInvariant, TLAPS

LEMMA HelloIsSigned == HelloMsg \subseteq SignedMsg
BY DEF SignedMsg

LEMMA SignedIsConfirmed == SignedMsg \subseteq ConfirmedMsg
BY DEF ConfirmedMsg

LEMMA ConfirmedIsHandshake == ConfirmedMsg \subseteq HandshakeMsg
BY DEF HandshakeMsg

LEMMA HandshakeIsMessage == HandshakeMsg \subseteq Message
BY DEF Message

\* A sequence over a set is a sequence over any larger one.
LEMMA SeqMono ==
    ASSUME NEW S, NEW T, S \subseteq T
    PROVE  Seq(S) \subseteq Seq(T)
<1> SUFFICES ASSUME NEW s \in Seq(S) PROVE s \in Seq(T)
  OBVIOUS
<1>1. s \in [1..Len(s) -> S] /\ Len(s) \in Nat
  OBVIOUS
<1>2. s \in [1..Len(s) -> T]
  BY <1>1
<1> QED BY <1>1, <1>2

LEMMA TranscriptMono ==
    /\ Seq(HelloMsg) \subseteq Seq(SignedMsg)
    /\ Seq(SignedMsg) \subseteq Seq(ConfirmedMsg)
    /\ Seq(ConfirmedMsg) \subseteq Seq(HandshakeMsg)
BY HelloIsSigned, SignedIsConfirmed, ConfirmedIsHandshake, SeqMono

\* The type of a message decides what its body may be.
LEMMA MessageByType ==
    ASSUME NEW msg \in Message
    PROVE  /\ msg = Msg(msg.type, msg.body)
           /\ msg.type = TLS_MSG_CLIENT_HELLO => msg \in HelloMsg /\ msg.body \in KemPublicKeys
           /\ msg.type = TLS_MSG_SERVER_HELLO => msg \in HelloMsg /\ msg.body \in Ciphertexts
           /\ msg.type = TLS_MSG_CERTIFICATE => msg \in HelloMsg /\ msg.body \in SigPublicKeys
           /\ msg.type = TLS_MSG_CERTIFICATE_VERIFY => msg \in SignedMsg
           /\ msg.type = TLS_MSG_FINISHED => msg \in HandshakeMsg
           /\ msg.type = TLS_APPLICATION_DATA => msg.body \in Records \union {Garbled}
<1> USE DEF Msg, TLS_MSG_CLIENT_HELLO, TLS_MSG_SERVER_HELLO, TLS_MSG_CERTIFICATE,
        TLS_MSG_CERTIFICATE_VERIFY, TLS_MSG_FINISHED, TLS_APPLICATION_DATA,
        BAD_HEADER, LONG_HEADER
<1>1. \/ msg \in [type : {TLS_MSG_CLIENT_HELLO}, body : KemPublicKeys]
      \/ msg \in [type : {TLS_MSG_SERVER_HELLO}, body : Ciphertexts]
      \/ msg \in [type : {TLS_MSG_CERTIFICATE}, body : SigPublicKeys]
      \/ msg \in [type : {TLS_MSG_CERTIFICATE_VERIFY}, body : Signatures]
      \/ msg \in HandshakeMsg /\ msg.type = TLS_MSG_FINISHED /\ msg = [type |-> msg.type, body |-> msg.body]
      \/ msg \in [type : {TLS_APPLICATION_DATA}, body : Records \union {Garbled}]
      \/ msg \in [type : {BAD_HEADER, LONG_HEADER}, body : {Garbled}]
  BY DEF Message, HandshakeMsg, ConfirmedMsg, SignedMsg, HelloMsg
<1> QED BY <1>1 DEF HelloMsg, SignedMsg

\* The constructors build values of their types.
LEMMA Constructors ==
    /\ \A pk \in KemPublicKeys :
          /\ Ciphertext(pk) \in Ciphertexts
          /\ Secret(pk) \in Secrets
    /\ \A c \in Clients : KemPublicKey(c) \in KemPublicKeys
    /\ \A c \in Clients, ct \in Ciphertexts : Decaps(c, ct) \in Secrets
    /\ \A p \in KeyPairs : SigPublicKey(p) \in SigPublicKeys
    /\ \A pk \in KemPublicKeys : Msg(TLS_MSG_CLIENT_HELLO, pk) \in HelloMsg
    /\ \A ct \in Ciphertexts : Msg(TLS_MSG_SERVER_HELLO, ct) \in HelloMsg
    /\ \A pk \in SigPublicKeys : Msg(TLS_MSG_CERTIFICATE, pk) \in HelloMsg
<1>1. \A pk \in KemPublicKeys : Ciphertext(pk) \in Ciphertexts /\ Secret(pk) \in Secrets
  BY DEF Ciphertext, Ciphertexts, Secret, Secrets
<1>2. \A c \in Clients : KemPublicKey(c) \in KemPublicKeys
  BY DEF KemPublicKey, KemPublicKeys
<1>3. \A c \in Clients, ct \in Ciphertexts : Decaps(c, ct) \in Secrets
  BY <1>1, <1>2 DEF Decaps, Secrets
<1>4. \A p \in KeyPairs : SigPublicKey(p) \in SigPublicKeys
  BY DEF SigPublicKey, SigPublicKeys
<1>5. /\ \A pk \in KemPublicKeys : Msg(TLS_MSG_CLIENT_HELLO, pk) \in HelloMsg
      /\ \A ct \in Ciphertexts : Msg(TLS_MSG_SERVER_HELLO, ct) \in HelloMsg
      /\ \A pk \in SigPublicKeys : Msg(TLS_MSG_CERTIFICATE, pk) \in HelloMsg
  BY DEF Msg, HelloMsg
<1> QED BY <1>1, <1>2, <1>3, <1>4, <1>5

LEMMA SignatureMsgType ==
    ASSUME NEW p \in KeyPairs, NEW hash \in Seq(HelloMsg)
    PROVE  Msg(TLS_MSG_CERTIFICATE_VERIFY, Signature(p, hash)) \in SignedMsg
BY DEF Msg, Signature, SignedMsg, Signatures

LEMMA ServerFinishedType ==
    ASSUME NEW ss \in Secrets, NEW hash \in Seq(SignedMsg)
    PROVE  Msg(TLS_MSG_FINISHED, VerifyData(ss, TLS_SERVER_FINISHED_LABEL, hash)) \in ConfirmedMsg
BY DEF Msg, VerifyData, ConfirmedMsg, MacsOver

LEMMA ClientFinishedType ==
    ASSUME NEW ss \in Secrets, NEW hash \in Seq(ConfirmedMsg)
    PROVE  Msg(TLS_MSG_FINISHED, VerifyData(ss, TLS_CLIENT_FINISHED_LABEL, hash)) \in HandshakeMsg
BY DEF Msg, VerifyData, HandshakeMsg, MacsOver

LEMMA KeysAfterType ==
    ASSUME NEW ss \in Secrets, NEW hash \in Seq(ConfirmedMsg)
    PROVE  KeysAfter(ss, hash) \in KeySets
<1> DEFINE msg == Msg(TLS_MSG_FINISHED, VerifyData(ss, TLS_CLIENT_FINISHED_LABEL, hash))
<1>1. msg \in HandshakeMsg
  BY ClientFinishedType
<1>2. hash \in Seq(HandshakeMsg)
  BY TranscriptMono
<1>3. Append(hash, msg) \in Seq(HandshakeMsg)
  BY <1>1, <1>2
<1> QED BY <1>3 DEF KeysAfter, ApplicationKeys, KeySets

LEMMA RecordStateType ==
    ASSUME NEW keys \in KeySets, NEW sender \in {"client", "server"}
    PROVE  RecordState(keys, sender) \in RecordStates
BY DEF RecordState, RecordStates

LEMMA NextRecordType ==
    ASSUME NEW state \in RecordStates
    PROVE  NextRecord(state) \in RecordStates
BY DEF NextRecord, RecordStates

LEMMA RecordMsgType ==
    ASSUME NEW state \in RecordStates, NEW text \in Texts
    PROVE  Msg(TLS_APPLICATION_DATA, Seal(state, text)) \in Message
BY DEF Msg, Seal, Message, Records

\* Sending and receiving keep the streams and the hang-up states typed.
LEMMA ServerSendsType ==
    ASSUME TypeOK, conn \in Clients, NEW msg \in Message, ServerSends(msg)
    PROVE  /\ c2s' \in [Clients -> Seq(Message)]
           /\ s2c' \in [Clients -> Seq(Message)]
           /\ sHup' \in [Clients -> Hups]
           /\ cHup' \in [Clients -> Hups]
BY DEF TypeOK, ServerSends, Delivered, AfterSend, Hups

LEMMA ServerReceivesType ==
    ASSUME TypeOK, conn \in Clients, NEW step, ServerReceives(step)
    PROVE  /\ Head(c2s[conn]) \in Message
           /\ c2s' \in [Clients -> Seq(Message)]
           /\ s2c' \in [Clients -> Seq(Message)]
           /\ sHup' \in [Clients -> Hups]
           /\ cHup' \in [Clients -> Hups]
BY DEF TypeOK, ServerReceives

LEMMA SendServerHelloType ==
    ASSUME TypeInv, SendServerHello PROVE TypeInv'
<1> USE DEF SendServerHello
<1> DEFINE msg == Msg(TLS_MSG_SERVER_HELLO, Ciphertext(srv.kem_public_key))
<1>1. conn \in Clients /\ srv.kem_public_key \in KemPublicKeys /\ srv.transcript \in Seq(HelloMsg)
  BY DEF TypeInv, ServerStage, ServerLive, ServerSending, HelloSteps
<1>2. msg \in HelloMsg /\ Secret(srv.kem_public_key) \in Secrets
  BY <1>1, Constructors
<1>3. msg \in HandshakeMsg /\ msg \in Message
  BY <1>2, HelloIsSigned, SignedIsConfirmed, ConfirmedIsHandshake, HandshakeIsMessage
<1>4. Append(srv.transcript, msg) \in Seq(HelloMsg)
  BY <1>1, <1>2
<1>5. Append(srv.transcript, msg) \in Seq(HandshakeMsg)
  BY <1>4, TranscriptMono
<1>6. /\ c2s' \in [Clients -> Seq(Message)] /\ s2c' \in [Clients -> Seq(Message)]
      /\ sHup' \in [Clients -> Hups] /\ cHup' \in [Clients -> Hups]
  BY <1>1, <1>3, ServerSendsType DEF TypeInv
<1>7. srv' \in ServerMemory /\ srv'.transcript = Append(srv.transcript, msg)
      /\ srv'.shared_secret \in Secrets
      /\ srv'.sig_secret_key = srv.sig_secret_key /\ srv'.sig_public_key = srv.sig_public_key
  BY <1>2, <1>5 DEF TypeInv, TypeOK, ServerMemory
<1>8. TypeOK'
  BY <1>6, <1>7 DEF TypeInv, TypeOK, session, Steps, ServerSending
<1>9. ServerStage'
  BY <1>1, <1>4, <1>7 DEF TypeInv, ServerStage, ServerLive, ServerSending, ServerReceiving, HelloSteps, Ended
<1>10. \A c \in Clients : ClientStage(c)'
  BY DEF TypeInv, ClientStage
<1> QED BY <1>8, <1>9, <1>10 DEF TypeInv

LEMMA ServerStartType == ASSUME TypeInv, ServerStart PROVE TypeInv'
<1> USE DEF ServerStart
<1>1. keyfiles.secret \in KeyPairs /\ SigPublicKey(keyfiles.public) \in SigPublicKeys
  BY Constructors DEF TypeInv, TypeOK
<1>2. /\ srv' \in ServerMemory /\ srv'.transcript = srv.transcript
      /\ srv'.sig_secret_key = keyfiles.secret
      /\ srv'.sig_public_key = SigPublicKey(keyfiles.public)
  BY <1>1 DEF TypeInv, TypeOK, ServerMemory
<1>3. TypeOK'
  BY <1>2 DEF TypeInv, TypeOK, session, network
<1>4. ServerStage'
  BY <1>2 DEF TypeInv, ServerStage, ServerLive, ServerSending, ServerReceiving, HelloSteps
<1>5. \A c \in Clients : ClientStage(c)'
  BY DEF TypeInv, ClientStage
<1> QED BY <1>3, <1>4, <1>5 DEF TypeInv

LEMMA AcceptType == ASSUME TypeInv, Accept PROVE TypeInv'
<1> USE DEF Accept
<1>1. /\ conn' \in Clients
      /\ backlog' \in Seq(Clients)
      /\ Len(backlog') <= Backlog
  BY BacklogAssumption DEF TypeInv, TypeOK
<1>2. TypeOK'
  BY <1>1 DEF TypeInv, TypeOK, session, network, Steps, ServerReceiving
<1>3. ServerStage'
  BY <1>1 DEF TypeInv, ServerStage, ServerLive, ServerSending, ServerReceiving, HelloSteps
<1>4. \A c \in Clients : ClientStage(c)'
  BY DEF TypeInv, ClientStage
<1> QED BY <1>2, <1>3, <1>4 DEF TypeInv

LEMMA RecvClientHelloType == ASSUME TypeInv, RecvClientHello PROVE TypeInv'
<1> USE DEF RecvClientHello
<1> DEFINE msg == Head(c2s[conn])
<1>1. spc = "client_hello" /\ conn \in Clients /\ srv.transcript \in Seq(HelloMsg)
  BY DEF TypeInv, ServerStage, ServerLive, ServerReceiving, HelloSteps, ServerReceives
<1>2. /\ msg \in Message
      /\ c2s' \in [Clients -> Seq(Message)] /\ s2c' \in [Clients -> Seq(Message)]
      /\ sHup' \in [Clients -> Hups] /\ cHup' \in [Clients -> Hups]
  BY <1>1, ServerReceivesType DEF TypeInv
<1>3. msg.type = TLS_MSG_CLIENT_HELLO
  BY DEF ServerReceives, ExpectedType
<1>4. msg \in HelloMsg /\ msg.body \in KemPublicKeys
  BY <1>2, <1>3, MessageByType
<1>5. Append(srv.transcript, msg) \in Seq(HelloMsg)
  BY <1>1, <1>4
<1>6. Append(srv.transcript, msg) \in Seq(HandshakeMsg)
  BY <1>5, TranscriptMono
<1>7. /\ srv' \in ServerMemory /\ srv'.transcript = Append(srv.transcript, msg)
      /\ srv'.kem_public_key = msg.body
      /\ srv'.sig_secret_key = srv.sig_secret_key /\ srv'.sig_public_key = srv.sig_public_key
  BY <1>4, <1>6 DEF TypeInv, TypeOK, ServerMemory
<1>8. TypeOK'
  BY <1>2, <1>7 DEF TypeInv, TypeOK, session, Steps, ServerSending
<1>9. ServerStage'
  BY <1>1, <1>4, <1>5, <1>7 DEF TypeInv, ServerStage, ServerLive, ServerSending, ServerReceiving, HelloSteps, Ended
<1>10. \A c \in Clients : ClientStage(c)'
  BY DEF TypeInv, ClientStage
<1> QED BY <1>8, <1>9, <1>10 DEF TypeInv

LEMMA SendCertificateType == ASSUME TypeInv, SendCertificate PROVE TypeInv'
<1> USE DEF SendCertificate
<1> DEFINE msg == Msg(TLS_MSG_CERTIFICATE, srv.sig_public_key)
<1>1. conn \in Clients /\ srv.sig_public_key = SigPublicKey(keyfiles.public)
      /\ srv.transcript \in Seq(HelloMsg) /\ srv.shared_secret \in Secrets
  BY DEF TypeInv, ServerStage, ServerLive, ServerSending, HelloSteps
<1>2. msg \in HelloMsg
  BY <1>1, Constructors DEF TypeInv, TypeOK
<1>3. msg \in Message
  BY <1>2, HelloIsSigned, SignedIsConfirmed, ConfirmedIsHandshake, HandshakeIsMessage
<1>4. Append(srv.transcript, msg) \in Seq(HelloMsg)
  BY <1>1, <1>2
<1>5. Append(srv.transcript, msg) \in Seq(HandshakeMsg)
  BY <1>4, TranscriptMono
<1>6. /\ c2s' \in [Clients -> Seq(Message)] /\ s2c' \in [Clients -> Seq(Message)]
      /\ sHup' \in [Clients -> Hups] /\ cHup' \in [Clients -> Hups]
  BY <1>1, <1>3, ServerSendsType DEF TypeInv
<1>7. /\ srv' \in ServerMemory /\ srv'.transcript = Append(srv.transcript, msg)
      /\ srv'.shared_secret = srv.shared_secret
      /\ srv'.sig_secret_key = srv.sig_secret_key /\ srv'.sig_public_key = srv.sig_public_key
  BY <1>5 DEF TypeInv, TypeOK, ServerMemory
<1>8. TypeOK'
  BY <1>6, <1>7 DEF TypeInv, TypeOK, session, Steps, ServerSending
<1>9. ServerStage'
  BY <1>1, <1>4, <1>7 DEF TypeInv, ServerStage, ServerLive, ServerSending, ServerReceiving, HelloSteps, Ended
<1>10. \A c \in Clients : ClientStage(c)'
  BY DEF TypeInv, ClientStage
<1> QED BY <1>8, <1>9, <1>10 DEF TypeInv

LEMMA SendCertificateVerifyType == ASSUME TypeInv, SendCertificateVerify PROVE TypeInv'
<1> USE DEF SendCertificateVerify
<1> DEFINE msg == Msg(TLS_MSG_CERTIFICATE_VERIFY, Signature(srv.sig_secret_key, srv.transcript))
<1>1. conn \in Clients /\ srv.sig_secret_key \in KeyPairs
      /\ srv.transcript \in Seq(HelloMsg) /\ srv.shared_secret \in Secrets
  BY DEF TypeInv, TypeOK, ServerStage, ServerLive, ServerSending, HelloSteps
<1>2. msg \in SignedMsg
  BY <1>1, SignatureMsgType
<1>3. msg \in Message
  BY <1>2, SignedIsConfirmed, ConfirmedIsHandshake, HandshakeIsMessage
<1>4. Append(srv.transcript, msg) \in Seq(SignedMsg)
  BY <1>1, <1>2, TranscriptMono
<1>5. Append(srv.transcript, msg) \in Seq(HandshakeMsg)
  BY <1>4, TranscriptMono
<1>6. /\ c2s' \in [Clients -> Seq(Message)] /\ s2c' \in [Clients -> Seq(Message)]
      /\ sHup' \in [Clients -> Hups] /\ cHup' \in [Clients -> Hups]
  BY <1>1, <1>3, ServerSendsType DEF TypeInv
<1>7. /\ srv' \in ServerMemory /\ srv'.transcript = Append(srv.transcript, msg)
      /\ srv'.shared_secret = srv.shared_secret
      /\ srv'.sig_secret_key = srv.sig_secret_key /\ srv'.sig_public_key = srv.sig_public_key
  BY <1>5 DEF TypeInv, TypeOK, ServerMemory
<1>8. TypeOK'
  BY <1>6, <1>7 DEF TypeInv, TypeOK, session, Steps, ServerSending
<1>9. ServerStage'
  BY <1>1, <1>4, <1>7 DEF TypeInv, ServerStage, ServerLive, ServerSending, ServerReceiving, HelloSteps, Ended
<1>10. \A c \in Clients : ClientStage(c)'
  BY DEF TypeInv, ClientStage
<1> QED BY <1>8, <1>9, <1>10 DEF TypeInv

LEMMA SendServerFinishedType == ASSUME TypeInv, SendServerFinished PROVE TypeInv'
<1> USE DEF SendServerFinished
<1> DEFINE msg == Msg(TLS_MSG_FINISHED, VerifyData(srv.shared_secret,
                      TLS_SERVER_FINISHED_LABEL, srv.transcript))
<1>1. conn \in Clients /\ srv.transcript \in Seq(SignedMsg) /\ srv.shared_secret \in Secrets
  BY DEF TypeInv, ServerStage, ServerLive, ServerSending
<1>2. msg \in ConfirmedMsg
  BY <1>1, ServerFinishedType
<1>3. msg \in Message
  BY <1>2, ConfirmedIsHandshake, HandshakeIsMessage
<1>4. Append(srv.transcript, msg) \in Seq(ConfirmedMsg)
  BY <1>1, <1>2, TranscriptMono
<1>5. Append(srv.transcript, msg) \in Seq(HandshakeMsg)
  BY <1>4, TranscriptMono
<1>6. offered' \in KeySets
  BY <1>1, <1>4, KeysAfterType
<1>7. /\ c2s' \in [Clients -> Seq(Message)] /\ s2c' \in [Clients -> Seq(Message)]
      /\ sHup' \in [Clients -> Hups] /\ cHup' \in [Clients -> Hups]
  BY <1>1, <1>3, ServerSendsType DEF TypeInv
<1>8. /\ srv' \in ServerMemory /\ srv'.transcript = Append(srv.transcript, msg)
      /\ srv'.shared_secret = srv.shared_secret
      /\ srv'.sig_secret_key = srv.sig_secret_key /\ srv'.sig_public_key = srv.sig_public_key
  BY <1>5 DEF TypeInv, TypeOK, ServerMemory
<1>9. TypeOK'
  BY <1>6, <1>7, <1>8 DEF TypeInv, TypeOK, Steps, ServerReceiving
<1>10. ServerStage'
  BY <1>1, <1>4, <1>8 DEF TypeInv, ServerStage, ServerLive, ServerSending, ServerReceiving, HelloSteps, Ended
<1>11. \A c \in Clients : ClientStage(c)'
  BY DEF TypeInv, ClientStage
<1> QED BY <1>9, <1>10, <1>11 DEF TypeInv

LEMMA RecvClientFinishedType == ASSUME TypeInv, RecvClientFinished PROVE TypeInv'
<1> USE DEF RecvClientFinished
<1> DEFINE msg  == Head(c2s[conn])
           keys == ApplicationKeys(srv.shared_secret, Append(srv.transcript, msg))
<1>1. conn \in Clients /\ spc = "client_finished" /\ srv.shared_secret \in Secrets
      /\ srv.transcript \in Seq(HandshakeMsg)
  BY DEF TypeInv, TypeOK, ServerMemory, ServerStage, ServerLive, ServerReceiving, ServerReceives
<1>2. /\ msg \in Message
      /\ c2s' \in [Clients -> Seq(Message)] /\ s2c' \in [Clients -> Seq(Message)]
      /\ sHup' \in [Clients -> Hups] /\ cHup' \in [Clients -> Hups]
  BY <1>1, ServerReceivesType DEF TypeInv
<1>3. msg.type = TLS_MSG_FINISHED
  BY DEF ServerReceives, ExpectedType
<1>4. msg \in HandshakeMsg
  BY <1>2, <1>3, MessageByType
<1>5. Append(srv.transcript, msg) \in Seq(HandshakeMsg)
  BY <1>1, <1>4
<1>6. keys \in KeySets
  BY <1>1, <1>5 DEF ApplicationKeys, KeySets
<1>7. RecordState(keys, "client") \in RecordStates /\ RecordState(keys, "server") \in RecordStates
  BY <1>6, RecordStateType
<1>8. /\ srv' \in ServerMemory
      /\ srv'.recv_state \in RecordStates /\ srv'.send_state \in RecordStates
      /\ srv'.sig_secret_key = srv.sig_secret_key /\ srv'.sig_public_key = srv.sig_public_key
  BY <1>5, <1>7 DEF TypeInv, TypeOK, ServerMemory
<1>9. TypeOK'
  BY <1>2, <1>6, <1>8 DEF TypeInv, TypeOK, Steps, ServerReceiving
<1>10. ServerStage'
  BY <1>1, <1>8 DEF TypeInv, ServerStage, ServerLive, ServerSending, ServerReceiving, HelloSteps, Ended
<1>11. \A c \in Clients : ClientStage(c)'
  BY DEF TypeInv, ClientStage
<1> QED BY <1>9, <1>10, <1>11 DEF TypeInv

\* A record that opens carries one of the program's texts.
LEMMA OpensText ==
    ASSUME NEW state, NEW body, Opens(state, body)
    PROVE  body.text \in Texts
BY DEF Opens, Seal

LEMMA RecvClientRecordType == ASSUME TypeInv, RecvClientRecord PROVE TypeInv'
<1> USE DEF RecvClientRecord
<1>1. conn \in Clients /\ spc = "client_record"
      /\ srv.recv_state \in RecordStates /\ srv.send_state \in RecordStates
  BY DEF TypeInv, ServerStage, ServerLive, ServerReceiving, ServerReceives
<1>2. /\ c2s' \in [Clients -> Seq(Message)] /\ s2c' \in [Clients -> Seq(Message)]
      /\ sHup' \in [Clients -> Hups] /\ cHup' \in [Clients -> Hups]
  BY <1>1, ServerReceivesType DEF TypeInv
<1>3. serverGot' \in Texts
  BY OpensText
<1>4. NextRecord(srv.recv_state) \in RecordStates
  BY <1>1, NextRecordType
<1>5. /\ srv' \in ServerMemory
      /\ srv'.send_state = srv.send_state
      /\ srv'.sig_secret_key = srv.sig_secret_key /\ srv'.sig_public_key = srv.sig_public_key
  BY <1>4 DEF TypeInv, TypeOK, ServerMemory
<1>6. TypeOK'
  BY <1>2, <1>3, <1>5 DEF TypeInv, TypeOK, Steps, ServerSending
<1>7. ServerStage'
  BY <1>1, <1>5 DEF TypeInv, ServerStage, ServerLive, ServerSending, ServerReceiving, HelloSteps, Ended
<1>8. \A c \in Clients : ClientStage(c)'
  BY DEF TypeInv, ClientStage
<1> QED BY <1>6, <1>7, <1>8 DEF TypeInv

LEMMA SendServerRecordType == ASSUME TypeInv, SendServerRecord PROVE TypeInv'
<1> USE DEF SendServerRecord
<1>1. conn \in Clients /\ srv.send_state \in RecordStates
  BY DEF TypeInv, ServerStage, ServerLive, ServerSending
<1>2. Msg(TLS_APPLICATION_DATA, Seal(srv.send_state, ServerMessage)) \in Message
  BY <1>1, RecordMsgType DEF Texts
<1>3. /\ c2s' \in [Clients -> Seq(Message)] /\ s2c' \in [Clients -> Seq(Message)]
      /\ sHup' \in [Clients -> Hups] /\ cHup' \in [Clients -> Hups]
  BY <1>1, <1>2, ServerSendsType DEF TypeInv
<1>4. NextRecord(srv.send_state) \in RecordStates
  BY <1>1, NextRecordType
<1>5. /\ srv' \in ServerMemory
      /\ srv'.sig_secret_key = srv.sig_secret_key /\ srv'.sig_public_key = srv.sig_public_key
  BY <1>4 DEF TypeInv, TypeOK, ServerMemory
<1>6. TypeOK'
  BY <1>3, <1>5 DEF TypeInv, TypeOK, Steps, session
<1>7. ServerStage'
  BY <1>1, <1>5 DEF TypeInv, ServerStage, ServerLive, ServerSending, ServerReceiving, HelloSteps, Ended
<1>8. \A c \in Clients : ClientStage(c)'
  BY DEF TypeInv, ClientStage
<1> QED BY <1>6, <1>7, <1>8 DEF TypeInv

\* The five ways a server ends are one: ServerExit with some outcome.
LEMMA ServerEndings ==
    ASSUME TypeInv,
           ServerSuccess \/ ServerRejects \/ ServerDisconnected \/ ServerKilled \/ ServerFails
    PROVE  /\ \E outcome \in Ended : \E unread :
                 /\ ServerExit(outcome, unread)
                 /\ outcome = "success" <=> spc = "end"
           /\ disturbed' \in SUBSET Clients
           /\ spc \notin Ended
<1>1. CASE ServerSuccess
  BY <1>1 DEF ServerSuccess, Ended, TypeInv, TypeOK
<1>2. CASE ServerRejects
  BY <1>2 DEF ServerRejects, Ended, TypeInv, TypeOK, ServerReceiving
<1>3. CASE ServerDisconnected
  BY <1>3 DEF ServerDisconnected, Ended, TypeInv, TypeOK, ServerReceiving
<1>4. CASE ServerKilled
  BY <1>4 DEF ServerKilled, Ended, TypeInv, TypeOK, ServerSending
<1>5. CASE ServerFails
  BY <1>5 DEF ServerFails, Ended, TypeInv, TypeOK
<1> QED BY <1>1, <1>2, <1>3, <1>4, <1>5

LEMMA ServerExitType ==
    ASSUME TypeInv, NEW outcome \in Ended, NEW unread, ServerExit(outcome, unread),
           disturbed' \in SUBSET Clients
    PROVE  TypeInv'
<1> USE DEF ServerExit
<1>1. srv' \in ServerMemory /\ srv'.transcript = <<>>
  BY DEF ClearServer, ServerMemory
<1>2. cHup' \in [Clients -> Hups]
  BY DEF ClosedByServer, CloseWith, Hups, TypeInv, TypeOK
<1>3. /\ backlog' \in Seq(Clients) /\ Len(backlog') <= Backlog
      /\ c2s' \in [Clients -> Seq(Message)]
  BY BacklogAssumption DEF TypeInv, TypeOK
<1>4. TypeOK'
  BY <1>1, <1>2, <1>3 DEF TypeInv, TypeOK, session, Steps
<1>5. ServerStage'
  BY DEF ServerStage, ServerLive, ServerSending, ServerReceiving, HelloSteps, Ended
<1>6. \A c \in Clients : ClientStage(c)'
  BY DEF TypeInv, ClientStage
<1> QED BY <1>4, <1>5, <1>6 DEF TypeInv

LEMMA ClientEndings ==
    ASSUME TypeInv, NEW c \in Clients,
           \/ ClientRefused(c) \/ ClientSuccess(c) \/ ClientRejects(c)
           \/ ClientDisconnected(c) \/ ClientKilled(c) \/ ClientFails(c)
    PROVE  /\ \E outcome \in Ended : \E unread :
                 /\ ClientExit(c, outcome, unread)
                 /\ outcome = "success" => cpc[c] = "end"
           /\ disturbed' \in SUBSET Clients
<1>1. CASE ClientRefused(c)
  BY <1>1 DEF ClientRefused, Ended, TypeInv, TypeOK
<1>2. CASE ClientSuccess(c)
  BY <1>2 DEF ClientSuccess, Ended, TypeInv, TypeOK
<1>3. CASE ClientRejects(c)
  BY <1>3 DEF ClientRejects, Ended, TypeInv, TypeOK
<1>4. CASE ClientDisconnected(c)
  BY <1>4 DEF ClientDisconnected, Ended, TypeInv, TypeOK
<1>5. CASE ClientKilled(c)
  BY <1>5 DEF ClientKilled, Ended, TypeInv, TypeOK
<1>6. CASE ClientFails(c)
  BY <1>6 DEF ClientFails, Ended, TypeInv, TypeOK
<1> QED BY <1>1, <1>2, <1>3, <1>4, <1>5, <1>6

LEMMA ClientExitType ==
    ASSUME TypeInv, NEW c \in Clients, NEW outcome \in Ended, NEW unread,
           ClientExit(c, outcome, unread), disturbed' \in SUBSET Clients
    PROVE  TypeInv'
<1> USE DEF ClientExit
<1>1. ClearClient \in ClientMemory
  BY DEF ClearClient, ClientMemory
<1>2. /\ cpc' \in [Clients -> Steps \union {"start"}]
      /\ cli' \in [Clients -> ClientMemory]
      /\ sHup' \in [Clients -> Hups]
      /\ s2c' \in [Clients -> Seq(Message)]
  BY <1>1 DEF TypeInv, TypeOK, Steps, CloseWith, Hups
<1>3. TypeOK'
  BY <1>2 DEF TypeInv, TypeOK, session
<1>4. ServerStage'
  BY DEF TypeInv, ServerStage
<1>5. ASSUME NEW d \in Clients PROVE ClientStage(d)'
  <2>1. CASE d = c
    BY <2>1 DEF TypeInv, TypeOK, ClientStage, HelloSteps, Ended
  <2>2. CASE d # c
    BY <2>2 DEF TypeInv, TypeOK, ClientStage
  <2> QED BY <2>1, <2>2
<1> QED BY <1>3, <1>4, <1>5 DEF TypeInv

\* A client's step leaves the other clients' memory and step alone.
LEMMA OtherClientsStage ==
    ASSUME TypeInv, NEW c \in Clients, NEW step, NEW me,
           cpc' = [cpc EXCEPT ![c] = step], cli' = [cli EXCEPT ![c] = me],
           ClientStage(c)'
    PROVE  \A d \in Clients : ClientStage(d)'
<1> SUFFICES ASSUME NEW d \in Clients, d # c PROVE ClientStage(d)'
  OBVIOUS
<1> QED BY DEF TypeInv, TypeOK, ClientStage

LEMMA ClientSendsType ==
    ASSUME TypeOK, NEW c \in Clients, NEW msg \in Message, ClientSends(c, msg)
    PROVE  /\ c2s' \in [Clients -> Seq(Message)]
           /\ s2c' \in [Clients -> Seq(Message)]
           /\ sHup' \in [Clients -> Hups]
           /\ cHup' \in [Clients -> Hups]
BY DEF TypeOK, ClientSends, Delivered, AfterSend, Hups

LEMMA ClientReceivesType ==
    ASSUME TypeOK, NEW c \in Clients, NEW step, ClientReceives(c, step)
    PROVE  /\ Head(s2c[c]) \in Message
           /\ c2s' \in [Clients -> Seq(Message)]
           /\ s2c' \in [Clients -> Seq(Message)]
           /\ sHup' \in [Clients -> Hups]
           /\ cHup' \in [Clients -> Hups]
BY DEF TypeOK, ClientReceives

LEMMA ClientConnectType ==
    ASSUME TypeInv, NEW c \in Clients, ClientConnect(c) PROVE TypeInv'
<1> USE DEF ClientConnect
<1>1. /\ backlog' \in Seq(Clients) /\ Len(backlog') <= Backlog
      /\ cpc' \in [Clients -> Steps \union {"start"}]
  BY BacklogAssumption DEF TypeInv, TypeOK, Steps, ServerReceiving
<1>2. TypeOK'
  BY <1>1 DEF TypeInv, TypeOK, session, network
<1>3. ServerStage'
  BY DEF TypeInv, ServerStage
<1>4. ASSUME NEW d \in Clients PROVE ClientStage(d)'
  BY DEF TypeInv, TypeOK, ClientStage, HelloSteps
<1> QED BY <1>2, <1>3, <1>4 DEF TypeInv

LEMMA GarbleType ==
    ASSUME TypeInv, NEW c \in Clients, Garble(c) PROVE TypeInv'
<1> USE DEF Garble
<1>1. ASSUME NEW msg \in Message PROVE Altered(msg) \subseteq Message
  <2>1. Msg(BAD_HEADER, Garbled) \in Message /\ Msg(LONG_HEADER, Garbled) \in Message
    BY DEF Msg, Message
  <2>2. Msg(msg.type, Garbled) \in Message
    <3>1. Garbled \in KemPublicKeys /\ Garbled \in Ciphertexts /\ Garbled \in SigPublicKeys
          /\ Garbled \in Signatures /\ Garbled \in MacsOver(TLS_SERVER_FINISHED_LABEL, SignedMsg)
      BY DEF KemPublicKeys, Ciphertexts, SigPublicKeys, Signatures, MacsOver
    <3>2. msg.type \in {TLS_MSG_CLIENT_HELLO, TLS_MSG_SERVER_HELLO, TLS_MSG_CERTIFICATE,
                        TLS_MSG_CERTIFICATE_VERIFY, TLS_MSG_FINISHED, TLS_APPLICATION_DATA,
                        BAD_HEADER, LONG_HEADER}
      BY DEF Message, HandshakeMsg, ConfirmedMsg, SignedMsg, HelloMsg
    <3>3. \A t \in {TLS_MSG_CLIENT_HELLO, TLS_MSG_SERVER_HELLO, TLS_MSG_CERTIFICATE} :
             Msg(t, Garbled) \in HelloMsg
      BY <3>1 DEF HelloMsg, Msg
    <3>4. Msg(TLS_MSG_CERTIFICATE_VERIFY, Garbled) \in SignedMsg
      BY <3>1 DEF SignedMsg, Msg
    <3>5. Msg(TLS_MSG_FINISHED, Garbled) \in ConfirmedMsg
      BY <3>1 DEF ConfirmedMsg, Msg
    <3>6. Msg(TLS_APPLICATION_DATA, Garbled) \in Message
      BY DEF Message, Msg
    <3> QED BY <2>1, <3>2, <3>3, <3>4, <3>5, <3>6, HelloIsSigned, SignedIsConfirmed,
               ConfirmedIsHandshake, HandshakeIsMessage
  <2> QED BY <2>1, <2>2 DEF Altered
<1>2. c2s' \in [Clients -> Seq(Message)] /\ s2c' \in [Clients -> Seq(Message)]
  <2>1. CASE \E i \in DOMAIN c2s[c] : \E msg \in Altered(c2s[c][i]) :
                c2s' = [c2s EXCEPT ![c][i] = msg] /\ s2c' = s2c
    <3> PICK i \in DOMAIN c2s[c] : \E msg \in Altered(c2s[c][i]) :
                c2s' = [c2s EXCEPT ![c][i] = msg] /\ s2c' = s2c
      BY <2>1
    <3> PICK msg \in Altered(c2s[c][i]) : c2s' = [c2s EXCEPT ![c][i] = msg] /\ s2c' = s2c
      OBVIOUS
    <3>1. c2s[c] \in Seq(Message) /\ c2s[c][i] \in Message
      BY DEF TypeInv, TypeOK
    <3>2. msg \in Message
      BY <1>1, <3>1
    <3>3. [c2s[c] EXCEPT ![i] = msg] \in Seq(Message)
      BY <3>1, <3>2
    <3> QED BY <3>3 DEF TypeInv, TypeOK
  <2>2. CASE \E i \in DOMAIN s2c[c] : \E msg \in Altered(s2c[c][i]) :
                s2c' = [s2c EXCEPT ![c][i] = msg] /\ c2s' = c2s
    <3> PICK i \in DOMAIN s2c[c] : \E msg \in Altered(s2c[c][i]) :
                s2c' = [s2c EXCEPT ![c][i] = msg] /\ c2s' = c2s
      BY <2>2
    <3> PICK msg \in Altered(s2c[c][i]) : s2c' = [s2c EXCEPT ![c][i] = msg] /\ c2s' = c2s
      OBVIOUS
    <3>1. s2c[c] \in Seq(Message) /\ s2c[c][i] \in Message
      BY DEF TypeInv, TypeOK
    <3>2. msg \in Message
      BY <1>1, <3>1
    <3>3. [s2c[c] EXCEPT ![i] = msg] \in Seq(Message)
      BY <3>1, <3>2
    <3> QED BY <3>3 DEF TypeInv, TypeOK
  <2> QED BY <2>1, <2>2
<1>3. garbled' \in 0..MaxGarbled /\ disturbed' \in SUBSET Clients
  BY MaxGarbledAssumption DEF TypeInv, TypeOK
<1>4. TypeOK'
  BY <1>2, <1>3 DEF TypeInv, TypeOK, session
<1>5. ServerStage'
  BY DEF TypeInv, ServerStage
<1>6. \A d \in Clients : ClientStage(d)'
  BY DEF TypeInv, ClientStage
<1> QED BY <1>4, <1>5, <1>6 DEF TypeInv

\* A step that rewrites one client's memory.
LEMMA ClientUpdated ==
    ASSUME TypeInv, NEW c \in Clients, NEW me, cli' = [cli EXCEPT ![c] = me]
    PROVE  /\ cli \in [Clients -> ClientMemory] /\ cli[c] \in ClientMemory
           /\ cli'[c] = me /\ cli' = [cli EXCEPT ![c] = cli'[c]]
           /\ \A d \in Clients : d # c => cli'[d] = cli[d]
BY DEF TypeInv, TypeOK

LEMMA SendClientHelloType ==
    ASSUME TypeInv, NEW c \in Clients, SendClientHello(c) PROVE TypeInv'
<1> USE DEF SendClientHello
<1> DEFINE msg == Msg(TLS_MSG_CLIENT_HELLO, KemPublicKey(c))
           me  == [cli[c] EXCEPT !.transcript = Append(@, msg)]
<1>1. cli[c].transcript \in Seq(HelloMsg)
  BY DEF TypeInv, ClientStage, HelloSteps
<1>2. msg \in HelloMsg
  BY Constructors
<1>3. msg \in Message
  BY <1>2, HelloIsSigned, SignedIsConfirmed, ConfirmedIsHandshake, HandshakeIsMessage
<1>4. Append(cli[c].transcript, msg) \in Seq(HelloMsg)
  BY <1>1, <1>2
<1>5. Append(cli[c].transcript, msg) \in Seq(HandshakeMsg)
  BY <1>4, TranscriptMono
<1>6. /\ c2s' \in [Clients -> Seq(Message)] /\ s2c' \in [Clients -> Seq(Message)]
      /\ sHup' \in [Clients -> Hups] /\ cHup' \in [Clients -> Hups]
  BY <1>3, ClientSendsType DEF TypeInv
<1>7. /\ cli' = [cli EXCEPT ![c] = cli'[c]]
      /\ cli'[c] \in ClientMemory
      /\ cli'[c].transcript = Append(cli[c].transcript, msg)
  <2>1. cli' = [cli EXCEPT ![c] = me]
    OBVIOUS
  <2>2. cli[c] \in ClientMemory
    BY <2>1, ClientUpdated
  <2>3. me \in ClientMemory /\ me.transcript = Append(cli[c].transcript, msg)
    BY <1>5, <2>2 DEF ClientMemory
  <2> QED BY <2>1, <2>3, ClientUpdated
<1>8. cli' \in [Clients -> ClientMemory] /\ cpc' \in [Clients -> Steps \union {"start"}]
  BY <1>7 DEF TypeInv, TypeOK, Steps, ServerSending
<1>9. TypeOK'
  BY <1>6, <1>8 DEF TypeInv, TypeOK, session
<1>10. ServerStage'
  BY DEF TypeInv, ServerStage
<1>11. ClientStage(c)'
  BY <1>4, <1>7 DEF TypeInv, TypeOK, ClientStage
<1>12. \A d \in Clients : ClientStage(d)'
  BY <1>7, <1>11, OtherClientsStage
<1> QED BY <1>9, <1>10, <1>12 DEF TypeInv

LEMMA RecvServerHelloType ==
    ASSUME TypeInv, NEW c \in Clients, RecvServerHello(c) PROVE TypeInv'
<1> USE DEF RecvServerHello
<1> DEFINE msg == Head(s2c[c])
           me  == [cli[c] EXCEPT !.transcript = Append(cli[c].transcript, msg),
                                 !.shared_secret = Decaps(c, msg.body)]
<1>1. cpc[c] = "server_hello" /\ cli[c].transcript \in Seq(HelloMsg)
  BY DEF TypeInv, ClientStage, HelloSteps, ClientReceives
<1>2. /\ msg \in Message
      /\ c2s' \in [Clients -> Seq(Message)] /\ s2c' \in [Clients -> Seq(Message)]
      /\ sHup' \in [Clients -> Hups] /\ cHup' \in [Clients -> Hups]
  BY ClientReceivesType DEF TypeInv
<1>3. msg.type = TLS_MSG_SERVER_HELLO
  BY DEF ClientReceives, ExpectedType
<1>4. msg \in HelloMsg /\ Decaps(c, msg.body) \in Secrets
  BY <1>2, <1>3, MessageByType, Constructors
<1>5. Append(cli[c].transcript, msg) \in Seq(HelloMsg)
  BY <1>1, <1>4
<1>6. Append(cli[c].transcript, msg) \in Seq(HandshakeMsg)
  BY <1>5, TranscriptMono
<1>7. /\ cli' = [cli EXCEPT ![c] = cli'[c]]
      /\ cli'[c] \in ClientMemory
      /\ cli'[c].transcript = Append(cli[c].transcript, msg)
      /\ cli'[c].shared_secret \in Secrets
  <2>1. cli' = [cli EXCEPT ![c] = me]
    OBVIOUS
  <2>2. cli[c] \in ClientMemory
    BY <2>1, ClientUpdated
  <2>3. /\ me \in ClientMemory /\ me.transcript = Append(cli[c].transcript, msg)
        /\ me.shared_secret \in Secrets
    BY <1>4, <1>6, <2>2 DEF ClientMemory
  <2> QED BY <2>1, <2>3, ClientUpdated
<1>8. cli' \in [Clients -> ClientMemory] /\ cpc' \in [Clients -> Steps \union {"start"}]
  BY <1>7 DEF TypeInv, TypeOK, Steps, ServerSending
<1>9. TypeOK'
  BY <1>2, <1>8 DEF TypeInv, TypeOK, session
<1>10. ServerStage'
  BY DEF TypeInv, ServerStage
<1>11. ClientStage(c)'
  BY <1>5, <1>7 DEF TypeInv, TypeOK, ClientStage
<1>12. \A d \in Clients : ClientStage(d)'
  BY <1>7, <1>11, OtherClientsStage
<1> QED BY <1>9, <1>10, <1>12 DEF TypeInv

LEMMA RecvCertificateType ==
    ASSUME TypeInv, NEW c \in Clients, RecvCertificate(c) PROVE TypeInv'
<1> USE DEF RecvCertificate
<1> DEFINE msg == Head(s2c[c])
           me  == [cli[c] EXCEPT !.transcript = Append(cli[c].transcript, msg),
                                 !.sig_public_key = msg.body]
<1>1. cpc[c] = "certificate" /\ cli[c].transcript \in Seq(HelloMsg) /\ cli[c].shared_secret \in Secrets
  BY DEF TypeInv, ClientStage, HelloSteps, ClientReceives
<1>2. /\ msg \in Message
      /\ c2s' \in [Clients -> Seq(Message)] /\ s2c' \in [Clients -> Seq(Message)]
      /\ sHup' \in [Clients -> Hups] /\ cHup' \in [Clients -> Hups]
  BY ClientReceivesType DEF TypeInv
<1>3. msg.type = TLS_MSG_CERTIFICATE
  BY DEF ClientReceives, ExpectedType
<1>4. msg \in HelloMsg /\ msg.body \in SigPublicKeys
  BY <1>2, <1>3, MessageByType
<1>5. Append(cli[c].transcript, msg) \in Seq(HelloMsg)
  BY <1>1, <1>4
<1>6. Append(cli[c].transcript, msg) \in Seq(HandshakeMsg)
  BY <1>5, TranscriptMono
<1>7. /\ cli' = [cli EXCEPT ![c] = cli'[c]]
      /\ cli'[c] \in ClientMemory
      /\ cli'[c].transcript = Append(cli[c].transcript, msg)
      /\ cli'[c].shared_secret = cli[c].shared_secret
  <2>1. cli[c] \in ClientMemory /\ cli \in [Clients -> ClientMemory]
    BY DEF TypeInv, TypeOK
  <2>2. me \in ClientMemory /\ me.transcript = Append(cli[c].transcript, msg)
        /\ me.shared_secret = cli[c].shared_secret
    BY <1>4, <1>6, <2>1 DEF ClientMemory
  <2>3. cli' = [cli EXCEPT ![c] = me]
    OBVIOUS
  <2> QED BY <2>1, <2>2, <2>3
<1>8. cli' \in [Clients -> ClientMemory] /\ cpc' \in [Clients -> Steps \union {"start"}]
  BY <1>7 DEF TypeInv, TypeOK, Steps, ServerSending
<1>9. TypeOK'
  BY <1>2, <1>8 DEF TypeInv, TypeOK, session
<1>10. ServerStage'
  BY DEF TypeInv, ServerStage
<1>11. ClientStage(c)'
  BY <1>1, <1>5, <1>7 DEF TypeInv, TypeOK, ClientStage
<1>12. \A d \in Clients : ClientStage(d)'
  BY <1>7, <1>11, OtherClientsStage
<1> QED BY <1>9, <1>10, <1>12 DEF TypeInv

LEMMA RecvCertificateVerifyType ==
    ASSUME TypeInv, NEW c \in Clients, RecvCertificateVerify(c) PROVE TypeInv'
<1> USE DEF RecvCertificateVerify
<1> DEFINE msg == Head(s2c[c])
           me  == [cli[c] EXCEPT !.transcript = Append(@, msg)]
<1>1. /\ cpc[c] = "certificate_verify"
      /\ cli[c].transcript \in Seq(HelloMsg) /\ cli[c].shared_secret \in Secrets
  BY DEF TypeInv, ClientStage, HelloSteps, ClientReceives
<1>2. /\ msg \in Message
      /\ c2s' \in [Clients -> Seq(Message)] /\ s2c' \in [Clients -> Seq(Message)]
      /\ sHup' \in [Clients -> Hups] /\ cHup' \in [Clients -> Hups]
  BY ClientReceivesType DEF TypeInv
<1>3. msg.type = TLS_MSG_CERTIFICATE_VERIFY
  BY DEF ClientReceives, ExpectedType
<1>4. msg \in SignedMsg
  BY <1>2, <1>3, MessageByType
<1>5. Append(cli[c].transcript, msg) \in Seq(SignedMsg)
  BY <1>1, <1>4, TranscriptMono
<1>6. Append(cli[c].transcript, msg) \in Seq(HandshakeMsg)
  BY <1>5, TranscriptMono
<1>7. /\ cli' = [cli EXCEPT ![c] = cli'[c]]
      /\ cli'[c] \in ClientMemory
      /\ cli'[c].transcript = Append(cli[c].transcript, msg)
      /\ cli'[c].shared_secret = cli[c].shared_secret
  <2>1. cli' = [cli EXCEPT ![c] = me]
    OBVIOUS
  <2>2. cli[c] \in ClientMemory
    BY <2>1, ClientUpdated
  <2>3. /\ me \in ClientMemory /\ me.transcript = Append(cli[c].transcript, msg)
        /\ me.shared_secret = cli[c].shared_secret
    BY <1>6, <2>2 DEF ClientMemory
  <2> QED BY <2>1, <2>3, ClientUpdated
<1>8. cli' \in [Clients -> ClientMemory] /\ cpc' \in [Clients -> Steps \union {"start"}]
  BY <1>7 DEF TypeInv, TypeOK, Steps, ServerSending
<1>9. TypeOK'
  BY <1>2, <1>8 DEF TypeInv, TypeOK, session
<1>10. ServerStage'
  BY DEF TypeInv, ServerStage
<1>11. ClientStage(c)'
  BY <1>1, <1>5, <1>7 DEF TypeInv, TypeOK, ClientStage, HelloSteps
<1>12. \A d \in Clients : ClientStage(d)'
  BY <1>7, <1>11, OtherClientsStage
<1> QED BY <1>9, <1>10, <1>12 DEF TypeInv

LEMMA RecvServerFinishedType ==
    ASSUME TypeInv, NEW c \in Clients, RecvServerFinished(c) PROVE TypeInv'
<1> USE DEF RecvServerFinished
<1> DEFINE msg == Head(s2c[c])
           me  == [cli[c] EXCEPT !.transcript = Append(@, msg)]
<1>1. /\ cpc[c] = "server_finished"
      /\ cli[c].transcript \in Seq(SignedMsg) /\ cli[c].shared_secret \in Secrets
  BY DEF TypeInv, ClientStage, HelloSteps, ClientReceives
<1>2. /\ msg \in Message
      /\ c2s' \in [Clients -> Seq(Message)] /\ s2c' \in [Clients -> Seq(Message)]
      /\ sHup' \in [Clients -> Hups] /\ cHup' \in [Clients -> Hups]
  BY ClientReceivesType DEF TypeInv
<1>3. msg = Msg(TLS_MSG_FINISHED, VerifyData(cli[c].shared_secret,
                TLS_SERVER_FINISHED_LABEL, cli[c].transcript))
  BY <1>2, MessageByType DEF ClientReceives, ExpectedType, FinishedMatches
<1>4. msg \in ConfirmedMsg
  BY <1>1, <1>3, ServerFinishedType
<1>5. Append(cli[c].transcript, msg) \in Seq(ConfirmedMsg)
  BY <1>1, <1>4, TranscriptMono
<1>6. Append(cli[c].transcript, msg) \in Seq(HandshakeMsg)
  BY <1>5, TranscriptMono
<1>7. /\ cli' = [cli EXCEPT ![c] = cli'[c]]
      /\ cli'[c] \in ClientMemory
      /\ cli'[c].transcript = Append(cli[c].transcript, msg)
      /\ cli'[c].shared_secret = cli[c].shared_secret
  <2>1. cli' = [cli EXCEPT ![c] = me]
    OBVIOUS
  <2>2. cli[c] \in ClientMemory
    BY <2>1, ClientUpdated
  <2>3. /\ me \in ClientMemory /\ me.transcript = Append(cli[c].transcript, msg)
        /\ me.shared_secret = cli[c].shared_secret
    BY <1>6, <2>2 DEF ClientMemory
  <2> QED BY <2>1, <2>3, ClientUpdated
<1>8. cli' \in [Clients -> ClientMemory] /\ cpc' \in [Clients -> Steps \union {"start"}]
  BY <1>7 DEF TypeInv, TypeOK, Steps, ServerReceiving
<1>9. TypeOK'
  BY <1>2, <1>8 DEF TypeInv, TypeOK, session
<1>10. ServerStage'
  BY DEF TypeInv, ServerStage
<1>11. ClientStage(c)'
  BY <1>1, <1>5, <1>7 DEF TypeInv, TypeOK, ClientStage, HelloSteps
<1>12. \A d \in Clients : ClientStage(d)'
  BY <1>7, <1>11, OtherClientsStage
<1> QED BY <1>9, <1>10, <1>12 DEF TypeInv

LEMMA SendClientFinishedType ==
    ASSUME TypeInv, NEW c \in Clients, SendClientFinished(c) PROVE TypeInv'
<1> USE DEF SendClientFinished
<1> DEFINE msg  == Msg(TLS_MSG_FINISHED, VerifyData(cli[c].shared_secret,
                       TLS_CLIENT_FINISHED_LABEL, cli[c].transcript))
           keys == ApplicationKeys(cli[c].shared_secret, Append(cli[c].transcript, msg))
           me   == [cli[c] EXCEPT !.transcript = Append(cli[c].transcript, msg),
                                  !.send_state = RecordState(keys, "client"),
                                  !.recv_state = RecordState(keys, "server")]
<1>1. cli[c].transcript \in Seq(ConfirmedMsg) /\ cli[c].shared_secret \in Secrets
  BY DEF TypeInv, ClientStage
<1>2. msg \in HandshakeMsg
  BY <1>1, ClientFinishedType
<1>3. msg \in Message
  BY <1>2, HandshakeIsMessage
<1>4. keys \in KeySets
  BY <1>1, KeysAfterType DEF KeysAfter
<1>5. RecordState(keys, "client") \in RecordStates /\ RecordState(keys, "server") \in RecordStates
  BY <1>4, RecordStateType
<1>6. Append(cli[c].transcript, msg) \in Seq(HandshakeMsg)
  BY <1>1, <1>2, TranscriptMono
<1>7. /\ c2s' \in [Clients -> Seq(Message)] /\ s2c' \in [Clients -> Seq(Message)]
      /\ sHup' \in [Clients -> Hups] /\ cHup' \in [Clients -> Hups]
  BY <1>3, ClientSendsType DEF TypeInv
<1>8. /\ cli' = [cli EXCEPT ![c] = cli'[c]]
      /\ cli'[c] \in ClientMemory
      /\ cli'[c].send_state \in RecordStates
      /\ cli'[c].recv_state \in RecordStates
  <2>1. cli[c] \in ClientMemory /\ cli \in [Clients -> ClientMemory]
    BY DEF TypeInv, TypeOK
  <2>2. me \in ClientMemory /\ me.send_state \in RecordStates /\ me.recv_state \in RecordStates
    <3> HIDE DEF msg, keys
    <3> QED BY <1>5, <1>6, <2>1 DEF ClientMemory
  <2>3. cli' = [cli EXCEPT ![c] = me]
    OBVIOUS
  <2> QED BY <2>1, <2>2, <2>3
<1>9. /\ cli' \in [Clients -> ClientMemory] /\ cpc' \in [Clients -> Steps \union {"start"}]
      /\ clientKeys' \in [Clients -> KeySets \union {None}]
  BY <1>4, <1>8 DEF TypeInv, TypeOK, Steps, ServerReceiving
<1>10. TypeOK'
  BY <1>7, <1>9 DEF TypeInv, TypeOK
<1>11. ServerStage'
  BY DEF TypeInv, ServerStage
<1>12. ClientStage(c)'
  BY <1>8 DEF TypeInv, TypeOK, ClientStage, HelloSteps
<1>13. \A d \in Clients : ClientStage(d)'
  BY <1>8, <1>12, OtherClientsStage
<1> QED BY <1>10, <1>11, <1>13 DEF TypeInv

LEMMA SendClientRecordType ==
    ASSUME TypeInv, NEW c \in Clients, SendClientRecord(c) PROVE TypeInv'
<1> USE DEF SendClientRecord
<1> DEFINE me == [cli[c] EXCEPT !.send_state = NextRecord(@)]
<1>1. cli[c].send_state \in RecordStates /\ cli[c].recv_state \in RecordStates
  BY DEF TypeInv, ClientStage
<1>2. Msg(TLS_APPLICATION_DATA, Seal(cli[c].send_state, ClientMessage)) \in Message
  BY <1>1, RecordMsgType DEF Texts
<1>3. NextRecord(cli[c].send_state) \in RecordStates
  BY <1>1, NextRecordType
<1>4. /\ c2s' \in [Clients -> Seq(Message)] /\ s2c' \in [Clients -> Seq(Message)]
      /\ sHup' \in [Clients -> Hups] /\ cHup' \in [Clients -> Hups]
  BY <1>2, ClientSendsType DEF TypeInv
<1>5. /\ cli' = [cli EXCEPT ![c] = cli'[c]]
      /\ cli'[c] \in ClientMemory
      /\ cli'[c].recv_state = cli[c].recv_state
  <2>1. cli' = [cli EXCEPT ![c] = me]
    OBVIOUS
  <2>2. cli[c] \in ClientMemory
    BY <2>1, ClientUpdated
  <2>3. me \in ClientMemory /\ me.recv_state = cli[c].recv_state
    BY <1>3, <2>2 DEF ClientMemory
  <2> QED BY <2>1, <2>3, ClientUpdated
<1>6. cli' \in [Clients -> ClientMemory] /\ cpc' \in [Clients -> Steps \union {"start"}]
  BY <1>5 DEF TypeInv, TypeOK, Steps, ServerSending
<1>7. TypeOK'
  BY <1>4, <1>6 DEF TypeInv, TypeOK, session
<1>8. ServerStage'
  BY DEF TypeInv, ServerStage
<1>9. ClientStage(c)'
  BY <1>1, <1>5 DEF TypeInv, TypeOK, ClientStage, HelloSteps
<1>10. \A d \in Clients : ClientStage(d)'
  BY <1>5, <1>9, OtherClientsStage
<1> QED BY <1>7, <1>8, <1>10 DEF TypeInv

LEMMA RecvServerRecordType ==
    ASSUME TypeInv, NEW c \in Clients, RecvServerRecord(c) PROVE TypeInv'
<1> USE DEF RecvServerRecord
<1> DEFINE me == [cli[c] EXCEPT !.recv_state = NextRecord(@)]
<1>1. cpc[c] = "server_record" /\ cli[c].recv_state \in RecordStates
  BY DEF TypeInv, ClientStage, ClientReceives
<1>2. NextRecord(cli[c].recv_state) \in RecordStates
  BY <1>1, NextRecordType
<1>3. /\ c2s' \in [Clients -> Seq(Message)] /\ s2c' \in [Clients -> Seq(Message)]
      /\ sHup' \in [Clients -> Hups] /\ cHup' \in [Clients -> Hups]
  BY ClientReceivesType DEF TypeInv
<1>4. clientGot' \in [Clients -> Texts \union {NoText}]
  BY OpensText DEF TypeInv, TypeOK
<1>5. /\ cli' = [cli EXCEPT ![c] = cli'[c]]
      /\ cli'[c] \in ClientMemory
  <2>1. cli' = [cli EXCEPT ![c] = me]
    OBVIOUS
  <2>2. cli[c] \in ClientMemory
    BY <2>1, ClientUpdated
  <2>3. me \in ClientMemory
    BY <1>2, <2>2 DEF ClientMemory
  <2> QED BY <2>1, <2>3, ClientUpdated
<1>6. cli' \in [Clients -> ClientMemory] /\ cpc' \in [Clients -> Steps \union {"start"}]
  BY <1>5 DEF TypeInv, TypeOK, Steps
<1>7. TypeOK'
  BY <1>3, <1>4, <1>6 DEF TypeInv, TypeOK
<1>8. ServerStage'
  BY DEF TypeInv, ServerStage
<1>9. ClientStage(c)'
  BY DEF TypeInv, TypeOK, ClientStage, HelloSteps
<1>10. \A d \in Clients : ClientStage(d)'
  BY <1>5, <1>9, OtherClientsStage
<1> QED BY <1>7, <1>8, <1>10 DEF TypeInv

-----------------------------------------------------------------------------
LEMMA InitType == ASSUME Init PROVE TypeInv
<1> USE DEF Init
<1>1. ClearServer \in ServerMemory /\ ClearClient \in ClientMemory
  BY DEF ClearServer, ServerMemory, ClearClient, ClientMemory
<1>2. TypeOK
  <2>1. garbled \in 0..MaxGarbled /\ Len(backlog) <= Backlog
    BY MaxGarbledAssumption, BacklogAssumption
  <2>2. spc \in Steps \union {"start", "accept"} /\ cpc \in [Clients -> Steps \union {"start"}]
    OBVIOUS
  <2>3. /\ c2s \in [Clients -> Seq(Message)] /\ s2c \in [Clients -> Seq(Message)]
        /\ sHup \in [Clients -> Hups] /\ cHup \in [Clients -> Hups]
        /\ backlog \in Seq(Clients)
    BY DEF Hups
  <2> QED BY <1>1, <2>1, <2>2, <2>3 DEF TypeOK
<1>3. ServerStage
  BY DEF ServerStage, ServerLive, ServerSending, ServerReceiving, HelloSteps, Ended, ClearServer
<1>4. ASSUME NEW c \in Clients PROVE ClientStage(c)
  <2>1. cpc[c] = "start" /\ cli[c] = ClearClient
    OBVIOUS
  <2> HIDE DEF Init
  <2>2. ClearClient.transcript \in Seq(HelloMsg)
    BY DEF ClearClient
  <2> QED BY <2>1, <2>2 DEF ClientStage
<1> QED BY <1>2, <1>3, <1>4 DEF TypeInv

LEMMA StutterType == ASSUME TypeInv, UNCHANGED vars PROVE TypeInv'
BY DEF TypeInv, TypeOK, ServerStage, ClientStage, vars, network, session

LEMMA NextType == ASSUME TypeInv, [Next]_vars PROVE TypeInv'
<1>1. CASE ServerStart
  BY <1>1, ServerStartType
<1>2. CASE ServerStep \/ ServerFails
  <2>1. CASE \/ ServerSuccess \/ ServerRejects \/ ServerDisconnected \/ ServerKilled
             \/ ServerFails
    BY <2>1, ServerEndings, ServerExitType
  <2> QED BY <1>2, <2>1, AcceptType, RecvClientHelloType, SendServerHelloType,
             SendCertificateType, SendCertificateVerifyType, SendServerFinishedType,
             RecvClientFinishedType, RecvClientRecordType, SendServerRecordType
          DEF ServerStep
<1>3. ASSUME NEW c \in Clients, ClientStep(c) \/ ClientFails(c) PROVE TypeInv'
  <2>1. CASE \/ ClientRefused(c) \/ ClientSuccess(c) \/ ClientRejects(c)
             \/ ClientDisconnected(c) \/ ClientKilled(c) \/ ClientFails(c)
    BY <2>1, ClientEndings, ClientExitType
  <2> QED BY <1>3, <2>1, SendClientHelloType, RecvServerHelloType, RecvCertificateType,
             RecvCertificateVerifyType, RecvServerFinishedType, SendClientFinishedType,
             SendClientRecordType, RecvServerRecordType
          DEF ClientStep
<1>4. CASE AllEnded \/ UNCHANGED vars
  BY <1>4, StutterType DEF AllEnded
<1> QED BY <1>1, <1>2, <1>3, <1>4, ClientConnectType, GarbleType DEF Next

\* Every variable stays in its set, whatever the number of clients, of key
\* pairs, of queued connections and of altered messages.
THEOREM TypeCorrect == Spec => []TypeOK
<1>1. Init => TypeInv
  BY InitType
<1>2. TypeInv /\ [Next]_vars => TypeInv'
  BY NextType
<1>3. TypeInv => TypeOK
  BY DEF TypeInv
<1> QED BY <1>1, <1>2, <1>3, PTL DEF Spec

-----------------------------------------------------------------------------
(***************************************************************************)
(* Agreement and OneConnection hold in every behaviour of Handshake.       *)
(*                                                                         *)
(* Five actions touch what IInv says of keys and Finished messages: Accept *)
(* and the four that send or check a Finished.  Every other step is quiet: *)
(* it brings no new unaltered Finished, moves nobody to a step at which    *)
(* IInv claims more, and leaves the keys alone.                            *)
(***************************************************************************)

\* Every unaltered message of this type in the new stream was in the old one.
NoNew(type, new, old) ==
    \A i \in DOMAIN new :
        new[i].type = type /\ new[i].body # Garbled => \E j \in DOMAIN old : old[j] = new[i]

Quiet ==
    /\ conn' = conn /\ offered' = offered
    /\ clientKeys' = clientKeys /\ serverKeys' = serverKeys
    /\ spc' \in BeforeOffer => spc \in BeforeOffer
    /\ spc' = "client_finished" => spc = "client_finished" /\ srv' = srv
    /\ \A c \in Clients :
          /\ cpc'[c] \in BeforeCommit => cpc[c] \in BeforeCommit
          /\ cpc'[c] = "client_finished" => cpc[c] = "client_finished" /\ cli'[c] = cli[c]
          /\ c # conn => s2c'[c] = <<>> /\ cpc'[c] \in Waiting
          /\ NoNew(TLS_MSG_FINISHED, s2c'[c], s2c[c])
          /\ NoNew(TLS_MSG_FINISHED, c2s'[c], c2s[c])

LEMMA QuietStep == ASSUME IInv, TypeInv', Quiet PROVE IInv'
<1> USE DEF Quiet, BeforeOffer, BeforeCommit, Waiting
<1>1. Unserved'
  BY DEF IInv, Unserved
<1>2. OfferStage'
  BY DEF IInv, OfferStage
<1>3. ServerFinishedInFlight'
  BY DEF IInv, ServerFinishedInFlight, NoNew
<1>4. ClientConfirmed'
  BY DEF IInv, ClientConfirmed
<1>5. ClientUncommitted'
  BY DEF IInv, ClientUncommitted
<1>6. ClientFinishedInFlight'
  BY DEF IInv, ClientFinishedInFlight, NoNew
<1>7. Agreement'
  BY DEF IInv, Agreement
<1> QED BY <1>1, <1>2, <1>3, <1>4, <1>5, <1>6, <1>7 DEF IInv

-----------------------------------------------------------------------------
(* Sequences: what Tail and Append do to the elements. *)

LEMMA TailElements ==
    ASSUME NEW S, NEW q \in Seq(S), q # <<>>, NEW i \in DOMAIN Tail(q)
    PROVE  i + 1 \in DOMAIN q /\ Tail(q)[i] = q[i + 1]
OBVIOUS

LEMMA AppendElements ==
    ASSUME NEW S, NEW q \in Seq(S), NEW m \in S, NEW i \in DOMAIN Append(q, m)
    PROVE  (i \in DOMAIN q /\ Append(q, m)[i] = q[i]) \/ Append(q, m)[i] = m
OBVIOUS

LEMMA NoNewSame == \A type, q : NoNew(type, q, q)
BY DEF NoNew

LEMMA NoNewEmpty == \A type, q : NoNew(type, <<>>, q)
BY DEF NoNew

LEMMA NoNewTail ==
    ASSUME NEW type, NEW q \in Seq(Message), q # <<>>
    PROVE  NoNew(type, Tail(q), q)
BY TailElements DEF NoNew

LEMMA NoNewAppend ==
    ASSUME NEW type, NEW q \in Seq(Message), NEW hup, NEW msg \in Message, msg.type # type
    PROVE  NoNew(type, Delivered(q, hup, msg), q)
<1>1. CASE hup = "open"
  BY <1>1, AppendElements DEF NoNew, Delivered
<1>2. CASE hup # "open"
  BY <1>2 DEF NoNew, Delivered
<1> QED BY <1>1, <1>2

\* Receiving brings no new message of any type, sending none of another type.
LEMMA ServerReceivesQuiet ==
    ASSUME IInv, NEW type, conn \in Clients, NEW step, ServerReceives(step)
    PROVE  \A c \in Clients : /\ NoNew(type, s2c'[c], s2c[c])
                              /\ NoNew(type, c2s'[c], c2s[c])
                              /\ c # conn => s2c'[c] = <<>>
<1> TAKE c \in Clients
<1>1. s2c' = s2c /\ c2s[c] \in Seq(Message)
  BY DEF ServerReceives, IInv, TypeInv, TypeOK
<1>2. c2s'[c] = c2s[c] \/ (c2s[c] # <<>> /\ c2s'[c] = Tail(c2s[c]))
  BY DEF ServerReceives, IInv, TypeInv, TypeOK
<1> QED BY <1>1, <1>2, NoNewSame, NoNewTail DEF IInv, Unserved

LEMMA ServerSendsQuiet ==
    ASSUME IInv, NEW type, conn \in Clients, NEW msg \in Message, msg.type # type,
           ServerSends(msg)
    PROVE  \A c \in Clients : /\ NoNew(type, s2c'[c], s2c[c])
                              /\ NoNew(type, c2s'[c], c2s[c])
                              /\ c # conn => s2c'[c] = <<>>
<1> TAKE c \in Clients
<1>1. c2s' = c2s /\ s2c[c] \in Seq(Message)
  BY DEF ServerSends, IInv, TypeInv, TypeOK
<1>2. IF c = conn THEN s2c'[c] = Delivered(s2c[c], sHup[c], msg) ELSE s2c'[c] = s2c[c]
  BY DEF ServerSends, IInv, TypeInv, TypeOK
<1> QED BY <1>1, <1>2, NoNewSame, NoNewAppend DEF IInv, Unserved

LEMMA ClientReceivesQuiet ==
    ASSUME IInv, NEW type, NEW c \in Clients, NEW step, ClientReceives(c, step)
    PROVE  /\ c = conn
           /\ \A d \in Clients : /\ NoNew(type, s2c'[d], s2c[d])
                                 /\ NoNew(type, c2s'[d], c2s[d])
                                 /\ d # conn => s2c'[d] = <<>>
<1>1. c = conn
  BY DEF ClientReceives, IInv, Unserved
<1>2. ASSUME NEW d \in Clients
      PROVE  /\ NoNew(type, s2c'[d], s2c[d]) /\ NoNew(type, c2s'[d], c2s[d])
             /\ d # conn => s2c'[d] = <<>>
  <2>1. c2s' = c2s /\ s2c[d] \in Seq(Message)
    BY DEF ClientReceives, IInv, TypeInv, TypeOK
  <2>2. IF d = c THEN s2c[d] # <<>> /\ s2c'[d] = Tail(s2c[d]) ELSE s2c'[d] = s2c[d]
    BY DEF ClientReceives, IInv, TypeInv, TypeOK
  <2> QED BY <1>1, <2>1, <2>2, NoNewSame, NoNewTail DEF IInv, Unserved
<1> QED BY <1>1, <1>2

LEMMA ClientSendsQuiet ==
    ASSUME IInv, NEW type, NEW c \in Clients, NEW msg \in Message, msg.type # type,
           ClientSends(c, msg)
    PROVE  \A d \in Clients : /\ NoNew(type, s2c'[d], s2c[d])
                              /\ NoNew(type, c2s'[d], c2s[d])
                              /\ d # conn => s2c'[d] = <<>>
<1> TAKE d \in Clients
<1>1. s2c' = s2c /\ c2s[d] \in Seq(Message)
  BY DEF ClientSends, IInv, TypeInv, TypeOK
<1>2. IF d = c THEN c2s'[d] = Delivered(c2s[d], cHup[d], msg) ELSE c2s'[d] = c2s[d]
  BY DEF ClientSends, IInv, TypeInv, TypeOK
<1> QED BY <1>1, <1>2, NoNewSame, NoNewAppend DEF IInv, Unserved

-----------------------------------------------------------------------------
(* The quiet steps. *)

LEMMA ServerQuietSteps ==
    ASSUME IInv,
           \/ ServerStart \/ RecvClientHello \/ SendServerHello \/ SendCertificate
           \/ SendCertificateVerify \/ RecvClientRecord \/ SendServerRecord
    PROVE  Quiet
<1> USE DEF Quiet, BeforeOffer, BeforeCommit, Waiting
<1>1. spc \in ServerLive => conn \in Clients
  BY DEF IInv, TypeInv, ServerStage
<1>2. CASE ServerStart
  BY <1>2, NoNewSame DEF ServerStart, IInv, Unserved, session, network, HelloSteps
<1>3. CASE RecvClientHello
  BY <1>1, <1>3, ServerReceivesQuiet
     DEF RecvClientHello, ServerReceives, ServerLive, ServerReceiving, IInv, Unserved, session, HelloSteps
<1>4. CASE SendServerHello
  <2> DEFINE msg == Msg(TLS_MSG_SERVER_HELLO, Ciphertext(srv.kem_public_key))
  <2>1. conn \in Clients /\ srv.kem_public_key \in KemPublicKeys
    BY <1>1, <1>4 DEF SendServerHello, ServerLive, ServerSending, IInv, TypeInv, ServerStage
  <2>2. msg \in Message /\ msg.type # TLS_MSG_FINISHED
    BY <2>1, Constructors, HelloIsSigned, SignedIsConfirmed, ConfirmedIsHandshake, HandshakeIsMessage
       DEF Msg, TLS_MSG_SERVER_HELLO, TLS_MSG_FINISHED
  <2> QED BY <1>4, <2>1, <2>2, ServerSendsQuiet
          DEF SendServerHello, IInv, Unserved, session, HelloSteps
<1>5. CASE SendCertificate
  <2> DEFINE msg == Msg(TLS_MSG_CERTIFICATE, srv.sig_public_key)
  <2>1. conn \in Clients /\ srv.sig_public_key \in SigPublicKeys
    BY <1>1, <1>5, Constructors
       DEF SendCertificate, ServerLive, ServerSending, IInv, TypeInv, TypeOK, ServerStage
  <2>2. msg \in Message /\ msg.type # TLS_MSG_FINISHED
    BY <2>1, Constructors, HelloIsSigned, SignedIsConfirmed, ConfirmedIsHandshake, HandshakeIsMessage
       DEF Msg, TLS_MSG_CERTIFICATE, TLS_MSG_FINISHED
  <2> QED BY <1>5, <2>1, <2>2, ServerSendsQuiet
          DEF SendCertificate, IInv, Unserved, session, HelloSteps
<1>6. CASE SendCertificateVerify
  <2> DEFINE msg == Msg(TLS_MSG_CERTIFICATE_VERIFY, Signature(srv.sig_secret_key, srv.transcript))
  <2>1. conn \in Clients /\ srv.sig_secret_key \in KeyPairs /\ srv.transcript \in Seq(HelloMsg)
    BY <1>1, <1>6 DEF SendCertificateVerify, ServerLive, ServerSending, IInv, TypeInv, TypeOK,
                      ServerStage, HelloSteps
  <2>2. msg \in Message /\ msg.type # TLS_MSG_FINISHED
    BY <2>1, SignatureMsgType, SignedIsConfirmed, ConfirmedIsHandshake, HandshakeIsMessage
       DEF Msg, TLS_MSG_CERTIFICATE_VERIFY, TLS_MSG_FINISHED
  <2> QED BY <1>6, <2>1, <2>2, ServerSendsQuiet
          DEF SendCertificateVerify, IInv, Unserved, session, HelloSteps
<1>7. CASE RecvClientRecord
  BY <1>1, <1>7, ServerReceivesQuiet
     DEF RecvClientRecord, ServerReceives, ServerLive, ServerReceiving, IInv, Unserved, HelloSteps
<1>8. CASE SendServerRecord
  <2> DEFINE msg == Msg(TLS_APPLICATION_DATA, Seal(srv.send_state, ServerMessage))
  <2>1. conn \in Clients /\ srv.send_state \in RecordStates
    BY <1>1, <1>8 DEF SendServerRecord, ServerLive, ServerSending, IInv, TypeInv, ServerStage
  <2>2. msg \in Message
    BY <2>1, RecordMsgType DEF Texts
  <2>3. msg.type # TLS_MSG_FINISHED
    BY DEF Msg, TLS_APPLICATION_DATA, TLS_MSG_FINISHED
  <2> QED BY <1>8, <2>1, <2>2, <2>3, ServerSendsQuiet
          DEF SendServerRecord, IInv, Unserved, session, HelloSteps
<1> QED BY <1>2, <1>3, <1>4, <1>5, <1>6, <1>7, <1>8

LEMMA ServerExitQuiet ==
    ASSUME IInv, NEW outcome \in Ended, NEW unread, ServerExit(outcome, unread)
    PROVE  Quiet
<1> USE DEF Quiet, BeforeOffer, BeforeCommit, Waiting
<1>1. spc' \notin BeforeOffer /\ spc' # "client_finished"
  BY DEF ServerExit, Ended, HelloSteps
<1>2. \A c \in Clients : c2s'[c] = <<>> /\ s2c'[c] = s2c[c] /\ cpc' = cpc /\ cli' = cli
  BY DEF ServerExit, IInv, TypeInv, TypeOK
<1> QED BY <1>1, <1>2, NoNewSame, NoNewEmpty DEF ServerExit, session, IInv, Unserved

LEMMA ClientQuietSteps ==
    ASSUME IInv, NEW c \in Clients,
           \/ ClientConnect(c) \/ SendClientHello(c) \/ RecvServerHello(c) \/ RecvCertificate(c)
           \/ RecvCertificateVerify(c) \/ SendClientRecord(c) \/ RecvServerRecord(c)
    PROVE  Quiet
<1> USE DEF Quiet, BeforeOffer, BeforeCommit, Waiting
<1>0. /\ cpc \in [Clients -> Steps \union {"start"}] /\ cli \in [Clients -> ClientMemory]
      /\ \A d \in Clients : d # conn => s2c[d] = <<>> /\ cpc[d] \in Waiting
  BY DEF IInv, TypeInv, TypeOK, Unserved
<1>1. CASE ClientConnect(c)
  BY <1>0, <1>1, NoNewSame DEF ClientConnect, session, network, HelloSteps
<1>2. CASE SendClientHello(c)
  <2> DEFINE msg == Msg(TLS_MSG_CLIENT_HELLO, KemPublicKey(c))
  <2>1. msg \in Message /\ msg.type # TLS_MSG_FINISHED
    BY Constructors, HelloIsSigned, SignedIsConfirmed, ConfirmedIsHandshake, HandshakeIsMessage
       DEF Msg, TLS_MSG_CLIENT_HELLO, TLS_MSG_FINISHED
  <2> QED BY <1>0, <1>2, <2>1, ClientSendsQuiet DEF SendClientHello, session, HelloSteps
<1>3. CASE RecvServerHello(c)
  BY <1>0, <1>3, ClientReceivesQuiet DEF RecvServerHello, ClientReceives, session, HelloSteps
<1>4. CASE RecvCertificate(c)
  BY <1>0, <1>4, ClientReceivesQuiet DEF RecvCertificate, ClientReceives, session, HelloSteps
<1>5. CASE RecvCertificateVerify(c)
  BY <1>0, <1>5, ClientReceivesQuiet DEF RecvCertificateVerify, ClientReceives, session, HelloSteps
<1>6. CASE SendClientRecord(c)
  <2> DEFINE msg == Msg(TLS_APPLICATION_DATA, Seal(cli[c].send_state, ClientMessage))
  <2>1. cli[c].send_state \in RecordStates
    BY <1>6 DEF SendClientRecord, IInv, TypeInv, ClientStage
  <2>2. msg \in Message
    BY <2>1, RecordMsgType DEF Texts
  <2>3. msg.type # TLS_MSG_FINISHED
    BY DEF Msg, TLS_APPLICATION_DATA, TLS_MSG_FINISHED
  <2> QED BY <1>0, <1>6, <2>2, <2>3, ClientSendsQuiet DEF SendClientRecord, session, HelloSteps
<1>7. CASE RecvServerRecord(c)
  BY <1>0, <1>7, ClientReceivesQuiet DEF RecvServerRecord, ClientReceives, HelloSteps
<1> QED BY <1>1, <1>2, <1>3, <1>4, <1>5, <1>6, <1>7

LEMMA ClientExitQuiet ==
    ASSUME IInv, NEW c \in Clients, NEW outcome \in Ended, NEW unread,
           ClientExit(c, outcome, unread), outcome = "success" => cpc[c] = "end"
    PROVE  Quiet
<1> USE DEF Quiet, BeforeOffer, BeforeCommit, Waiting
<1>1. \A d \in Clients : d # conn => s2c[d] = <<>> /\ cpc[d] \in Waiting
  BY DEF IInv, Unserved
<1>2. \A d \in Clients :
          /\ c2s'[d] = c2s[d]
          /\ s2c'[d] = s2c[d] \/ s2c'[d] = <<>>
          /\ IF d = c THEN cpc'[d] = outcome
             ELSE cpc'[d] = cpc[d] /\ cli'[d] = cli[d]
  BY DEF ClientExit, IInv, TypeInv, TypeOK
<1>3. outcome \notin BeforeCommit /\ (c # conn => outcome \in Waiting)
  BY <1>1 DEF Ended, HelloSteps
<1> QED BY <1>1, <1>2, <1>3, NoNewSame, NoNewEmpty DEF ClientExit, session

LEMMA GarbleQuiet ==
    ASSUME IInv, NEW c \in Clients, Garble(c)
    PROVE  Quiet
<1> USE DEF Quiet, BeforeOffer, BeforeCommit, Waiting
<1>1. ASSUME NEW q \in Seq(Message), NEW i \in DOMAIN q, NEW msg \in Altered(q[i])
      PROVE  NoNew(TLS_MSG_FINISHED, [q EXCEPT ![i] = msg], q)
  <2>1. msg.body = Garbled
    BY DEF Altered, Msg
  <2> QED BY <2>1 DEF NoNew
<1>2. ASSUME NEW d \in Clients
      PROVE  /\ NoNew(TLS_MSG_FINISHED, s2c'[d], s2c[d]) /\ NoNew(TLS_MSG_FINISHED, c2s'[d], c2s[d])
             /\ d # conn => s2c'[d] = <<>>
  <2>1. c2s[d] \in Seq(Message) /\ s2c[d] \in Seq(Message) /\ (d # conn => s2c[d] = <<>>)
        /\ c2s \in [Clients -> Seq(Message)] /\ s2c \in [Clients -> Seq(Message)]
    BY DEF IInv, TypeInv, TypeOK, Unserved
  <2>2. CASE \E i \in DOMAIN c2s[c] : \E msg \in Altered(c2s[c][i]) :
                c2s' = [c2s EXCEPT ![c][i] = msg] /\ s2c' = s2c
    <3> PICK i \in DOMAIN c2s[c] : \E msg \in Altered(c2s[c][i]) :
                c2s' = [c2s EXCEPT ![c][i] = msg] /\ s2c' = s2c
      BY <2>2
    <3> PICK msg \in Altered(c2s[c][i]) : c2s' = [c2s EXCEPT ![c][i] = msg] /\ s2c' = s2c
      OBVIOUS
    <3>1. c2s'[d] = IF d = c THEN [c2s[d] EXCEPT ![i] = msg] ELSE c2s[d]
      BY <2>1
    <3> QED BY <1>1, <2>1, <3>1, NoNewSame
  <2>3. CASE \E i \in DOMAIN s2c[c] : \E msg \in Altered(s2c[c][i]) :
                s2c' = [s2c EXCEPT ![c][i] = msg] /\ c2s' = c2s
    <3> PICK i \in DOMAIN s2c[c] : \E msg \in Altered(s2c[c][i]) :
                s2c' = [s2c EXCEPT ![c][i] = msg] /\ c2s' = c2s
      BY <2>3
    <3> PICK msg \in Altered(s2c[c][i]) : s2c' = [s2c EXCEPT ![c][i] = msg] /\ c2s' = c2s
      OBVIOUS
    <3>1. s2c'[d] = IF d = c THEN [s2c[d] EXCEPT ![i] = msg] ELSE s2c[d]
      BY <2>1
    <3>2. s2c[c] # <<>>
      OBVIOUS
    <3> QED BY <1>1, <2>1, <3>1, <3>2, NoNewSame
  <2> QED BY <2>2, <2>3 DEF Garble
<1> QED BY <1>2 DEF Garble, session, IInv, Unserved

-----------------------------------------------------------------------------
(* The steps that are not quiet. *)

LEMMA KeysAreKeys == \A ss, hash : KeysAfter(ss, hash) # None /\ ApplicationKeys(ss, hash) # None
BY DEF KeysAfter, ApplicationKeys, None

LEMMA AcceptAgreement == ASSUME IInv, TypeInv', Accept PROVE IInv'
<1> USE DEF Accept, BeforeOffer, BeforeCommit, Waiting
<1>1. conn = NoClient /\ conn \notin Clients
  BY NoClientAssumption DEF IInv, TypeInv, ServerStage
<1>2. \A c \in Clients : s2c[c] = <<>> /\ clientKeys[c] = None /\ cpc[c] \in Waiting
  BY <1>1 DEF IInv, Unserved, Waiting
<1>3. serverKeys = None
  BY <1>1 DEF IInv, Agreement
<1>4. Unserved'
  BY <1>2 DEF network, session, Unserved, Waiting
<1>5. OfferStage'
  BY DEF IInv, OfferStage, session, HelloSteps
<1>6. ServerFinishedInFlight' /\ ClientFinishedInFlight'
  BY DEF IInv, ServerFinishedInFlight, ClientFinishedInFlight, network, session
<1>7. ClientConfirmed' /\ ClientUncommitted'
  BY DEF IInv, ClientConfirmed, ClientUncommitted, session
<1>8. Agreement'
  BY <1>2, <1>3 DEF Agreement, session
<1> QED BY <1>4, <1>5, <1>6, <1>7, <1>8 DEF IInv

LEMMA SendServerFinishedAgreement ==
    ASSUME IInv, TypeInv', SendServerFinished PROVE IInv'
<1> USE DEF SendServerFinished, BeforeOffer, BeforeCommit, Waiting
<1> DEFINE data == VerifyData(srv.shared_secret, TLS_SERVER_FINISHED_LABEL, srv.transcript)
           msg  == Msg(TLS_MSG_FINISHED, data)
<1>1. conn \in Clients /\ offered = None
  BY DEF IInv, TypeInv, ServerStage, ServerLive, ServerSending, OfferStage
<1>2. \A c \in Clients : clientKeys[c] = None /\ cpc[c] # "client_finished"
  BY <1>1, KeysAreKeys DEF IInv, Agreement, ClientConfirmed
<1>3. serverKeys = None
  BY <1>2 DEF IInv, Agreement
<1>4. srv'.shared_secret = srv.shared_secret /\ srv'.transcript = Append(srv.transcript, msg)
  BY DEF IInv, TypeInv, TypeOK, ServerMemory
<1>5. offered' = KeysAfter(msg.body.secret, Append(msg.body.hash, msg))
  BY DEF VerifyData, Msg
<1>6. ASSUME NEW c \in Clients
      PROVE  /\ s2c'[c] = IF c = conn THEN Delivered(s2c[c], sHup[c], msg) ELSE s2c[c]
             /\ s2c[c] \in Seq(Message)
             /\ c2s'[c] = c2s[c]
  BY DEF ServerSends, IInv, TypeInv, TypeOK
<1>7. Unserved'
  BY <1>6 DEF IInv, Unserved
<1>8. OfferStage'
  BY <1>4 DEF OfferStage, HelloSteps
<1>9. ASSUME NEW c \in Clients, NEW i \in DOMAIN s2c'[c],
             s2c'[c][i].type = TLS_MSG_FINISHED, s2c'[c][i].body # Garbled
      PROVE  s2c'[c][i] = msg
  <2>1. \A j \in DOMAIN s2c[c] : s2c[c][j].type = TLS_MSG_FINISHED => s2c[c][j].body = Garbled
    BY <1>1, KeysAreKeys DEF IInv, ServerFinishedInFlight
  <2>2. msg \in Message
    <3>1. srv.shared_secret \in Secrets /\ srv.transcript \in Seq(SignedMsg)
      BY DEF IInv, TypeInv, ServerStage
    <3> QED BY <3>1, ServerFinishedType, ConfirmedIsHandshake, HandshakeIsMessage
  <2>3. CASE s2c'[c] = s2c[c]
    BY <1>9, <2>1, <2>3
  <2>4. CASE s2c'[c] = Append(s2c[c], msg)
    BY <1>6, <1>9, <2>1, <2>2, <2>4, AppendElements
  <2> QED BY <1>6, <2>3, <2>4 DEF Delivered
<1>10. ServerFinishedInFlight'
  BY <1>5, <1>9 DEF ServerFinishedInFlight
<1>11. ClientConfirmed' /\ ClientUncommitted'
  BY <1>2 DEF ClientConfirmed, ClientUncommitted
<1>12. ClientFinishedInFlight'
  BY <1>6 DEF IInv, ClientFinishedInFlight
<1>13. Agreement'
  BY <1>2, <1>3 DEF Agreement
<1> QED BY <1>7, <1>8, <1>10, <1>11, <1>12, <1>13 DEF IInv

LEMMA RecvClientFinishedAgreement ==
    ASSUME IInv, TypeInv', RecvClientFinished PROVE IInv'
<1> USE DEF RecvClientFinished, BeforeOffer, BeforeCommit, Waiting
<1> DEFINE msg  == Head(c2s[conn])
           keys == ApplicationKeys(srv.shared_secret, Append(srv.transcript, msg))
<1>1. conn \in Clients /\ spc = "client_finished"
  BY DEF IInv, TypeInv, ServerStage, ServerLive, ServerReceiving, ServerReceives
<1>2. msg.type = TLS_MSG_FINISHED /\ msg = c2s[conn][1] /\ 1 \in DOMAIN c2s[conn]
  BY <1>1 DEF ServerReceives, ExpectedType, IInv, TypeInv, TypeOK
<1>3. msg.body = VerifyData(srv.shared_secret, TLS_CLIENT_FINISHED_LABEL, srv.transcript)
  BY DEF FinishedMatches
<1>4. /\ msg.body # Garbled
      /\ msg.body.secret = srv.shared_secret /\ msg.body.hash = srv.transcript
  BY <1>3 DEF VerifyData, Garbled
<1>5. clientKeys[conn] = keys
  BY <1>1, <1>2, <1>4 DEF IInv, ClientFinishedInFlight
<1>6. \A c \in Clients : /\ NoNew(TLS_MSG_FINISHED, s2c'[c], s2c[c])
                         /\ NoNew(TLS_MSG_FINISHED, c2s'[c], c2s[c])
                         /\ c # conn => s2c'[c] = <<>>
  BY <1>1, ServerReceivesQuiet
<1>7. Unserved'
  BY <1>6 DEF IInv, Unserved
<1>8. OfferStage'
  BY DEF OfferStage, HelloSteps
<1>9. ServerFinishedInFlight' /\ ClientFinishedInFlight'
  BY <1>6 DEF IInv, ServerFinishedInFlight, ClientFinishedInFlight, NoNew
<1>10. ClientConfirmed' /\ ClientUncommitted'
  BY DEF IInv, ClientConfirmed, ClientUncommitted
<1>11. Agreement'
  BY <1>1, <1>5 DEF IInv, Agreement
<1> QED BY <1>7, <1>8, <1>9, <1>10, <1>11 DEF IInv

LEMMA RecvServerFinishedAgreement ==
    ASSUME IInv, TypeInv', NEW c \in Clients, RecvServerFinished(c) PROVE IInv'
<1> USE DEF RecvServerFinished, BeforeOffer, BeforeCommit, Waiting
<1> DEFINE msg == Head(s2c[c])
<1>1. /\ cpc[c] = "server_finished" /\ c = conn
      /\ \A d \in Clients : /\ NoNew(TLS_MSG_FINISHED, s2c'[d], s2c[d])
                            /\ NoNew(TLS_MSG_FINISHED, c2s'[d], c2s[d])
                            /\ d # conn => s2c'[d] = <<>>
  BY ClientReceivesQuiet DEF ClientReceives
<1>2. msg.type = TLS_MSG_FINISHED /\ msg = s2c[c][1] /\ 1 \in DOMAIN s2c[c]
  BY DEF ClientReceives, ExpectedType, IInv, TypeInv, TypeOK
<1>3. msg.body = VerifyData(cli[c].shared_secret, TLS_SERVER_FINISHED_LABEL, cli[c].transcript)
  BY DEF FinishedMatches
<1>4. /\ msg.body # Garbled
      /\ msg.body.secret = cli[c].shared_secret /\ msg.body.hash = cli[c].transcript
  BY <1>3 DEF VerifyData, Garbled
<1>5. offered = KeysAfter(cli[c].shared_secret, Append(cli[c].transcript, msg))
  BY <1>2, <1>4 DEF IInv, ServerFinishedInFlight
<1>6. /\ cpc \in [Clients -> Steps \union {"start"}] /\ cli \in [Clients -> ClientMemory]
      /\ cli'[c].shared_secret = cli[c].shared_secret
      /\ cli'[c].transcript = Append(cli[c].transcript, msg)
      /\ \A d \in Clients : d # c => cli'[d] = cli[d] /\ cpc'[d] = cpc[d]
  <2> DEFINE me == [cli[c] EXCEPT !.transcript = Append(@, msg)]
  <2>1. cli' = [cli EXCEPT ![c] = me] /\ TypeInv
    BY DEF IInv
  <2>2. cpc \in [Clients -> Steps \union {"start"}]
    BY <2>1 DEF TypeInv, TypeOK
  <2>3. /\ cli \in [Clients -> ClientMemory] /\ cli[c] \in ClientMemory /\ cli'[c] = me
        /\ \A d \in Clients : d # c => cli'[d] = cli[d]
    BY <2>1, ClientUpdated
  <2>4. me.shared_secret = cli[c].shared_secret /\ me.transcript = Append(cli[c].transcript, msg)
    BY <2>3 DEF ClientMemory
  <2> QED BY <2>2, <2>3, <2>4
<1>7. Unserved'
  BY <1>1, <1>6 DEF IInv, Unserved, session
<1>8. OfferStage'
  BY DEF IInv, OfferStage, session
<1>9. ServerFinishedInFlight' /\ ClientFinishedInFlight'
  BY <1>1 DEF IInv, ServerFinishedInFlight, ClientFinishedInFlight, NoNew, session
<1>10. ClientConfirmed'
  BY <1>5, <1>6 DEF IInv, ClientConfirmed, session
<1>11. ClientUncommitted'
  BY <1>1, <1>6 DEF IInv, ClientUncommitted, session
<1>12. Agreement'
  BY DEF IInv, Agreement, session
<1> QED BY <1>7, <1>8, <1>9, <1>10, <1>11, <1>12 DEF IInv

LEMMA SendClientFinishedAgreement ==
    ASSUME IInv, TypeInv', NEW c \in Clients, SendClientFinished(c) PROVE IInv'
<1> USE DEF SendClientFinished, BeforeOffer, BeforeCommit, Waiting
<1> DEFINE data == VerifyData(cli[c].shared_secret, TLS_CLIENT_FINISHED_LABEL, cli[c].transcript)
           msg  == Msg(TLS_MSG_FINISHED, data)
           keys == ApplicationKeys(cli[c].shared_secret, Append(cli[c].transcript, msg))
<1>1. c = conn /\ clientKeys[c] = None
  BY DEF IInv, Unserved, ClientUncommitted
<1>2. keys = offered
  BY DEF IInv, ClientConfirmed, KeysAfter
<1>3. serverKeys = None
  BY <1>1, KeysAreKeys DEF IInv, Agreement
<1>4. /\ clientKeys'[c] = keys
      /\ \A d \in Clients : d # c => clientKeys'[d] = clientKeys[d] /\ cpc'[d] = cpc[d]
                                     /\ cli'[d] = cli[d]
      /\ cpc'[c] = "client_record"
  BY DEF IInv, TypeInv, TypeOK
<1>5. keys = ApplicationKeys(msg.body.secret, Append(msg.body.hash, msg))
  BY DEF VerifyData, Msg
<1>6. ASSUME NEW d \in Clients
      PROVE  /\ c2s'[d] = IF d = c THEN Delivered(c2s[d], cHup[d], msg) ELSE c2s[d]
             /\ c2s[d] \in Seq(Message)
             /\ s2c'[d] = s2c[d]
  BY DEF ClientSends, IInv, TypeInv, TypeOK
<1>7. Unserved'
  BY <1>1, <1>4, <1>6 DEF IInv, Unserved
<1>8. OfferStage'
  BY DEF IInv, OfferStage
<1>9. ServerFinishedInFlight'
  BY <1>6 DEF IInv, ServerFinishedInFlight
<1>10. ClientConfirmed' /\ ClientUncommitted'
  BY <1>4 DEF IInv, ClientConfirmed, ClientUncommitted, HelloSteps
<1>11. ASSUME NEW i \in DOMAIN c2s'[c],
              c2s'[c][i].type = TLS_MSG_FINISHED, c2s'[c][i].body # Garbled
       PROVE  c2s'[c][i] = msg
  <2>1. \A j \in DOMAIN c2s[c] : c2s[c][j].type = TLS_MSG_FINISHED => c2s[c][j].body = Garbled
    BY <1>1, KeysAreKeys DEF IInv, ClientFinishedInFlight
  <2>2. msg \in Message
    <3>1. cli[c].shared_secret \in Secrets /\ cli[c].transcript \in Seq(ConfirmedMsg)
      BY DEF IInv, TypeInv, ClientStage
    <3> QED BY <3>1, ClientFinishedType, HandshakeIsMessage
  <2>3. CASE c2s'[c] = c2s[c]
    BY <1>11, <2>1, <2>3
  <2>4. CASE c2s'[c] = Append(c2s[c], msg)
    BY <1>6, <1>11, <2>1, <2>2, <2>4, AppendElements
  <2> QED BY <1>6, <2>3, <2>4 DEF Delivered
<1>12. ClientFinishedInFlight'
  BY <1>4, <1>5, <1>6, <1>11 DEF IInv, ClientFinishedInFlight
<1>13. Agreement'
  BY <1>1, <1>2, <1>3, <1>4 DEF IInv, Agreement
<1> QED BY <1>7, <1>8, <1>9, <1>10, <1>12, <1>13 DEF IInv

-----------------------------------------------------------------------------
LEMMA InitIInv == ASSUME Init PROVE IInv
<1>1. TypeInv
  BY InitType
<1>2. Unserved /\ OfferStage
  BY DEF Init, Unserved, Waiting, OfferStage
<1>3. ServerFinishedInFlight /\ ClientFinishedInFlight
  BY DEF Init, ServerFinishedInFlight, ClientFinishedInFlight
<1>4. ClientConfirmed /\ ClientUncommitted /\ Agreement
  BY DEF Init, ClientConfirmed, ClientUncommitted, Agreement
<1> QED BY <1>1, <1>2, <1>3, <1>4 DEF IInv

LEMMA StutterIInv == ASSUME IInv, TypeInv', UNCHANGED vars PROVE IInv'
<1> USE DEF vars, network, session
<1>1. Unserved' /\ OfferStage'
  BY DEF IInv, Unserved, OfferStage
<1>2. ServerFinishedInFlight' /\ ClientFinishedInFlight'
  BY DEF IInv, ServerFinishedInFlight, ClientFinishedInFlight
<1>3. ClientConfirmed' /\ ClientUncommitted' /\ Agreement'
  BY DEF IInv, ClientConfirmed, ClientUncommitted, Agreement
<1> QED BY <1>1, <1>2, <1>3 DEF IInv

LEMMA NextIInv == ASSUME IInv, [Next]_vars PROVE IInv'
<1>1. TypeInv /\ TypeInv'
  BY NextType DEF IInv
<1>2. CASE ServerStart \/ ServerStep \/ ServerFails
  <2>1. CASE \/ ServerSuccess \/ ServerRejects \/ ServerDisconnected \/ ServerKilled
             \/ ServerFails
    BY <1>1, <2>1, ServerEndings, ServerExitQuiet, QuietStep
  <2>2. CASE \/ ServerStart \/ RecvClientHello \/ SendServerHello \/ SendCertificate
             \/ SendCertificateVerify \/ RecvClientRecord \/ SendServerRecord
    BY <1>1, <2>2, ServerQuietSteps, QuietStep
  <2> QED BY <1>1, <1>2, <2>1, <2>2, AcceptAgreement, SendServerFinishedAgreement,
             RecvClientFinishedAgreement DEF ServerStep
<1>3. ASSUME NEW c \in Clients, ClientConnect(c) \/ ClientStep(c) \/ ClientFails(c)
      PROVE  IInv'
  <2>1. CASE \/ ClientRefused(c) \/ ClientSuccess(c) \/ ClientRejects(c)
             \/ ClientDisconnected(c) \/ ClientKilled(c) \/ ClientFails(c)
    BY <1>1, <2>1, ClientEndings, ClientExitQuiet, QuietStep
  <2>2. CASE \/ ClientConnect(c) \/ SendClientHello(c) \/ RecvServerHello(c)
             \/ RecvCertificate(c) \/ RecvCertificateVerify(c)
             \/ SendClientRecord(c) \/ RecvServerRecord(c)
    BY <1>1, <2>2, ClientQuietSteps, QuietStep
  <2> QED BY <1>1, <1>3, <2>1, <2>2, RecvServerFinishedAgreement,
             SendClientFinishedAgreement DEF ClientStep
<1>4. ASSUME NEW c \in Clients, Garble(c) PROVE IInv'
  BY <1>1, <1>4, GarbleQuiet, QuietStep
<1>5. CASE AllEnded \/ UNCHANGED vars
  BY <1>1, <1>5, StutterIInv DEF AllEnded
<1> QED BY <1>2, <1>3, <1>4, <1>5 DEF Next

THEOREM IInvInvariant == Spec => []IInv
<1>1. Init => IInv
  BY InitIInv
<1>2. IInv /\ [Next]_vars => IInv'
  BY NextIInv
<1> QED BY <1>1, <1>2, PTL DEF Spec

\* README.md:38: keys are never one-sided or unequal, for any number of
\* clients, of queued connections and of altered messages.
THEOREM AgreementHolds == Spec => []Agreement
<1>1. IInv => Agreement
  BY DEF IInv
<1> QED BY <1>1, IInvInvariant, PTL

\* README.md:159: a client the server did not accept gets nowhere.
THEOREM OneConnectionHolds == Spec => []OneConnection
<1>1. IInv => OneConnection
  BY DEF IInv, Unserved, Waiting, OneConnection
<1> QED BY <1>1, IInvInvariant, PTL

-----------------------------------------------------------------------------
(***************************************************************************)
(* That the exit codes agree, and that the two programs together implement *)
(* SecureSession.                                                          *)
(*                                                                         *)
(* SessionInv adds to IInv what each side has read at each step.  Most     *)
(* steps are silent: they bring no new record, leave keys and texts alone, *)
(* and move nobody to a step at which SessionInv claims more.  Five are    *)
(* not: the server's check of the client's Finished, and the sending and   *)
(* the reading of each record.                                             *)
(***************************************************************************)

Unread == BeforeCommit \union {"client_record", "server_record"}
Served == {"end", "success"}

ServerSilent ==
    /\ serverKeys' = serverKeys /\ serverGot' = serverGot
    /\ spc' \in BeforeCommit => spc \in BeforeCommit
    /\ spc' = "client_record" => spc = "client_record"
    /\ spc' \in Served \union {"server_record"} => spc \in Served \union {"server_record"}
    /\ spc \in Served => spc' \in Served

ClientSilent ==
    /\ clientGot' = clientGot
    /\ \A c \in Clients : /\ cpc'[c] \in Unread => cpc[c] \in Unread
                          /\ cpc'[c] \in Served => cpc[c] \in Served

NoNewRecords ==
    \A c \in Clients : /\ NoNew(TLS_APPLICATION_DATA, s2c'[c], s2c[c])
                       /\ NoNew(TLS_APPLICATION_DATA, c2s'[c], c2s[c])

Silent == ServerSilent /\ ClientSilent /\ NoNewRecords

LEMMA ServerProgressKept == ASSUME ServerProgress, ServerSilent PROVE ServerProgress'
BY DEF ServerProgress, ServerSilent, BeforeCommit, HelloSteps, Served

LEMMA ClientProgressKept ==
    ASSUME ClientProgress, ClientSilent, spc \in Served => spc' \in Served
    PROVE  ClientProgress'
BY DEF ClientProgress, ClientSilent, Unread, Served

LEMMA RecordsKept ==
    ASSUME RecordsInFlight, NoNewRecords, spc \in Served => spc' \in Served
    PROVE  RecordsInFlight'
BY DEF RecordsInFlight, NoNewRecords, NoNew, Served

LEMMA SilentStep ==
    ASSUME SessionInv, IInv', Silent PROVE SessionInv'
BY ServerProgressKept, ClientProgressKept, RecordsKept DEF SessionInv, Silent, ServerSilent

-----------------------------------------------------------------------------
(* The silent steps. *)

LEMMA ServerReceivesRecords ==
    ASSUME IInv, conn \in Clients, NEW step, ServerReceives(step)
    PROVE  NoNewRecords
BY ServerReceivesQuiet DEF NoNewRecords

LEMMA ClientReceivesRecords ==
    ASSUME IInv, NEW c \in Clients, NEW step, ClientReceives(c, step)
    PROVE  NoNewRecords /\ c = conn
BY ClientReceivesQuiet DEF NoNewRecords

\* The messages of the handshake are messages, and none of them is a record.
LEMMA HandshakeMessages ==
    /\ TypeInv /\ spc = "server_hello" =>
          Msg(TLS_MSG_SERVER_HELLO, Ciphertext(srv.kem_public_key)) \in Message
    /\ TypeInv /\ spc = "certificate" =>
          Msg(TLS_MSG_CERTIFICATE, srv.sig_public_key) \in Message
    /\ TypeInv /\ spc = "certificate_verify" =>
          Msg(TLS_MSG_CERTIFICATE_VERIFY, Signature(srv.sig_secret_key, srv.transcript)) \in Message
    /\ TypeInv /\ spc = "server_finished" =>
          Msg(TLS_MSG_FINISHED, VerifyData(srv.shared_secret, TLS_SERVER_FINISHED_LABEL,
                                           srv.transcript)) \in Message
    /\ TypeInv => \A c \in Clients :
          /\ Msg(TLS_MSG_CLIENT_HELLO, KemPublicKey(c)) \in Message
          /\ cpc[c] = "client_finished" =>
                Msg(TLS_MSG_FINISHED, VerifyData(cli[c].shared_secret, TLS_CLIENT_FINISHED_LABEL,
                                                 cli[c].transcript)) \in Message
<1> USE HelloIsSigned, SignedIsConfirmed, ConfirmedIsHandshake, HandshakeIsMessage
<1>1. ASSUME TypeInv, spc = "server_hello"
      PROVE  Msg(TLS_MSG_SERVER_HELLO, Ciphertext(srv.kem_public_key)) \in Message
  <2>1. srv.kem_public_key \in KemPublicKeys
    BY <1>1 DEF TypeInv, ServerStage
  <2> QED BY <2>1, Constructors
<1>2. ASSUME TypeInv, spc = "certificate"
      PROVE  Msg(TLS_MSG_CERTIFICATE, srv.sig_public_key) \in Message
  <2>1. srv.sig_public_key \in SigPublicKeys
    BY <1>2, Constructors DEF TypeInv, TypeOK, ServerStage, ServerLive, ServerSending
  <2> QED BY <2>1, Constructors
<1>3. ASSUME TypeInv, spc = "certificate_verify"
      PROVE  Msg(TLS_MSG_CERTIFICATE_VERIFY, Signature(srv.sig_secret_key, srv.transcript)) \in Message
  <2>1. srv.sig_secret_key \in KeyPairs /\ srv.transcript \in Seq(HelloMsg)
    BY <1>3 DEF TypeInv, TypeOK, ServerStage, ServerLive, ServerSending, HelloSteps
  <2> QED BY <2>1, SignatureMsgType
<1>4. ASSUME TypeInv, spc = "server_finished"
      PROVE  Msg(TLS_MSG_FINISHED, VerifyData(srv.shared_secret, TLS_SERVER_FINISHED_LABEL,
                                              srv.transcript)) \in Message
  <2>1. srv.shared_secret \in Secrets /\ srv.transcript \in Seq(SignedMsg)
    BY <1>4 DEF TypeInv, ServerStage
  <2> QED BY <2>1, ServerFinishedType
<1>5. ASSUME TypeInv, NEW c \in Clients
      PROVE  Msg(TLS_MSG_CLIENT_HELLO, KemPublicKey(c)) \in Message
  BY Constructors
<1>6. ASSUME TypeInv, NEW c \in Clients, cpc[c] = "client_finished"
      PROVE  Msg(TLS_MSG_FINISHED, VerifyData(cli[c].shared_secret, TLS_CLIENT_FINISHED_LABEL,
                                              cli[c].transcript)) \in Message
  <2>1. cli[c].shared_secret \in Secrets /\ cli[c].transcript \in Seq(ConfirmedMsg)
    BY <1>6 DEF TypeInv, ClientStage
  <2> QED BY <2>1, ClientFinishedType
<1> QED BY <1>1, <1>2, <1>3, <1>4, <1>5, <1>6

LEMMA ServerSendsNoRecord ==
    ASSUME IInv,
           SendServerHello \/ SendCertificate \/ SendCertificateVerify \/ SendServerFinished
    PROVE  NoNewRecords
<1>1. TypeInv /\ conn \in Clients
  BY DEF IInv, TypeInv, ServerStage, ServerLive, ServerSending,
         SendServerHello, SendCertificate, SendCertificateVerify, SendServerFinished
<1>2. ASSUME NEW msg \in Message, msg.type # TLS_APPLICATION_DATA, ServerSends(msg)
      PROVE  NoNewRecords
  BY <1>1, <1>2, ServerSendsQuiet DEF NoNewRecords
<1>3. CASE SendServerHello
  <2> DEFINE msg == Msg(TLS_MSG_SERVER_HELLO, Ciphertext(srv.kem_public_key))
  <2>1. msg \in Message /\ ServerSends(msg)
    BY <1>1, <1>3, HandshakeMessages DEF SendServerHello
  <2>2. msg.type # TLS_APPLICATION_DATA
    BY DEF Msg, TLS_MSG_SERVER_HELLO, TLS_APPLICATION_DATA
  <2> QED BY <1>2, <2>1, <2>2
<1>4. CASE SendCertificate
  <2> DEFINE msg == Msg(TLS_MSG_CERTIFICATE, srv.sig_public_key)
  <2>1. msg \in Message /\ ServerSends(msg)
    BY <1>1, <1>4, HandshakeMessages DEF SendCertificate
  <2>2. msg.type # TLS_APPLICATION_DATA
    BY DEF Msg, TLS_MSG_CERTIFICATE, TLS_APPLICATION_DATA
  <2> QED BY <1>2, <2>1, <2>2
<1>5. CASE SendCertificateVerify
  <2> DEFINE msg == Msg(TLS_MSG_CERTIFICATE_VERIFY,
                        Signature(srv.sig_secret_key, srv.transcript))
  <2>1. msg \in Message /\ ServerSends(msg)
    BY <1>1, <1>5, HandshakeMessages DEF SendCertificateVerify
  <2>2. msg.type # TLS_APPLICATION_DATA
    BY DEF Msg, TLS_MSG_CERTIFICATE_VERIFY, TLS_APPLICATION_DATA
  <2> QED BY <1>2, <2>1, <2>2
<1>6. CASE SendServerFinished
  <2> DEFINE msg == Msg(TLS_MSG_FINISHED, VerifyData(srv.shared_secret,
                        TLS_SERVER_FINISHED_LABEL, srv.transcript))
  <2>1. msg \in Message /\ ServerSends(msg)
    BY <1>1, <1>6, HandshakeMessages DEF SendServerFinished
  <2>2. msg.type # TLS_APPLICATION_DATA
    BY DEF Msg, TLS_MSG_FINISHED, TLS_APPLICATION_DATA
  <2> QED BY <1>2, <2>1, <2>2
<1> QED BY <1>3, <1>4, <1>5, <1>6

LEMMA ServerSilentSteps ==
    ASSUME IInv,
           \/ ServerStart \/ Accept \/ RecvClientHello \/ SendServerHello \/ SendCertificate
           \/ SendCertificateVerify \/ SendServerFinished
    PROVE  Silent
<1> USE DEF Silent, ServerSilent, ClientSilent, BeforeCommit, HelloSteps, Served
<1>1. spc \in ServerLive => conn \in Clients
  BY DEF IInv, TypeInv, ServerStage
<1>2. CASE ServerStart \/ Accept
  BY <1>2, NoNewSame DEF ServerStart, Accept, network, session, NoNewRecords
<1>3. CASE RecvClientHello
  BY <1>1, <1>3, ServerReceivesRecords
     DEF RecvClientHello, ServerReceives, ServerLive, ServerReceiving, session
<1>4. CASE SendServerHello \/ SendCertificate \/ SendCertificateVerify
  BY <1>4, ServerSendsNoRecord
     DEF SendServerHello, SendCertificate, SendCertificateVerify, session
<1>5. CASE SendServerFinished
  BY <1>5, ServerSendsNoRecord DEF SendServerFinished
<1> QED BY <1>2, <1>3, <1>4, <1>5

LEMMA ServerExitSilent ==
    ASSUME IInv, NEW outcome \in Ended, NEW unread, ServerExit(outcome, unread),
           outcome = "success" <=> spc = "end", spc \notin Ended
    PROVE  Silent
<1>1. NoNewRecords
  BY NoNewSame, NoNewEmpty DEF ServerExit, NoNewRecords
<1>2. ServerSilent
  BY DEF ServerExit, ServerSilent, Ended, BeforeCommit, HelloSteps, Served, session
<1>3. ClientSilent
  BY DEF ServerExit, ClientSilent, session
<1> QED BY <1>1, <1>2, <1>3 DEF Silent

LEMMA ClientSilentSteps ==
    ASSUME IInv, NEW c \in Clients,
           \/ ClientConnect(c) \/ SendClientHello(c) \/ RecvServerHello(c) \/ RecvCertificate(c)
           \/ RecvCertificateVerify(c) \/ RecvServerFinished(c) \/ SendClientFinished(c)
    PROVE  Silent
<1> USE DEF Silent, ServerSilent, ClientSilent, BeforeCommit, HelloSteps, Unread, Served
<1>0. TypeInv /\ cpc \in [Clients -> Steps \union {"start"}]
  BY DEF IInv, TypeInv, TypeOK
<1>1. CASE ClientConnect(c)
  BY <1>0, <1>1, NoNewSame DEF ClientConnect, network, session, NoNewRecords
<1>2. CASE SendClientHello(c)
  <2> DEFINE msg == Msg(TLS_MSG_CLIENT_HELLO, KemPublicKey(c))
  <2>1. msg \in Message /\ ClientSends(c, msg)
    BY <1>0, <1>2, HandshakeMessages DEF SendClientHello
  <2>2. msg.type # TLS_APPLICATION_DATA
    BY DEF Msg, TLS_MSG_CLIENT_HELLO, TLS_APPLICATION_DATA
  <2>3. NoNewRecords
    BY <2>1, <2>2, ClientSendsQuiet DEF NoNewRecords
  <2> QED BY <1>0, <1>2, <2>3 DEF SendClientHello, session
<1>3. CASE RecvServerHello(c)
  BY <1>0, <1>3, ClientReceivesRecords DEF RecvServerHello, ClientReceives, session
<1>4. CASE RecvCertificate(c)
  BY <1>0, <1>4, ClientReceivesRecords DEF RecvCertificate, ClientReceives, session
<1>5. CASE RecvCertificateVerify(c)
  BY <1>0, <1>5, ClientReceivesRecords DEF RecvCertificateVerify, ClientReceives, session
<1>6. CASE RecvServerFinished(c)
  BY <1>0, <1>6, ClientReceivesRecords DEF RecvServerFinished, ClientReceives, session
<1>7. CASE SendClientFinished(c)
  <2> DEFINE msg == Msg(TLS_MSG_FINISHED, VerifyData(cli[c].shared_secret,
                        TLS_CLIENT_FINISHED_LABEL, cli[c].transcript))
  <2>1. msg \in Message /\ ClientSends(c, msg)
    BY <1>0, <1>7, HandshakeMessages DEF SendClientFinished
  <2>2. msg.type # TLS_APPLICATION_DATA
    BY DEF Msg, TLS_MSG_FINISHED, TLS_APPLICATION_DATA
  <2>3. NoNewRecords
    BY <2>1, <2>2, ClientSendsQuiet DEF NoNewRecords
  <2> QED BY <1>0, <1>7, <2>3 DEF SendClientFinished
<1> QED BY <1>1, <1>2, <1>3, <1>4, <1>5, <1>6, <1>7

LEMMA ClientExitSilent ==
    ASSUME IInv, NEW c \in Clients, NEW outcome \in Ended, NEW unread,
           ClientExit(c, outcome, unread), outcome = "success" => cpc[c] = "end"
    PROVE  Silent
<1>1. \A d \in Clients :
          /\ c2s'[d] = c2s[d]
          /\ s2c'[d] = s2c[d] \/ s2c'[d] = <<>>
          /\ cpc'[d] = IF d = c THEN outcome ELSE cpc[d]
  BY DEF ClientExit, IInv, TypeInv, TypeOK
<1>2. NoNewRecords
  BY <1>1, NoNewSame, NoNewEmpty DEF NoNewRecords
<1>3. ServerSilent
  BY DEF ClientExit, ServerSilent, session
<1>4. ClientSilent
  BY <1>1 DEF ClientExit, ClientSilent, session, Unread, BeforeCommit, HelloSteps, Ended, Served
<1> QED BY <1>2, <1>3, <1>4 DEF Silent

LEMMA GarbleSilent ==
    ASSUME IInv, NEW c \in Clients, Garble(c)
    PROVE  Silent
<1>1. ASSUME NEW q \in Seq(Message), NEW i \in DOMAIN q, NEW msg \in Altered(q[i])
      PROVE  NoNew(TLS_APPLICATION_DATA, [q EXCEPT ![i] = msg], q)
  <2>1. msg.body = Garbled
    BY DEF Altered, Msg
  <2> QED BY <2>1 DEF NoNew
<1>2. ASSUME NEW S \in [Clients -> Seq(Message)], NEW T, NEW i \in DOMAIN S[c],
             NEW msg \in Altered(S[c][i]), T = [S EXCEPT ![c][i] = msg], NEW d \in Clients
      PROVE  NoNew(TLS_APPLICATION_DATA, T[d], S[d])
  <2>1. T[d] = IF d = c THEN [S[d] EXCEPT ![i] = msg] ELSE S[d]
    BY <1>2
  <2> QED BY <1>1, <1>2, <2>1, NoNewSame
<1>3. c2s \in [Clients -> Seq(Message)] /\ s2c \in [Clients -> Seq(Message)]
  BY DEF IInv, TypeInv, TypeOK
<1>4. NoNewRecords
  <2>1. CASE \E i \in DOMAIN c2s[c] : \E msg \in Altered(c2s[c][i]) :
                c2s' = [c2s EXCEPT ![c][i] = msg] /\ s2c' = s2c
    BY <1>2, <1>3, <2>1, NoNewSame DEF NoNewRecords
  <2>2. CASE \E i \in DOMAIN s2c[c] : \E msg \in Altered(s2c[c][i]) :
                s2c' = [s2c EXCEPT ![c][i] = msg] /\ c2s' = c2s
    BY <1>2, <1>3, <2>2, NoNewSame DEF NoNewRecords
  <2> QED BY <2>1, <2>2 DEF Garble
<1>5. ServerSilent /\ ClientSilent
  BY DEF Garble, session, ServerSilent, ClientSilent
<1> QED BY <1>4, <1>5 DEF Silent

-----------------------------------------------------------------------------
(* The steps that are not silent. *)

LEMMA RecvClientFinishedSession ==
    ASSUME SessionInv, IInv', RecvClientFinished PROVE SessionInv'
<1> USE DEF RecvClientFinished
<1>1. conn \in Clients /\ spc = "client_finished" /\ spc' = "client_record"
  BY DEF SessionInv, IInv, TypeInv, ServerStage, ServerLive, ServerReceiving, ServerReceives
<1>2. ServerProgress'
  BY <1>1, KeysAreKeys DEF SessionInv, ServerProgress, BeforeCommit, HelloSteps
<1>3. ClientProgress'
  BY <1>1 DEF SessionInv, ClientProgress
<1>4. RecordsInFlight'
  BY <1>1, ServerReceivesRecords, RecordsKept DEF SessionInv, Served
<1> QED BY <1>2, <1>3, <1>4 DEF SessionInv

LEMMA RecvClientRecordSession ==
    ASSUME SessionInv, IInv', RecvClientRecord PROVE SessionInv'
<1> USE DEF RecvClientRecord
<1> DEFINE msg == Head(c2s[conn])
<1>1. conn \in Clients /\ spc = "client_record" /\ spc' = "server_record"
  BY DEF SessionInv, IInv, TypeInv, ServerStage, ServerLive, ServerReceiving, ServerReceives
<1>2. msg.type = TLS_APPLICATION_DATA /\ msg = c2s[conn][1] /\ 1 \in DOMAIN c2s[conn]
  BY <1>1 DEF ServerReceives, ExpectedType, SessionInv, IInv, TypeInv, TypeOK
<1>3. msg.body # Garbled
  BY DEF Opens, Seal, Garbled
<1>4. serverGot' = ClientMessage
  BY <1>1, <1>2, <1>3 DEF SessionInv, RecordsInFlight
<1>5. ServerProgress'
  BY <1>1, <1>4 DEF SessionInv, ServerProgress, BeforeCommit, HelloSteps
<1>6. ClientProgress'
  BY <1>1 DEF SessionInv, ClientProgress
<1>7. RecordsInFlight'
  BY <1>1, ServerReceivesRecords, RecordsKept DEF SessionInv, Served
<1> QED BY <1>5, <1>6, <1>7 DEF SessionInv

LEMMA SendServerRecordSession ==
    ASSUME SessionInv, IInv', SendServerRecord PROVE SessionInv'
<1> USE DEF SendServerRecord
<1> DEFINE msg == Msg(TLS_APPLICATION_DATA, Seal(srv.send_state, ServerMessage))
<1>1. conn \in Clients /\ spc = "server_record" /\ spc' = "end"
  BY DEF SessionInv, IInv, TypeInv, ServerStage, ServerLive, ServerSending
<1>2. ServerProgress'
  BY <1>1 DEF SessionInv, ServerProgress, BeforeCommit, HelloSteps, session
<1>3. ClientProgress'
  BY <1>1 DEF SessionInv, ClientProgress, session
<1>4. ASSUME NEW c \in Clients
      PROVE  /\ c2s'[c] = c2s[c] /\ s2c[c] \in Seq(Message)
             /\ s2c'[c] = s2c[c] \/ s2c'[c] = Append(s2c[c], msg)
  BY DEF ServerSends, Delivered, SessionInv, IInv, TypeInv, TypeOK
<1>5. msg \in Message /\ msg.body.text = ServerMessage
  <2>1. srv.send_state \in RecordStates
    BY <1>1 DEF SessionInv, IInv, TypeInv, ServerStage
  <2>2. msg \in Message
    BY <2>1, RecordMsgType DEF Texts
  <2> QED BY <2>2 DEF Msg, Seal
<1>6. ASSUME NEW c \in Clients, NEW i \in DOMAIN s2c'[c]
      PROVE  (i \in DOMAIN s2c[c] /\ s2c'[c][i] = s2c[c][i]) \/ s2c'[c][i] = msg
  BY <1>4, <1>5, AppendElements
<1>7. RecordsInFlight'
  BY <1>1, <1>4, <1>5, <1>6 DEF SessionInv, RecordsInFlight
<1> QED BY <1>2, <1>3, <1>7 DEF SessionInv

LEMMA SendClientRecordSession ==
    ASSUME SessionInv, IInv', NEW c \in Clients, SendClientRecord(c) PROVE SessionInv'
<1> USE DEF SendClientRecord
<1> DEFINE msg == Msg(TLS_APPLICATION_DATA, Seal(cli[c].send_state, ClientMessage))
<1>1. ServerProgress'
  BY DEF SessionInv, ServerProgress, session
<1>2. ClientSilent
  BY DEF ClientSilent, session, Unread, Served, SessionInv, IInv, TypeInv, TypeOK
<1>3. ClientProgress'
  BY <1>2, ClientProgressKept DEF SessionInv
<1>4. ASSUME NEW d \in Clients
      PROVE  /\ s2c'[d] = s2c[d] /\ c2s[d] \in Seq(Message)
             /\ c2s'[d] = c2s[d] \/ c2s'[d] = Append(c2s[d], msg)
  BY DEF ClientSends, Delivered, SessionInv, IInv, TypeInv, TypeOK
<1>5. msg \in Message /\ msg.body.text = ClientMessage
  <2>1. cli[c].send_state \in RecordStates
    BY DEF SessionInv, IInv, TypeInv, ClientStage
  <2>2. msg \in Message
    BY <2>1, RecordMsgType DEF Texts
  <2> QED BY <2>2 DEF Msg, Seal
<1>6. ASSUME NEW d \in Clients, NEW i \in DOMAIN c2s'[d]
      PROVE  (i \in DOMAIN c2s[d] /\ c2s'[d][i] = c2s[d][i]) \/ c2s'[d][i] = msg
  <2>1. CASE c2s'[d] = c2s[d]
    BY <2>1
  <2>2. CASE c2s'[d] = Append(c2s[d], msg)
    <3> HIDE DEF msg
    <3> QED BY <1>4, <1>5, <2>2, AppendElements
  <2> QED BY <1>4, <2>1, <2>2
<1>7. ASSUME NEW d \in Clients, NEW i \in DOMAIN c2s'[d],
             c2s'[d][i].type = TLS_APPLICATION_DATA, c2s'[d][i].body # Garbled
      PROVE  c2s'[d][i].body.text = ClientMessage
  <2>1. CASE c2s'[d][i] = msg
    BY <1>5, <2>1
  <2>2. CASE i \in DOMAIN c2s[d] /\ c2s'[d][i] = c2s[d][i]
    BY <1>7, <2>2 DEF SessionInv, RecordsInFlight
  <2> QED BY <1>6, <2>1, <2>2
<1>8. RecordsInFlight'
  BY <1>4, <1>7 DEF SessionInv, RecordsInFlight
<1> QED BY <1>1, <1>3, <1>8 DEF SessionInv

LEMMA RecvServerRecordSession ==
    ASSUME SessionInv, IInv', NEW c \in Clients, RecvServerRecord(c) PROVE SessionInv'
<1> USE DEF RecvServerRecord
<1> DEFINE msg == Head(s2c[c])
<1>1. cpc[c] = "server_record" /\ cpc'[c] = "end"
      /\ \A d \in Clients : d # c => cpc'[d] = cpc[d] /\ clientGot'[d] = clientGot[d]
  BY DEF SessionInv, IInv, TypeInv, TypeOK, ClientReceives
<1>2. msg.type = TLS_APPLICATION_DATA /\ msg = s2c[c][1] /\ 1 \in DOMAIN s2c[c]
  BY DEF ClientReceives, ExpectedType, SessionInv, IInv, TypeInv, TypeOK
<1>3. msg.body # Garbled
  BY DEF Opens, Seal, Garbled
<1>4. spc \in Served /\ clientGot'[c] = ServerMessage
  BY <1>2, <1>3 DEF SessionInv, RecordsInFlight, Served, IInv, TypeInv, TypeOK
<1>5. ServerProgress'
  BY DEF SessionInv, ServerProgress
<1>6. ClientProgress'
  BY <1>1, <1>4 DEF SessionInv, ClientProgress, BeforeCommit, HelloSteps, Served
<1>7. RecordsInFlight'
  BY ClientReceivesRecords, RecordsKept DEF SessionInv
<1> QED BY <1>5, <1>6, <1>7 DEF SessionInv

-----------------------------------------------------------------------------
LEMMA InitSession == ASSUME Init PROVE SessionInv
<1>1. IInv
  BY InitIInv
<1>2. ServerProgress /\ ClientProgress
  BY DEF Init, ServerProgress, ClientProgress
<1>3. \A c \in Clients : \A i \in DOMAIN c2s[c] \union DOMAIN s2c[c] : FALSE
  <2>1. \A c \in Clients : c2s[c] = <<>> /\ s2c[c] = <<>>
    BY DEF Init
  <2>2. \A i \in DOMAIN <<>> : FALSE
    OBVIOUS
  <2> QED BY <2>1, <2>2
<1>4. RecordsInFlight
  BY <1>3 DEF RecordsInFlight
<1> QED BY <1>1, <1>2, <1>4 DEF SessionInv

LEMMA StutterSilent == ASSUME UNCHANGED vars PROVE Silent
BY NoNewSame DEF vars, network, session, Silent, ServerSilent, ClientSilent, NoNewRecords

LEMMA NextSession == ASSUME SessionInv, [Next]_vars PROVE SessionInv'
<1>1. IInv /\ IInv' /\ TypeInv
  BY NextIInv DEF SessionInv, IInv
<1>2. CASE ServerStart \/ ServerStep \/ ServerFails
  <2>1. CASE \/ ServerSuccess \/ ServerRejects \/ ServerDisconnected \/ ServerKilled
             \/ ServerFails
    BY <1>1, <2>1, ServerEndings, ServerExitSilent, SilentStep
  <2>2. CASE \/ ServerStart \/ Accept \/ RecvClientHello \/ SendServerHello
             \/ SendCertificate \/ SendCertificateVerify \/ SendServerFinished
    BY <1>1, <2>2, ServerSilentSteps, SilentStep
  <2> QED BY <1>1, <1>2, <2>1, <2>2, RecvClientFinishedSession, RecvClientRecordSession,
             SendServerRecordSession DEF ServerStep
<1>3. ASSUME NEW c \in Clients, ClientConnect(c) \/ ClientStep(c) \/ ClientFails(c)
      PROVE  SessionInv'
  <2>1. CASE \/ ClientRefused(c) \/ ClientSuccess(c) \/ ClientRejects(c)
             \/ ClientDisconnected(c) \/ ClientKilled(c) \/ ClientFails(c)
    BY <1>1, <2>1, ClientEndings, ClientExitSilent, SilentStep
  <2>2. CASE \/ ClientConnect(c) \/ SendClientHello(c) \/ RecvServerHello(c)
             \/ RecvCertificate(c) \/ RecvCertificateVerify(c)
             \/ RecvServerFinished(c) \/ SendClientFinished(c)
    BY <1>1, <2>2, ClientSilentSteps, SilentStep
  <2> QED BY <1>1, <1>3, <2>1, <2>2, SendClientRecordSession, RecvServerRecordSession
          DEF ClientStep
<1>4. ASSUME NEW c \in Clients, Garble(c) PROVE SessionInv'
  BY <1>1, <1>4, GarbleSilent, SilentStep
<1>5. CASE AllEnded \/ UNCHANGED vars
  BY <1>1, <1>5, StutterSilent, SilentStep DEF AllEnded
<1> QED BY <1>2, <1>3, <1>4, <1>5 DEF Next

\* The strengthening of IInv is inductive, so it holds in every reachable state.
THEOREM SessionInvariant == Spec => []SessionInv
<1>1. Init => SessionInv
  BY InitSession
<1>2. SessionInv /\ [Next]_vars => SessionInv'
  BY NextSession
<1> QED BY <1>1, <1>2, PTL DEF Spec

\* A client that exits with EXIT_SUCCESS was served to the end.
THEOREM ExitCodesAgreeHolds == Spec => []ExitCodesAgree
<1>1. SessionInv => ExitCodesAgree
  BY DEF SessionInv, IInv, Unserved, Waiting, ServerProgress, ClientProgress, ExitCodesAgree
<1> QED BY <1>1, SessionInvariant, PTL

-----------------------------------------------------------------------------
(* Refinement: six actions are steps of SecureSession, one for each of its  *)
(* actions, and every other step leaves its variables alone.                *)

LEMMA InitRefines == ASSUME Init PROVE Session!Init
BY DEF Init, Session!Init

LEMMA AcceptServes == ASSUME SessionInv, Accept PROVE \E c \in Clients : Session!Serve(c)
<1>1. conn = NoClient /\ Head(backlog) \in Clients
  BY DEF Accept, SessionInv, IInv, TypeInv, TypeOK, ServerStage
<1>2. Session!Serve(Head(backlog))
  BY <1>1 DEF Accept, Session!Serve, session
<1> QED BY <1>1, <1>2

LEMMA SendServerFinishedOffers == ASSUME SessionInv, SendServerFinished PROVE Session!Offer
<1>1. spc = "server_finished" /\ conn \in Clients /\ offered = None
  BY DEF SendServerFinished, SessionInv, IInv, TypeInv, ServerStage, ServerLive, ServerSending,
         OfferStage, BeforeOffer
<1> QED BY <1>1, KeysAreKeys DEF SendServerFinished, Session!Offer

LEMMA SendClientFinishedAgrees ==
    ASSUME SessionInv, SessionInv', NEW c \in Clients, SendClientFinished(c)
    PROVE  Session!ClientAgrees(c)
<1> DEFINE me   == cli[c]
           msg  == Msg(TLS_MSG_FINISHED, VerifyData(me.shared_secret,
                       TLS_CLIENT_FINISHED_LABEL, me.transcript))
           keys == ApplicationKeys(me.shared_secret, Append(me.transcript, msg))
<1>1. clientKeys[c] = None
  BY DEF SendClientFinished, SessionInv, IInv, ClientUncommitted, BeforeCommit
<1>2. clientKeys' = [clientKeys EXCEPT ![c] = keys] /\ conn' = conn /\ offered' = offered
  BY DEF SendClientFinished
<1>3. clientKeys'[c] = keys /\ keys # None
  BY <1>2, KeysAreKeys DEF SessionInv, IInv, TypeInv, TypeOK
<1>4. c = conn /\ keys = offered
  BY <1>2, <1>3 DEF SessionInv, IInv, Agreement
<1> QED BY <1>1, <1>2, <1>3, <1>4 DEF SendClientFinished, Session!ClientAgrees

LEMMA RecvClientFinishedAgrees ==
    ASSUME SessionInv, SessionInv', RecvClientFinished PROVE Session!ServerAgrees
<1>1. spc = "client_finished" /\ conn \in Clients /\ serverKeys = None
  BY DEF RecvClientFinished, ServerReceives, SessionInv, IInv, TypeInv, ServerStage, ServerLive,
         ServerReceiving, ServerProgress, BeforeCommit
<1>2. serverKeys' # None
  BY KeysAreKeys DEF RecvClientFinished
<1>3. serverKeys' = clientKeys[conn]
  BY <1>2 DEF RecvClientFinished, SessionInv, IInv, Agreement
<1> QED BY <1>1, <1>2, <1>3 DEF RecvClientFinished, Session!ServerAgrees

LEMMA RecvClientRecordReads ==
    ASSUME SessionInv, SessionInv', RecvClientRecord PROVE Session!ServerReads
<1>1. spc = "client_record" /\ spc' = "server_record"
  BY DEF RecvClientRecord, ServerReceives
<1>2. serverKeys # None /\ serverGot = NoText /\ serverGot' = ClientMessage
  BY <1>1 DEF SessionInv, ServerProgress
<1> QED BY <1>2 DEF RecvClientRecord, Session!ServerReads

LEMMA RecvServerRecordReads ==
    ASSUME SessionInv, SessionInv', NEW c \in Clients, RecvServerRecord(c)
    PROVE  Session!ClientReads(c)
<1>1. cpc[c] = "server_record" /\ cpc'[c] = "end" /\ c = conn
  BY ClientReceivesRecords DEF RecvServerRecord, ClientReceives, SessionInv, IInv, TypeInv, TypeOK
<1>2. clientGot[c] = NoText /\ clientGot'[c] = ServerMessage /\ spc' \in Served
  BY <1>1 DEF SessionInv, ClientProgress, Served
<1>3. serverGot # NoText
  BY <1>2 DEF RecvServerRecord, SessionInv, ServerProgress, Served, ClientMessage, NoText
<1>4. clientGot' = [clientGot EXCEPT ![c] = ServerMessage]
  <2> DEFINE text == Head(s2c[c]).body.text
  <2>1. clientGot' = [clientGot EXCEPT ![c] = text]
    BY DEF RecvServerRecord
  <2>2. clientGot'[c] = text
    BY <2>1 DEF SessionInv, IInv, TypeInv, TypeOK
  <2> QED BY <1>2, <2>1, <2>2
<1> QED BY <1>1, <1>2, <1>3, <1>4 DEF RecvServerRecord, Session!ClientReads

LEMMA NextRefines ==
    ASSUME SessionInv, SessionInv', [Next]_vars
    PROVE  [Session!Next]_(Session!vars)
<1>1. CASE \/ Accept \/ SendServerFinished \/ RecvClientFinished \/ RecvClientRecord
           \/ \E c \in Clients : SendClientFinished(c) \/ RecvServerRecord(c)
  BY <1>1, AcceptServes, SendServerFinishedOffers, SendClientFinishedAgrees,
     RecvClientFinishedAgrees, RecvClientRecordReads, RecvServerRecordReads DEF Session!Next
<1>2. TypeInv
  BY DEF SessionInv, IInv
<1>3. CASE ServerStart \/ RecvClientHello \/ SendServerHello \/ SendCertificate
           \/ SendCertificateVerify \/ SendServerRecord
  BY <1>3 DEF ServerStart, RecvClientHello, SendServerHello, SendCertificate,
              SendCertificateVerify, SendServerRecord, session, Session!vars
<1>4. CASE \/ ServerSuccess \/ ServerRejects \/ ServerDisconnected \/ ServerKilled
           \/ ServerFails
  BY <1>2, <1>4, ServerEndings DEF ServerExit, session, Session!vars
<1>5. ASSUME NEW c \in Clients,
             \/ ClientConnect(c) \/ SendClientHello(c) \/ RecvServerHello(c)
             \/ RecvCertificate(c) \/ RecvCertificateVerify(c) \/ RecvServerFinished(c)
             \/ SendClientRecord(c)
      PROVE  UNCHANGED Session!vars
  BY <1>5 DEF ClientConnect, SendClientHello, RecvServerHello, RecvCertificate,
              RecvCertificateVerify, RecvServerFinished, SendClientRecord, session, Session!vars
<1>6. ASSUME NEW c \in Clients,
             \/ ClientRefused(c) \/ ClientSuccess(c) \/ ClientRejects(c)
             \/ ClientDisconnected(c) \/ ClientKilled(c) \/ ClientFails(c)
      PROVE  UNCHANGED Session!vars
  BY <1>2, <1>6, ClientEndings DEF ClientExit, session, Session!vars
<1>7. ASSUME NEW c \in Clients, Garble(c) PROVE UNCHANGED Session!vars
  BY <1>7 DEF Garble, session, Session!vars
<1>8. CASE AllEnded \/ UNCHANGED vars
  BY <1>8 DEF AllEnded, vars, session, Session!vars
<1> QED BY <1>1, <1>3, <1>4, <1>5, <1>6, <1>7, <1>8 DEF Next, ServerStep, ClientStep

\* The two programs together are the one-session key agreement of SecureSession.
THEOREM Refinement == Spec => SessionSpec
<1>1. Init => Session!Init
  BY InitRefines
<1>2. SessionInv /\ SessionInv' /\ [Next]_vars => [Session!Next]_(Session!vars)
  BY NextRefines
<1> QED BY <1>1, <1>2, SessionInvariant, PTL DEF Spec, SessionSpec, Session!Spec

-----------------------------------------------------------------------------
(* A server whose two key files come from different ML-DSA pairs serves     *)
(* nobody.  The certificate on its way carries the public half, the         *)
(* signature is made with the secret half, and only a signature made with   *)
(* the certificate's own pair verifies, so SignatureInv says of a client    *)
(* past CertificateVerify that the halves are of one pair.                  *)


Verified == {"server_finished", "client_finished"}

NoNewCertificates ==
    \A c \in Clients : /\ NoNew(TLS_MSG_CERTIFICATE, s2c'[c], s2c[c])
                       /\ NoNew(TLS_MSG_CERTIFICATE_VERIFY, s2c'[c], s2c[c])

\* Nobody gets to a step at which SignatureChecked claims more.
NobodyChecks ==
    /\ clientKeys' = clientKeys
    /\ \A c \in Clients :
          /\ cpc'[c] = "certificate_verify" => cpc[c] = "certificate_verify" /\ cli'[c] = cli[c]
          /\ cpc'[c] \in Verified => cpc[c] \in Verified

LEMMA CertificatesKept ==
    ASSUME CertificatesInFlight, NoNewCertificates, keyfiles' = keyfiles
    PROVE  CertificatesInFlight'
BY DEF CertificatesInFlight, NoNewCertificates, NoNew

LEMMA CheckedKept ==
    ASSUME SignatureChecked, NobodyChecks, keyfiles' = keyfiles
    PROVE  SignatureChecked'
BY DEF SignatureChecked, NobodyChecks, Verified

LEMMA UnsignedStep ==
    ASSUME SignatureInv, IInv', NoNewCertificates, NobodyChecks, keyfiles' = keyfiles
    PROVE  SignatureInv'
BY CertificatesKept, CheckedKept DEF SignatureInv

-----------------------------------------------------------------------------
(* What travels. *)

LEMMA ReceivingBringsNone ==
    /\ \A step : IInv /\ conn \in Clients /\ ServerReceives(step) => NoNewCertificates
    /\ \A c \in Clients : \A step :
          IInv /\ ClientReceives(c, step) => NoNewCertificates /\ c = conn
<1>1. ASSUME NEW step, IInv, conn \in Clients, ServerReceives(step) PROVE NoNewCertificates
  BY <1>1, ServerReceivesQuiet DEF NoNewCertificates
<1>2. ASSUME NEW c \in Clients, NEW step, IInv, ClientReceives(c, step)
      PROVE  NoNewCertificates /\ c = conn
  BY <1>2, ClientReceivesQuiet DEF NoNewCertificates
<1> QED BY <1>1, <1>2

LEMMA SendingBringsNone ==
    ASSUME IInv, conn \in Clients, NEW msg \in Message, ServerSends(msg),
           msg.type \notin {TLS_MSG_CERTIFICATE, TLS_MSG_CERTIFICATE_VERIFY}
    PROVE  NoNewCertificates
BY ServerSendsQuiet DEF NoNewCertificates

LEMMA ServerSendsNone ==
    ASSUME IInv, SendServerHello \/ SendServerFinished \/ SendServerRecord
    PROVE  NoNewCertificates
<1>1. TypeInv /\ conn \in Clients
  BY DEF IInv, TypeInv, ServerStage, ServerLive, ServerSending,
         SendServerHello, SendServerFinished, SendServerRecord
<1>2. CASE SendServerHello
  <2> DEFINE msg == Msg(TLS_MSG_SERVER_HELLO, Ciphertext(srv.kem_public_key))
  <2>1. msg \in Message /\ ServerSends(msg)
    BY <1>1, <1>2, HandshakeMessages DEF SendServerHello
  <2>2. msg.type \notin {TLS_MSG_CERTIFICATE, TLS_MSG_CERTIFICATE_VERIFY}
    BY DEF Msg, TLS_MSG_SERVER_HELLO, TLS_MSG_CERTIFICATE, TLS_MSG_CERTIFICATE_VERIFY
  <2> QED BY <1>1, <2>1, <2>2, SendingBringsNone
<1>3. CASE SendServerFinished
  <2> DEFINE msg == Msg(TLS_MSG_FINISHED, VerifyData(srv.shared_secret,
                        TLS_SERVER_FINISHED_LABEL, srv.transcript))
  <2>1. msg \in Message /\ ServerSends(msg)
    BY <1>1, <1>3, HandshakeMessages DEF SendServerFinished
  <2>2. msg.type \notin {TLS_MSG_CERTIFICATE, TLS_MSG_CERTIFICATE_VERIFY}
    BY DEF Msg, TLS_MSG_FINISHED, TLS_MSG_CERTIFICATE, TLS_MSG_CERTIFICATE_VERIFY
  <2> QED BY <1>1, <2>1, <2>2, SendingBringsNone
<1>4. CASE SendServerRecord
  <2> DEFINE msg == Msg(TLS_APPLICATION_DATA, Seal(srv.send_state, ServerMessage))
  <2>1. srv.send_state \in RecordStates
    BY <1>4 DEF SendServerRecord, IInv, TypeInv, ServerStage
  <2>2. msg \in Message
    BY <2>1, RecordMsgType DEF Texts
  <2>3. msg.type \notin {TLS_MSG_CERTIFICATE, TLS_MSG_CERTIFICATE_VERIFY} /\ ServerSends(msg)
    BY <1>4 DEF SendServerRecord, Msg, TLS_APPLICATION_DATA, TLS_MSG_CERTIFICATE,
                TLS_MSG_CERTIFICATE_VERIFY
  <2> QED BY <1>1, <2>2, <2>3, SendingBringsNone
<1> QED BY <1>2, <1>3, <1>4

\* What the client sends goes the other way.
LEMMA SameStream == ASSUME s2c' = s2c PROVE NoNewCertificates
BY NoNewSame DEF NoNewCertificates

-----------------------------------------------------------------------------
(* The steps that neither send nor check a certificate or a signature. *)

LEMMA ServerUnsignedSteps ==
    ASSUME IInv,
           \/ ServerStart \/ Accept \/ RecvClientHello \/ SendServerHello
           \/ SendServerFinished \/ RecvClientFinished \/ RecvClientRecord \/ SendServerRecord
    PROVE  NoNewCertificates /\ NobodyChecks /\ keyfiles' = keyfiles
<1> USE DEF NobodyChecks, session
<1>1. spc \in ServerLive => conn \in Clients
  BY DEF IInv, TypeInv, ServerStage
<1>2. CASE ServerStart \/ Accept
  BY <1>2, SameStream DEF ServerStart, Accept, network
<1>3. CASE SendServerHello \/ SendServerFinished \/ SendServerRecord
  BY <1>3, ServerSendsNone DEF SendServerHello, SendServerFinished, SendServerRecord
<1>4. CASE RecvClientHello
  BY <1>1, <1>4, ReceivingBringsNone
     DEF RecvClientHello, ServerReceives, ServerLive, ServerReceiving
<1>5. CASE RecvClientFinished
  BY <1>1, <1>5, ReceivingBringsNone
     DEF RecvClientFinished, ServerReceives, ServerLive, ServerReceiving
<1>6. CASE RecvClientRecord
  BY <1>1, <1>6, ReceivingBringsNone
     DEF RecvClientRecord, ServerReceives, ServerLive, ServerReceiving
<1> QED BY <1>2, <1>3, <1>4, <1>5, <1>6

LEMMA ServerExitUnsigned ==
    ASSUME NEW outcome, NEW unread, ServerExit(outcome, unread)
    PROVE  NoNewCertificates /\ NobodyChecks /\ keyfiles' = keyfiles
BY SameStream DEF ServerExit, NobodyChecks, session

LEMMA ClientUnsignedSteps ==
    ASSUME IInv, NEW c \in Clients,
           \/ ClientConnect(c) \/ SendClientHello(c) \/ RecvServerHello(c)
           \/ RecvServerFinished(c) \/ SendClientRecord(c) \/ RecvServerRecord(c)
    PROVE  NoNewCertificates /\ NobodyChecks /\ keyfiles' = keyfiles
<1> USE DEF NobodyChecks, session, Verified
<1>1. cpc \in [Clients -> Steps \union {"start"}] /\ cli \in [Clients -> ClientMemory]
  BY DEF IInv, TypeInv, TypeOK
<1>2. CASE ClientConnect(c)
  BY <1>1, <1>2, SameStream DEF ClientConnect, network
<1>3. CASE SendClientHello(c)
  BY <1>1, <1>3, SameStream DEF SendClientHello, ClientSends
<1>4. CASE RecvServerHello(c)
  BY <1>1, <1>4, ReceivingBringsNone DEF RecvServerHello
<1>5. CASE RecvServerFinished(c)
  BY <1>1, <1>5, ReceivingBringsNone DEF RecvServerFinished, ClientReceives
<1>6. CASE SendClientRecord(c)
  BY <1>1, <1>6, SameStream DEF SendClientRecord, ClientSends
<1>7. CASE RecvServerRecord(c)
  BY <1>1, <1>7, ReceivingBringsNone DEF RecvServerRecord
<1> QED BY <1>2, <1>3, <1>4, <1>5, <1>6, <1>7

LEMMA ClientExitUnsigned ==
    ASSUME IInv, NEW c \in Clients, NEW outcome \in Ended, NEW unread,
           ClientExit(c, outcome, unread)
    PROVE  NoNewCertificates /\ NobodyChecks /\ keyfiles' = keyfiles
<1>1. \A d \in Clients :
          /\ s2c'[d] = s2c[d] \/ s2c'[d] = <<>>
          /\ IF d = c THEN cpc'[d] = outcome ELSE cpc'[d] = cpc[d] /\ cli'[d] = cli[d]
  BY DEF ClientExit, IInv, TypeInv, TypeOK
<1>2. NoNewCertificates
  BY <1>1, NoNewSame, NoNewEmpty DEF NoNewCertificates
<1>3. NobodyChecks
  BY <1>1 DEF ClientExit, NobodyChecks, session, Verified, Ended
<1> QED BY <1>2, <1>3 DEF ClientExit

LEMMA GarbleUnsigned ==
    ASSUME IInv, NEW c \in Clients, Garble(c)
    PROVE  NoNewCertificates /\ NobodyChecks /\ keyfiles' = keyfiles
<1>1. ASSUME NEW i \in DOMAIN s2c[c], NEW msg \in Altered(s2c[c][i]),
             s2c' = [s2c EXCEPT ![c][i] = msg], NEW d \in Clients, NEW type
      PROVE  NoNew(type, s2c'[d], s2c[d])
  <2>1. msg.body = Garbled
    BY DEF Altered, Msg
  <2>2. s2c \in [Clients -> Seq(Message)]
    BY DEF IInv, TypeInv, TypeOK
  <2>3. s2c'[d] = IF d = c THEN [s2c[d] EXCEPT ![i] = msg] ELSE s2c[d]
    BY <1>1, <2>2
  <2> QED BY <2>1, <2>2, <2>3, NoNewSame DEF NoNew
<1>2. NoNewCertificates
  BY <1>1, SameStream DEF Garble, NoNewCertificates
<1> QED BY <1>2 DEF Garble, NobodyChecks, session

-----------------------------------------------------------------------------
(* The server sends the two halves. *)

LEMMA SendCertificateSigned ==
    ASSUME SignatureInv, IInv', SendCertificate PROVE SignatureInv'
<1> DEFINE msg == Msg(TLS_MSG_CERTIFICATE, srv.sig_public_key)
<1>1. /\ conn \in Clients /\ TypeInv /\ IInv
      /\ msg.body = SigPublicKey(keyfiles.public)
      /\ msg.type # TLS_MSG_CERTIFICATE_VERIFY
  BY DEF SendCertificate, SignatureInv, IInv, TypeInv, ServerStage, ServerLive, ServerSending,
         Msg, TLS_MSG_CERTIFICATE, TLS_MSG_CERTIFICATE_VERIFY
<1>2. msg \in Message /\ ServerSends(msg) /\ keyfiles' = keyfiles
  BY <1>1, HandshakeMessages DEF SendCertificate
<1> HIDE DEF msg
<1>3. ASSUME NEW c \in Clients, NEW i \in DOMAIN s2c'[c]
      PROVE  (i \in DOMAIN s2c[c] /\ s2c'[c][i] = s2c[c][i]) \/ s2c'[c][i] = msg
  BY <1>1, <1>2, AppendElements DEF ServerSends, Delivered, IInv, TypeInv, TypeOK
<1>4. CertificatesInFlight'
  BY <1>1, <1>2, <1>3 DEF SignatureInv, CertificatesInFlight
<1>5. SignatureChecked'
  BY CheckedKept DEF SendCertificate, NobodyChecks, session, SignatureInv
<1> QED BY <1>4, <1>5 DEF SignatureInv

LEMMA SendCertificateVerifySigned ==
    ASSUME SignatureInv, IInv', SendCertificateVerify PROVE SignatureInv'
<1> DEFINE msg == Msg(TLS_MSG_CERTIFICATE_VERIFY, Signature(srv.sig_secret_key, srv.transcript))
<1>1. /\ conn \in Clients /\ TypeInv /\ IInv
      /\ msg.body.pair = keyfiles.secret
      /\ msg.type # TLS_MSG_CERTIFICATE
  BY DEF SendCertificateVerify, SignatureInv, IInv, TypeInv, ServerStage, ServerLive,
         ServerSending, Msg, Signature, TLS_MSG_CERTIFICATE, TLS_MSG_CERTIFICATE_VERIFY
<1>2. msg \in Message /\ ServerSends(msg) /\ keyfiles' = keyfiles
  BY <1>1, HandshakeMessages DEF SendCertificateVerify
<1> HIDE DEF msg
<1>3. ASSUME NEW c \in Clients, NEW i \in DOMAIN s2c'[c]
      PROVE  (i \in DOMAIN s2c[c] /\ s2c'[c][i] = s2c[c][i]) \/ s2c'[c][i] = msg
  BY <1>1, <1>2, AppendElements DEF ServerSends, Delivered, IInv, TypeInv, TypeOK
<1>4. CertificatesInFlight'
  BY <1>1, <1>2, <1>3 DEF SignatureInv, CertificatesInFlight
<1>5. SignatureChecked'
  BY CheckedKept DEF SendCertificateVerify, NobodyChecks, session, SignatureInv
<1> QED BY <1>4, <1>5 DEF SignatureInv

-----------------------------------------------------------------------------
(* The client takes the certificate as it comes, checks the signature under *)
(* it, and commits to keys only after that.                                 *)

LEMMA RecvCertificateSigned ==
    ASSUME SignatureInv, IInv', NEW c \in Clients, RecvCertificate(c) PROVE SignatureInv'
<1> USE DEF RecvCertificate
<1> DEFINE msg == Head(s2c[c])
<1>1. /\ IInv /\ keyfiles' = keyfiles /\ NoNewCertificates
      /\ cpc \in [Clients -> Steps \union {"start"}] /\ cli \in [Clients -> ClientMemory]
  BY ReceivingBringsNone DEF SignatureInv, IInv, TypeInv, TypeOK
<1>2. msg.type = TLS_MSG_CERTIFICATE /\ msg = s2c[c][1] /\ 1 \in DOMAIN s2c[c]
  BY DEF ClientReceives, ExpectedType, SignatureInv, IInv, TypeInv, TypeOK
<1>3. msg.body \in {Garbled, SigPublicKey(keyfiles.public)}
  BY <1>2 DEF SignatureInv, CertificatesInFlight
<1>4. /\ cli'[c].sig_public_key = msg.body /\ cpc'[c] = "certificate_verify"
      /\ \A d \in Clients : d # c => cli'[d] = cli[d] /\ cpc'[d] = cpc[d]
  BY <1>1 DEF ClientMemory
<1>5. SignatureChecked'
  BY <1>1, <1>3, <1>4 DEF SignatureInv, SignatureChecked, session
<1> QED BY <1>1, <1>5, CertificatesKept DEF SignatureInv

LEMMA RecvCertificateVerifySigned ==
    ASSUME SignatureInv, IInv', NEW c \in Clients, RecvCertificateVerify(c) PROVE SignatureInv'
<1> USE DEF RecvCertificateVerify
<1> DEFINE msg == Head(s2c[c])
<1>1. /\ IInv /\ keyfiles' = keyfiles /\ NoNewCertificates
      /\ cpc \in [Clients -> Steps \union {"start"}] /\ cli \in [Clients -> ClientMemory]
      /\ cpc[c] = "certificate_verify"
  BY ReceivingBringsNone DEF SignatureInv, IInv, TypeInv, TypeOK, ClientReceives
<1>2. msg.type = TLS_MSG_CERTIFICATE_VERIFY /\ msg = s2c[c][1] /\ 1 \in DOMAIN s2c[c]
  BY DEF ClientReceives, ExpectedType, SignatureInv, IInv, TypeInv, TypeOK
<1>3. PICK p \in KeyPairs : /\ cli[c].sig_public_key = SigPublicKey(p)
                            /\ msg.body = Signature(p, cli[c].transcript)
  BY DEF SignatureValid
<1>4. p = keyfiles.public
  BY <1>1, <1>3 DEF SignatureInv, SignatureChecked, SigPublicKey, Garbled
<1>5. p = keyfiles.secret
  BY <1>2, <1>3 DEF SignatureInv, CertificatesInFlight, Signature, Garbled
<1>6. /\ cpc'[c] = "server_finished"
      /\ \A d \in Clients : d # c => cli'[d] = cli[d] /\ cpc'[d] = cpc[d]
  BY <1>1
<1>7. SignatureChecked'
  BY <1>1, <1>4, <1>5, <1>6 DEF SignatureInv, SignatureChecked, session
<1> QED BY <1>1, <1>7, CertificatesKept DEF SignatureInv

LEMMA SendClientFinishedSigned ==
    ASSUME SignatureInv, IInv', NEW c \in Clients, SendClientFinished(c) PROVE SignatureInv'
<1> USE DEF SendClientFinished
<1>1. /\ keyfiles' = keyfiles /\ NoNewCertificates
      /\ cpc \in [Clients -> Steps \union {"start"}] /\ cpc[c] = "client_finished"
      /\ \A d \in Clients : d # c => cli'[d] = cli[d] /\ clientKeys'[d] = clientKeys[d]
                                     /\ cpc'[d] = cpc[d]
      /\ cpc'[c] = "client_record"
  BY SameStream DEF ClientSends, SignatureInv, IInv, TypeInv, TypeOK
<1>2. SignatureChecked'
  BY <1>1 DEF SignatureInv, SignatureChecked
<1> QED BY <1>1, <1>2, CertificatesKept DEF SignatureInv

-----------------------------------------------------------------------------
LEMMA InitSignature == ASSUME Init PROVE SignatureInv
<1>1. IInv
  BY InitIInv
<1>2. SignatureChecked
  BY DEF Init, SignatureChecked
<1>3. \A c \in Clients : \A i \in DOMAIN s2c[c] : FALSE
  <2>1. \A c \in Clients : s2c[c] = <<>>
    BY DEF Init
  <2>2. \A i \in DOMAIN <<>> : FALSE
    OBVIOUS
  <2> QED BY <2>1, <2>2
<1>4. CertificatesInFlight
  BY <1>3 DEF CertificatesInFlight
<1> QED BY <1>1, <1>2, <1>4 DEF SignatureInv

LEMMA NextSignature == ASSUME SignatureInv, [Next]_vars PROVE SignatureInv'
<1>1. IInv /\ IInv' /\ TypeInv
  BY NextIInv DEF SignatureInv, IInv
<1>2. CASE ServerStart \/ ServerStep \/ ServerFails
  <2>1. CASE \/ ServerSuccess \/ ServerRejects \/ ServerDisconnected \/ ServerKilled
             \/ ServerFails
    BY <1>1, <2>1, ServerEndings, ServerExitUnsigned, UnsignedStep
  <2>2. CASE \/ ServerStart \/ Accept \/ RecvClientHello \/ SendServerHello
             \/ SendServerFinished \/ RecvClientFinished \/ RecvClientRecord \/ SendServerRecord
    BY <1>1, <2>2, ServerUnsignedSteps, UnsignedStep
  <2> QED BY <1>1, <1>2, <2>1, <2>2, SendCertificateSigned, SendCertificateVerifySigned
          DEF ServerStep
<1>3. ASSUME NEW c \in Clients, ClientConnect(c) \/ ClientStep(c) \/ ClientFails(c)
      PROVE  SignatureInv'
  <2>1. CASE \/ ClientRefused(c) \/ ClientSuccess(c) \/ ClientRejects(c)
             \/ ClientDisconnected(c) \/ ClientKilled(c) \/ ClientFails(c)
    BY <1>1, <2>1, ClientEndings, ClientExitUnsigned, UnsignedStep
  <2>2. CASE \/ ClientConnect(c) \/ SendClientHello(c) \/ RecvServerHello(c)
             \/ RecvServerFinished(c) \/ SendClientRecord(c) \/ RecvServerRecord(c)
    BY <1>1, <2>2, ClientUnsignedSteps, UnsignedStep
  <2> QED BY <1>1, <1>3, <2>1, <2>2, RecvCertificateSigned, RecvCertificateVerifySigned,
             SendClientFinishedSigned DEF ClientStep
<1>4. ASSUME NEW c \in Clients, Garble(c) PROVE SignatureInv'
  BY <1>1, <1>4, GarbleUnsigned, UnsignedStep
<1>5. CASE AllEnded \/ UNCHANGED vars
  <2>1. UNCHANGED vars
    BY <1>5 DEF AllEnded
  <2> QED BY <1>1, <2>1, SameStream, UnsignedStep DEF vars, network, session, NobodyChecks
<1> QED BY <1>2, <1>3, <1>4, <1>5 DEF Next

\* Certificates and signatures carry the half they were made with, in every behaviour.
THEOREM SignatureInvariant == Spec => []SignatureInv
<1>1. Init => SignatureInv
  BY InitSignature
<1>2. SignatureInv /\ [Next]_vars => SignatureInv'
  BY NextSignature
<1> QED BY <1>1, <1>2, PTL DEF Spec

\* Both at once: the inductive invariant that TLC checks on three clients.
THEOREM HandshakeInvariance == Spec => []HandshakeInv
<1>1. SessionInv /\ SignatureInv => HandshakeInv
  BY DEF HandshakeInv
<1> QED BY <1>1, SessionInvariant, SignatureInvariant, PTL

\* If the two key files come from different pairs, no client ever holds keys.
THEOREM MismatchedPairHolds == Spec => []MismatchedPairServesNobody
<1>1. SignatureInv => MismatchedPairServesNobody
  BY DEF SignatureInv, SignatureChecked, MismatchedPairServesNobody
<1> QED BY <1>1, SignatureInvariant, PTL
=============================================================================
