------------------------------ MODULE Handshake ------------------------------
(***************************************************************************)
(* network/secure_server.c and network/secure_client.c: one server process *)
(* that accepts one connection, runs the post-quantum handshake on it,     *)
(* exchanges one application record in each direction and exits, and the   *)
(* client processes that connect to it.                                    *)
(*                                                                         *)
(* Cryptography is symbolic: a value records how it was made, so two       *)
(* values are equal exactly when they were computed from the same inputs.  *)
(* A transcript is the sequence of the messages fed to SHA-256 so far, and *)
(* its hash is that sequence.                                              *)
(*                                                                         *)
(* A handshake message or a record is one element of the byte stream of    *)
(* its direction; how send_all and recv_all move its bytes is below this   *)
(* module.  Each process closes its sockets when it exits or is killed,    *)
(* and the other end's kernel learns it:                                   *)
(*   "open"  the peer has not closed                                       *)
(*   "fin"   the peer closed after reading all it was sent                 *)
(*   "rst"   the peer closed with unread bytes, or its listener was closed *)
(*           before accept(): the connection is reset                      *)
(*   "pipe"  this end sent after "fin": the bytes were answered by a reset *)
(* A send on "fin" or "pipe" may raise SIGPIPE, whose default action kills *)
(* the process: common.c passes no MSG_NOSIGNAL and nothing ignores it.    *)
(***************************************************************************)
EXTENDS Naturals, Sequences

\* An operator named Mutant_... is no part of the specification: it is what a
\* bug in the code would make of the definition it precedes.

CONSTANTS
    Clients,     \* the client processes
    NoClient,    \* connfd = -1
    KeyPairs,    \* the ML-DSA key pairs whose halves may lie in the key files
    Backlog,     \* the connections the kernel queues for accept()
    MaxGarbled   \* how many messages the network may alter

ASSUME NoClientAssumption == NoClient \notin Clients
ASSUME BacklogAssumption == Backlog \in Nat \ {0}
ASSUME MaxGarbledAssumption == MaxGarbled \in Nat

-----------------------------------------------------------------------------
(* Values *)

TLS_MSG_CLIENT_HELLO       == 1
TLS_MSG_SERVER_HELLO       == 2
TLS_MSG_CERTIFICATE        == 11
TLS_MSG_CERTIFICATE_VERIFY == 15
TLS_MSG_FINISHED           == 20
TLS_APPLICATION_DATA       == 23
BAD_HEADER                 == 0    \* no message of this program has this type
LONG_HEADER                == 256  \* a record header that announces more bytes than follow

TLS_SERVER_FINISHED_LABEL == "Server Finished Key"
TLS_CLIENT_FINISHED_LABEL == "Client Finished Key"

None    == [kind |-> "none"]
Garbled == [kind |-> "garbled"]
NoText  == "nothing received"
ClientMessage == "Hello Secure PQC from Client!"
ServerMessage == "Hello Secure PQC from Server!"
Texts == {ClientMessage, ServerMessage}

Msg(type, body) == [type |-> type, body |-> body]

\* ML-KEM: each client process generates one key pair; the server process
\* encapsulates once, so a secret is named by the public key it was made for.
KemPublicKey(c) == [kind |-> "kem_public_key", owner |-> c]
Ciphertext(pk)  == [kind |-> "ciphertext", pk |-> pk]
Mutant_SecretNotFilled(pk) == None
Secret(pk)      == [kind |-> "secret", pk |-> pk]

\* OQS_KEM_decaps succeeds on every ciphertext: on one not made for this key
\* it returns a pseudorandom secret nobody else has (implicit rejection).
Decaps(c, ct) ==
    IF ct = Ciphertext(KemPublicKey(c))
    THEN Secret(KemPublicKey(c))
    ELSE [kind |-> "rejection", owner |-> c, ct |-> ct]

\* ML-DSA: the two halves of pair p.
SigPublicKey(p)    == [kind |-> "sig_public_key", pair |-> p]
Signature(p, hash) == [kind |-> "signature", pair |-> p, hash |-> hash]
Mutant_SignatureNotVerified(pk, hash, signature) == signature # Garbled
SignatureValid(pk, hash, signature) ==
    \E p \in KeyPairs : pk = SigPublicKey(p) /\ signature = Signature(p, hash)

\* HMAC of the hash under the key HKDF derives from the secret and the label.
VerifyData(ss, label, hash) ==
    [kind |-> "verify_data", secret |-> ss, label |-> label, hash |-> hash]

\* CRYPTO_memcmp(received, expected) = 0
Mutant_FinishedNotCompared(received, expected) == TRUE
FinishedMatches(received, expected) == received = expected

\* tls_application_keys, and one direction's tls_record_state.
ApplicationKeys(ss, hash) == [kind |-> "keys", secret |-> ss, hash |-> hash]
RecordState(keys, sender) ==
    [kind |-> "record_state", keys |-> keys, sender |-> sender, sequence_number |-> 0]

\* AES-256-GCM under the state's key, with the nonce of its sequence number.
\* The tag fits only the record made with the same key and nonce.
Seal(state, text) == [kind |-> "sealed", under |-> state, text |-> text]
Opens(state, body) == \E text \in Texts : body = Seal(state, text)
NextRecord(state) == [state EXCEPT !.sequence_number = @ + 1]

\* What both sides derive once both Finished messages are in the transcript,
\* said when only the server's is.
KeysAfter(ss, hash) ==
    ApplicationKeys(ss, Append(hash,
        Msg(TLS_MSG_FINISHED, VerifyData(ss, TLS_CLIENT_FINISHED_LABEL, hash))))

-----------------------------------------------------------------------------
(* State *)

VARIABLES
    spc,        \* the step the server has reached
    srv,        \* the server's key buffers, transcript and record states
    conn,       \* the client connfd is connected to
    backlog,    \* the kernel's queue of connections waiting for accept()
    cpc,        \* the step each client has reached
    cli,        \* each client's key buffers, transcript and record states
    c2s,        \* the unread messages from each client to the server
    s2c,        \* the unread messages from the server to each client
    sHup,       \* what the server's kernel knows of each client's close
    cHup,       \* what each client's kernel knows of the server's close
    keyfiles,   \* the pairs the two ML-DSA key files were written from
    garbled,    \* how many messages were altered so far
    disturbed,  \* the clients whose session met a local failure or an altered message
    offered,    \* the keys the server's Finished commits it to
    clientKeys, \* the keys each client's Finished commits it to
    serverKeys, \* the keys the server derived
    serverGot,  \* the text the server printed
    clientGot   \* the text each client printed

network == <<c2s, s2c, sHup, cHup>>
session == <<offered, clientKeys, serverKeys, serverGot, clientGot>>
vars == <<spc, srv, conn, backlog, cpc, cli, network, keyfiles, garbled, disturbed, session>>

Ended == {"success", "failure", "killed"}

ServerSending   == {"server_hello", "certificate", "certificate_verify",
                    "server_finished", "server_record"}
ServerReceiving == {"client_hello", "client_finished", "client_record"}
ClientSending   == ServerReceiving
ClientReceiving == ServerSending

\* The type each receiver asks for.
ExpectedType(step) ==
    CASE step = "client_hello"       -> TLS_MSG_CLIENT_HELLO
      [] step = "server_hello"       -> TLS_MSG_SERVER_HELLO
      [] step = "certificate"        -> TLS_MSG_CERTIFICATE
      [] step = "certificate_verify" -> TLS_MSG_CERTIFICATE_VERIFY
      [] step = "server_finished"    -> TLS_MSG_FINISHED
      [] step = "client_finished"    -> TLS_MSG_FINISHED
      [] OTHER                       -> TLS_APPLICATION_DATA

ClearServer ==
    [sig_public_key |-> None, sig_secret_key |-> None, kem_public_key |-> None,
     shared_secret |-> None, transcript |-> <<>>, recv_state |-> None, send_state |-> None]

ClearClient ==
    [sig_public_key |-> None, shared_secret |-> None, transcript |-> <<>>,
     recv_state |-> None, send_state |-> None]

Init ==
    /\ spc = "start"
    /\ srv = ClearServer
    /\ conn = NoClient
    /\ backlog = <<>>
    /\ cpc = [c \in Clients |-> "start"]
    /\ cli = [c \in Clients |-> ClearClient]
    /\ c2s = [c \in Clients |-> <<>>]
    /\ s2c = [c \in Clients |-> <<>>]
    /\ sHup = [c \in Clients |-> "open"]
    /\ cHup = [c \in Clients |-> "open"]
    /\ keyfiles \in [public : KeyPairs, secret : KeyPairs]
    /\ garbled = 0
    /\ disturbed = {}
    /\ offered = None
    /\ clientKeys = [c \in Clients |-> None]
    /\ serverKeys = None
    /\ serverGot = NoText
    /\ clientGot = [c \in Clients |-> NoText]

-----------------------------------------------------------------------------
(* Sockets *)

\* A message is delivered only while the peer has not closed.
Delivered(queue, hup, msg) == IF hup = "open" THEN Append(queue, msg) ELSE queue
AfterSend(hup) == IF hup = "fin" THEN "pipe" ELSE hup

\* All the bytes the next message announces have been sent.
Complete(queue) == queue # <<>> /\ Head(queue).type # LONG_HEADER

\* A receiver is told of the close when the bytes run out, or at once when
\* the connection was reset.
Mutant_RetriesInRecord(queue, hup) == hup \in {"rst", "pipe"} \/ (hup = "fin" /\ queue = <<>>)
Disconnected(queue, hup) == hup \in {"rst", "pipe"} \/ (hup = "fin" /\ ~Complete(queue))

\* What closing a connection with this unread data tells the peer.
Mutant_AbortiveClose(unread) == "rst"
CloseWith(unread) == IF unread = <<>> THEN "fin" ELSE "rst"

\* A failure at a receive leaves the message unread, or follows its reading.
Leftovers(queue) == IF queue = <<>> THEN {queue} ELSE {queue, Tail(queue)}

InBacklog(c) == \E i \in DOMAIN backlog : backlog[i] = c

ClosedByServer(unread) ==
    [c \in Clients |-> IF c = conn THEN CloseWith(unread)
                       ELSE IF InBacklog(c) THEN "rst" ELSE cHup[c]]

\* The end label of secure_server: both descriptors closed, so that the kernel
\* resets the connections still waiting for accept(), and the memory released.
ServerExit(outcome, unread) ==
    /\ spc' = outcome
    /\ srv' = ClearServer
    /\ backlog' = <<>>
    /\ cHup' = ClosedByServer(unread)
    /\ c2s' = [c \in Clients |-> <<>>]
    /\ UNCHANGED <<conn, cpc, cli, s2c, sHup, keyfiles, garbled, session>>

\* The end label of secure_client.
ClientExit(c, outcome, unread) ==
    /\ cpc' = [cpc EXCEPT ![c] = outcome]
    /\ cli' = [cli EXCEPT ![c] = ClearClient]
    /\ sHup' = [sHup EXCEPT ![c] = CloseWith(unread)]
    /\ s2c' = [s2c EXCEPT ![c] = <<>>]
    /\ UNCHANGED <<spc, srv, conn, backlog, c2s, cHup, keyfiles, garbled, session>>

-----------------------------------------------------------------------------
(* The server *)

\* Load both key files, initialise ML-KEM, socket, bind and listen.
ServerStart ==
    /\ spc = "start"
    /\ spc' = "accept"
    /\ srv' = [srv EXCEPT !.sig_secret_key = keyfiles.secret,
                          !.sig_public_key = SigPublicKey(keyfiles.public)]
    /\ UNCHANGED <<conn, backlog, cpc, cli, network, keyfiles, garbled, disturbed, session>>

Accept ==
    /\ spc = "accept"
    /\ backlog # <<>>
    /\ conn' = Head(backlog)
    /\ backlog' = Tail(backlog)
    /\ spc' = "client_hello"
    /\ UNCHANGED <<srv, cpc, cli, network, keyfiles, garbled, disturbed, session>>

\* The next message has the type the receiver at this step asks for.
ServerReceives(step) ==
    /\ spc = step
    /\ c2s[conn] # <<>>
    /\ Head(c2s[conn]).type = ExpectedType(step)
    /\ c2s' = [c2s EXCEPT ![conn] = Tail(@)]
    /\ UNCHANGED <<s2c, sHup, cHup>>

\* send_handshake_msg or send_encrypted_record returned 0.
ServerSends(msg) ==
    /\ s2c' = [s2c EXCEPT ![conn] = Delivered(@, sHup[conn], msg)]
    /\ sHup' = [sHup EXCEPT ![conn] = AfterSend(@)]
    /\ UNCHANGED <<c2s, cHup>>

RecvClientHello ==
    /\ ServerReceives("client_hello")
    /\ LET msg == Head(c2s[conn]) IN
       srv' = [srv EXCEPT !.kem_public_key = msg.body, !.transcript = Append(@, msg)]
    /\ spc' = "server_hello"
    /\ UNCHANGED <<conn, backlog, cpc, cli, keyfiles, garbled, disturbed, session>>

\* Encapsulate to the received key, send the ciphertext, hash it.
SendServerHello ==
    /\ spc = "server_hello"
    /\ LET msg == Msg(TLS_MSG_SERVER_HELLO, Ciphertext(srv.kem_public_key)) IN
       /\ ServerSends(msg)
       /\ srv' = [srv EXCEPT !.shared_secret = Secret(srv.kem_public_key),
                             !.transcript = Append(@, msg)]
    /\ spc' = "certificate"
    /\ UNCHANGED <<conn, backlog, cpc, cli, keyfiles, garbled, disturbed, session>>

SendCertificate ==
    /\ spc = "certificate"
    /\ LET msg == Msg(TLS_MSG_CERTIFICATE, srv.sig_public_key) IN
       /\ ServerSends(msg)
       /\ srv' = [srv EXCEPT !.transcript = Append(@, msg)]
    /\ spc' = "certificate_verify"
    /\ UNCHANGED <<conn, backlog, cpc, cli, keyfiles, garbled, disturbed, session>>

\* Sign the hash of the three messages so far.
SendCertificateVerify ==
    /\ spc = "certificate_verify"
    /\ LET msg == Msg(TLS_MSG_CERTIFICATE_VERIFY,
                      Signature(srv.sig_secret_key, srv.transcript)) IN
       /\ ServerSends(msg)
       /\ srv' = [srv EXCEPT !.transcript = Append(@, msg)]
    /\ spc' = "server_finished"
    /\ UNCHANGED <<conn, backlog, cpc, cli, keyfiles, garbled, disturbed, session>>

SendServerFinished ==
    /\ spc = "server_finished"
    /\ LET msg == Msg(TLS_MSG_FINISHED, VerifyData(srv.shared_secret,
                      TLS_SERVER_FINISHED_LABEL, srv.transcript)) IN
       /\ ServerSends(msg)
       /\ srv' = [srv EXCEPT !.transcript = Append(@, msg)]
       /\ offered' = KeysAfter(srv.shared_secret, Append(srv.transcript, msg))
    /\ spc' = "client_finished"
    /\ UNCHANGED <<conn, backlog, cpc, cli, keyfiles, garbled, disturbed,
                   clientKeys, serverKeys, serverGot, clientGot>>

\* Compare, hash, derive the application keys and initialise both directions.
RecvClientFinished ==
    /\ ServerReceives("client_finished")
    /\ LET msg  == Head(c2s[conn])
           keys == ApplicationKeys(srv.shared_secret, Append(srv.transcript, msg)) IN
       /\ FinishedMatches(msg.body, VerifyData(srv.shared_secret,
                          TLS_CLIENT_FINISHED_LABEL, srv.transcript))
       /\ srv' = [srv EXCEPT !.transcript = Append(@, msg),
                             !.recv_state = RecordState(keys, "client"),
                             !.send_state = RecordState(keys, "server")]
       /\ serverKeys' = keys
    /\ spc' = "client_record"
    /\ UNCHANGED <<conn, backlog, cpc, cli, keyfiles, garbled, disturbed,
                   offered, clientKeys, serverGot, clientGot>>

RecvClientRecord ==
    /\ ServerReceives("client_record")
    /\ LET body == Head(c2s[conn]).body IN
       /\ Opens(srv.recv_state, body)
       /\ serverGot' = body.text
    /\ srv' = [srv EXCEPT !.recv_state = NextRecord(@)]
    /\ spc' = "server_record"
    /\ UNCHANGED <<conn, backlog, cpc, cli, keyfiles, garbled, disturbed,
                   offered, clientKeys, serverKeys, clientGot>>

SendServerRecord ==
    /\ spc = "server_record"
    /\ ServerSends(Msg(TLS_APPLICATION_DATA, Seal(srv.send_state, ServerMessage)))
    /\ srv' = [srv EXCEPT !.send_state = NextRecord(@)]
    /\ spc' = "end"
    /\ UNCHANGED <<conn, backlog, cpc, cli, keyfiles, garbled, disturbed, session>>

Mutant_ServerStatusForgotten ==
    /\ spc = "end"
    /\ ServerExit("failure", c2s[conn])
    /\ UNCHANGED disturbed
Mutant_ServerServesAgain ==
    /\ spc = "end"
    /\ spc' = "accept"
    /\ cHup' = [cHup EXCEPT ![conn] = "fin"]
    /\ UNCHANGED <<srv, conn, backlog, cpc, cli, c2s, s2c, sHup, keyfiles, garbled, disturbed, session>>

ServerSuccess ==
    /\ spc = "end"
    /\ ServerExit("success", c2s[conn])
    /\ UNCHANGED disturbed

\* A wrong header stops the receiver before it reads the body.
ServerRejects ==
    /\ spc \in ServerReceiving
    /\ c2s[conn] # <<>>
    /\ LET msg == Head(c2s[conn]) IN
       \/ /\ msg.type \notin {ExpectedType(spc), LONG_HEADER}
          /\ ServerExit("failure", c2s[conn])
       \/ /\ spc = "client_finished"
          /\ msg.type = TLS_MSG_FINISHED
          /\ ~FinishedMatches(msg.body, VerifyData(srv.shared_secret,
                              TLS_CLIENT_FINISHED_LABEL, srv.transcript))
          /\ ServerExit("failure", Tail(c2s[conn]))
       \/ /\ spc = "client_record"
          /\ msg.type = TLS_APPLICATION_DATA
          /\ ~Opens(srv.recv_state, msg.body)
          /\ ServerExit("failure", Tail(c2s[conn]))
    /\ UNCHANGED disturbed

ServerDisconnected ==
    /\ spc \in ServerReceiving
    /\ Disconnected(c2s[conn], sHup[conn])
    /\ ServerExit("failure", <<>>)
    /\ UNCHANGED disturbed

\* SIGPIPE: the process ends inside send(), past every cleanup of its own.
ServerKilled ==
    /\ spc \in ServerSending
    /\ sHup[conn] \in {"fin", "pipe"}
    /\ ServerExit("killed", c2s[conn])
    /\ UNCHANGED disturbed

\* Any library or system call that may fail by itself: a key file missing or
\* short, an allocation, bind, accept, a send or recv error, OpenSSL or liboqs.
ServerFails ==
    /\ spc \notin Ended \union {"end"}
    /\ \E unread \in IF conn = NoClient THEN {<<>>} ELSE Leftovers(c2s[conn]) :
          ServerExit("failure", unread)
    /\ disturbed' = disturbed \union ({conn} \ {NoClient})

ServerStep ==
    \/ Accept
    \/ RecvClientHello \/ SendServerHello \/ SendCertificate \/ SendCertificateVerify
    \/ SendServerFinished \/ RecvClientFinished \/ RecvClientRecord \/ SendServerRecord
    \/ ServerSuccess \/ ServerRejects \/ ServerDisconnected \/ ServerKilled

-----------------------------------------------------------------------------
(* The clients *)

Listening == spc \notin Ended \union {"start"}

\* Generate the ML-KEM key pair and connect.
ClientConnect(c) ==
    /\ cpc[c] = "start"
    /\ Listening
    /\ Len(backlog) < Backlog
    /\ backlog' = Append(backlog, c)
    /\ cpc' = [cpc EXCEPT ![c] = "client_hello"]
    /\ UNCHANGED <<spc, srv, conn, cli, network, keyfiles, garbled, disturbed, session>>

ClientRefused(c) ==
    /\ cpc[c] = "start"
    /\ ~Listening
    /\ ClientExit(c, "failure", <<>>)
    /\ UNCHANGED disturbed

ClientReceives(c, step) ==
    /\ cpc[c] = step
    /\ s2c[c] # <<>>
    /\ Head(s2c[c]).type = ExpectedType(step)
    /\ s2c' = [s2c EXCEPT ![c] = Tail(@)]
    /\ UNCHANGED <<c2s, sHup, cHup>>

ClientSends(c, msg) ==
    /\ c2s' = [c2s EXCEPT ![c] = Delivered(@, cHup[c], msg)]
    /\ cHup' = [cHup EXCEPT ![c] = AfterSend(@)]
    /\ UNCHANGED <<s2c, sHup>>

SendClientHello(c) ==
    /\ cpc[c] = "client_hello"
    /\ LET msg == Msg(TLS_MSG_CLIENT_HELLO, KemPublicKey(c)) IN
       /\ ClientSends(c, msg)
       /\ cli' = [cli EXCEPT ![c].transcript = Append(@, msg)]
    /\ cpc' = [cpc EXCEPT ![c] = "server_hello"]
    /\ UNCHANGED <<spc, srv, conn, backlog, keyfiles, garbled, disturbed, session>>

\* Hash the message, then decapsulate.
RecvServerHello(c) ==
    /\ ClientReceives(c, "server_hello")
    /\ LET msg == Head(s2c[c]) IN
       cli' = [cli EXCEPT ![c] = [cli[c] EXCEPT !.transcript = Append(cli[c].transcript, msg),
                                                !.shared_secret = Decaps(c, msg.body)]]
    /\ cpc' = [cpc EXCEPT ![c] = "certificate"]
    /\ UNCHANGED <<spc, srv, conn, backlog, keyfiles, garbled, disturbed, session>>

\* The key is taken as it comes: the client holds no copy to compare it with.
RecvCertificate(c) ==
    /\ ClientReceives(c, "certificate")
    /\ LET msg == Head(s2c[c]) IN
       cli' = [cli EXCEPT ![c] = [cli[c] EXCEPT !.transcript = Append(cli[c].transcript, msg),
                                                !.sig_public_key = msg.body]]
    /\ cpc' = [cpc EXCEPT ![c] = "certificate_verify"]
    /\ UNCHANGED <<spc, srv, conn, backlog, keyfiles, garbled, disturbed, session>>

RecvCertificateVerify(c) ==
    /\ ClientReceives(c, "certificate_verify")
    /\ LET msg == Head(s2c[c]) IN
       /\ SignatureValid(cli[c].sig_public_key, cli[c].transcript, msg.body)
       /\ cli' = [cli EXCEPT ![c].transcript = Append(@, msg)]
    /\ cpc' = [cpc EXCEPT ![c] = "server_finished"]
    /\ UNCHANGED <<spc, srv, conn, backlog, keyfiles, garbled, disturbed, session>>

RecvServerFinished(c) ==
    /\ ClientReceives(c, "server_finished")
    /\ LET msg == Head(s2c[c]) IN
       /\ FinishedMatches(msg.body, VerifyData(cli[c].shared_secret,
                          TLS_SERVER_FINISHED_LABEL, cli[c].transcript))
       /\ cli' = [cli EXCEPT ![c].transcript = Append(@, msg)]
    /\ cpc' = [cpc EXCEPT ![c] = "client_finished"]
    /\ UNCHANGED <<spc, srv, conn, backlog, keyfiles, garbled, disturbed, session>>

\* Send, hash, derive the application keys and initialise both directions.
SendClientFinished(c) ==
    /\ cpc[c] = "client_finished"
    /\ LET me   == cli[c]
           msg  == Msg(TLS_MSG_FINISHED, VerifyData(me.shared_secret,
                       TLS_CLIENT_FINISHED_LABEL, me.transcript))
           keys == ApplicationKeys(me.shared_secret, Append(me.transcript, msg)) IN
       /\ ClientSends(c, msg)
       /\ cli' = [cli EXCEPT ![c] = [cli[c] EXCEPT !.transcript = Append(cli[c].transcript, msg),
                                                   !.send_state = RecordState(keys, "client"),
                                                   !.recv_state = RecordState(keys, "server")]]
       /\ clientKeys' = [clientKeys EXCEPT ![c] = keys]
    /\ cpc' = [cpc EXCEPT ![c] = "client_record"]
    /\ UNCHANGED <<spc, srv, conn, backlog, keyfiles, garbled, disturbed,
                   offered, serverKeys, serverGot, clientGot>>

SendClientRecord(c) ==
    /\ cpc[c] = "client_record"
    /\ ClientSends(c, Msg(TLS_APPLICATION_DATA, Seal(cli[c].send_state, ClientMessage)))
    /\ cli' = [cli EXCEPT ![c].send_state = NextRecord(@)]
    /\ cpc' = [cpc EXCEPT ![c] = "server_record"]
    /\ UNCHANGED <<spc, srv, conn, backlog, keyfiles, garbled, disturbed, session>>

RecvServerRecord(c) ==
    /\ ClientReceives(c, "server_record")
    /\ LET body == Head(s2c[c]).body IN
       /\ Opens(cli[c].recv_state, body)
       /\ clientGot' = [clientGot EXCEPT ![c] = body.text]
    /\ cli' = [cli EXCEPT ![c].recv_state = NextRecord(@)]
    /\ cpc' = [cpc EXCEPT ![c] = "end"]
    /\ UNCHANGED <<spc, srv, conn, backlog, keyfiles, garbled, disturbed,
                   offered, clientKeys, serverKeys, serverGot>>

ClientSuccess(c) ==
    /\ cpc[c] = "end"
    /\ ClientExit(c, "success", s2c[c])
    /\ UNCHANGED disturbed

ClientRejects(c) ==
    /\ cpc[c] \in ClientReceiving
    /\ s2c[c] # <<>>
    /\ LET msg == Head(s2c[c]) IN
       \/ /\ msg.type \notin {ExpectedType(cpc[c]), LONG_HEADER}
          /\ ClientExit(c, "failure", s2c[c])
       \/ /\ cpc[c] = "certificate_verify"
          /\ msg.type = TLS_MSG_CERTIFICATE_VERIFY
          /\ ~SignatureValid(cli[c].sig_public_key, cli[c].transcript, msg.body)
          /\ ClientExit(c, "failure", Tail(s2c[c]))
       \/ /\ cpc[c] = "server_finished"
          /\ msg.type = TLS_MSG_FINISHED
          /\ ~FinishedMatches(msg.body, VerifyData(cli[c].shared_secret,
                              TLS_SERVER_FINISHED_LABEL, cli[c].transcript))
          /\ ClientExit(c, "failure", Tail(s2c[c]))
       \/ /\ cpc[c] = "server_record"
          /\ msg.type = TLS_APPLICATION_DATA
          /\ ~Opens(cli[c].recv_state, msg.body)
          /\ ClientExit(c, "failure", Tail(s2c[c]))
    /\ UNCHANGED disturbed

ClientDisconnected(c) ==
    /\ cpc[c] \in ClientReceiving
    /\ Disconnected(s2c[c], cHup[c])
    /\ ClientExit(c, "failure", <<>>)
    /\ UNCHANGED disturbed

ClientKilled(c) ==
    /\ cpc[c] \in ClientSending
    /\ cHup[c] \in {"fin", "pipe"}
    /\ ClientExit(c, "killed", s2c[c])
    /\ UNCHANGED disturbed

ClientFails(c) ==
    /\ cpc[c] \notin Ended \union {"end"}
    /\ \E unread \in Leftovers(s2c[c]) : ClientExit(c, "failure", unread)
    /\ disturbed' = disturbed \union {c}

ClientStep(c) ==
    \/ ClientRefused(c)
    \/ SendClientHello(c) \/ RecvServerHello(c) \/ RecvCertificate(c)
    \/ RecvCertificateVerify(c) \/ RecvServerFinished(c) \/ SendClientFinished(c)
    \/ SendClientRecord(c) \/ RecvServerRecord(c)
    \/ ClientSuccess(c) \/ ClientRejects(c) \/ ClientDisconnected(c) \/ ClientKilled(c)

-----------------------------------------------------------------------------
(* The network, and the whole system *)

\* Altered bytes TCP's checksum let through: in the body, in a header, or in
\* the length of a record so that the receiver waits for more than was sent.
\* A handshake receiver's capacity is the exact length of what it expects, so
\* there a longer length is refused at once.
Altered(msg) ==
    {Msg(msg.type, Garbled), Msg(BAD_HEADER, Garbled)}
        \union IF msg.type = TLS_APPLICATION_DATA THEN {Msg(LONG_HEADER, Garbled)} ELSE {}

Garble(c) ==
    /\ garbled < MaxGarbled
    /\ \/ \E i \in DOMAIN c2s[c] : \E msg \in Altered(c2s[c][i]) :
             c2s' = [c2s EXCEPT ![c][i] = msg] /\ s2c' = s2c
       \/ \E i \in DOMAIN s2c[c] : \E msg \in Altered(s2c[c][i]) :
             s2c' = [s2c EXCEPT ![c][i] = msg] /\ c2s' = c2s
    /\ garbled' = garbled + 1
    /\ disturbed' = disturbed \union {c}
    /\ UNCHANGED <<spc, srv, conn, backlog, cpc, cli, sHup, cHup, keyfiles, session>>

\* Every process has exited: nothing more happens.
AllEnded ==
    /\ spc \in Ended
    /\ \A c \in Clients : cpc[c] \in Ended
    /\ UNCHANGED vars

Next ==
    \/ ServerStart \/ ServerStep \/ ServerFails
    \/ \E c \in Clients : ClientConnect(c) \/ ClientStep(c) \/ ClientFails(c) \/ Garble(c)
    \/ AllEnded

Spec == Init /\ [][Next]_vars

\* A running process takes its next step when one is possible.  Nobody has to
\* start a process, and nothing has to fail.
Fairness == WF_vars(ServerStep) /\ \A c \in Clients : WF_vars(ClientStep(c))

FairSpec == Spec /\ Fairness

-----------------------------------------------------------------------------
(* Types.  A transcript holds longer and longer prefixes of the handshake:  *)
(* Hello to Certificate, then CertificateVerify, then each Finished.        *)

KemPublicKeys == [kind : {"kem_public_key"}, owner : Clients] \union {Garbled}
Ciphertexts   == [kind : {"ciphertext"}, pk : KemPublicKeys] \union {Garbled}
Secrets       == [kind : {"secret"}, pk : KemPublicKeys]
                   \union [kind : {"rejection"}, owner : Clients, ct : Ciphertexts]
SigPublicKeys == [kind : {"sig_public_key"}, pair : KeyPairs] \union {Garbled}

HelloMsg ==
    [type : {TLS_MSG_CLIENT_HELLO}, body : KemPublicKeys]
      \union [type : {TLS_MSG_SERVER_HELLO}, body : Ciphertexts]
      \union [type : {TLS_MSG_CERTIFICATE}, body : SigPublicKeys]
Signatures == [kind : {"signature"}, pair : KeyPairs, hash : Seq(HelloMsg)] \union {Garbled}
SignedMsg  == HelloMsg \union [type : {TLS_MSG_CERTIFICATE_VERIFY}, body : Signatures]
MacsOver(label, S) ==
    [kind : {"verify_data"}, secret : Secrets, label : {label}, hash : Seq(S)] \union {Garbled}
ConfirmedMsg ==
    SignedMsg \union [type : {TLS_MSG_FINISHED}, body : MacsOver(TLS_SERVER_FINISHED_LABEL, SignedMsg)]
HandshakeMsg ==
    ConfirmedMsg \union [type : {TLS_MSG_FINISHED}, body : MacsOver(TLS_CLIENT_FINISHED_LABEL, ConfirmedMsg)]

KeySets      == [kind : {"keys"}, secret : Secrets, hash : Seq(HandshakeMsg)]
RecordStates == [kind : {"record_state"}, keys : KeySets, sender : {"client", "server"},
                 sequence_number : Nat]
Records      == [kind : {"sealed"}, under : RecordStates, text : Texts]
Message ==
    HandshakeMsg \union [type : {TLS_APPLICATION_DATA}, body : Records \union {Garbled}]
                 \union [type : {BAD_HEADER, LONG_HEADER}, body : {Garbled}]

Hups  == {"open", "fin", "rst", "pipe"}
Steps == ServerSending \union ServerReceiving \union {"end"} \union Ended

ServerMemory ==
    [sig_public_key : SigPublicKeys \union {None}, sig_secret_key : KeyPairs \union {None},
     kem_public_key : KemPublicKeys \union {None}, shared_secret : Secrets \union {None},
     transcript : Seq(HandshakeMsg),
     recv_state : RecordStates \union {None}, send_state : RecordStates \union {None}]
ClientMemory ==
    [sig_public_key : SigPublicKeys \union {None}, shared_secret : Secrets \union {None},
     transcript : Seq(HandshakeMsg),
     recv_state : RecordStates \union {None}, send_state : RecordStates \union {None}]

TypeOK ==
    /\ spc \in Steps \union {"start", "accept"}
    /\ srv \in ServerMemory
    /\ conn \in Clients \union {NoClient}
    /\ backlog \in Seq(Clients) /\ Len(backlog) <= Backlog
    /\ cpc \in [Clients -> Steps \union {"start"}]
    /\ cli \in [Clients -> ClientMemory]
    /\ c2s \in [Clients -> Seq(Message)]
    /\ s2c \in [Clients -> Seq(Message)]
    /\ sHup \in [Clients -> Hups]
    /\ cHup \in [Clients -> Hups]
    /\ keyfiles \in [public : KeyPairs, secret : KeyPairs]
    /\ garbled \in 0..MaxGarbled
    /\ disturbed \in SUBSET Clients
    /\ offered \in KeySets \union {None}
    /\ clientKeys \in [Clients -> KeySets \union {None}]
    /\ serverKeys \in KeySets \union {None}
    /\ serverGot \in Texts \union {NoText}
    /\ clientGot \in [Clients -> Texts \union {NoText}]

-----------------------------------------------------------------------------
(* Properties *)

\* README.md:38.  Nobody derives keys the other side did not commit to: a client
\* derives application keys, before it knows whether the server will, only if
\* its server's Finished offered exactly those, and the server only if its client
\* has derived the same.
Agreement ==
    /\ \A c \in Clients : clientKeys[c] # None => c = conn /\ clientKeys[c] = offered
    /\ serverKeys # None => conn \in Clients /\ serverKeys = clientKeys[conn]

\* secure_server.c loads the two key files without comparing them.  If they
\* come from different pairs no client ever gets past CertificateVerify.
MismatchedPairServesNobody ==
    keyfiles.public # keyfiles.secret => \A c \in Clients : clientKeys[c] = None

\* README.md:159.  Only the client the server accepted hears anything from it:
\* every other client stops at the latest waiting for ServerHello.
OneConnection ==
    \A c \in Clients :
        cpc[c] \notin {"start", "client_hello", "server_hello", "failure", "killed"} => c = conn

\* A client that exits with EXIT_SUCCESS was served to the end: its server has
\* printed the client's text, sent its own, and can only exit with success.
ExitCodesAgree ==
    \A c \in Clients :
        cpc[c] = "success" => /\ c = conn
                              /\ spc \in {"end", "success"}
                              /\ serverGot = ClientMessage
                              /\ clientGot[c] = ServerMessage

\* The program as a whole is the one-session key agreement of SecureSession.
Session == INSTANCE SecureSession WITH
    conn       <- conn,
    offered    <- offered,
    clientKeys <- clientKeys,
    serverKeys <- serverKeys,
    serverGot  <- serverGot,
    clientGot  <- clientGot
SessionSpec == Session!Spec

\* The length of the client's record was altered upward: the server waits for
\* bytes nobody sends, and its client, which has sent all it has, for the server's
\* record.  No read has a timeout, so nothing that is sure to happen ends this.
Stalled ==
    /\ spc = "client_record" /\ c2s[conn] # <<>> /\ Head(c2s[conn]).type = LONG_HEADER
    /\ cpc[conn] = "server_record" /\ sHup[conn] = "open"

\* With no timeout anywhere, the closes of the sockets are all that keeps one
\* side from waiting for the other for ever: whatever fails or is altered, a
\* server that accepted a connection ends, and so does every client that
\* connected, the ones still queued for accept() included.  The one exception is
\* a session that is Stalled and stays so: any other wait for the rest of a record
\* ends with the peer's close, and so does that one if the client goes away.
Termination ==
    /\ conn # NoClient ~> spc \in Ended \/ []Stalled
    /\ \A c \in Clients : cpc[c] = "client_hello" ~> cpc[c] \in Ended \/ []Stalled

\* The accepted client and the server both succeed unless a local failure or
\* an altered message hit this session; what other clients do cannot disturb it.
HonestRunSucceeds ==
    \A c \in Clients :
        conn = c /\ keyfiles.public = keyfiles.secret
            ~> c \in disturbed \/ (cpc[c] = "success" /\ spc = "success")

\* common.c:6 says of send_all "-1: fail; 0: success": a lost connection shows
\* as an error return, which every caller handles by its own cleanup.
SendReturns ==
    /\ spc # "killed"
    /\ \A c \in Clients : cpc[c] # "killed"
==============================================================================
