-------------------------- MODULE HandshakeInvariant --------------------------
(***************************************************************************)
(* The inductive strengthening of Handshake's type invariant and of its    *)
(* agreement property.  Agreement alone is not inductive: it says nothing  *)
(* of the Finished messages still on their way, of what a process that has *)
(* not sent or checked its Finished yet holds, or of the clients nobody    *)
(* has accepted.  The conjuncts below say it, one kind of fact at a time.  *)
(***************************************************************************)
EXTENDS Handshake

\* The steps at which a transcript holds nothing past Certificate.
HelloSteps == {"start", "accept", "client_hello", "server_hello", "certificate",
               "certificate_verify"}
BeforeOffer  == HelloSteps \union {"server_finished"}
BeforeCommit == HelloSteps \union {"server_finished", "client_finished"}
\* The steps of a client the server has not accepted.
Waiting == {"start", "client_hello", "server_hello", "failure", "killed"}
ServerLive == ServerSending \union ServerReceiving \union {"end"}

\* What the server's memory holds at each step.
ServerStage ==
    /\ spc \in {"start", "accept"} => conn = NoClient
    /\ spc \in ServerLive => conn \in Clients
    /\ spc \in ServerLive \union {"accept"} =>
          /\ srv.sig_secret_key = keyfiles.secret
          /\ srv.sig_public_key = SigPublicKey(keyfiles.public)
    /\ spc \in HelloSteps => srv.transcript \in Seq(HelloMsg)
    /\ spc = "server_finished" => srv.transcript \in Seq(SignedMsg)
    /\ spc = "client_finished" => srv.transcript \in Seq(ConfirmedMsg)
    /\ spc = "server_hello" => srv.kem_public_key \in KemPublicKeys
    /\ spc \in {"certificate", "certificate_verify", "server_finished", "client_finished"} =>
          srv.shared_secret \in Secrets
    /\ spc = "client_record" => srv.recv_state \in RecordStates
    /\ spc \in {"client_record", "server_record"} => srv.send_state \in RecordStates

\* What a client's memory holds at each step.
ClientStage(c) ==
    /\ cpc[c] \in HelloSteps => cli[c].transcript \in Seq(HelloMsg)
    /\ cpc[c] = "server_finished" => cli[c].transcript \in Seq(SignedMsg)
    /\ cpc[c] = "client_finished" => cli[c].transcript \in Seq(ConfirmedMsg)
    /\ cpc[c] \in {"certificate", "certificate_verify", "server_finished", "client_finished"} =>
          cli[c].shared_secret \in Secrets
    /\ cpc[c] = "client_record" => cli[c].send_state \in RecordStates
    /\ cpc[c] \in {"client_record", "server_record"} => cli[c].recv_state \in RecordStates

TypeInv == TypeOK /\ ServerStage /\ \A c \in Clients : ClientStage(c)

\* A client the server has not accepted has heard nothing.
Unserved ==
    \A c \in Clients : c # conn =>
        /\ s2c[c] = <<>>
        /\ clientKeys[c] = None
        /\ cpc[c] \in Waiting

\* Nothing is offered before the server's Finished, which fixes the offer.
OfferStage ==
    /\ spc \in BeforeOffer => offered = None
    /\ spc = "client_finished" => offered = KeysAfter(srv.shared_secret, srv.transcript)

\* An unaltered Finished on its way to a client stands for the keys on offer.
ServerFinishedInFlight ==
    \A c \in Clients : \A i \in DOMAIN s2c[c] :
        LET msg == s2c[c][i] IN
        msg.type = TLS_MSG_FINISHED /\ msg.body # Garbled =>
            offered = KeysAfter(msg.body.secret, Append(msg.body.hash, msg))

\* A client that checked the server's Finished holds what those keys are made of.
ClientConfirmed ==
    \A c \in Clients : cpc[c] = "client_finished" =>
        offered = KeysAfter(cli[c].shared_secret, cli[c].transcript)

\* A client has no keys before its own Finished.
ClientUncommitted ==
    \A c \in Clients : cpc[c] \in BeforeCommit => clientKeys[c] = None

\* An unaltered Finished on its way to the server stands for its client's keys.
ClientFinishedInFlight ==
    \A c \in Clients : \A i \in DOMAIN c2s[c] :
        LET msg == c2s[c][i] IN
        msg.type = TLS_MSG_FINISHED /\ msg.body # Garbled =>
            clientKeys[c] = ApplicationKeys(msg.body.secret, Append(msg.body.hash, msg))

IInv ==
    /\ TypeInv
    /\ Unserved
    /\ OfferStage
    /\ ServerFinishedInFlight
    /\ ClientConfirmed
    /\ ClientUncommitted
    /\ ClientFinishedInFlight
    /\ Agreement

-----------------------------------------------------------------------------
(* What the refinement and the remaining invariants need beyond IInv. *)

\* The server's keys and text come with the step at which it gets them.
ServerProgress ==
    /\ spc \in BeforeCommit => serverKeys = None
    /\ spc \in BeforeCommit \union {"client_record"} => serverGot = NoText
    /\ spc = "client_record" => serverKeys # None
    /\ spc \in {"server_record", "end", "success"} => serverGot = ClientMessage

\* A client that has read the reply has a server with nothing left to do.
ClientProgress ==
    \A c \in Clients :
        /\ cpc[c] \in BeforeCommit \union {"client_record", "server_record"} =>
              clientGot[c] = NoText
        /\ cpc[c] \in {"end", "success"} =>
              spc \in {"end", "success"} /\ clientGot[c] = ServerMessage

\* An unaltered record carries its sender's text, and the server's is the last
\* thing it sends.
RecordsInFlight ==
    \A c \in Clients :
        /\ \A i \in DOMAIN c2s[c] :
              c2s[c][i].type = TLS_APPLICATION_DATA /\ c2s[c][i].body # Garbled =>
                  c2s[c][i].body.text = ClientMessage
        /\ \A i \in DOMAIN s2c[c] :
              s2c[c][i].type = TLS_APPLICATION_DATA /\ s2c[c][i].body # Garbled =>
                  s2c[c][i].body.text = ServerMessage /\ spc \in {"end", "success"}

SessionInv == IInv /\ ServerProgress /\ ClientProgress /\ RecordsInFlight

\* The two halves of the key pair, where they are used.
CertificatesInFlight ==
    \A c \in Clients : \A i \in DOMAIN s2c[c] :
        /\ s2c[c][i].type = TLS_MSG_CERTIFICATE /\ s2c[c][i].body # Garbled =>
              s2c[c][i].body = SigPublicKey(keyfiles.public)
        /\ s2c[c][i].type = TLS_MSG_CERTIFICATE_VERIFY /\ s2c[c][i].body # Garbled =>
              s2c[c][i].body.pair = keyfiles.secret

\* Only a client that verified a signature gets past it, and only a signature
\* made with the certificate's own pair verifies.
SignatureChecked ==
    \A c \in Clients :
        /\ cpc[c] = "certificate_verify" =>
              cli[c].sig_public_key \in {Garbled, SigPublicKey(keyfiles.public)}
        /\ cpc[c] \in {"server_finished", "client_finished"} \/ clientKeys[c] # None =>
              keyfiles.public = keyfiles.secret

SignatureInv == IInv /\ CertificatesInFlight /\ SignatureChecked

\* What the server has read, what each client has read and which key files it
\* checked follow from the step each stands at, whatever was altered or cut off.
HandshakeInv == SessionInv /\ SignatureInv
==============================================================================
