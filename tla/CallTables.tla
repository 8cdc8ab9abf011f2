------------------------------ MODULE CallTables ------------------------------
(***************************************************************************)
(* What every function of the repository that allocates, opens or fills    *)
(* something does with it: its calls, in their order, and what it releases *)
(* when it leaves after each of them.  Module Lifecycle runs these tables. *)
(*                                                                         *)
(* A pointer or descriptor goes by the name it has in the code.  Only      *)
(* calls that can fail are steps; the memory a call overwrites is listed   *)
(* when it then holds a secret, or text no tag has vouched for.            *)
(***************************************************************************)
EXTENDS Naturals, Sequences

\* An operator named Mutant_... is no part of the specification: it is what a
\* bug in the code would make of the definition it precedes.

-----------------------------------------------------------------------------
(* Steps: calls that can fail.  Every one of them is followed by a check of  *)
(* its result (checked), and by a goto or a return if that is an error.     *)

Try == [calls |-> "none", gets |-> {}, fills |-> {}, decrypts |-> {}, verifies |-> {},
        checked |-> TRUE]

Get(objects)       == [Try EXCEPT !.gets = objects]      \* NULL or -1 is a failure
Fill(memory)       == [Try EXCEPT !.fills = memory]      \* leaves a secret there
Call(f)            == [Try EXCEPT !.calls = f]           \* of a function in the tables
CallFilling(f, memory) == [Call(f) EXCEPT !.fills = memory]

-----------------------------------------------------------------------------
(* Releases *)

Free(p) == [frees |-> {p}, erases |-> {}, given |-> {}, after |-> 0, nulls |-> FALSE]

\* OQS_MEM_secure_free with a length read from its owner, if there is one.
SecureFree(p, owner) == [Free(p) EXCEPT !.erases = {p}, !.given = {owner}]

\* OPENSSL_cleanse of an array or a structure.
Erase(memory) == [frees |-> {}, erases |-> memory, given |-> {}, after |-> 0, nulls |-> FALSE]

\* A function with one label for all its ways out, but for the steps whose
\* failure makes it return at once.
Body(steps, release, atOnce) ==
    [steps    |-> steps,
     releases |-> [i \in 1..(Len(steps) + 1) |-> IF i \in atOnce THEN <<>> ELSE release]]

-----------------------------------------------------------------------------
(* src/tls_transcript.c *)

\* transcript_free frees the context in the structure, and sets it to NULL.
transcript_free == [Free("ctx") EXCEPT !.nulls = TRUE]

\* What it has set up is its caller's.
transcript_init == Body(<<Get({"ctx"}), Try>>, <<transcript_free>>, {1, 3})

transcript_get_hash == Body(<<Get({"copy"}), Try, Try>>, <<Free("copy")>>, {1})

transcript_update_handshake_msg ==
    Body(<<Get({"encoded_msg"}), Try, Try>>, <<Free("encoded_msg")>>, {1})

-----------------------------------------------------------------------------
(* HKDF and HMAC: src/kdf.c, src/tls_finished.c, src/tls_key_schedule.c *)

derive_aes256_key_hkdf ==
    Body(<<Get({"library_context"}), Get({"kdf"}), Get({"kctx"}), Try>>,
         <<Free("kctx"), Free("kdf"), Free("library_context")>>, {})

Mutant_ContextKept == Body(<<Get({"kdf"}), Get({"kctx"}), Try>>, <<Free("kdf")>>, {})
derive_finished_key ==
    Body(<<Get({"kdf"}), Get({"kctx"}), Try>>, <<Free("kctx"), Free("kdf")>>, {})

\* HKDF, HMAC, the length of what HMAC wrote.  The first two return at once.
compute_finished_verify_data ==
    Body(<<CallFilling("derive_finished_key", {"finished_key"}), Try, Try>>,
         <<Erase({"finished_key"})>>, {1, 2})

hkdf_derive_label == Body(<<Get({"kdf"}), Get({"kctx"}), Try>>, <<Free("kctx"), Free("kdf")>>, {})

ApplicationKeys == {"client_key", "server_key", "client_iv", "server_iv"}

Label(key) == CallFilling("hkdf_derive_label", {key})
Labels == <<Label("client_key"), Label("server_key"), Label("client_iv"), Label("server_iv")>>

Mutant_KeysLeftHalf == Body(Labels, <<>>, {})
derive_application_keys == Body(Labels, <<Erase(ApplicationKeys)>>, {Len(Labels) + 1})

-----------------------------------------------------------------------------
(* src/aes_gcm.c and the calls of it in src/tls_record.c *)

\* The algorithm, the length of the IV, the key and IV, the additional data,
\* the text, its end, the tag.
aes_gcm_encrypt ==
    Body(<<Get({"cipher_ctx"}), Try, Try, Try, Try, Try, Try, Try>>, <<Free("cipher_ctx")>>, {1})

\* The text is written to the caller's buffer before the tag is checked.
DecryptUpdate == [Try EXCEPT !.decrypts = {"plaintext"}]
DecryptFinal  == [Try EXCEPT !.verifies = {"plaintext"}]

aes_gcm_decrypt ==
    Body(<<Get({"cipher_ctx"}), Try, Try, Try, Try, DecryptUpdate, Try, DecryptFinal>>,
         <<Free("cipher_ctx")>>, {1})

\* The three sends; the header and its checks, the ciphertext, the tag.
send_encrypted_record == Body(<<Call("aes_gcm_encrypt"), Try, Try, Try>>, <<>>, {})
recv_encrypted_record == Body(<<Try, Try, Try, Try, Call("aes_gcm_decrypt")>>, <<>>, {})

-----------------------------------------------------------------------------
(* src/sig_utils.c and tools/generate_dsa_keypair.c *)

Mutant_FileLeftOpen == Body(<<Get({"fp"}), Try>>, <<Free("fp")>>, {1, 2})
load_file == Body(<<Get({"fp"}), Try>>, <<Free("fp")>>, {1})

\* Two files, one after the other, through the same variable: fp is closed
\* after the write, whether it succeeded or not.
KeyFile == Body(<<Get({"fp"}), Try>>, <<Free("fp")>>, {1})

GeneratorCleanup == <<SecureFree("secret_key", "sig"), Free("public_key"), Free("sig")>>

generate_dsa_keypair ==
    Body(<<Get({"sig"}), Get({"public_key", "secret_key"}), Fill({"secret_key"}),
           Call("KeyFile"), Call("KeyFile")>>, GeneratorCleanup, {1})

-----------------------------------------------------------------------------
(* network/secure_server.c *)

SendMessage == <<Try, Call("transcript_update_handshake_msg")>>
RecvMessage == <<Try, Try>>    \* the receive, the check of the length
GetHash     == <<Call("transcript_get_hash")>>

\* The flag transcript_initialized is set once this step is done.
ServerInit ==
    <<Get({"sig"}), Get({"sig_secret_key", "sig_public_key", "signature"}),
      CallFilling("load_file", {"sig_secret_key"}), Call("load_file"),
      Get({"kem"}), Get({"kem_public_key", "ciphertext", "shared_secret"}),
      Get({"listenfd"}), Try, Try, Try, Get({"connfd"}), Call("transcript_init")>>

ServerHandshake ==
    RecvMessage \o <<Call("transcript_update_handshake_msg"), Fill({"shared_secret"})>>
    \o SendMessage
    \o SendMessage
    \o GetHash \o <<Try>> \o SendMessage
    \o GetHash \o <<Call("compute_finished_verify_data")>> \o SendMessage
    \o RecvMessage \o GetHash \o <<Call("compute_finished_verify_data"), Try>>
    \o <<Call("transcript_update_handshake_msg")>>

\* tls_record_state_init copies a key and an IV into each record state.
Session == GetHash \o <<Call("derive_application_keys"), Fill({"recv_state", "send_state"})>>

Mutant_ResultIgnored ==
    <<[Call("recv_encrypted_record") EXCEPT !.checked = FALSE], Call("send_encrypted_record")>>
ServerRecords == <<Call("recv_encrypted_record"), Call("send_encrypted_record")>>

server_mlkem ==
    <<SecureFree("shared_secret", "kem"), Free("kem_public_key"), Free("ciphertext"), Free("kem")>>

Mutant_SecretJustFreed ==
    <<Free("sig_secret_key"), Free("sig_public_key"), Free("signature"), Free("sig")>>
server_mldsa ==
    <<SecureFree("sig_secret_key", "sig"), Free("sig_public_key"), Free("signature"), Free("sig")>>

\* Freed only if the flag is set.
FreeTranscript(init) == [transcript_free EXCEPT !.after = Len(init)]

Mutant_FlagNotChecked ==
    <<Free("connfd"), Free("listenfd"), transcript_free, Erase(ApplicationKeys)>>
    \o server_mlkem \o server_mldsa
ServerEnd ==
    <<Free("connfd"), Free("listenfd"), FreeTranscript(ServerInit), Erase(ApplicationKeys)>>
    \o server_mlkem \o server_mldsa

secure_server == Body(ServerInit \o ServerHandshake \o Session \o ServerRecords, ServerEnd, {1})

-----------------------------------------------------------------------------
(* network/secure_client.c *)

ClientInit ==
    <<Get({"sig"}), Get({"sig_public_key", "signature"}),
      Get({"kem"}), Get({"kem_public_key", "kem_secret_key", "shared_secret", "ciphertext"}),
      Fill({"kem_secret_key"}), Get({"sockfd"}), Try, Try, Call("transcript_init")>>

ClientHandshake ==
    SendMessage
    \o RecvMessage \o <<Call("transcript_update_handshake_msg"), Fill({"shared_secret"})>>
    \o RecvMessage \o <<Call("transcript_update_handshake_msg")>>
    \o RecvMessage \o GetHash \o <<Try, Call("transcript_update_handshake_msg")>>
    \o RecvMessage \o GetHash \o <<Call("compute_finished_verify_data"), Try>>
    \o <<Call("transcript_update_handshake_msg")>>
    \o GetHash \o <<Call("compute_finished_verify_data")>> \o SendMessage

ClientRecords == <<Call("send_encrypted_record"), Call("recv_encrypted_record")>>

client_mlkem ==
    <<SecureFree("kem_secret_key", "kem"), SecureFree("shared_secret", "kem"),
      Free("kem_public_key"), Free("ciphertext"), Free("kem")>>

client_mldsa == <<Free("sig_public_key"), Free("signature"), Free("sig")>>

ClientEnd ==
    <<Free("sockfd"), FreeTranscript(ClientInit), Erase(ApplicationKeys)>>
    \o client_mlkem \o client_mldsa

secure_client == Body(ClientInit \o ClientHandshake \o Session \o ClientRecords, ClientEnd, {})

-----------------------------------------------------------------------------
(* demo/kem_demo.c, sig_demo.c, aes_demo.c, hkdf_demo.c *)

KemCleanup ==
    <<SecureFree("secret_key", "kem"), SecureFree("shared_secret_e", "kem"),
      SecureFree("shared_secret_d", "kem"), Free("public_key"), Free("ciphertext"), Free("kem")>>

kem_demo ==
    Body(<<Get({"kem"}),
           Get({"public_key", "secret_key", "ciphertext", "shared_secret_e", "shared_secret_d"}),
           Fill({"secret_key"}), Fill({"shared_secret_e"}), Fill({"shared_secret_d"})>>,
         KemCleanup, {1})

SigCleanup ==
    <<SecureFree("secret_key", "sig"), Free("public_key"), Free("message"),
      Free("signature"), Free("sig")>>

sig_demo ==
    Body(<<Get({"sig"}), Get({"public_key", "secret_key", "signature", "message"}),
           Fill({"secret_key"}), Try, Try>>, SigCleanup, {1})

\* Its own copies of the two functions, without additional data.
demo_encrypt ==
    Body(<<Get({"cipher_ctx"}), Try, Try, Try, Try, Try, Try>>, <<Free("cipher_ctx")>>, {1})
demo_decrypt ==
    Body(<<Get({"cipher_ctx"}), Try, Try, Try, DecryptUpdate, Try, DecryptFinal>>,
         <<Free("cipher_ctx")>>, {1})

aes_demo  == Body(<<Try, Try, Call("demo_encrypt"), Call("demo_decrypt")>>, <<>>, {})
hkdf_demo == Body(<<Call("derive_aes256_key_hkdf"), Try>>, <<>>, {})

-----------------------------------------------------------------------------
(* All of them *)

Functions ==
    [transcript_init                 |-> transcript_init,
     transcript_get_hash             |-> transcript_get_hash,
     transcript_update_handshake_msg |-> transcript_update_handshake_msg,
     derive_aes256_key_hkdf          |-> derive_aes256_key_hkdf,
     derive_finished_key             |-> derive_finished_key,
     compute_finished_verify_data    |-> compute_finished_verify_data,
     hkdf_derive_label               |-> hkdf_derive_label,
     derive_application_keys         |-> derive_application_keys,
     aes_gcm_encrypt                 |-> aes_gcm_encrypt,
     aes_gcm_decrypt                 |-> aes_gcm_decrypt,
     send_encrypted_record           |-> send_encrypted_record,
     recv_encrypted_record           |-> recv_encrypted_record,
     load_file                       |-> load_file,
     KeyFile                         |-> KeyFile,
     demo_encrypt                    |-> demo_encrypt,
     demo_decrypt                    |-> demo_decrypt,
     generate_dsa_keypair            |-> generate_dsa_keypair,
     secure_server                   |-> secure_server,
     secure_client                   |-> secure_client,
     kem_demo                        |-> kem_demo,
     sig_demo                        |-> sig_demo,
     aes_demo                        |-> aes_demo,
     hkdf_demo                       |-> hkdf_demo]
==============================================================================
