------------------------- MODULE LifecycleInvariant -------------------------
(***************************************************************************)
(* The discipline of the tables, one function at a time and without a      *)
(* state, and what holds in every state because of it.                     *)
(***************************************************************************)
EXTENDS Lifecycle

StepsOf(f) == Functions[f].steps
End(f)     == Len(StepsOf(f)) + 1
Ways(f, at) == Functions[f].releases[at]

\* Those that no function calls.
Main == {p \in DOMAIN Functions : \A f \in DOMAIN Functions : \A i \in DOMAIN StepsOf(f) : StepsOf(f)[i].calls # p}

Leaf(f) == \A i \in DOMAIN StepsOf(f) : StepsOf(f)[i].calls = "none"

\* What a function holds after a step, its own or handed over by transcript_init.
Acquired(f, i) ==
    IF i \in DOMAIN StepsOf(f)
    THEN StepsOf(f)[i].gets \union (IF StepsOf(f)[i].calls = "transcript_init" THEN {"ctx"} ELSE {})
    ELSE {}

Own(f)        == UNION {Acquired(f, i) : i \in DOMAIN StepsOf(f)}
Before(f, at) == UNION {Acquired(f, i) : i \in 1..(at - 1)}

\* A step that fails may have acquired some of several objects.
MaybeLive(f, at) == Before(f, at) \union {o \in Acquired(f, at) : Acquired(f, at) # {o}}

Freed(f, at, n) == UNION {Ways(f, at)[j].frees : j \in 1..n}

Handed(f, at) == IF f = "transcript_init" /\ at = End(f) THEN {"ctx"} ELSE {}

-----------------------------------------------------------------------------
(* Names *)

Callees == {"transcript_init", "transcript_get_hash", "transcript_update_handshake_msg",
            "derive_aes256_key_hkdf", "derive_finished_key", "compute_finished_verify_data",
            "hkdf_derive_label", "derive_application_keys", "aes_gcm_encrypt", "aes_gcm_decrypt",
            "send_encrypted_record", "recv_encrypted_record", "load_file", "KeyFile",
            "demo_encrypt", "demo_decrypt"}
ProgramNames == {"generate_dsa_keypair", "secure_server", "secure_client",
                 "kem_demo", "sig_demo", "aes_demo", "hkdf_demo"}

CalleeObjects  == {"copy", "encoded_msg", "library_context", "kdf", "kctx", "cipher_ctx", "fp"}
ProgramObjects == {"sig", "public_key", "secret_key", "sig_secret_key", "sig_public_key", "signature",
                   "kem", "kem_public_key", "ciphertext", "shared_secret", "listenfd", "connfd",
                   "kem_secret_key", "sockfd", "shared_secret_e", "shared_secret_d", "message"}
Names == CalleeObjects \union ProgramObjects \union {"ctx"}

Secrets == {"secret_key", "sig_secret_key", "shared_secret", "kem_secret_key", "shared_secret_e",
            "shared_secret_d", "finished_key", "recv_state", "send_state"} \union ApplicationKeys

-----------------------------------------------------------------------------
(* The discipline *)

\* No result is ignored.
StepType == [calls : DOMAIN Functions \union {"none"}, gets : SUBSET Objects, fills : SUBSET Memory,
             decrypts : SUBSET {"plaintext"}, verifies : SUBSET {"plaintext"},
             checked : {TRUE}]

ReleaseType == [frees : SUBSET Names, erases : SUBSET Secrets, given : SUBSET Names,
                after : Nat, nulls : BOOLEAN]

Typed(f) ==
    /\ StepsOf(f) \in Seq(StepType)
    /\ Functions[f].releases \in [1..End(f) -> Seq(ReleaseType)]
    /\ \A i \in DOMAIN StepsOf(f) :
          StepsOf(f)[i].calls # "none" =>
             StepsOf(f)[i].gets = {} /\ StepsOf(f)[i].decrypts = {} /\ StepsOf(f)[i].verifies = {}

\* Nothing is acquired twice, and a function that is called and calls others
\* acquires nothing.
Acquires(f) ==
    /\ \A i, j \in DOMAIN StepsOf(f) : i # j => Acquired(f, i) \intersect Acquired(f, j) = {}
    /\ f \in Main \/ Leaf(f) \/ Own(f) = {}

\* Only main has its transcript set up, and it shares nothing else.
Shares(f) ==
    f \notin Main =>
        /\ \A i \in DOMAIN StepsOf(f) : StepsOf(f)[i].calls # "transcript_init"
        /\ \A p \in Main : \A o \in Own(f) \intersect Own(p) : o = "ctx" /\ f = "transcript_init"

\* Whatever may be live is freed, once, and with what it takes to free it.
Cleans(f, at) ==
    /\ \A j \in DOMAIN Ways(f, at) : LET release == Ways(f, at)[j] IN
          /\ release.frees \union release.given \subseteq Own(f)
          /\ \A o, w \in release.frees : o = w
          /\ \A k \in 1..(j - 1) :
                (release.frees \union release.given) \intersect Ways(f, at)[k].frees = {}
          /\ release.frees \intersect MaybeLive(f, at) # {} =>
                release.after < at /\ release.given \subseteq Before(f, at)
          /\ release.after < at =>
                (release.frees \union release.given) \intersect NoInitialValue \subseteq Before(f, at)
          /\ release.frees \intersect Memory \subseteq release.erases
    /\ MaybeLive(f, at) \subseteq Freed(f, at, Len(Ways(f, at))) \union Handed(f, at)
    /\ Handed(f, at) \intersect Freed(f, at, Len(Ways(f, at))) = {}
    /\ Handed(f, at) \subseteq Before(f, at)

\* A buffer that is allocated is filled later than that.
Fills(f) == \A i \in DOMAIN StepsOf(f) : StepsOf(f)[i].fills \intersect Objects \subseteq Before(f, i)

\* A release that erases the application keys, whatever happened before.
Wipes(f, at, j) ==
    LET release == Ways(f, at)[j] IN
    /\ ApplicationKeys \subseteq release.erases
    /\ release.frees = {} /\ release.given = {} /\ release.after < at

\* The application keys are derived by one function, which erases them if it
\* fails, and erased by the program that called it.
Derives(f) ==
    LET derives == f = "derive_application_keys" IN
    /\ \A i \in DOMAIN StepsOf(f) : LET step == StepsOf(f)[i] IN
          /\ step.fills \intersect ApplicationKeys # {} => derives
          /\ step.calls = "derive_application_keys" =>
                /\ f \in Main
                /\ \A at \in i..End(f) : \E j \in DOMAIN Ways(f, at) : Wipes(f, at, j)
    /\ \A at \in 1..End(f) : \A j \in DOMAIN Ways(f, at) :
          Ways(f, at)[j].erases \intersect ApplicationKeys # {} =>
             Wipes(f, at, j) /\ (f \in Main \/ (derives /\ at # End(f)))
    /\ derives =>
          /\ f \notin Main
          /\ ApplicationKeys \subseteq UNION {StepsOf(f)[i].fills : i \in DOMAIN StepsOf(f)}
          /\ \A at \in DOMAIN StepsOf(f) : \E j \in DOMAIN Ways(f, at) : Wipes(f, at, j)

\* Text is written by a function that checks its tag before it succeeds.
Verifies(f) ==
    \A i \in DOMAIN StepsOf(f) :
        /\ StepsOf(f)[i].verifies # {} => Leaf(f) /\ f \notin Main
        /\ StepsOf(f)[i].decrypts # {} => \E v \in (i + 1)..Len(StepsOf(f)) : StepsOf(f)[v].verifies # {}

Disciplined ==
    /\ "transcript_init" \in DOMAIN Functions \ Main
    /\ \A f \in DOMAIN Functions :
          /\ Typed(f) /\ Acquires(f) /\ Shares(f) /\ Fills(f) /\ Derives(f) /\ Verifies(f)
          /\ \A at \in 1..End(f) : Cleans(f, at)

-----------------------------------------------------------------------------
(* The invariant *)

Frame == [function : DOMAIN Functions, at : Nat, failed : BOOLEAN, released : Nat]

\* Where each activation stands.
FrameOK(frame) ==
    LET f == frame.function IN
    /\ frame.at \in 1..End(f)
    /\ frame.released \in 0..Len(Ways(f, frame.at))
    /\ frame.failed => frame.at # End(f)
    /\ ~frame.failed /\ frame.at # End(f) => frame.released = 0

\* Every activation but the innermost is in the call of the next one, and the
\* outermost is that of a program.
StackOK(s) ==
    /\ s \in Seq(Frame)
    /\ \A k \in 1..Len(s) : FrameOK(s[k])
    /\ \A k \in 2..Len(s) :
          /\ ~s[k].failed /\ s[k].at # End(s[k].function)
          /\ StepsOf(s[k].function)[s[k].at].calls = s[k - 1].function
    /\ s # <<>> => s[Len(s)].function \in Main

Value == {"null", "live", "dangling", "unset"}

\* What an activation knows of an object it acquires: it holds it once its step
\* is done, and no longer once its release is reached.
ObjectOK(frame, o, value) ==
    LET f == frame.function
        freed == o \in Freed(f, frame.at, frame.released)
    IN
    /\ freed => value # "live"
    /\ ~freed /\ o \in Before(f, frame.at) => value = "live"
    /\ ~freed /\ o \notin Before(f, frame.at) => value # "dangling" \/ o \in NoInitialValue
    /\ value = "live" /\ o \notin Before(f, frame.at) => frame.failed /\ o \in MaybeLive(f, frame.at)

PointersOK(s, p) ==
    /\ p \in [Objects -> Value]
    /\ \A o \in Objects \ NoInitialValue : p[o] # "unset"
    /\ \A k \in 1..Len(s) : \A o \in Own(s[k].function) :
          k = 1 \/ o \notin Acquired(s[k].function, s[k].at) => ObjectOK(s[k], o, p[o])
    /\ \A o \in Objects : p[o] = "live" => \E k \in 1..Len(s) : o \in Own(s[k].function)

\* Only what is live holds a secret.
SecretsOK(p, held) ==
    /\ held \subseteq Memory
    /\ \A o \in held \intersect Objects : p[o] = "live"

\* While the keys are derived those done so far are there, and none of them is
\* once they are erased.
DerivationOK(frame, held) ==
    /\ ~frame.failed =>
          \A i \in 1..(frame.at - 1) :
             StepsOf(frame.function)[i].fills \intersect ApplicationKeys \subseteq held
    /\ (\E j \in 1..frame.released : Wipes(frame.function, frame.at, j)) =>
          held \intersect ApplicationKeys = {}

\* A program that has called for the keys and is still to erase them.
KeepsKeys(program) ==
    /\ \E i \in DOMAIN StepsOf(program.function) :
          i <= program.at /\ StepsOf(program.function)[i].calls = "derive_application_keys"
    /\ \A j \in 1..program.released : ~Wipes(program.function, program.at, j)

KeysOK(s, held) ==
    /\ \A k \in 1..Len(s) : s[k].function = "derive_application_keys" => DerivationOK(s[k], held)
    /\ \/ ApplicationKeys \subseteq held
       \/ ApplicationKeys \intersect held = {}
       \/ \E k \in 1..Len(s) : s[k].function = "derive_application_keys"
    /\ ApplicationKeys \intersect held # {} => s # <<>> /\ KeepsKeys(s[Len(s)])

\* Text that was not checked is about to be, or has made its function fail.
TextOK(s, text) ==
    /\ text \subseteq {"plaintext"}
    /\ text # {} =>
          \/ s = <<>>
          \/ s[1].failed
          \/ \E v \in DOMAIN StepsOf(s[1].function) :
                v >= s[1].at /\ StepsOf(s[1].function)[v].verifies # {}

\* What each activation holds follows from where it stands in its table, at every
\* depth of the stack and whatever failed: no goto end, early return or release in
\* another order leaves the process in a state the tables do not account for.
LifecycleInv ==
    /\ StackOK(stack)
    /\ PointersOK(stack, pointer)
    /\ SecretsOK(pointer, secret)
    /\ KeysOK(stack, secret)
    /\ TextOK(stack, unverified)
=============================================================================
