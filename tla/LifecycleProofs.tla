--------------------------- MODULE LifecycleProofs ---------------------------
(***************************************************************************)
(* The properties of Lifecycle, whatever the programs.  First the tables,  *)
(* one function at a time: each keeps to a discipline that speaks of no    *)
(* state.  Then the invariant, which holds of all tables that keep to it.  *)
(***************************************************************************)
EXTENDS LifecycleInvariant, TLAPS

-----------------------------------------------------------------------------
(* Steps and releases *)

\* The tables, looked up.
LEMMA TableOf ==
    /\ DOMAIN Functions = Callees \union ProgramNames
    /\ Functions["transcript_init"] = transcript_init
    /\ Functions["transcript_get_hash"] = transcript_get_hash
    /\ Functions["transcript_update_handshake_msg"] = transcript_update_handshake_msg
    /\ Functions["derive_aes256_key_hkdf"] = derive_aes256_key_hkdf
    /\ Functions["derive_finished_key"] = derive_finished_key
    /\ Functions["compute_finished_verify_data"] = compute_finished_verify_data
    /\ Functions["hkdf_derive_label"] = hkdf_derive_label
    /\ Functions["derive_application_keys"] = derive_application_keys
    /\ Functions["aes_gcm_encrypt"] = aes_gcm_encrypt
    /\ Functions["aes_gcm_decrypt"] = aes_gcm_decrypt
    /\ Functions["send_encrypted_record"] = send_encrypted_record
    /\ Functions["recv_encrypted_record"] = recv_encrypted_record
    /\ Functions["load_file"] = load_file
    /\ Functions["KeyFile"] = KeyFile
    /\ Functions["demo_encrypt"] = demo_encrypt
    /\ Functions["demo_decrypt"] = demo_decrypt
    /\ Functions["generate_dsa_keypair"] = generate_dsa_keypair
    /\ Functions["secure_server"] = secure_server
    /\ Functions["secure_client"] = secure_client
    /\ Functions["kem_demo"] = kem_demo
    /\ Functions["sig_demo"] = sig_demo
    /\ Functions["aes_demo"] = aes_demo
    /\ Functions["hkdf_demo"] = hkdf_demo
BY DEF Functions, Callees, ProgramNames

\* A step of a table, in terms of the names and the secrets there are.
StepKind ==
    {step \in [calls : Callees \union {"none"}, gets : SUBSET Names, fills : SUBSET Secrets,
               decrypts : SUBSET {"plaintext"}, verifies : SUBSET {"plaintext"},
               checked : {TRUE}] :
        step.calls # "none" => step.gets = {} /\ step.decrypts = {} /\ step.verifies = {}}

\* What each way to write a step or a release stands for.
LEMMA Trying ==
    /\ Try \in StepKind /\ Try.calls = "none" /\ Try.gets = {} /\ Try.fills = {}
    /\ Try.decrypts = {} /\ Try.verifies = {}
BY DEF Try, StepKind

LEMMA Getting ==
    ASSUME NEW o \in SUBSET Names
    PROVE  /\ Get(o) \in StepKind /\ Get(o).calls = "none" /\ Get(o).gets = o /\ Get(o).fills = {}
           /\ Get(o).decrypts = {} /\ Get(o).verifies = {}
BY DEF Get, Try, StepKind

LEMMA FillingStep ==
    ASSUME NEW m \in SUBSET Secrets
    PROVE  /\ Fill(m) \in StepKind /\ Fill(m).calls = "none" /\ Fill(m).gets = {}
           /\ Fill(m).fills = m
           /\ Fill(m).decrypts = {} /\ Fill(m).verifies = {}
BY DEF Fill, Try, StepKind

LEMMA Calling ==
    ASSUME NEW g \in Callees
    PROVE  /\ Call(g) \in StepKind /\ Call(g).calls = g /\ Call(g).gets = {} /\ Call(g).fills = {}
           /\ Call(g).decrypts = {} /\ Call(g).verifies = {}
BY DEF Call, Try, StepKind

LEMMA CallingFilling ==
    ASSUME NEW g \in Callees, NEW m \in SUBSET Secrets
    PROVE  /\ CallFilling(g, m) \in StepKind /\ CallFilling(g, m).calls = g
           /\ CallFilling(g, m).gets = {}
           /\ CallFilling(g, m).fills = m
           /\ CallFilling(g, m).decrypts = {} /\ CallFilling(g, m).verifies = {}
BY DEF CallFilling, Call, Try, StepKind

LEMMA Decrypting ==
    /\ DecryptUpdate \in StepKind /\ DecryptUpdate.calls = "none" /\ DecryptUpdate.gets = {}
    /\ DecryptUpdate.fills = {} /\ DecryptUpdate.verifies = {}
    /\ DecryptUpdate.decrypts = {"plaintext"}
    /\ DecryptFinal \in StepKind /\ DecryptFinal.calls = "none" /\ DecryptFinal.gets = {}
    /\ DecryptFinal.fills = {} /\ DecryptFinal.decrypts = {}
    /\ DecryptFinal.verifies = {"plaintext"}
BY DEF DecryptUpdate, DecryptFinal, Try, StepKind

LEMMA FreeingIt ==
    ASSUME NEW o \in Names
    PROVE  /\ Free(o) \in ReleaseType /\ Free(o).frees = {o} /\ Free(o).erases = {}
           /\ Free(o).given = {}
           /\ Free(o).after = 0
BY DEF Free, ReleaseType

LEMMA FreeingSecurely ==
    ASSUME NEW o \in Names, o \in Secrets, NEW w \in Names
    PROVE  /\ SecureFree(o, w) \in ReleaseType /\ SecureFree(o, w).frees = {o}
           /\ SecureFree(o, w).erases = {o} /\ SecureFree(o, w).given = {w}
           /\ SecureFree(o, w).after = 0
BY DEF SecureFree, Free, ReleaseType

LEMMA ErasingIt ==
    ASSUME NEW m \in SUBSET Secrets
    PROVE  /\ Erase(m) \in ReleaseType /\ Erase(m).frees = {} /\ Erase(m).erases = m
           /\ Erase(m).given = {} /\ Erase(m).after = 0
BY DEF Erase, ReleaseType

LEMMA FreeingTheTranscript ==
    ASSUME NEW init, Len(init) \in Nat
    PROVE  /\ FreeTranscript(init) \in ReleaseType /\ FreeTranscript(init).frees = {"ctx"}
           /\ FreeTranscript(init).erases = {} /\ FreeTranscript(init).given = {}
           /\ FreeTranscript(init).after = Len(init)
           /\ transcript_free \in ReleaseType /\ transcript_free.frees = {"ctx"}
           /\ transcript_free.erases = {} /\ transcript_free.given = {}
           /\ transcript_free.after = 0
<1>1. PICK x \in ReleaseType : /\ x = Free("ctx") /\ x.frees = {"ctx"} /\ x.erases = {}
               /\ x.given = {}
                                /\ x.after = 0
  <2>1. /\ Free("ctx") \in ReleaseType /\ Free("ctx").frees = {"ctx"} /\ Free("ctx").erases = {}
        /\ Free("ctx").given = {} /\ Free("ctx").after = 0
    <3>1. "ctx" \in Names
      BY DEF Names
    <3> QED  BY <3>1, FreeingIt
  <2> QED  BY <2>1
<1>2. PICK y : y = [x EXCEPT !.nulls = TRUE]
  OBVIOUS
<1>3. /\ y \in ReleaseType /\ y.frees = {"ctx"} /\ y.erases = {} /\ y.given = {} /\ y.after = 0
  BY <1>1, <1>2 DEF ReleaseType
<1>4. transcript_free = y
  BY <1>1, <1>2 DEF transcript_free
<1>5. PICK z : z = [y EXCEPT !.after = Len(init)]
  OBVIOUS
<1>6. /\ z \in ReleaseType /\ z.frees = {"ctx"} /\ z.erases = {} /\ z.given = {}
      /\ z.after = Len(init)
  BY <1>3, <1>5 DEF ReleaseType
<1>7. FreeTranscript(init) = z
  BY <1>4, <1>5 DEF FreeTranscript
<1> QED  BY <1>3, <1>4, <1>6, <1>7

-----------------------------------------------------------------------------
(* A table, laid out: W says at which step each object is acquired, F by which *)
(* release it is freed                                                        *)

Gives(step) == step.gets \union (IF step.calls = "transcript_init" THEN {"ctx"} ELSE {})

\* Each step acquires what is laid out for it, and fills what is there by then.
StepFits(step, i, W) ==
    /\ Gives(step) = {o \in DOMAIN W : W[o] = i}
    /\ \A o \in step.fills \intersect Names : o \in DOMAIN W /\ W[o] < i

\* Acquired by a step that acquires nothing else: if it fails, nothing is left.
Alone(o, W) == \A w \in DOMAIN W : W[w] = W[o] => w = o

\* Each release frees what is laid out for it, before anything it takes to do so.
ReleaseFits(r, j, W, F) ==
    /\ r.frees \union r.given \subseteq DOMAIN W
    /\ \A o \in r.frees : F[o] = j
    /\ \A o, w \in r.frees : o = w
    /\ \A w \in r.given : F[w] > j /\ \A o \in r.frees : W[w] < W[o]
    /\ r.frees \intersect Secrets \subseteq r.erases
    /\ r.after = 0 \/ (\A o \in r.frees : r.after = W[o] /\ Alone(o, W))

\* All of it: where a function returns at once, nothing is held.
Fits(f, steps, release, atOnce, W, F) ==
    /\ Functions[f] = Body(steps, release, atOnce)
    /\ steps \in Seq(StepKind) /\ release \in Seq(ReleaseType)
    /\ \A o \in DOMAIN W : /\ o \in Names /\ W[o] \in 1..Len(steps) /\ F[o] \in 1..Len(release)
                           /\ o \in release[F[o]].frees
    /\ \A i \in 1..Len(steps) : StepFits(steps[i], i, W)
    /\ \A j \in 1..Len(release) : ReleaseFits(release[j], j, W, F)
    /\ \A at \in 1..(Len(steps) + 1) :
         IF at \in atOnce
         THEN \A o \in DOMAIN W : \/ W[o] > at \/ (W[o] = at /\ Alone(o, W))
                                 \/ (o = "ctx" /\ f = "transcript_init" /\ at = Len(steps) + 1)
         ELSE /\ f = "transcript_init" => at # Len(steps) + 1
              /\ \A j \in 1..Len(release) : release[j].after < at /\ "ctx"
                     \in release[j].frees \union release[j].given => W["ctx"] < at
    /\ f = "transcript_init" => "ctx" \in DOMAIN W

LEMMA Bodies ==
    ASSUME NEW f \in DOMAIN Functions, NEW steps \in Seq(StepKind), NEW release
               \in Seq(ReleaseType), NEW atOnce,
           Functions[f] = Body(steps, release, atOnce)
    PROVE  /\ StepsOf(f) = steps /\ End(f) = Len(steps) + 1
           /\ Len(steps) \in Nat /\ DOMAIN steps = 1..Len(steps) /\ Len(release) \in Nat
           /\ DOMAIN release = 1..Len(release)
           /\ Functions[f].releases \in [1..End(f) -> Seq(ReleaseType)]
           /\ \A at \in 1..End(f) : Ways(f, at) = IF at \in atOnce THEN <<>> ELSE release
<1>1. StepsOf(f) = steps /\ End(f) = Len(steps) + 1
  BY DEF StepsOf, End, Body
<1>2. Functions[f].releases = [i \in 1..(Len(steps) + 1) |-> IF i \in atOnce THEN <<>>
          ELSE release]
  BY DEF Body
<1>3. <<>> \in Seq(ReleaseType)
  OBVIOUS
<1> QED  BY <1>1, <1>2, <1>3 DEF Ways

LEMMA ObjectsAndMemory ==
    ASSUME \A f \in DOMAIN Functions : StepsOf(f) \in Seq(StepKind)
    PROVE  Objects \subseteq Names /\ Memory \subseteq Secrets
<1>1. ASSUME NEW f \in DOMAIN Functions, NEW i \in DOMAIN StepsOf(f) PROVE StepsOf(f)[i].gets
                 \subseteq Names /\ StepsOf(f)[i].fills \subseteq Secrets
  <2>1. PICK s \in Seq(StepKind) : s = StepsOf(f)
    OBVIOUS
  <2>2. s[i] \in StepKind
    BY <2>1
  <2> QED  BY <2>1, <2>2 DEF StepKind
<1> QED  BY <1>1 DEF Objects, Memory, StepsOf

LEMMA StepTypes ==
    ASSUME NEW f \in DOMAIN Functions, NEW steps \in Seq(StepKind), steps = StepsOf(f)
    PROVE  /\ steps \in Seq(StepType)
           /\ \A i \in DOMAIN steps : steps[i].calls # "none" =>
                 steps[i].gets = {} /\ steps[i].decrypts = {} /\ steps[i].verifies = {}
<1>1. ASSUME NEW i \in DOMAIN steps PROVE steps[i] \in StepType
                 /\ (steps[i].calls # "none" => steps[i].gets = {} /\ steps[i].decrypts = {}
                        /\ steps[i].verifies = {})
  <2>1. steps[i] \in StepKind
    OBVIOUS
  <2>2. steps[i].gets \subseteq Objects /\ steps[i].fills \subseteq Memory
    BY DEF Objects, Memory, StepsOf
  <2>3. DOMAIN Functions = Callees \union ProgramNames
    BY TableOf
  <2> QED  BY <2>1, <2>2, <2>3 DEF StepKind, StepType
<1>2. Len(steps) \in Nat /\ DOMAIN steps = 1..Len(steps) /\ steps = [i
          \in 1..Len(steps) |-> steps[i]]
  OBVIOUS
<1>3. steps \in [1..Len(steps) -> StepType]
  BY <1>1, <1>2
<1>4. steps \in Seq(StepType)
  BY <1>2, <1>3
<1> QED  BY <1>1, <1>4

\* What the layout says of what is held before a step.
LEMMA LayoutOf ==
    ASSUME NEW f \in DOMAIN Functions, NEW steps, NEW release, NEW atOnce, NEW W, NEW F,
           Fits(f, steps, release, atOnce, W, F)
    PROVE  /\ \A i \in 1..Len(steps) : Acquired(f, i) = {o \in DOMAIN W : W[o] = i}
           /\ Acquired(f, End(f)) = {}
           /\ Own(f) = DOMAIN W
           /\ \A at \in 1..End(f) : Before(f, at) = {o \in DOMAIN W : W[o] < at}
           /\ \A at \in 1..End(f) : \A o \in MaybeLive(f, at) :
                 o \in DOMAIN W /\ (W[o] < at \/ (W[o] = at /\ ~Alone(o, W)))
           /\ \A i, j \in DOMAIN StepsOf(f) : i # j => Acquired(f, i) \intersect Acquired(f,
                  j) = {}
<1>1. steps \in Seq(StepKind) /\ release \in Seq(ReleaseType)
          /\ Functions[f] = Body(steps, release, atOnce)
  BY DEF Fits
<1>2. StepsOf(f) = steps /\ End(f) = Len(steps) + 1 /\ Len(steps) \in Nat
          /\ DOMAIN steps = 1..Len(steps)
  BY <1>1, Bodies
<1>3. ASSUME NEW i \in 1..Len(steps) PROVE Acquired(f, i) = {o \in DOMAIN W : W[o] = i}
  BY <1>2 DEF Fits, StepFits, Gives, Acquired
<1>4. Acquired(f, End(f)) = {}
  BY <1>2 DEF Acquired
<1>5. \A o \in DOMAIN W : W[o] \in 1..Len(steps)
  BY DEF Fits
<1>6. Own(f) = DOMAIN W
  <2>1. Own(f) \subseteq DOMAIN W
    BY <1>2, <1>3 DEF Own
  <2>2. ASSUME NEW o \in DOMAIN W PROVE o \in Own(f)
    <3>1. PICK i \in 1..Len(steps) : i = W[o]
      BY <1>5
    <3>2. o \in Acquired(f, i) /\ i \in DOMAIN StepsOf(f)
      BY <1>2, <1>3, <3>1
    <3> QED  BY <3>2 DEF Own
  <2> QED  BY <2>1, <2>2
<1>7. ASSUME NEW at \in 1..End(f) PROVE Before(f, at) = {o \in DOMAIN W : W[o] < at}
  <2>1. \A i \in 1..(at - 1) : i \in 1..Len(steps)
    BY <1>2
  <2>2. \A o \in DOMAIN W : W[o] < at => W[o] \in 1..(at - 1)
    BY <1>2, <1>5
  <2>3. \A i \in 1..(at - 1) : i < at
    BY <1>2
  <2> QED  BY <1>3, <2>1, <2>2, <2>3 DEF Before
<1>8. ASSUME NEW at \in 1..End(f), NEW o \in MaybeLive(f, at)
      PROVE  o \in DOMAIN W /\ (W[o] < at \/ (W[o] = at /\ ~Alone(o, W)))
  <2>1. CASE o \in Before(f, at)
    BY <1>7, <2>1
  <2>2. CASE o \notin Before(f, at)
    <3>1. o \in Acquired(f, at) /\ Acquired(f, at) # {o}
      BY <2>2 DEF MaybeLive
    <3>2. at \in 1..Len(steps)
      BY <1>2, <1>4, <3>1
    <3> QED  BY <1>3, <3>1, <3>2 DEF Alone
  <2> QED  BY <2>1, <2>2
<1>9. \A i, j \in DOMAIN StepsOf(f) : i # j => Acquired(f, i) \intersect Acquired(f, j) = {}
  BY <1>2, <1>3
<1> QED  BY <1>3, <1>4, <1>6, <1>7, <1>8, <1>9

\* A table that fits a layout cleans up after each of its steps,
LEMMA FittingCleans ==
    ASSUME NEW f \in DOMAIN Functions, NEW steps, NEW release, NEW atOnce, NEW W, NEW F,
           Fits(f, steps, release, atOnce, W, F), Memory \subseteq Secrets, NEW at \in 1..End(f)
    PROVE  Cleans(f, at)
<1>1. steps \in Seq(StepKind) /\ release \in Seq(ReleaseType)
          /\ Functions[f] = Body(steps, release, atOnce)
  BY DEF Fits
<1>2. /\ StepsOf(f) = steps /\ End(f) = Len(steps) + 1 /\ Len(steps) \in Nat
      /\ Len(release) \in Nat /\ DOMAIN release = 1..Len(release)
      /\ Ways(f, at) = IF at \in atOnce THEN <<>> ELSE release
  BY <1>1, Bodies
<1>3. /\ Own(f) = DOMAIN W
      /\ Before(f, at) = {o \in DOMAIN W : W[o] < at}
      /\ \A o \in MaybeLive(f, at) : o \in DOMAIN W /\ (W[o] < at \/ (W[o] = at /\ ~Alone(o, W)))
  BY LayoutOf
<1>4. \A o \in DOMAIN W : /\ W[o] \in 1..Len(steps) /\ F[o] \in 1..Len(release)
                          /\ o \in release[F[o]].frees
  BY DEF Fits
<1>5. CASE at \in atOnce
  <2>1. Ways(f, at) = <<>> /\ DOMAIN Ways(f, at) = {} /\ Len(Ways(f, at)) = 0 /\ 1..0 = {}
    BY <1>2, <1>5
  <2>2. Freed(f, at, Len(Ways(f, at))) = {}
    BY <2>1 DEF Freed
  <2>3. ASSUME NEW o \in DOMAIN W
        PROVE  W[o] > at \/ (W[o] = at /\ Alone(o, W)) \/ (o = "ctx" /\ f = "transcript_init"
                   /\ at = End(f))
    BY <1>2, <1>5 DEF Fits
  <2>4. MaybeLive(f, at) \subseteq Handed(f, at)
    <3> SUFFICES ASSUME NEW o \in MaybeLive(f, at), o \notin Handed(f, at) PROVE FALSE
      OBVIOUS
    <3>1. W[o] > at \/ (W[o] = at /\ Alone(o, W))
      BY <1>3, <2>3 DEF Handed
    <3> QED  BY <1>2, <1>3, <1>4, <3>1
  <2>5. Handed(f, at) \subseteq Before(f, at)
    <3> SUFFICES ASSUME NEW o \in Handed(f, at) PROVE o \in Before(f, at)
      OBVIOUS
    <3>1. o = "ctx" /\ f = "transcript_init" /\ at = Len(steps) + 1
      BY <1>2 DEF Handed
    <3>2. "ctx" \in DOMAIN W
      BY <3>1 DEF Fits
    <3> QED  BY <1>2, <1>3, <1>4, <3>1, <3>2
  <2> QED  BY <2>1, <2>2, <2>4, <2>5 DEF Cleans
<1>6. CASE at \notin atOnce
  <2>1. Ways(f, at) = release /\ Handed(f, at) = {}
    BY <1>2, <1>6 DEF Fits, Handed
  <2>2. ASSUME NEW j \in 1..Len(release) PROVE ReleaseFits(release[j], j, W, F) /\ release[j]
                   \in ReleaseType
    BY <1>1 DEF Fits
  <2>3. ASSUME NEW j \in 1..Len(release), NEW r, r = release[j]
        PROVE  /\ r.frees \union r.given \subseteq Own(f)
               /\ \A o, w \in r.frees : o = w
               /\ \A k \in 1..(j - 1) : (r.frees \union r.given) \intersect release[k].frees = {}
               /\ r.frees \intersect MaybeLive(f, at) # {} => r.after < at /\ r.given
                      \subseteq Before(f, at)
               /\ r.after < at => (r.frees \union r.given) \intersect NoInitialValue
                      \subseteq Before(f, at)
               /\ r.frees \intersect Memory \subseteq r.erases
    <3>1. ReleaseFits(r, j, W, F) /\ r.after \in Nat
      BY <2>2, <2>3 DEF ReleaseType
    <3>2. r.frees \union r.given \subseteq Own(f) /\ r.frees \intersect Memory \subseteq r.erases
      BY <1>3, <3>1 DEF ReleaseFits
    <3>3. ASSUME NEW k \in 1..(j - 1), NEW o \in r.frees \union r.given, o \in release[k].frees
                     PROVE FALSE
      <4>1. k \in 1..Len(release) /\ k < j
        BY <1>2
      <4>2. F[o] = k
        BY <2>2, <3>3, <4>1 DEF ReleaseFits
      <4>3. F[o] = j \/ F[o] > j
        BY <3>1 DEF ReleaseFits
      <4> QED  BY <4>1, <4>2, <4>3
    <3>4. ASSUME NEW o \in r.frees, o \in MaybeLive(f, at) PROVE r.after < at /\ r.given
                     \subseteq Before(f, at)
      <4>1. W[o] \in Nat /\ at \in Nat /\ W[o] <= at /\ (W[o] < at \/ ~Alone(o, W))
        BY <1>2, <1>3, <1>4, <3>4
      <4>2. r.after < at
        BY <1>2, <3>1, <4>1 DEF ReleaseFits
      <4>3. ASSUME NEW w \in r.given PROVE w \in Before(f, at)
        <5>1. w \in DOMAIN W /\ W[w] < W[o]
          BY <3>1 DEF ReleaseFits
        <5> QED  BY <1>3, <1>4, <4>1, <5>1
      <4> QED  BY <4>2, <4>3
    <3>5. ASSUME r.after < at, NEW o \in (r.frees \union r.given) \intersect NoInitialValue
                     PROVE o \in Before(f, at)
      <4>1. o = "ctx" /\ o \in DOMAIN W
        BY <1>3, <3>2 DEF NoInitialValue
      <4>2. W["ctx"] < at
        BY <1>2, <1>6, <2>3, <3>5, <4>1 DEF Fits
      <4> QED  BY <1>3, <4>1, <4>2
    <3>6. \A o, w \in r.frees : o = w
      BY <3>1 DEF ReleaseFits
    <3> QED  BY <3>2, <3>3, <3>4, <3>5, <3>6
  <2>4. MaybeLive(f, at) \subseteq Freed(f, at, Len(release))
    BY <1>3, <1>4, <2>1 DEF Freed
  <2> QED  BY <1>2, <2>1, <2>3, <2>4 DEF Cleans
<1> QED  BY <1>5, <1>6

\* fills only what is there,
LEMMA FittingFills ==
    ASSUME NEW f \in DOMAIN Functions, NEW steps, NEW release, NEW atOnce, NEW W, NEW F,
           Fits(f, steps, release, atOnce, W, F), Objects \subseteq Names
    PROVE  Fills(f)
<1>1. steps \in Seq(StepKind) /\ release \in Seq(ReleaseType)
          /\ Functions[f] = Body(steps, release, atOnce)
  BY DEF Fits
<1>2. StepsOf(f) = steps /\ End(f) = Len(steps) + 1 /\ Len(steps) \in Nat
          /\ DOMAIN steps = 1..Len(steps)
  BY <1>1, Bodies
<1>3. ASSUME NEW i \in 1..Len(steps), NEW o \in steps[i].fills \intersect Objects
      PROVE  o \in Before(f, i)
  <2>1. o \in DOMAIN W /\ W[o] < i
    BY DEF Fits, StepFits
  <2>2. i \in 1..End(f)
    BY <1>2
  <2> QED  BY <2>1, <2>2, LayoutOf
<1> QED  BY <1>2, <1>3 DEF Fills

\* and is made of steps and releases.
LEMMA FittingTypes ==
    ASSUME NEW f \in DOMAIN Functions, NEW steps, NEW release, NEW atOnce, NEW W, NEW F,
           Fits(f, steps, release, atOnce, W, F)
    PROVE  Typed(f)
<1>1. steps \in Seq(StepKind) /\ release \in Seq(ReleaseType)
          /\ Functions[f] = Body(steps, release, atOnce)
  BY DEF Fits
<1> QED  BY <1>1, Bodies, StepTypes DEF Typed

-----------------------------------------------------------------------------
(* The application keys, the text, and who owns what *)

Deriver(f) == f = "derive_application_keys"

WipesAll(r) == ApplicationKeys \subseteq r.erases /\ r.frees = {} /\ r.given = {} /\ r.after = 0

Plain(step) ==
    /\ step.fills \intersect ApplicationKeys = {} /\ step.calls # "derive_application_keys"
    /\ step.decrypts = {} /\ step.verifies = {}

\* What f may hold and call, by what it is.
Owns(f, steps, W) ==
    /\ f \in Callees =>
         /\ DOMAIN W \subseteq CalleeObjects \union (IF f = "transcript_init" THEN {"ctx"}
                ELSE {})
         /\ \A i \in 1..Len(steps) : steps[i].calls # "transcript_init"
         /\ DOMAIN W = {} \/ \A i \in 1..Len(steps) : steps[i].calls = "none"
    /\ f \in ProgramNames => DOMAIN W \subseteq ProgramObjects \union {"ctx"}

\* What f does with the application keys and with text.
KeepsTo(f, steps, release, atOnce) ==
    /\ \A i \in 1..Len(steps) :
         /\ steps[i].fills \intersect ApplicationKeys # {} => Deriver(f)
         /\ Deriver(steps[i].calls) =>
              /\ f \in ProgramNames
              /\ \A at \in i..(Len(steps) + 1) : at \notin atOnce
              /\ \E j \in 1..Len(release) : WipesAll(release[j])
         /\ steps[i].verifies # {} => f \in Callees /\ \A k
                \in 1..Len(steps) : steps[k].calls = "none"
         /\ steps[i].decrypts # {} => \E v \in (i + 1)..Len(steps) : steps[v].verifies # {}
    /\ \A j \in 1..Len(release) : release[j].erases \intersect ApplicationKeys # {} =>
         WipesAll(release[j]) /\ (f \in ProgramNames \/ (Deriver(f) /\ Len(steps) + 1 \in atOnce))
    /\ Deriver(f) =>
         /\ f \in Callees
         /\ ApplicationKeys \subseteq UNION {steps[i].fills : i \in 1..Len(steps)}
         /\ \A at \in 1..Len(steps) : at \notin atOnce
         /\ \E j \in 1..Len(release) : WipesAll(release[j])

\* What is proved of each function.
FunctionOK(f) ==
    \E steps, release, atOnce, W, F :
        Fits(f, steps, release, atOnce, W, F) /\ Owns(f, steps, W)
            /\ KeepsTo(f, steps, release, atOnce)

LEMMA DerivesOf ==
    ASSUME NEW f \in DOMAIN Functions, NEW steps \in Seq(StepKind), NEW release
               \in Seq(ReleaseType), NEW atOnce,
           Functions[f] = Body(steps, release, atOnce),
           KeepsTo(f, steps, release, atOnce), Main = ProgramNames
    PROVE  Derives(f) /\ Verifies(f)
<1>1. /\ StepsOf(f) = steps /\ End(f) = Len(steps) + 1
      /\ Len(steps) \in Nat /\ DOMAIN steps = 1..Len(steps) /\ Len(release) \in Nat
      /\ DOMAIN release = 1..Len(release)
      /\ \A at \in 1..End(f) : Ways(f, at) = IF at \in atOnce THEN <<>> ELSE release
  BY Bodies
<1>2. ASSUME NEW at \in 1..End(f), NEW j \in DOMAIN Ways(f, at)
      PROVE  j \in 1..Len(release) /\ Ways(f, at)[j] = release[j] /\ at \notin atOnce
  <2>1. at \notin atOnce
    BY <1>1, <1>2
  <2> QED  BY <1>1, <2>1
<1>3. ASSUME NEW at \in 1..End(f), at \notin atOnce, NEW j \in 1..Len(release),
                 WipesAll(release[j])
      PROVE  j \in DOMAIN Ways(f, at) /\ Wipes(f, at, j)
  <2>1. Ways(f, at) = release
    BY <1>1, <1>3
  <2>2. 0 < at
    BY <1>1
  <2> QED  BY <1>1, <1>3, <2>1, <2>2 DEF Wipes, WipesAll
<1>4. ProgramNames \intersect Callees = {}
  BY DEF ProgramNames, Callees
<1>5. ASSUME NEW i \in 1..Len(steps)
      PROVE  /\ steps[i].fills \intersect ApplicationKeys # {} => f = "derive_application_keys"
             /\ steps[i].calls = "derive_application_keys" =>
                  /\ f \in Main
                  /\ \A at \in i..End(f) : \E j \in DOMAIN Ways(f, at) : Wipes(f, at, j)
  <2>1. steps[i].fills \intersect ApplicationKeys # {} => f = "derive_application_keys"
    BY DEF KeepsTo, Deriver
  <2>2. ASSUME steps[i].calls = "derive_application_keys" PROVE f \in Main
    BY <2>2 DEF KeepsTo, Deriver
  <2>3. ASSUME steps[i].calls = "derive_application_keys", NEW at \in i..End(f)
        PROVE  \E j \in DOMAIN Ways(f, at) : Wipes(f, at, j)
    <3>1. PICK j \in 1..Len(release) : WipesAll(release[j])
      BY <2>3 DEF KeepsTo, Deriver
    <3>2. at \notin atOnce
      BY <1>1, <2>3 DEF KeepsTo, Deriver
    <3>3. at \in 1..End(f)
      BY <1>1
    <3> QED  BY <1>3, <3>1, <3>2, <3>3
  <2> QED  BY <2>1, <2>2, <2>3
<1>6. ASSUME NEW at \in 1..End(f), NEW j \in DOMAIN Ways(f, at),
             Ways(f, at)[j].erases \intersect ApplicationKeys # {}
      PROVE  Wipes(f, at, j) /\ (f \in Main \/ (f = "derive_application_keys" /\ at # End(f)))
  <2>1. j \in 1..Len(release) /\ Ways(f, at)[j] = release[j] /\ at \notin atOnce
    BY <1>2
  <2>2. WipesAll(release[j]) /\ (f \in ProgramNames \/ (Deriver(f) /\ Len(steps) + 1 \in atOnce))
    BY <1>6, <2>1 DEF KeepsTo
  <2> QED  BY <1>1, <1>3, <2>1, <2>2 DEF Deriver
<1>7. ASSUME f = "derive_application_keys"
      PROVE  /\ f \notin Main
             /\ ApplicationKeys \subseteq UNION {steps[i].fills : i \in DOMAIN steps}
             /\ \A at \in DOMAIN steps : \E j \in DOMAIN Ways(f, at) : Wipes(f, at, j)
  <2>1. f \notin Main /\ ApplicationKeys \subseteq UNION {steps[i].fills : i \in DOMAIN steps}
    BY <1>1, <1>4, <1>7 DEF KeepsTo, Deriver
  <2>2. ASSUME NEW at \in DOMAIN steps PROVE \E j \in DOMAIN Ways(f, at) : Wipes(f, at, j)
    <3>1. PICK j \in 1..Len(release) : WipesAll(release[j])
      BY <1>7 DEF KeepsTo, Deriver
    <3>2. at \notin atOnce /\ at \in 1..End(f)
      BY <1>1, <1>7 DEF KeepsTo, Deriver
    <3> QED  BY <1>3, <3>1, <3>2
  <2> QED  BY <2>1, <2>2
<1>8. Derives(f)
  BY <1>1, <1>5, <1>6, <1>7 DEF Derives
<1>9. ASSUME NEW i \in DOMAIN StepsOf(f)
      PROVE  /\ StepsOf(f)[i].verifies # {} => Leaf(f) /\ f \notin Main
             /\ StepsOf(f)[i].decrypts # {} => \E v
                    \in (i + 1)..Len(StepsOf(f)) : StepsOf(f)[v].verifies # {}
  BY <1>1, <1>4 DEF KeepsTo, Leaf
<1> QED  BY <1>8, <1>9 DEF Verifies

\* It is all the discipline asks, if what is not called is a program.
LEMMA AllDisciplined ==
    ASSUME \A f \in DOMAIN Functions : FunctionOK(f),
           \A c \in Callees : \E f \in DOMAIN Functions : \E i
               \in DOMAIN StepsOf(f) : StepsOf(f)[i].calls = c
    PROVE  Disciplined
<1>1. ASSUME NEW f \in DOMAIN Functions
      PROVE \E steps, release, atOnce, W, F :
              /\ Fits(f, steps, release, atOnce, W, F) /\ Owns(f, steps, W)
              /\ KeepsTo(f, steps, release, atOnce)
              /\ steps \in Seq(StepKind) /\ release \in Seq(ReleaseType)
              /\ Functions[f] = Body(steps, release, atOnce)
              /\ StepsOf(f) = steps /\ Own(f) = DOMAIN W /\ DOMAIN steps = 1..Len(steps)
  <2>1. PICK steps, release, atOnce, W, F :
           Fits(f, steps, release, atOnce, W, F) /\ Owns(f, steps, W)
               /\ KeepsTo(f, steps, release, atOnce)
    BY DEF FunctionOK
  <2>2. steps \in Seq(StepKind) /\ release \in Seq(ReleaseType)
            /\ Functions[f] = Body(steps, release, atOnce)
    BY <2>1 DEF Fits
  <2>3. StepsOf(f) = steps /\ DOMAIN steps = 1..Len(steps)
    BY <2>2, Bodies
  <2>4. Own(f) = DOMAIN W
    BY <2>1, LayoutOf
  <2> QED  BY <2>1, <2>2, <2>3, <2>4
<1>2. Objects \subseteq Names /\ Memory \subseteq Secrets
  <2>1. \A f \in DOMAIN Functions : StepsOf(f) \in Seq(StepKind)
    BY <1>1
  <2> QED  BY <2>1, ObjectsAndMemory
<1>3. DOMAIN Functions = Callees \union ProgramNames /\ Callees \intersect ProgramNames = {}
  <2>1. Callees \intersect ProgramNames = {}
    BY DEF Callees, ProgramNames
  <2> QED  BY <2>1, TableOf
<1>4. Main = ProgramNames
  <2>1. ASSUME NEW p \in ProgramNames, NEW f \in DOMAIN Functions, NEW i \in DOMAIN StepsOf(f)
        PROVE  StepsOf(f)[i].calls # p
    <3>1. StepsOf(f)[i] \in StepKind
      BY <1>1
    <3>2. p # "none"
      BY DEF ProgramNames
    <3> QED  BY <1>3, <3>1, <3>2 DEF StepKind
  <2> QED  BY <1>3, <2>1 DEF Main
<1>5. ASSUME NEW f \in DOMAIN Functions
      PROVE  /\ Typed(f) /\ Acquires(f) /\ Fills(f) /\ Derives(f) /\ Verifies(f)
             /\ \A at \in 1..End(f) : Cleans(f, at)
  <2>1. PICK steps, release, atOnce, W, F :
              /\ Fits(f, steps, release, atOnce, W, F) /\ Owns(f, steps, W)
              /\ KeepsTo(f, steps, release, atOnce)
              /\ steps \in Seq(StepKind) /\ release \in Seq(ReleaseType)
              /\ Functions[f] = Body(steps, release, atOnce)
              /\ StepsOf(f) = steps /\ Own(f) = DOMAIN W /\ DOMAIN steps = 1..Len(steps)
    BY <1>1
  <2>2. Typed(f)
    BY <2>1, FittingTypes
  <2>3. Fills(f)
    BY <1>2, <2>1, FittingFills
  <2>4. Derives(f) /\ Verifies(f)
    BY <1>4, <2>1, DerivesOf
  <2>5. \A at \in 1..End(f) : Cleans(f, at)
    BY <1>2, <2>1, FittingCleans
  <2>6. \A i, j \in DOMAIN StepsOf(f) : i # j => Acquired(f, i) \intersect Acquired(f, j) = {}
    BY <2>1, LayoutOf
  <2>7. f \in Main \/ Leaf(f) \/ Own(f) = {}
    BY <1>3, <1>4, <2>1 DEF Owns, Leaf
  <2> QED  BY <2>2, <2>3, <2>4, <2>5, <2>6, <2>7 DEF Acquires
<1>6. ASSUME NEW f \in DOMAIN Functions, f \notin Main
      PROVE  /\ \A i \in DOMAIN StepsOf(f) : StepsOf(f)[i].calls # "transcript_init"
             /\ Own(f) \subseteq CalleeObjects \union (IF f = "transcript_init" THEN {"ctx"}
                    ELSE {})
  BY <1>1, <1>3, <1>4, <1>6 DEF Owns
<1>7. ASSUME NEW p \in Main PROVE Own(p) \subseteq ProgramObjects \union {"ctx"}
  <2>1. p \in DOMAIN Functions /\ p \in ProgramNames
    BY <1>3, <1>4
  <2> QED  BY <1>1, <2>1 DEF Owns
<1>8. CalleeObjects \intersect (ProgramObjects \union {"ctx"}) = {}
  BY DEF CalleeObjects, ProgramObjects
<1>9. \A f \in DOMAIN Functions : Shares(f)
  BY <1>6, <1>7, <1>8 DEF Shares
<1>10. "transcript_init" \in DOMAIN Functions \ Main
  BY <1>3, <1>4 DEF Callees, ProgramNames
<1> QED  BY <1>5, <1>9, <1>10 DEF Disciplined

-----------------------------------------------------------------------------
(* Function by function *)

LEMMA NamesApart == Names \intersect Secrets \subseteq ProgramObjects
    /\ ProgramObjects \intersect CalleeObjects = {}
                /\ "ctx" \notin CalleeObjects \union ProgramObjects \union Secrets
BY DEF Names, CalleeObjects, ProgramObjects, Secrets, ApplicationKeys

Silent(step) == step.calls = "none" /\ step.gets = {} /\ step.fills = {}

SilentAfter(steps) == \A i \in 2..Len(steps) : Silent(steps[i])

Checked(steps) ==
    \A i \in 1..Len(steps) :
       steps[i].decrypts # {} => \E v \in (i + 1)..Len(steps) : steps[v].verifies # {}

\* A function that acquires one object, and frees it on all its ways out.
LEMMA OneObject ==
    ASSUME NEW f \in Callees, f # "transcript_init", ~Deriver(f), NEW o \in CalleeObjects,
           NEW steps \in Seq(StepKind), Len(steps) >= 1, steps[1] = Get({o}),
           SilentAfter(steps), Checked(steps), Functions[f] = Body(steps, <<Free(o)>>, {1})
    PROVE  FunctionOK(f)
<1>1. Len(steps) \in Nat /\ DOMAIN steps = 1..Len(steps)
  OBVIOUS
<1>2. o \in Names /\ {o} \in SUBSET Names /\ o \notin Secrets /\ o # "ctx"
  BY NamesApart DEF Names
<1>3. PICK release : release = <<Free(o)>> /\ Len(release) = 1 /\ release[1] = Free(o)
  OBVIOUS
<1>4. /\ Free(o) \in ReleaseType /\ Free(o).frees = {o} /\ Free(o).erases = {}
      /\ Free(o).given = {}
      /\ Free(o).after = 0
  BY <1>2, FreeingIt
<1>5. release \in Seq(ReleaseType)
  BY <1>3, <1>4
<1>6. /\ Get({o}).calls = "none" /\ Get({o}).gets = {o} /\ Get({o}).fills = {}
  BY <1>2, Getting
<1>7. PICK W : W = [w \in {o} |-> 1]
  OBVIOUS
<1>8. \A i \in 1..Len(steps) : i = 1 \/ i \in 2..Len(steps)
  BY <1>1
<1>9. ASSUME NEW i \in 1..Len(steps)
      PROVE  StepFits(steps[i], i, W) /\ steps[i].calls = "none" /\ steps[i].fills = {}
  <2>1. CASE i = 1
    BY <1>6, <1>7, <2>1 DEF StepFits, Gives
  <2>2. CASE i # 1
    <3>1. Silent(steps[i])
      BY <1>1, <2>2 DEF SilentAfter
    <3> QED  BY <1>7, <2>2, <3>1 DEF StepFits, Gives, Silent
  <2> QED  BY <2>1, <2>2
<1>10. ReleaseFits(release[1], 1, W, W)
  BY <1>2, <1>3, <1>4, <1>7 DEF ReleaseFits
<1>11. Fits(f, steps, release, {1}, W, W)
  <2>1. \A w \in DOMAIN W : w = o /\ W[w] = 1 /\ w \in release[W[w]].frees
    BY <1>3, <1>4, <1>7
  <2>2. \A w \in DOMAIN W : w \in Names /\ W[w] \in 1..Len(steps) /\ W[w] \in 1..Len(release)
            /\ Alone(w, W)
    BY <1>1, <1>2, <1>3, <2>1 DEF Alone
  <2>3. \A j \in 1..Len(release) : ReleaseFits(release[j], j, W, W)
            /\ "ctx" \notin release[j].frees \union release[j].given
    BY <1>2, <1>3, <1>4, <1>10
  <2>4. ASSUME NEW at \in 1..(Len(steps) + 1)
        PROVE  IF at \in {1}
               THEN \A w \in DOMAIN W : \/ W[w] > at \/ (W[w] = at /\ Alone(w, W))
                                        \/ (w = "ctx" /\ f = "transcript_init"
                                               /\ at = Len(steps) + 1)
               ELSE /\ f = "transcript_init" => at # Len(steps) + 1
                    /\ \A j \in 1..Len(release) :
                          release[j].after < at /\ "ctx"
                              \in release[j].frees \union release[j].given => W["ctx"] < at
    BY <2>1, <2>2, <2>3
  <2> QED  BY <1>3, <1>5, <1>9, <2>1, <2>2, <2>3, <2>4 DEF Fits
<1>12. Owns(f, steps, W)
  <2>1. DOMAIN W = {o} /\ f \notin ProgramNames
    BY <1>7 DEF Callees, ProgramNames
  <2> QED  BY <1>9, <2>1 DEF Owns
<1>13. KeepsTo(f, steps, release, {1})
  <2>1. ASSUME NEW j \in 1..Len(release) PROVE release[j].erases = {}
    BY <1>3, <1>4
  <2>2. "none" # "derive_application_keys"
    OBVIOUS
  <2>3. ASSUME NEW i \in 1..Len(steps)
        PROVE  /\ steps[i].fills \intersect ApplicationKeys = {} /\ ~Deriver(steps[i].calls)
               /\ steps[i].decrypts # {} => \E v \in (i + 1)..Len(steps) : steps[v].verifies # {}
    BY <1>9 DEF Deriver, Checked
  <2> QED  BY <1>9, <2>1, <2>3 DEF KeepsTo
<1> QED  BY <1>11, <1>12, <1>13 DEF FunctionOK

LEMMA TranscriptGetHashOK == FunctionOK("transcript_get_hash")
<1>1. {"copy"} \in SUBSET Names /\ "copy" \in CalleeObjects
  BY DEF Names, CalleeObjects
<1>2. PICK steps : steps = <<Get({"copy"}), Try, Try>>
  OBVIOUS
<1>3. /\ steps \in Seq(StepKind) /\ Len(steps) = 3 /\ steps[1] = Get({"copy"})
      /\ steps[2] = Try /\ steps[3] = Try
  BY <1>1, <1>2, Getting, Trying
<1>4. Checked(steps)
  BY <1>1, <1>3, Getting, Trying DEF Checked
<1>5. SilentAfter(steps) /\ steps \in Seq(StepKind) /\ Len(steps) >= 1 /\ steps[1] = Get({"copy"})
  BY <1>3, Trying DEF Silent, SilentAfter
<1>6. Functions["transcript_get_hash"] = Body(steps, <<Free("copy")>>, {1})
  BY <1>2, TableOf DEF transcript_get_hash
<1>7. "transcript_get_hash" \in Callees /\ ~Deriver("transcript_get_hash")
  BY DEF Callees, Deriver
<1> QED  BY <1>1, <1>4, <1>5, <1>6, <1>7, OneObject

LEMMA TranscriptUpdateHandshakeMsgOK == FunctionOK("transcript_update_handshake_msg")
<1>1. {"encoded_msg"} \in SUBSET Names /\ "encoded_msg" \in CalleeObjects
  BY DEF Names, CalleeObjects
<1>2. PICK steps : steps = <<Get({"encoded_msg"}), Try, Try>>
  OBVIOUS
<1>3. /\ steps \in Seq(StepKind) /\ Len(steps) = 3 /\ steps[1] = Get({"encoded_msg"})
      /\ steps[2] = Try /\ steps[3] = Try
  BY <1>1, <1>2, Getting, Trying
<1>4. Checked(steps)
  BY <1>1, <1>3, Getting, Trying DEF Checked
<1>5. SilentAfter(steps) /\ steps \in Seq(StepKind) /\ Len(steps) >= 1
          /\ steps[1] = Get({"encoded_msg"})
  BY <1>3, Trying DEF Silent, SilentAfter
<1>6. Functions["transcript_update_handshake_msg"] = Body(steps, <<Free("encoded_msg")>>, {1})
  BY <1>2, TableOf DEF transcript_update_handshake_msg
<1>7. "transcript_update_handshake_msg" \in Callees /\ ~Deriver("transcript_update_handshake_msg")
  BY DEF Callees, Deriver
<1> QED  BY <1>1, <1>4, <1>5, <1>6, <1>7, OneObject

LEMMA AesGcmEncryptOK == FunctionOK("aes_gcm_encrypt")
<1>1. {"cipher_ctx"} \in SUBSET Names /\ "cipher_ctx" \in CalleeObjects
  BY DEF Names, CalleeObjects
<1>2. PICK steps : steps = <<Get({"cipher_ctx"}), Try, Try, Try, Try, Try, Try, Try>>
  OBVIOUS
<1>3. /\ steps \in Seq(StepKind) /\ Len(steps) = 8 /\ steps[1] = Get({"cipher_ctx"})
      /\ steps[2] = Try /\ steps[3] = Try /\ steps[4] = Try /\ steps[5] = Try /\ steps[6] = Try
      /\ steps[7] = Try /\ steps[8] = Try
  BY <1>1, <1>2, Getting, Trying
<1>4. Checked(steps)
  BY <1>1, <1>3, Getting, Trying DEF Checked
<1>5. SilentAfter(steps) /\ steps \in Seq(StepKind) /\ Len(steps) >= 1
          /\ steps[1] = Get({"cipher_ctx"})
  BY <1>3, Trying DEF Silent, SilentAfter
<1>6. Functions["aes_gcm_encrypt"] = Body(steps, <<Free("cipher_ctx")>>, {1})
  BY <1>2, TableOf DEF aes_gcm_encrypt
<1>7. "aes_gcm_encrypt" \in Callees /\ ~Deriver("aes_gcm_encrypt")
  BY DEF Callees, Deriver
<1> QED  BY <1>1, <1>4, <1>5, <1>6, <1>7, OneObject

LEMMA AesGcmDecryptOK == FunctionOK("aes_gcm_decrypt")
<1>1. {"cipher_ctx"} \in SUBSET Names /\ "cipher_ctx" \in CalleeObjects
  BY DEF Names, CalleeObjects
<1>2. PICK steps : steps = <<Get({"cipher_ctx"}), Try, Try, Try, Try, DecryptUpdate, Try,
               DecryptFinal>>
  OBVIOUS
<1>3. /\ steps \in Seq(StepKind) /\ Len(steps) = 8 /\ steps[1] = Get({"cipher_ctx"})
      /\ steps[2] = Try /\ steps[3] = Try /\ steps[4] = Try /\ steps[5] = Try
      /\ steps[6] = DecryptUpdate /\ steps[7] = Try /\ steps[8] = DecryptFinal
  BY <1>1, <1>2, Getting, Trying, Decrypting
<1>4. Checked(steps)
  <2> SUFFICES ASSUME NEW i \in 1..Len(steps), steps[i].decrypts # {}
               PROVE  \E v \in (i + 1)..Len(steps) : steps[v].verifies # {}
    BY DEF Checked
  <2>1. i = 6
    BY <1>1, <1>3, Getting, Trying, Decrypting
  <2>2. 8 \in (i + 1)..Len(steps) /\ steps[8].verifies # {}
    BY <1>3, <2>1, Decrypting
  <2> QED  BY <2>2
<1>5. SilentAfter(steps) /\ steps \in Seq(StepKind) /\ Len(steps) >= 1
          /\ steps[1] = Get({"cipher_ctx"})
  BY <1>3, Trying, Decrypting DEF Silent, SilentAfter
<1>6. Functions["aes_gcm_decrypt"] = Body(steps, <<Free("cipher_ctx")>>, {1})
  BY <1>2, TableOf DEF aes_gcm_decrypt
<1>7. "aes_gcm_decrypt" \in Callees /\ ~Deriver("aes_gcm_decrypt")
  BY DEF Callees, Deriver
<1> QED  BY <1>1, <1>4, <1>5, <1>6, <1>7, OneObject

LEMMA LoadFileOK == FunctionOK("load_file")
<1>1. {"fp"} \in SUBSET Names /\ "fp" \in CalleeObjects
  BY DEF Names, CalleeObjects
<1>2. PICK steps : steps = <<Get({"fp"}), Try>>
  OBVIOUS
<1>3. /\ steps \in Seq(StepKind) /\ Len(steps) = 2 /\ steps[1] = Get({"fp"})
      /\ steps[2] = Try
  BY <1>1, <1>2, Getting, Trying
<1>4. Checked(steps)
  BY <1>1, <1>3, Getting, Trying DEF Checked
<1>5. SilentAfter(steps) /\ steps \in Seq(StepKind) /\ Len(steps) >= 1 /\ steps[1] = Get({"fp"})
  BY <1>3, Trying DEF Silent, SilentAfter
<1>6. Functions["load_file"] = Body(steps, <<Free("fp")>>, {1})
  BY <1>2, TableOf DEF load_file
<1>7. "load_file" \in Callees /\ ~Deriver("load_file")
  BY DEF Callees, Deriver
<1> QED  BY <1>1, <1>4, <1>5, <1>6, <1>7, OneObject

LEMMA KeyFileOK == FunctionOK("KeyFile")
<1>1. {"fp"} \in SUBSET Names /\ "fp" \in CalleeObjects
  BY DEF Names, CalleeObjects
<1>2. PICK steps : steps = <<Get({"fp"}), Try>>
  OBVIOUS
<1>3. /\ steps \in Seq(StepKind) /\ Len(steps) = 2 /\ steps[1] = Get({"fp"})
      /\ steps[2] = Try
  BY <1>1, <1>2, Getting, Trying
<1>4. Checked(steps)
  BY <1>1, <1>3, Getting, Trying DEF Checked
<1>5. SilentAfter(steps) /\ steps \in Seq(StepKind) /\ Len(steps) >= 1 /\ steps[1] = Get({"fp"})
  BY <1>3, Trying DEF Silent, SilentAfter
<1>6. Functions["KeyFile"] = Body(steps, <<Free("fp")>>, {1})
  BY <1>2, TableOf DEF KeyFile
<1>7. "KeyFile" \in Callees /\ ~Deriver("KeyFile")
  BY DEF Callees, Deriver
<1> QED  BY <1>1, <1>4, <1>5, <1>6, <1>7, OneObject

LEMMA DemoEncryptOK == FunctionOK("demo_encrypt")
<1>1. {"cipher_ctx"} \in SUBSET Names /\ "cipher_ctx" \in CalleeObjects
  BY DEF Names, CalleeObjects
<1>2. PICK steps : steps = <<Get({"cipher_ctx"}), Try, Try, Try, Try, Try, Try>>
  OBVIOUS
<1>3. /\ steps \in Seq(StepKind) /\ Len(steps) = 7 /\ steps[1] = Get({"cipher_ctx"})
      /\ steps[2] = Try /\ steps[3] = Try /\ steps[4] = Try /\ steps[5] = Try /\ steps[6] = Try
      /\ steps[7] = Try
  BY <1>1, <1>2, Getting, Trying
<1>4. Checked(steps)
  BY <1>1, <1>3, Getting, Trying DEF Checked
<1>5. SilentAfter(steps) /\ steps \in Seq(StepKind) /\ Len(steps) >= 1
          /\ steps[1] = Get({"cipher_ctx"})
  BY <1>3, Trying DEF Silent, SilentAfter
<1>6. Functions["demo_encrypt"] = Body(steps, <<Free("cipher_ctx")>>, {1})
  BY <1>2, TableOf DEF demo_encrypt
<1>7. "demo_encrypt" \in Callees /\ ~Deriver("demo_encrypt")
  BY DEF Callees, Deriver
<1> QED  BY <1>1, <1>4, <1>5, <1>6, <1>7, OneObject

LEMMA DemoDecryptOK == FunctionOK("demo_decrypt")
<1>1. {"cipher_ctx"} \in SUBSET Names /\ "cipher_ctx" \in CalleeObjects
  BY DEF Names, CalleeObjects
<1>2. PICK steps : steps = <<Get({"cipher_ctx"}), Try, Try, Try, DecryptUpdate, Try,
               DecryptFinal>>
  OBVIOUS
<1>3. /\ steps \in Seq(StepKind) /\ Len(steps) = 7 /\ steps[1] = Get({"cipher_ctx"})
      /\ steps[2] = Try /\ steps[3] = Try /\ steps[4] = Try /\ steps[5] = DecryptUpdate
      /\ steps[6] = Try /\ steps[7] = DecryptFinal
  BY <1>1, <1>2, Getting, Trying, Decrypting
<1>4. Checked(steps)
  <2> SUFFICES ASSUME NEW i \in 1..Len(steps), steps[i].decrypts # {}
               PROVE  \E v \in (i + 1)..Len(steps) : steps[v].verifies # {}
    BY DEF Checked
  <2>1. i = 5
    BY <1>1, <1>3, Getting, Trying, Decrypting
  <2>2. 7 \in (i + 1)..Len(steps) /\ steps[7].verifies # {}
    BY <1>3, <2>1, Decrypting
  <2> QED  BY <2>2
<1>5. SilentAfter(steps) /\ steps \in Seq(StepKind) /\ Len(steps) >= 1
          /\ steps[1] = Get({"cipher_ctx"})
  BY <1>3, Trying, Decrypting DEF Silent, SilentAfter
<1>6. Functions["demo_decrypt"] = Body(steps, <<Free("cipher_ctx")>>, {1})
  BY <1>2, TableOf DEF demo_decrypt
<1>7. "demo_decrypt" \in Callees /\ ~Deriver("demo_decrypt")
  BY DEF Callees, Deriver
<1> QED  BY <1>1, <1>4, <1>5, <1>6, <1>7, OneObject

Layout(steps, release, W, F) ==
    \A o \in DOMAIN W : /\ o \in Names /\ W[o] \in 1..Len(steps) /\ F[o] \in 1..Len(release)
                        /\ o \in release[F[o]].frees /\ (W[o] = 1 => Alone(o, W))

StepsFit(steps, W) == \A i \in 1..Len(steps) : StepFits(steps[i], i, W)

ReleasesFit(release, W, F) ==
    \A j \in 1..Len(release) :
       /\ ReleaseFits(release[j], j, W, F)
       /\ "ctx" \in release[j].frees \union release[j].given => release[j].after = W["ctx"]

\* A function that returns at once before its second step only.
LEMMA Assembled ==
    ASSUME NEW f, f # "transcript_init", NEW steps \in Seq(StepKind), NEW release
               \in Seq(ReleaseType),
           NEW atOnce \in SUBSET {1}, NEW W, NEW F, Functions[f] = Body(steps, release, atOnce),
           Layout(steps, release, W, F), StepsFit(steps, W), ReleasesFit(release, W, F)
    PROVE  Fits(f, steps, release, atOnce, W, F)
<1>1. ASSUME NEW at \in 1..(Len(steps) + 1)
      PROVE  IF at \in atOnce
             THEN \A w \in DOMAIN W : \/ W[w] > at \/ (W[w] = at /\ Alone(w, W))
                                      \/ (w = "ctx" /\ f = "transcript_init"
                                             /\ at = Len(steps) + 1)
             ELSE /\ f = "transcript_init" => at # Len(steps) + 1
                  /\ \A j \in 1..Len(release) :
                        release[j].after < at /\ "ctx"
                            \in release[j].frees \union release[j].given => W["ctx"] < at
  <2>1. CASE at \in atOnce
    <3>1. at = 1
      BY <2>1
    <3>2. \A w \in DOMAIN W : W[w] \in 1..Len(steps) /\ (W[w] = 1 => Alone(w, W))
      BY DEF Layout
    <3> QED  BY <2>1, <3>1, <3>2
  <2>2. CASE at \notin atOnce
    BY <2>2 DEF ReleasesFit
  <2> QED  BY <2>1, <2>2
<1> QED  BY <1>1 DEF Fits, Layout, StepsFit, ReleasesFit

\* Functions that acquire nothing.
LEMMA NoObject ==
    ASSUME NEW f, f # "transcript_init", NEW steps \in Seq(StepKind), NEW release
               \in Seq(ReleaseType),
           NEW atOnce, NEW W, DOMAIN W = {}, Functions[f] = Body(steps, release, atOnce),
           \A i \in 1..Len(steps) : Gives(steps[i]) = {} /\ steps[i].fills \intersect Names = {},
           \A j \in 1..Len(release) : release[j].frees = {} /\ release[j].given = {}
               /\ release[j].after = 0
    PROVE  Fits(f, steps, release, atOnce, W, W) /\ Owns(f, steps, W)
<1>1. \A i \in 1..Len(steps) : StepFits(steps[i], i, W) /\ steps[i].calls # "transcript_init"
  BY DEF StepFits, Gives
<1>2. \A j \in 1..Len(release) : ReleaseFits(release[j], j, W, W)
  BY DEF ReleaseFits
<1>3. Fits(f, steps, release, atOnce, W, W)
  BY <1>1, <1>2 DEF Fits
<1> QED  BY <1>1, <1>3 DEF Owns

LEMMA NothingDerived ==
    ASSUME NEW f, ~Deriver(f), NEW steps, NEW release, NEW atOnce,
           \A i \in 1..Len(steps) : Plain(steps[i]),
           \A j \in 1..Len(release) : release[j].erases \intersect ApplicationKeys = {}
    PROVE  KeepsTo(f, steps, release, atOnce)
BY DEF KeepsTo, Plain, Deriver

LEMMA TranscriptInitOK == FunctionOK("transcript_init")
<1>1. {"ctx"} \in SUBSET Names /\ "ctx" \in Names /\ "ctx" \notin Secrets
  BY DEF Names, Secrets, ApplicationKeys
<1>2. PICK steps : steps = <<Get({"ctx"}), Try>>
  OBVIOUS
<1>3. steps \in Seq(StepKind) /\ Len(steps) = 2 /\ steps[1] = Get({"ctx"}) /\ steps[2] = Try
  BY <1>1, <1>2, Getting, Trying
<1>4. PICK release : release = <<transcript_free>>
  OBVIOUS
<1>5. /\ transcript_free \in ReleaseType /\ transcript_free.frees = {"ctx"}
      /\ transcript_free.erases = {} /\ transcript_free.given = {} /\ transcript_free.after = 0
  BY <1>2, <1>3, FreeingTheTranscript
<1>6. release \in Seq(ReleaseType) /\ Len(release) = 1 /\ release[1] = transcript_free
  BY <1>4, <1>5
<1>7. PICK W : W = [o \in {"ctx"} |-> 1]
  OBVIOUS
<1>8. Functions["transcript_init"] = Body(steps, release, {1, 3})
  BY <1>2, <1>4, TableOf DEF transcript_init
<1>9. /\ Get({"ctx"}).calls = "none" /\ Get({"ctx"}).gets = {"ctx"} /\ Get({"ctx"}).fills = {}
      /\ Get({"ctx"}).decrypts = {} /\ Get({"ctx"}).verifies = {}
  BY <1>1, Getting
<1>10. StepFits(steps[1], 1, W) /\ StepFits(steps[2], 2, W)
  BY <1>3, <1>7, <1>9, Trying DEF StepFits, Gives
<1>11. ReleaseFits(release[1], 1, W, W)
  BY <1>1, <1>5, <1>6, <1>7 DEF ReleaseFits
<1>12. Fits("transcript_init", steps, release, {1, 3}, W, W)
  <2>1. \A i \in 1..Len(steps) : i = 1 \/ i = 2
    BY <1>3
  <2>2. \A o \in DOMAIN W : o = "ctx" /\ W[o] = 1 /\ o \in release[W[o]].frees /\ Alone(o, W)
    BY <1>5, <1>6, <1>7 DEF Alone
  <2>3. ASSUME NEW at \in 1..(Len(steps) + 1)
        PROVE  IF at \in {1, 3}
               THEN \A o \in DOMAIN W : \/ W[o] > at \/ (W[o] = at /\ Alone(o, W))
                                        \/ (o = "ctx" /\ "transcript_init" = "transcript_init"
                                               /\ at = Len(steps) + 1)
               ELSE /\ "transcript_init" = "transcript_init" => at # Len(steps) + 1
                    /\ \A j \in 1..Len(release) :
                          release[j].after < at /\ "ctx"
                              \in release[j].frees \union release[j].given => W["ctx"] < at
    <3>1. at = 1 \/ at = 2 \/ at = 3
      BY <1>3
    <3>2. W["ctx"] = 1
      BY <1>7
    <3> QED  BY <1>3, <2>2, <3>1, <3>2
  <2>4. "ctx" \in DOMAIN W
    BY <1>7
  <2> QED  BY <1>1, <1>3, <1>6, <1>8, <1>10, <1>11, <2>1, <2>2, <2>3, <2>4 DEF Fits
<1>13. Owns("transcript_init", steps, W)
  <2>1. DOMAIN W = {"ctx"} /\ "transcript_init" \notin ProgramNames
    BY <1>7 DEF ProgramNames
  <2>2. \A i \in 1..Len(steps) : steps[i].calls = "none"
    BY <1>3, <1>9, Trying
  <2> QED  BY <2>1, <2>2 DEF Owns
<1>14. KeepsTo("transcript_init", steps, release, {1, 3})
  <2>1. \A i \in 1..Len(steps) : Plain(steps[i])
    BY <1>3, <1>9, Trying DEF Plain
  <2>2. \A j \in 1..Len(release) : release[j].erases \intersect ApplicationKeys = {}
    BY <1>5, <1>6
  <2>3. ~Deriver("transcript_init")
    BY DEF Deriver
  <2> QED  BY <2>1, <2>2, <2>3, NothingDerived
<1> QED  BY <1>12, <1>13, <1>14 DEF FunctionOK

\* Those that only call: the records, the demos of AES and HKDF.
JustCalls(steps) ==
    \A i \in 1..Len(steps) :
       \/ steps[i] = Try
       \/ \E g \in Callees \ {"transcript_init", "derive_application_keys"} : steps[i] = Call(g)

LEMMA CallsOnly ==
    ASSUME NEW f, f # "transcript_init", ~Deriver(f), NEW steps \in Seq(StepKind),
               JustCalls(steps),
           Functions[f] = Body(steps, <<>>, {})
    PROVE  FunctionOK(f)
<1>1. ASSUME NEW i \in 1..Len(steps)
      PROVE  Gives(steps[i]) = {} /\ steps[i].fills \intersect Names = {} /\ Plain(steps[i])
  <2>1. CASE steps[i] = Try
    BY <2>1, Trying DEF Gives, Plain
  <2>2. CASE steps[i] # Try
    <3>1. PICK g \in Callees \ {"transcript_init", "derive_application_keys"} : steps[i] = Call(g)
      BY <2>2 DEF JustCalls
    <3>2. /\ Call(g).calls = g /\ Call(g).gets = {} /\ Call(g).fills = {}
          /\ Call(g).decrypts = {} /\ Call(g).verifies = {}
      BY Calling
    <3> QED  BY <3>1, <3>2 DEF Gives, Plain
  <2> QED  BY <2>1, <2>2
<1>2. PICK release : release = <<>>
  OBVIOUS
<1>3. release \in Seq(ReleaseType) /\ Len(release) = 0 /\ \A j \in 1..Len(release) : FALSE
  BY <1>2
<1>4. PICK W : W = [o \in {} |-> 1] /\ DOMAIN W = {}
  OBVIOUS
<1>5. Fits(f, steps, release, {}, W, W) /\ Owns(f, steps, W)
  BY <1>1, <1>2, <1>3, <1>4, NoObject
<1>6. KeepsTo(f, steps, release, {})
  BY <1>1, <1>3, NothingDerived
<1> QED  BY <1>5, <1>6 DEF FunctionOK

LEMMA SendEncryptedRecordOK == FunctionOK("send_encrypted_record")
<1>1. PICK steps : steps = <<Call("aes_gcm_encrypt"), Try, Try, Try>>
  OBVIOUS
<1>2. /\ "aes_gcm_encrypt" \in Callees \ {"transcript_init", "derive_application_keys"}
      /\ ~Deriver("send_encrypted_record")
  BY DEF Callees, Deriver
<1>3. steps \in Seq(StepKind)
  BY <1>1, <1>2, Calling, Trying
<1>4. JustCalls(steps)
  <2>1. /\ Len(steps) = 4 /\ steps[1] = Call("aes_gcm_encrypt") /\ steps[2] = Try
        /\ steps[3] = Try /\ steps[4] = Try
    BY <1>1
  <2>2. \A i \in 1..4 : i = 1 \/ i = 2 \/ i = 3 \/ i = 4
    OBVIOUS
  <2> QED  BY <1>2, <2>1, <2>2 DEF JustCalls
<1>5. Functions["send_encrypted_record"] = Body(steps, <<>>, {})
  BY <1>1, TableOf DEF send_encrypted_record
<1> QED  BY <1>2, <1>3, <1>4, <1>5, CallsOnly

LEMMA RecvEncryptedRecordOK == FunctionOK("recv_encrypted_record")
<1>1. PICK steps : steps = <<Try, Try, Try, Try, Call("aes_gcm_decrypt")>>
  OBVIOUS
<1>2. /\ "aes_gcm_decrypt" \in Callees \ {"transcript_init", "derive_application_keys"}
      /\ ~Deriver("recv_encrypted_record")
  BY DEF Callees, Deriver
<1>3. steps \in Seq(StepKind)
  BY <1>1, <1>2, Calling, Trying
<1>4. JustCalls(steps)
  <2>1. /\ Len(steps) = 5 /\ steps[1] = Try /\ steps[2] = Try /\ steps[3] = Try /\ steps[4] = Try
        /\ steps[5] = Call("aes_gcm_decrypt")
    BY <1>1
  <2>2. \A i \in 1..5 : i = 1 \/ i = 2 \/ i = 3 \/ i = 4 \/ i = 5
    OBVIOUS
  <2> QED  BY <1>2, <2>1, <2>2 DEF JustCalls
<1>5. Functions["recv_encrypted_record"] = Body(steps, <<>>, {})
  BY <1>1, TableOf DEF recv_encrypted_record
<1> QED  BY <1>2, <1>3, <1>4, <1>5, CallsOnly

LEMMA AesDemoOK == FunctionOK("aes_demo")
<1>1. PICK steps : steps = <<Try, Try, Call("demo_encrypt"), Call("demo_decrypt")>>
  OBVIOUS
<1>2. /\ "demo_encrypt" \in Callees \ {"transcript_init", "derive_application_keys"}
      /\ "demo_decrypt" \in Callees \ {"transcript_init", "derive_application_keys"}
      /\ ~Deriver("aes_demo")
  BY DEF Callees, Deriver
<1>3. steps \in Seq(StepKind)
  BY <1>1, <1>2, Calling, Trying
<1>4. JustCalls(steps)
  <2>1. /\ Len(steps) = 4 /\ steps[1] = Try /\ steps[2] = Try /\ steps[3] = Call("demo_encrypt")
        /\ steps[4] = Call("demo_decrypt")
    BY <1>1
  <2>2. \A i \in 1..4 : i = 1 \/ i = 2 \/ i = 3 \/ i = 4
    OBVIOUS
  <2> QED  BY <1>2, <2>1, <2>2 DEF JustCalls
<1>5. Functions["aes_demo"] = Body(steps, <<>>, {})
  BY <1>1, TableOf DEF aes_demo
<1> QED  BY <1>2, <1>3, <1>4, <1>5, CallsOnly

LEMMA HkdfDemoOK == FunctionOK("hkdf_demo")
<1>1. PICK steps : steps = <<Call("derive_aes256_key_hkdf"), Try>>
  OBVIOUS
<1>2. /\ "derive_aes256_key_hkdf" \in Callees \ {"transcript_init", "derive_application_keys"}
      /\ ~Deriver("hkdf_demo")
  BY DEF Callees, Deriver
<1>3. steps \in Seq(StepKind)
  BY <1>1, <1>2, Calling, Trying
<1>4. JustCalls(steps)
  <2>1. /\ Len(steps) = 2 /\ steps[1] = Call("derive_aes256_key_hkdf") /\ steps[2] = Try
    BY <1>1
  <2>2. \A i \in 1..2 : i = 1 \/ i = 2
    OBVIOUS
  <2> QED  BY <1>2, <2>1, <2>2 DEF JustCalls
<1>5. Functions["hkdf_demo"] = Body(steps, <<>>, {})
  BY <1>1, TableOf DEF hkdf_demo
<1> QED  BY <1>2, <1>3, <1>4, <1>5, CallsOnly


\* Functions that derive no application keys.
LEMMA Holder ==
    ASSUME NEW f, f # "transcript_init", ~Deriver(f), NEW steps \in Seq(StepKind), NEW release
               \in Seq(ReleaseType),
           NEW atOnce \in SUBSET {1}, NEW W, NEW F, Functions[f] = Body(steps, release, atOnce),
           Layout(steps, release, W, F), StepsFit(steps, W), ReleasesFit(release, W, F),
               Owns(f, steps, W),
           \A i \in 1..Len(steps) : Plain(steps[i]),
           \A j \in 1..Len(release) : release[j].erases \intersect ApplicationKeys = {}
    PROVE  FunctionOK(f)
<1>1. Fits(f, steps, release, atOnce, W, F)
  BY Assembled
<1>2. KeepsTo(f, steps, release, atOnce)
  BY NothingDerived
<1> QED  BY <1>1, <1>2 DEF FunctionOK

\* A KDF, its context, and a derivation.
LEMMA KdfAndContext ==
    ASSUME NEW f \in Callees, f # "transcript_init", ~Deriver(f),
           Functions[f] = Body(<<Get({"kdf"}), Get({"kctx"}), Try>>, <<Free("kctx"),
               Free("kdf")>>, {})
    PROVE  FunctionOK(f)
<1>1. /\ {"kdf"} \in SUBSET Names /\ {"kctx"} \in SUBSET Names /\ "kdf" \in Names /\ "kctx"
             \in Names
      /\ "kdf" \notin Secrets /\ "kctx" \notin Secrets /\ {"kdf", "kctx"} \subseteq CalleeObjects
      /\ f \notin ProgramNames
  BY DEF Names, CalleeObjects, Secrets, ApplicationKeys, Callees, ProgramNames
<1>2. PICK steps : steps = <<Get({"kdf"}), Get({"kctx"}), Try>>
  OBVIOUS
<1>3. PICK release : release = <<Free("kctx"), Free("kdf")>>
  OBVIOUS
<1>4. /\ Get({"kdf"}) \in StepKind /\ Get({"kdf"}).calls = "none" /\ Get({"kdf"}).gets = {"kdf"}
      /\ Get({"kdf"}).fills = {} /\ Get({"kdf"}).decrypts = {} /\ Get({"kdf"}).verifies = {}
  BY <1>1, Getting
<1>5. /\ Get({"kctx"}) \in StepKind /\ Get({"kctx"}).calls = "none"
      /\ Get({"kctx"}).gets = {"kctx"}
      /\ Get({"kctx"}).fills = {} /\ Get({"kctx"}).decrypts = {} /\ Get({"kctx"}).verifies = {}
  BY <1>1, Getting
<1>6. /\ Free("kdf") \in ReleaseType /\ Free("kdf").frees = {"kdf"} /\ Free("kdf").erases = {}
      /\ Free("kdf").given = {} /\ Free("kdf").after = 0
  BY <1>1, FreeingIt
<1>7. /\ Free("kctx") \in ReleaseType /\ Free("kctx").frees = {"kctx"} /\ Free("kctx").erases = {}
      /\ Free("kctx").given = {} /\ Free("kctx").after = 0
  BY <1>1, FreeingIt
<1>8. /\ steps \in Seq(StepKind) /\ Len(steps) = 3
      /\ steps[1] = Get({"kdf"}) /\ steps[2] = Get({"kctx"}) /\ steps[3] = Try
  BY <1>2, <1>4, <1>5, Trying
<1>9. release \in Seq(ReleaseType) /\ Len(release) = 2 /\ release[1] = Free("kctx")
          /\ release[2] = Free("kdf")
  BY <1>3, <1>6, <1>7
<1>10. PICK W : W = [o \in {"kdf", "kctx"} |-> IF o = "kdf" THEN 1 ELSE 2]
  OBVIOUS
<1>11. PICK F : F = [o \in {"kdf", "kctx"} |-> IF o = "kdf" THEN 2 ELSE 1]
  OBVIOUS
<1>12. /\ DOMAIN W = {"kdf", "kctx"} /\ W["kdf"] = 1 /\ W["kctx"] = 2 /\ F["kdf"] = 2
       /\ F["kctx"] = 1
  BY <1>10, <1>11
<1>13. /\ \A i \in 1..Len(steps) : i = 1 \/ i = 2 \/ i = 3
       /\ \A j \in 1..Len(release) : j = 1 \/ j = 2
  BY <1>8, <1>9
<1>14. Layout(steps, release, W, F)
  BY <1>1, <1>6, <1>7, <1>8, <1>9, <1>12 DEF Layout, Alone
<1>15. StepsFit(steps, W)
  BY <1>4, <1>5, <1>8, <1>12, <1>13, Trying DEF StepsFit, StepFits, Gives
<1>16. ReleasesFit(release, W, F)
  BY <1>1, <1>6, <1>7, <1>9, <1>12, <1>13 DEF ReleasesFit, ReleaseFits
<1>17. Owns(f, steps, W)
  BY <1>1, <1>4, <1>5, <1>8, <1>12, <1>13, Trying DEF Owns
<1>18. \A i \in 1..Len(steps) : Plain(steps[i])
  BY <1>4, <1>5, <1>8, <1>13, Trying DEF Plain
<1>19. \A j \in 1..Len(release) : release[j].erases \intersect ApplicationKeys = {}
  BY <1>6, <1>7, <1>9, <1>13
<1>20. Functions[f] = Body(steps, release, {})
  BY <1>2, <1>3
<1> QED  BY <1>8, <1>9, <1>14, <1>15, <1>16, <1>17, <1>18, <1>19, <1>20, Holder

LEMMA DeriveFinishedKeyOK == FunctionOK("derive_finished_key")
<1>1. "derive_finished_key" \in Callees /\ ~Deriver("derive_finished_key")
  BY DEF Callees, Deriver
<1> QED  BY <1>1, TableOf, KdfAndContext DEF derive_finished_key

LEMMA HkdfDeriveLabelOK == FunctionOK("hkdf_derive_label")
<1>1. "hkdf_derive_label" \in Callees /\ ~Deriver("hkdf_derive_label")
  BY DEF Callees, Deriver
<1> QED  BY <1>1, TableOf, KdfAndContext DEF hkdf_derive_label

LEMMA DeriveAes256KeyHkdfOK == FunctionOK("derive_aes256_key_hkdf")
<1>1. /\ {"library_context"} \in SUBSET Names /\ {"kdf"} \in SUBSET Names /\ {"kctx"}
             \in SUBSET Names
      /\ "library_context" \in Names /\ "kdf" \in Names /\ "kctx" \in Names
      /\ "library_context" \notin Secrets /\ "kdf" \notin Secrets /\ "kctx" \notin Secrets
      /\ {"library_context", "kdf", "kctx"} \subseteq CalleeObjects
      /\ "derive_aes256_key_hkdf" \notin ProgramNames
  BY DEF Names, CalleeObjects, Secrets, ApplicationKeys, ProgramNames
<1>2. PICK steps : steps = <<Get({"library_context"}), Get({"kdf"}), Get({"kctx"}), Try>>
  OBVIOUS
<1>3. PICK release : release = <<Free("kctx"), Free("kdf"), Free("library_context")>>
  OBVIOUS
<1>4. /\ Get({"kdf"}) \in StepKind /\ Get({"kdf"}).calls = "none" /\ Get({"kdf"}).gets = {"kdf"}
      /\ Get({"kdf"}).fills = {} /\ Get({"kdf"}).decrypts = {} /\ Get({"kdf"}).verifies = {}
  BY <1>1, Getting
<1>5. /\ Get({"kctx"}) \in StepKind /\ Get({"kctx"}).calls = "none"
      /\ Get({"kctx"}).gets = {"kctx"}
      /\ Get({"kctx"}).fills = {} /\ Get({"kctx"}).decrypts = {} /\ Get({"kctx"}).verifies = {}
  BY <1>1, Getting
<1>6. /\ Get({"library_context"}) \in StepKind /\ Get({"library_context"}).calls = "none"
      /\ Get({"library_context"}).gets = {"library_context"}
      /\ Get({"library_context"}).fills = {}
      /\ Get({"library_context"}).decrypts = {} /\ Get({"library_context"}).verifies = {}
  BY <1>1, Getting
<1>7. /\ Free("kdf") \in ReleaseType /\ Free("kdf").frees = {"kdf"} /\ Free("kdf").erases = {}
      /\ Free("kdf").given = {} /\ Free("kdf").after = 0
  BY <1>1, FreeingIt
<1>8. /\ Free("kctx") \in ReleaseType /\ Free("kctx").frees = {"kctx"} /\ Free("kctx").erases = {}
      /\ Free("kctx").given = {} /\ Free("kctx").after = 0
  BY <1>1, FreeingIt
<1>9. /\ Free("library_context") \in ReleaseType
      /\ Free("library_context").frees = {"library_context"}
      /\ Free("library_context").erases = {} /\ Free("library_context").given = {}
      /\ Free("library_context").after = 0
  BY <1>1, FreeingIt
<1>10. /\ steps \in Seq(StepKind) /\ Len(steps) = 4
       /\ steps[1] = Get({"library_context"}) /\ steps[2] = Get({"kdf"})
       /\ steps[3] = Get({"kctx"}) /\ steps[4] = Try
  BY <1>2, <1>4, <1>5, <1>6, Trying
<1>11. /\ release \in Seq(ReleaseType) /\ Len(release) = 3
       /\ release[1] = Free("kctx") /\ release[2] = Free("kdf")
       /\ release[3] = Free("library_context")
  BY <1>3, <1>7, <1>8, <1>9
<1>12. PICK W : W = [o \in {"library_context", "kdf", "kctx"} |->
                        IF o = "library_context" THEN 1 ELSE IF o = "kdf" THEN 2 ELSE 3]
  OBVIOUS
<1>13. PICK F : F = [o \in {"library_context", "kdf", "kctx"} |->
                        IF o = "library_context" THEN 3 ELSE IF o = "kdf" THEN 2 ELSE 1]
  OBVIOUS
<1>14. /\ DOMAIN W = {"library_context", "kdf", "kctx"}
       /\ W["library_context"] = 1 /\ W["kdf"] = 2 /\ W["kctx"] = 3
       /\ F["library_context"] = 3 /\ F["kdf"] = 2 /\ F["kctx"] = 1
  BY <1>12, <1>13
<1>15. /\ \A i \in 1..Len(steps) : i = 1 \/ i = 2 \/ i = 3 \/ i = 4
       /\ \A j \in 1..Len(release) : j = 1 \/ j = 2 \/ j = 3
  BY <1>10, <1>11
<1>16. Layout(steps, release, W, F)
  BY <1>1, <1>7, <1>8, <1>10, <1>11, <1>14, <1>9 DEF Layout, Alone
<1>17. StepsFit(steps, W)
  BY <1>4, <1>5, <1>10, <1>14, <1>15, <1>6, Trying DEF StepsFit, StepFits, Gives
<1>18. ReleasesFit(release, W, F)
  BY <1>1, <1>7, <1>8, <1>11, <1>14, <1>15, <1>9 DEF ReleasesFit, ReleaseFits
<1>19. Owns("derive_aes256_key_hkdf", steps, W)
  BY <1>1, <1>4, <1>5, <1>10, <1>14, <1>15, <1>6, Trying DEF Owns
<1>20. \A i \in 1..Len(steps) : Plain(steps[i])
  BY <1>4, <1>5, <1>10, <1>15, <1>6, Trying DEF Plain
<1>21. \A j \in 1..Len(release) : release[j].erases \intersect ApplicationKeys = {}
  BY <1>7, <1>8, <1>11, <1>15, <1>9
<1>22. Functions["derive_aes256_key_hkdf"] = Body(steps, release, {})
  BY <1>2, <1>3, TableOf DEF derive_aes256_key_hkdf
<1>23. ~Deriver("derive_aes256_key_hkdf")
  BY DEF Deriver
<1> QED  BY <1>10, <1>11, <1>16, <1>17, <1>18, <1>19, <1>20, <1>21, <1>22, <1>23, Holder

LEMMA ComputeFinishedVerifyDataOK == FunctionOK("compute_finished_verify_data")
<1>1. /\ "derive_finished_key" \in Callees /\ {"finished_key"} \in SUBSET Secrets
      /\ {"finished_key"} \intersect Names = {}
      /\ {"finished_key"} \intersect ApplicationKeys = {}
  BY DEF Callees, Secrets, Names, CalleeObjects, ProgramObjects, ApplicationKeys
<1>2. PICK first : first = CallFilling("derive_finished_key", {"finished_key"})
  OBVIOUS
<1>3. /\ first \in StepKind /\ first.calls = "derive_finished_key" /\ first.gets = {}
      /\ first.fills = {"finished_key"} /\ first.decrypts = {} /\ first.verifies = {}
  BY <1>1, <1>2, CallingFilling
<1>4. PICK steps : steps = <<first, Try, Try>>
  OBVIOUS
<1>5. /\ steps \in Seq(StepKind) /\ Len(steps) = 3 /\ steps[1] = first /\ steps[2] = Try
      /\ steps[3] = Try
  BY <1>3, <1>4, Trying
<1>6. PICK release : release = <<Erase({"finished_key"})>>
  OBVIOUS
<1>7. /\ Erase({"finished_key"}) \in ReleaseType /\ Erase({"finished_key"}).frees = {}
      /\ Erase({"finished_key"}).erases = {"finished_key"} /\ Erase({"finished_key"}).given = {}
      /\ Erase({"finished_key"}).after = 0
  BY <1>1, ErasingIt
<1>8. release \in Seq(ReleaseType) /\ Len(release) = 1 /\ release[1] = Erase({"finished_key"})
  BY <1>6, <1>7
<1>9. \A i \in 1..Len(steps) : i = 1 \/ i = 2 \/ i = 3
  BY <1>5
<1>10. \A i \in 1..Len(steps) : Gives(steps[i]) = {} /\ steps[i].fills \intersect Names = {}
           /\ Plain(steps[i])
  BY <1>1, <1>3, <1>5, <1>9, Trying DEF Gives, Plain
<1>11. \A j \in 1..Len(release) : /\ release[j].frees = {} /\ release[j].given = {}
           /\ release[j].after = 0
                                  /\ release[j].erases \intersect ApplicationKeys = {}
  BY <1>1, <1>7, <1>8
<1>12. PICK W : W = [o \in {} |-> 1] /\ DOMAIN W = {}
  OBVIOUS
<1>13. Functions["compute_finished_verify_data"] = Body(steps, release, {1, 2})
  BY <1>2, <1>4, <1>6, TableOf DEF compute_finished_verify_data
<1>14. ~Deriver("compute_finished_verify_data")
  BY DEF Deriver
<1>15. /\ Fits("compute_finished_verify_data", steps, release, {1, 2}, W, W)
       /\ Owns("compute_finished_verify_data", steps, W)
  BY <1>5, <1>8, <1>10, <1>11, <1>12, <1>13, NoObject
<1>16. KeepsTo("compute_finished_verify_data", steps, release, {1, 2})
  BY <1>10, <1>11, <1>14, NothingDerived
<1> QED  BY <1>15, <1>16 DEF FunctionOK

\* A call that derives one of the application keys.
LEMMA ALabel ==
    ASSUME NEW k \in ApplicationKeys
    PROVE  /\ Label(k) \in StepKind /\ Label(k).calls = "hkdf_derive_label" /\ Label(k).gets = {}
           /\ Label(k).fills = {k} /\ Label(k).decrypts = {} /\ Label(k).verifies = {}
<1>1. "hkdf_derive_label" \in Callees /\ {k} \in SUBSET Secrets
  BY DEF Callees, Secrets
<1> QED  BY <1>1, CallingFilling DEF Label

LEMMA DeriveApplicationKeysOK == FunctionOK("derive_application_keys")
<1>1. /\ {"client_key", "server_key", "client_iv", "server_iv"} = ApplicationKeys
      /\ ApplicationKeys \intersect Names = {} /\ ApplicationKeys \in SUBSET Secrets
  BY DEF Secrets, Names, CalleeObjects, ProgramObjects, ApplicationKeys
<1>2. PICK steps : steps = Labels
  OBVIOUS
<1>3. /\ steps \in Seq(StepKind) /\ Len(steps) = 4
      /\ steps[1] = Label("client_key") /\ steps[2] = Label("server_key")
      /\ steps[3] = Label("client_iv") /\ steps[4] = Label("server_iv")
  <2>1. /\ Label("client_key") \in StepKind /\ Label("server_key") \in StepKind
        /\ Label("client_iv") \in StepKind /\ Label("server_iv") \in StepKind
    BY <1>1, ALabel
  <2> QED  BY <1>2, <2>1 DEF Labels
<1>4. PICK release : release = <<Erase(ApplicationKeys)>>
  OBVIOUS
<1>5. /\ Erase(ApplicationKeys) \in ReleaseType /\ Erase(ApplicationKeys).frees = {}
      /\ Erase(ApplicationKeys).erases = ApplicationKeys /\ Erase(ApplicationKeys).given = {}
      /\ Erase(ApplicationKeys).after = 0
  BY <1>1, ErasingIt
<1>6. release \in Seq(ReleaseType) /\ Len(release) = 1 /\ release[1] = Erase(ApplicationKeys)
  BY <1>4, <1>5
<1>7. \A i \in 1..Len(steps) : \E k \in ApplicationKeys : steps[i] = Label(k)
  <2>1. \A i \in 1..Len(steps) : i = 1 \/ i = 2 \/ i = 3 \/ i = 4
    BY <1>3
  <2> QED  BY <1>1, <1>3, <2>1
<1>8. ASSUME NEW i \in 1..Len(steps)
      PROVE  /\ Gives(steps[i]) = {} /\ steps[i].fills \intersect Names = {}
             /\ ~Deriver(steps[i].calls)
             /\ steps[i].verifies = {} /\ steps[i].decrypts = {}
  <2>1. PICK k \in ApplicationKeys : steps[i] = Label(k)
    BY <1>7
  <2> QED  BY <1>1, <2>1, ALabel DEF Gives, Deriver
<1>9. \A j \in 1..Len(release) : release[j].frees = {} /\ release[j].given = {}
          /\ release[j].after = 0
  BY <1>5, <1>6
<1>10. WipesAll(release[1])
  BY <1>5, <1>6 DEF WipesAll
<1>11. PICK W : W = [o \in {} |-> 1] /\ DOMAIN W = {}
  OBVIOUS
<1>12. Functions["derive_application_keys"] = Body(steps, release, {5})
  <2>1. {Len(Labels) + 1} = {5}
    BY <1>2, <1>3
  <2>2. Functions["derive_application_keys"] = Body(Labels, <<Erase(ApplicationKeys)>>, {5})
    BY <2>1, TableOf DEF derive_application_keys
  <2> QED  BY <1>2, <1>4, <2>2
<1>13. /\ Fits("derive_application_keys", steps, release, {5}, W, W)
       /\ Owns("derive_application_keys", steps, W)
  BY <1>3, <1>6, <1>8, <1>9, <1>11, <1>12, NoObject
<1>14. ApplicationKeys \subseteq UNION {steps[i].fills : i \in 1..Len(steps)}
  <2>1. ASSUME NEW k \in ApplicationKeys PROVE \E i \in 1..Len(steps) : k \in steps[i].fills
    <3>1. PICK i \in 1..Len(steps) : steps[i] = Label(k)
      BY <1>1, <1>3
    <3> QED  BY <3>1, ALabel
  <2> QED  BY <2>1
<1>15. KeepsTo("derive_application_keys", steps, release, {5})
  <2>1. Deriver("derive_application_keys") /\ "derive_application_keys" \in Callees
    BY DEF Deriver, Callees
  <2>2. \A j \in 1..Len(release) : WipesAll(release[j])
    BY <1>6, <1>10
  <2>3. /\ Len(steps) + 1 \in {5} /\ \A at \in 1..Len(steps) : at \notin {5}
        /\ \E j \in 1..Len(release) : WipesAll(release[j])
    BY <1>3, <1>6, <1>10
  <2> QED  BY <1>8, <1>14, <2>1, <2>2, <2>3 DEF KeepsTo
<1> QED  BY <1>13, <1>15 DEF FunctionOK

LEMMA GenerateDsaKeypairOK == FunctionOK("generate_dsa_keypair")
<1>1. /\ {"sig", "public_key", "secret_key"} \subseteq Names
      /\ {"sig", "public_key", "secret_key"} \subseteq ProgramObjects
      /\ {"secret_key"} \subseteq Secrets \ ApplicationKeys
      /\ {"sig", "public_key"} \intersect Secrets = {}
      /\ "ctx" \notin {"sig", "public_key", "secret_key"}
      /\ "generate_dsa_keypair" \in ProgramNames \ Callees
  BY DEF Names, ProgramObjects, Secrets, ApplicationKeys, ProgramNames, Callees
<1>2. PICK steps : steps = <<Get({"sig"}), Get({"public_key", "secret_key"}),
               Fill({"secret_key"}), Call("KeyFile"), Call("KeyFile")>>
  OBVIOUS
<1>3. PICK release : release = GeneratorCleanup
  OBVIOUS
<1>4. /\ Get({"sig"}) \in StepKind /\ Get({"sig"}).calls = "none"
      /\ Get({"sig"}).gets = {"sig"} /\ Get({"sig"}).fills = {}
      /\ Get({"sig"}).decrypts = {} /\ Get({"sig"}).verifies = {}
  <2>1. {"sig"} \in SUBSET Names
    BY <1>1
  <2> QED  BY <2>1, Getting
<1>5. /\ Get({"public_key", "secret_key"}) \in StepKind /\ Get({"public_key",
             "secret_key"}).calls = "none"
      /\ Get({"public_key", "secret_key"}).gets = {"public_key", "secret_key"}
      /\ Get({"public_key", "secret_key"}).fills = {}
      /\ Get({"public_key", "secret_key"}).decrypts = {}
      /\ Get({"public_key", "secret_key"}).verifies = {}
  <2>1. {"public_key", "secret_key"} \in SUBSET Names
    BY <1>1
  <2> QED  BY <2>1, Getting
<1>6. /\ Fill({"secret_key"}) \in StepKind /\ Fill({"secret_key"}).calls = "none"
      /\ Fill({"secret_key"}).gets = {} /\ Fill({"secret_key"}).fills = {"secret_key"}
      /\ Fill({"secret_key"}).decrypts = {} /\ Fill({"secret_key"}).verifies = {}
  <2>1. {"secret_key"} \in SUBSET Secrets
    BY <1>1
  <2> QED  BY <2>1, FillingStep
<1>7. /\ Call("KeyFile") \in StepKind /\ Call("KeyFile").calls = "KeyFile"
      /\ Call("KeyFile").gets = {} /\ Call("KeyFile").fills = {}
      /\ Call("KeyFile").decrypts = {} /\ Call("KeyFile").verifies = {}
  <2>1. "KeyFile" \in Callees
    BY DEF Callees
  <2> QED  BY <2>1, Calling
<1>8. /\ SecureFree("secret_key", "sig") \in ReleaseType
      /\ SecureFree("secret_key", "sig").frees = {"secret_key"}
      /\ SecureFree("secret_key", "sig").erases = {"secret_key"}
      /\ SecureFree("secret_key", "sig").given = {"sig"}
      /\ SecureFree("secret_key", "sig").after = 0
  <2>1. "secret_key" \in Names /\ "secret_key" \in Secrets /\ "sig" \in Names
    BY <1>1
  <2> QED  BY <2>1, FreeingSecurely
<1>9. /\ Free("public_key") \in ReleaseType /\ Free("public_key").frees = {"public_key"}
      /\ Free("public_key").erases = {} /\ Free("public_key").given = {}
      /\ Free("public_key").after = 0
  <2>1. "public_key" \in Names
    BY <1>1
  <2> QED  BY <2>1, FreeingIt
<1>10. /\ Free("sig") \in ReleaseType /\ Free("sig").frees = {"sig"}
       /\ Free("sig").erases = {} /\ Free("sig").given = {} /\ Free("sig").after = 0
  <2>1. "sig" \in Names
    BY <1>1
  <2> QED  BY <2>1, FreeingIt
<1>11. /\ steps \in Seq(StepKind) /\ Len(steps) = 5
       /\ steps[1] = Get({"sig"})
       /\ steps[2] = Get({"public_key", "secret_key"})
       /\ steps[3] = Fill({"secret_key"})
       /\ steps[4] = Call("KeyFile")
       /\ steps[5] = Call("KeyFile")
  BY <1>2, <1>4, <1>5, <1>6, <1>7, Trying
<1>12. /\ release \in Seq(ReleaseType) /\ Len(release) = 3
       /\ release[1] = SecureFree("secret_key", "sig")
       /\ release[2] = Free("public_key")
       /\ release[3] = Free("sig")
  BY <1>3, <1>8, <1>9, <1>10 DEF GeneratorCleanup
<1>13. PICK W : W = [o \in {"sig", "public_key", "secret_key"} |-> IF o = "sig" THEN 1
                ELSE IF o = "public_key" THEN 2 ELSE 2]
  OBVIOUS
<1>14. PICK F : F = [o \in {"sig", "public_key", "secret_key"} |-> IF o = "sig" THEN 3
                ELSE IF o = "public_key" THEN 2 ELSE 1]
  OBVIOUS
<1>15. /\ DOMAIN W = {"sig", "public_key", "secret_key"}
       /\ W["sig"] = 1 /\ W["public_key"] = 2 /\ W["secret_key"] = 2
       /\ F["sig"] = 3 /\ F["public_key"] = 2 /\ F["secret_key"] = 1
  BY <1>13, <1>14
<1>16. /\ \A i \in 1..Len(steps) : i = 1 \/ i = 2 \/ i = 3 \/ i = 4 \/ i = 5
       /\ \A j \in 1..Len(release) : j = 1 \/ j = 2 \/ j = 3
  BY <1>11, <1>12
<1>17. Layout(steps, release, W, F)
  BY <1>1, <1>8, <1>9, <1>10, <1>11, <1>12, <1>15 DEF Layout, Alone
<1>18. StepsFit(steps, W)
  <2> SUFFICES ASSUME NEW i \in 1..Len(steps) PROVE StepFits(steps[i], i, W)
    BY DEF StepsFit
  <2>1. CASE i = 1
    BY <1>4, <1>11, <1>15, <2>1 DEF StepFits, Gives
  <2>2. CASE i = 2
    BY <1>5, <1>11, <1>15, <2>2 DEF StepFits, Gives
  <2>3. CASE i = 3
    BY <1>6, <1>11, <1>15, <2>3 DEF StepFits, Gives
  <2>4. CASE i = 4
    BY <1>7, <1>11, <1>15, <2>4 DEF StepFits, Gives
  <2>5. CASE i = 5
    BY <1>7, <1>11, <1>15, <2>5 DEF StepFits, Gives
  <2> QED  BY <1>16, <2>1, <2>2, <2>3, <2>4, <2>5
<1>19. ReleasesFit(release, W, F)
  <2> SUFFICES ASSUME NEW j \in 1..Len(release)
               PROVE  ReleaseFits(release[j], j, W, F)
                          /\ "ctx" \notin release[j].frees \union release[j].given
    BY DEF ReleasesFit
  <2>1. CASE j = 1
    BY <1>1, <1>8, <1>12, <1>15, <2>1 DEF ReleaseFits
  <2>2. CASE j = 2
    BY <1>1, <1>9, <1>12, <1>15, <2>2 DEF ReleaseFits
  <2>3. CASE j = 3
    BY <1>1, <1>10, <1>12, <1>15, <2>3 DEF ReleaseFits
  <2> QED  BY <1>16, <2>1, <2>2, <2>3
<1>20. Owns("generate_dsa_keypair", steps, W)
  BY <1>1, <1>15 DEF Owns
<1>21. \A i \in 1..Len(steps) : Plain(steps[i])
  BY <1>1, <1>4, <1>5, <1>6, <1>7, <1>11, <1>16, Trying DEF Plain
<1>22. \A j \in 1..Len(release) : release[j].erases \intersect ApplicationKeys = {}
  BY <1>1, <1>8, <1>9, <1>10, <1>12, <1>16
<1>23. Functions["generate_dsa_keypair"] = Body(steps, release, {1})
  BY <1>2, <1>3, TableOf DEF generate_dsa_keypair
<1>24. ~Deriver("generate_dsa_keypair") /\ "generate_dsa_keypair" # "transcript_init" /\ {1}
           \in SUBSET {1}
  BY DEF Deriver
<1> QED  BY <1>11, <1>12, <1>17, <1>18, <1>19, <1>20, <1>21, <1>22, <1>23, <1>24, Holder

LEMMA KemDemoOK == FunctionOK("kem_demo")
<1>1. /\ {"kem", "public_key", "secret_key", "ciphertext", "shared_secret_e", "shared_secret_d"}
             \subseteq Names /\ {"kem", "public_key", "secret_key", "ciphertext",
                 "shared_secret_e", "shared_secret_d"} \subseteq ProgramObjects
      /\ {"secret_key", "shared_secret_e", "shared_secret_d"} \subseteq Secrets \ ApplicationKeys
      /\ {"kem", "public_key", "ciphertext"} \intersect Secrets = {}
      /\ "ctx" \notin {"kem", "public_key", "secret_key", "ciphertext", "shared_secret_e",
             "shared_secret_d"}
      /\ "kem_demo" \in ProgramNames \ Callees
  BY DEF Names, ProgramObjects, Secrets, ApplicationKeys, ProgramNames, Callees
<1>2. PICK steps : steps = <<Get({"kem"}), Get({"public_key", "secret_key", "ciphertext",
               "shared_secret_e", "shared_secret_d"}), Fill({"secret_key"}),
                   Fill({"shared_secret_e"}), Fill({"shared_secret_d"})>>
  OBVIOUS
<1>3. PICK release : release = KemCleanup
  OBVIOUS
<1>4. /\ Get({"kem"}) \in StepKind /\ Get({"kem"}).calls = "none"
      /\ Get({"kem"}).gets = {"kem"} /\ Get({"kem"}).fills = {}
      /\ Get({"kem"}).decrypts = {} /\ Get({"kem"}).verifies = {}
  <2>1. {"kem"} \in SUBSET Names
    BY <1>1
  <2> QED  BY <2>1, Getting
<1>5. /\ Get({"public_key", "secret_key", "ciphertext", "shared_secret_e", "shared_secret_d"})
             \in StepKind /\ Get({"public_key", "secret_key", "ciphertext", "shared_secret_e",
                 "shared_secret_d"}).calls = "none"
      /\ Get({"public_key", "secret_key", "ciphertext", "shared_secret_e",
             "shared_secret_d"}).gets = {"public_key", "secret_key", "ciphertext",
                 "shared_secret_e", "shared_secret_d"} /\ Get({"public_key", "secret_key",
                     "ciphertext", "shared_secret_e", "shared_secret_d"}).fills = {}
      /\ Get({"public_key", "secret_key", "ciphertext", "shared_secret_e",
             "shared_secret_d"}).decrypts = {} /\ Get({"public_key", "secret_key", "ciphertext",
                 "shared_secret_e", "shared_secret_d"}).verifies = {}
  <2>1. {"public_key", "secret_key", "ciphertext", "shared_secret_e", "shared_secret_d"}
            \in SUBSET Names
    BY <1>1
  <2> QED  BY <2>1, Getting
<1>6. /\ Fill({"secret_key"}) \in StepKind /\ Fill({"secret_key"}).calls = "none"
      /\ Fill({"secret_key"}).gets = {} /\ Fill({"secret_key"}).fills = {"secret_key"}
      /\ Fill({"secret_key"}).decrypts = {} /\ Fill({"secret_key"}).verifies = {}
  <2>1. {"secret_key"} \in SUBSET Secrets
    BY <1>1
  <2> QED  BY <2>1, FillingStep
<1>7. /\ Fill({"shared_secret_e"}) \in StepKind /\ Fill({"shared_secret_e"}).calls = "none"
      /\ Fill({"shared_secret_e"}).gets = {}
      /\ Fill({"shared_secret_e"}).fills = {"shared_secret_e"}
      /\ Fill({"shared_secret_e"}).decrypts = {} /\ Fill({"shared_secret_e"}).verifies = {}
  <2>1. {"shared_secret_e"} \in SUBSET Secrets
    BY <1>1
  <2> QED  BY <2>1, FillingStep
<1>8. /\ Fill({"shared_secret_d"}) \in StepKind /\ Fill({"shared_secret_d"}).calls = "none"
      /\ Fill({"shared_secret_d"}).gets = {}
      /\ Fill({"shared_secret_d"}).fills = {"shared_secret_d"}
      /\ Fill({"shared_secret_d"}).decrypts = {} /\ Fill({"shared_secret_d"}).verifies = {}
  <2>1. {"shared_secret_d"} \in SUBSET Secrets
    BY <1>1
  <2> QED  BY <2>1, FillingStep
<1>9. /\ SecureFree("secret_key", "kem") \in ReleaseType
      /\ SecureFree("secret_key", "kem").frees = {"secret_key"}
      /\ SecureFree("secret_key", "kem").erases = {"secret_key"}
      /\ SecureFree("secret_key", "kem").given = {"kem"}
      /\ SecureFree("secret_key", "kem").after = 0
  <2>1. "secret_key" \in Names /\ "secret_key" \in Secrets /\ "kem" \in Names
    BY <1>1
  <2> QED  BY <2>1, FreeingSecurely
<1>10. /\ SecureFree("shared_secret_e", "kem") \in ReleaseType
       /\ SecureFree("shared_secret_e", "kem").frees = {"shared_secret_e"}
       /\ SecureFree("shared_secret_e", "kem").erases = {"shared_secret_e"}
       /\ SecureFree("shared_secret_e", "kem").given = {"kem"}
       /\ SecureFree("shared_secret_e", "kem").after = 0
  <2>1. "shared_secret_e" \in Names /\ "shared_secret_e" \in Secrets /\ "kem" \in Names
    BY <1>1
  <2> QED  BY <2>1, FreeingSecurely
<1>11. /\ SecureFree("shared_secret_d", "kem") \in ReleaseType
       /\ SecureFree("shared_secret_d", "kem").frees = {"shared_secret_d"}
       /\ SecureFree("shared_secret_d", "kem").erases = {"shared_secret_d"}
       /\ SecureFree("shared_secret_d", "kem").given = {"kem"}
       /\ SecureFree("shared_secret_d", "kem").after = 0
  <2>1. "shared_secret_d" \in Names /\ "shared_secret_d" \in Secrets /\ "kem" \in Names
    BY <1>1
  <2> QED  BY <2>1, FreeingSecurely
<1>12. /\ Free("public_key") \in ReleaseType /\ Free("public_key").frees = {"public_key"}
       /\ Free("public_key").erases = {} /\ Free("public_key").given = {}
       /\ Free("public_key").after = 0
  <2>1. "public_key" \in Names
    BY <1>1
  <2> QED  BY <2>1, FreeingIt
<1>13. /\ Free("ciphertext") \in ReleaseType /\ Free("ciphertext").frees = {"ciphertext"}
       /\ Free("ciphertext").erases = {} /\ Free("ciphertext").given = {}
       /\ Free("ciphertext").after = 0
  <2>1. "ciphertext" \in Names
    BY <1>1
  <2> QED  BY <2>1, FreeingIt
<1>14. /\ Free("kem") \in ReleaseType /\ Free("kem").frees = {"kem"}
       /\ Free("kem").erases = {} /\ Free("kem").given = {} /\ Free("kem").after = 0
  <2>1. "kem" \in Names
    BY <1>1
  <2> QED  BY <2>1, FreeingIt
<1>15. /\ steps \in Seq(StepKind) /\ Len(steps) = 5
       /\ steps[1] = Get({"kem"})
       /\ steps[2] = Get({"public_key", "secret_key", "ciphertext", "shared_secret_e",
              "shared_secret_d"})
       /\ steps[3] = Fill({"secret_key"})
       /\ steps[4] = Fill({"shared_secret_e"})
       /\ steps[5] = Fill({"shared_secret_d"})
  BY <1>2, <1>4, <1>5, <1>6, <1>7, <1>8, Trying
<1>16. /\ release \in Seq(ReleaseType) /\ Len(release) = 6
       /\ release[1] = SecureFree("secret_key", "kem")
       /\ release[2] = SecureFree("shared_secret_e", "kem")
       /\ release[3] = SecureFree("shared_secret_d", "kem")
       /\ release[4] = Free("public_key")
       /\ release[5] = Free("ciphertext")
       /\ release[6] = Free("kem")
  BY <1>3, <1>9, <1>10, <1>11, <1>12, <1>13, <1>14 DEF KemCleanup
<1>17. PICK W : W = [o \in {"kem", "public_key", "secret_key", "ciphertext", "shared_secret_e",
                "shared_secret_d"} |-> IF o = "kem" THEN 1 ELSE IF o = "public_key" THEN 2
                    ELSE IF o = "secret_key" THEN 2 ELSE IF o = "ciphertext" THEN 2
                        ELSE IF o = "shared_secret_e" THEN 2 ELSE 2]
  OBVIOUS
<1>18. PICK F : F = [o \in {"kem", "public_key", "secret_key", "ciphertext", "shared_secret_e",
                "shared_secret_d"} |-> IF o = "kem" THEN 6 ELSE IF o = "public_key" THEN 4
                    ELSE IF o = "secret_key" THEN 1 ELSE IF o = "ciphertext" THEN 5
                        ELSE IF o = "shared_secret_e" THEN 2 ELSE 3]
  OBVIOUS
<1>19. /\ DOMAIN W = {"kem", "public_key", "secret_key", "ciphertext", "shared_secret_e",
              "shared_secret_d"}
       /\ W["kem"] = 1 /\ W["public_key"] = 2 /\ W["secret_key"] = 2 /\ W["ciphertext"] = 2
       /\ W["shared_secret_e"] = 2 /\ W["shared_secret_d"] = 2
       /\ F["kem"] = 6 /\ F["public_key"] = 4 /\ F["secret_key"] = 1 /\ F["ciphertext"] = 5
       /\ F["shared_secret_e"] = 2 /\ F["shared_secret_d"] = 3
  BY <1>17, <1>18
<1>20. /\ \A i \in 1..Len(steps) : i = 1 \/ i = 2 \/ i = 3 \/ i = 4 \/ i = 5
       /\ \A j \in 1..Len(release) : j = 1 \/ j = 2 \/ j = 3 \/ j = 4 \/ j = 5 \/ j = 6
  BY <1>15, <1>16
<1>21. Layout(steps, release, W, F)
  BY <1>1, <1>9, <1>10, <1>11, <1>12, <1>13, <1>14, <1>15, <1>16, <1>19 DEF Layout, Alone
<1>22. StepsFit(steps, W)
  <2> SUFFICES ASSUME NEW i \in 1..Len(steps) PROVE StepFits(steps[i], i, W)
    BY DEF StepsFit
  <2>1. CASE i = 1
    BY <1>4, <1>15, <1>19, <2>1 DEF StepFits, Gives
  <2>2. CASE i = 2
    BY <1>5, <1>15, <1>19, <2>2 DEF StepFits, Gives
  <2>3. CASE i = 3
    BY <1>6, <1>15, <1>19, <2>3 DEF StepFits, Gives
  <2>4. CASE i = 4
    BY <1>7, <1>15, <1>19, <2>4 DEF StepFits, Gives
  <2>5. CASE i = 5
    BY <1>8, <1>15, <1>19, <2>5 DEF StepFits, Gives
  <2> QED  BY <1>20, <2>1, <2>2, <2>3, <2>4, <2>5
<1>23. ReleasesFit(release, W, F)
  <2> SUFFICES ASSUME NEW j \in 1..Len(release)
               PROVE  ReleaseFits(release[j], j, W, F)
                          /\ "ctx" \notin release[j].frees \union release[j].given
    BY DEF ReleasesFit
  <2>1. CASE j = 1
    BY <1>1, <1>9, <1>16, <1>19, <2>1 DEF ReleaseFits
  <2>2. CASE j = 2
    BY <1>1, <1>10, <1>16, <1>19, <2>2 DEF ReleaseFits
  <2>3. CASE j = 3
    BY <1>1, <1>11, <1>16, <1>19, <2>3 DEF ReleaseFits
  <2>4. CASE j = 4
    BY <1>1, <1>12, <1>16, <1>19, <2>4 DEF ReleaseFits
  <2>5. CASE j = 5
    BY <1>1, <1>13, <1>16, <1>19, <2>5 DEF ReleaseFits
  <2>6. CASE j = 6
    BY <1>1, <1>14, <1>16, <1>19, <2>6 DEF ReleaseFits
  <2> QED  BY <1>20, <2>1, <2>2, <2>3, <2>4, <2>5, <2>6
<1>24. Owns("kem_demo", steps, W)
  BY <1>1, <1>19 DEF Owns
<1>25. \A i \in 1..Len(steps) : Plain(steps[i])
  BY <1>1, <1>4, <1>5, <1>6, <1>7, <1>8, <1>15, <1>20, Trying DEF Plain
<1>26. \A j \in 1..Len(release) : release[j].erases \intersect ApplicationKeys = {}
  BY <1>1, <1>9, <1>10, <1>11, <1>12, <1>13, <1>14, <1>16, <1>20
<1>27. Functions["kem_demo"] = Body(steps, release, {1})
  BY <1>2, <1>3, TableOf DEF kem_demo
<1>28. ~Deriver("kem_demo") /\ "kem_demo" # "transcript_init" /\ {1} \in SUBSET {1}
  BY DEF Deriver
<1> QED  BY <1>15, <1>16, <1>21, <1>22, <1>23, <1>24, <1>25, <1>26, <1>27, <1>28, Holder

LEMMA SigDemoOK == FunctionOK("sig_demo")
<1>1. /\ {"sig", "public_key", "secret_key", "signature", "message"} \subseteq Names
      /\ {"sig", "public_key", "secret_key", "signature", "message"} \subseteq ProgramObjects
      /\ {"secret_key"} \subseteq Secrets \ ApplicationKeys
      /\ {"sig", "public_key", "signature", "message"} \intersect Secrets = {}
      /\ "ctx" \notin {"sig", "public_key", "secret_key", "signature", "message"}
      /\ "sig_demo" \in ProgramNames \ Callees
  BY DEF Names, ProgramObjects, Secrets, ApplicationKeys, ProgramNames, Callees
<1>2. PICK steps : steps = <<Get({"sig"}), Get({"public_key", "secret_key", "signature",
               "message"}), Fill({"secret_key"}), Try, Try>>
  OBVIOUS
<1>3. PICK release : release = SigCleanup
  OBVIOUS
<1>4. /\ Get({"sig"}) \in StepKind /\ Get({"sig"}).calls = "none"
      /\ Get({"sig"}).gets = {"sig"} /\ Get({"sig"}).fills = {}
      /\ Get({"sig"}).decrypts = {} /\ Get({"sig"}).verifies = {}
  <2>1. {"sig"} \in SUBSET Names
    BY <1>1
  <2> QED  BY <2>1, Getting
<1>5. /\ Get({"public_key", "secret_key", "signature", "message"}) \in StepKind
      /\ Get({"public_key", "secret_key", "signature", "message"}).calls = "none"
      /\ Get({"public_key", "secret_key", "signature", "message"}).gets = {"public_key",
             "secret_key", "signature", "message"} /\ Get({"public_key", "secret_key",
                 "signature", "message"}).fills = {}
      /\ Get({"public_key", "secret_key", "signature", "message"}).decrypts = {}
      /\ Get({"public_key", "secret_key", "signature", "message"}).verifies = {}
  <2>1. {"public_key", "secret_key", "signature", "message"} \in SUBSET Names
    BY <1>1
  <2> QED  BY <2>1, Getting
<1>6. /\ Fill({"secret_key"}) \in StepKind /\ Fill({"secret_key"}).calls = "none"
      /\ Fill({"secret_key"}).gets = {} /\ Fill({"secret_key"}).fills = {"secret_key"}
      /\ Fill({"secret_key"}).decrypts = {} /\ Fill({"secret_key"}).verifies = {}
  <2>1. {"secret_key"} \in SUBSET Secrets
    BY <1>1
  <2> QED  BY <2>1, FillingStep
<1>7. /\ SecureFree("secret_key", "sig") \in ReleaseType
      /\ SecureFree("secret_key", "sig").frees = {"secret_key"}
      /\ SecureFree("secret_key", "sig").erases = {"secret_key"}
      /\ SecureFree("secret_key", "sig").given = {"sig"}
      /\ SecureFree("secret_key", "sig").after = 0
  <2>1. "secret_key" \in Names /\ "secret_key" \in Secrets /\ "sig" \in Names
    BY <1>1
  <2> QED  BY <2>1, FreeingSecurely
<1>8. /\ Free("public_key") \in ReleaseType /\ Free("public_key").frees = {"public_key"}
      /\ Free("public_key").erases = {} /\ Free("public_key").given = {}
      /\ Free("public_key").after = 0
  <2>1. "public_key" \in Names
    BY <1>1
  <2> QED  BY <2>1, FreeingIt
<1>9. /\ Free("message") \in ReleaseType /\ Free("message").frees = {"message"}
      /\ Free("message").erases = {} /\ Free("message").given = {} /\ Free("message").after = 0
  <2>1. "message" \in Names
    BY <1>1
  <2> QED  BY <2>1, FreeingIt
<1>10. /\ Free("signature") \in ReleaseType /\ Free("signature").frees = {"signature"}
       /\ Free("signature").erases = {} /\ Free("signature").given = {}
       /\ Free("signature").after = 0
  <2>1. "signature" \in Names
    BY <1>1
  <2> QED  BY <2>1, FreeingIt
<1>11. /\ Free("sig") \in ReleaseType /\ Free("sig").frees = {"sig"}
       /\ Free("sig").erases = {} /\ Free("sig").given = {} /\ Free("sig").after = 0
  <2>1. "sig" \in Names
    BY <1>1
  <2> QED  BY <2>1, FreeingIt
<1>12. /\ steps \in Seq(StepKind) /\ Len(steps) = 5
       /\ steps[1] = Get({"sig"})
       /\ steps[2] = Get({"public_key", "secret_key", "signature", "message"})
       /\ steps[3] = Fill({"secret_key"})
       /\ steps[4] = Try
       /\ steps[5] = Try
  BY <1>2, <1>4, <1>5, <1>6, Trying
<1>13. /\ release \in Seq(ReleaseType) /\ Len(release) = 5
       /\ release[1] = SecureFree("secret_key", "sig")
       /\ release[2] = Free("public_key")
       /\ release[3] = Free("message")
       /\ release[4] = Free("signature")
       /\ release[5] = Free("sig")
  BY <1>3, <1>7, <1>8, <1>9, <1>10, <1>11 DEF SigCleanup
<1>14. PICK W : W = [o \in {"sig", "public_key", "secret_key", "signature",
                "message"} |-> IF o = "sig" THEN 1 ELSE IF o = "public_key" THEN 2
                    ELSE IF o = "secret_key" THEN 2 ELSE IF o = "signature" THEN 2 ELSE 2]
  OBVIOUS
<1>15. PICK F : F = [o \in {"sig", "public_key", "secret_key", "signature",
                "message"} |-> IF o = "sig" THEN 5 ELSE IF o = "public_key" THEN 2
                    ELSE IF o = "secret_key" THEN 1 ELSE IF o = "signature" THEN 4 ELSE 3]
  OBVIOUS
<1>16. /\ DOMAIN W = {"sig", "public_key", "secret_key", "signature", "message"}
       /\ W["sig"] = 1 /\ W["public_key"] = 2 /\ W["secret_key"] = 2 /\ W["signature"] = 2
       /\ W["message"] = 2
       /\ F["sig"] = 5 /\ F["public_key"] = 2 /\ F["secret_key"] = 1 /\ F["signature"] = 4
       /\ F["message"] = 3
  BY <1>14, <1>15
<1>17. /\ \A i \in 1..Len(steps) : i = 1 \/ i = 2 \/ i = 3 \/ i = 4 \/ i = 5
       /\ \A j \in 1..Len(release) : j = 1 \/ j = 2 \/ j = 3 \/ j = 4 \/ j = 5
  BY <1>12, <1>13
<1>18. Layout(steps, release, W, F)
  BY <1>1, <1>7, <1>8, <1>9, <1>10, <1>11, <1>12, <1>13, <1>16 DEF Layout, Alone
<1>19. StepsFit(steps, W)
  <2> SUFFICES ASSUME NEW i \in 1..Len(steps) PROVE StepFits(steps[i], i, W)
    BY DEF StepsFit
  <2>1. CASE i = 1
    BY <1>4, <1>12, <1>16, <2>1 DEF StepFits, Gives
  <2>2. CASE i = 2
    BY <1>5, <1>12, <1>16, <2>2 DEF StepFits, Gives
  <2>3. CASE i = 3
    BY <1>6, <1>12, <1>16, <2>3 DEF StepFits, Gives
  <2>4. CASE i = 4
    BY Trying, <1>12, <1>16, <2>4 DEF StepFits, Gives
  <2>5. CASE i = 5
    BY Trying, <1>12, <1>16, <2>5 DEF StepFits, Gives
  <2> QED  BY <1>17, <2>1, <2>2, <2>3, <2>4, <2>5
<1>20. ReleasesFit(release, W, F)
  <2> SUFFICES ASSUME NEW j \in 1..Len(release)
               PROVE  ReleaseFits(release[j], j, W, F)
                          /\ "ctx" \notin release[j].frees \union release[j].given
    BY DEF ReleasesFit
  <2>1. CASE j = 1
    BY <1>1, <1>7, <1>13, <1>16, <2>1 DEF ReleaseFits
  <2>2. CASE j = 2
    BY <1>1, <1>8, <1>13, <1>16, <2>2 DEF ReleaseFits
  <2>3. CASE j = 3
    BY <1>1, <1>9, <1>13, <1>16, <2>3 DEF ReleaseFits
  <2>4. CASE j = 4
    BY <1>1, <1>10, <1>13, <1>16, <2>4 DEF ReleaseFits
  <2>5. CASE j = 5
    BY <1>1, <1>11, <1>13, <1>16, <2>5 DEF ReleaseFits
  <2> QED  BY <1>17, <2>1, <2>2, <2>3, <2>4, <2>5
<1>21. Owns("sig_demo", steps, W)
  BY <1>1, <1>16 DEF Owns
<1>22. \A i \in 1..Len(steps) : Plain(steps[i])
  BY <1>1, <1>4, <1>5, <1>6, <1>12, <1>17, Trying DEF Plain
<1>23. \A j \in 1..Len(release) : release[j].erases \intersect ApplicationKeys = {}
  BY <1>1, <1>7, <1>8, <1>9, <1>10, <1>11, <1>13, <1>17
<1>24. Functions["sig_demo"] = Body(steps, release, {1})
  BY <1>2, <1>3, TableOf DEF sig_demo
<1>25. ~Deriver("sig_demo") /\ "sig_demo" # "transcript_init" /\ {1} \in SUBSET {1}
  BY DEF Deriver
<1> QED  BY <1>12, <1>13, <1>18, <1>19, <1>20, <1>21, <1>22, <1>23, <1>24, <1>25, Holder

\* Steps a program takes once it has set everything up.
Quiet ==
    {step \in StepKind :
        /\ Gives(step) = {} /\ step.fills \intersect Names \subseteq {"shared_secret"}
        /\ step.fills \intersect ApplicationKeys = {} /\ step.decrypts = {} /\ step.verifies = {}}

\* A program that starts with init and is quiet after it.
Continues(init, steps) ==
    /\ init \in Seq(StepKind) /\ steps \in Seq(StepKind) /\ Len(init) <= Len(steps)
    /\ \A i \in 1..Len(steps) : IF i <= Len(init) THEN steps[i] = init[i] ELSE steps[i] \in Quiet

LEMMA QuietTry == Try \in Quiet
BY Trying DEF Quiet, Gives

LEMMA QuietCall ==
    ASSUME NEW g \in Callees \ {"transcript_init"}
    PROVE  Call(g) \in Quiet
BY Calling DEF Quiet, Gives

LEMMA QuietFill ==
    ASSUME NEW m \in SUBSET {"shared_secret", "recv_state", "send_state"}
    PROVE  Fill(m) \in Quiet
<1>1. /\ m \in SUBSET Secrets /\ m \intersect Names \subseteq {"shared_secret"}
      /\ m \intersect ApplicationKeys = {}
  BY DEF Secrets, Names, CalleeObjects, ProgramObjects, ApplicationKeys
<1> QED  BY <1>1, FillingStep DEF Quiet, Gives

LEMMA StartsItself ==
    ASSUME NEW init \in Seq(StepKind)
    PROVE  Continues(init, init)
<1>1. Len(init) \in Nat
  OBVIOUS
<1> QED  BY <1>1 DEF Continues

LEMMA Continuing ==
    ASSUME NEW init, NEW steps, Continues(init, steps), NEW rest \in Seq(Quiet)
    PROVE  Continues(init, steps \o rest)
<1>1. init \in Seq(StepKind) /\ steps \in Seq(StepKind) /\ rest \in Seq(StepKind)
          /\ Len(init) <= Len(steps)
  BY DEF Continues, Quiet
<1>2. PICK all : all = steps \o rest
  OBVIOUS
<1>3. /\ all \in Seq(StepKind) /\ Len(all) = Len(steps) + Len(rest)
      /\ Len(init) \in Nat /\ Len(steps) \in Nat /\ Len(rest) \in Nat
  BY <1>1, <1>2
<1>4. ASSUME NEW i \in 1..Len(all)
      PROVE  IF i <= Len(init) THEN all[i] = init[i] ELSE all[i] \in Quiet
  <2>1. CASE i <= Len(steps)
    <3>1. all[i] = steps[i] /\ i \in 1..Len(steps)
      BY <1>1, <1>2, <1>3, <2>1
    <3> QED  BY <3>1 DEF Continues
  <2>2. CASE ~(i <= Len(steps))
    <3>1. all[i] = rest[i - Len(steps)] /\ i - Len(steps) \in 1..Len(rest)
      BY <1>1, <1>2, <1>3, <2>2
    <3> QED  BY <1>1, <1>3, <2>2, <3>1
  <2> QED  BY <2>1, <2>2
<1> QED  BY <1>1, <1>2, <1>3, <1>4 DEF Continues

LEMMA ContinuedFits ==
    ASSUME NEW init, NEW steps, Continues(init, steps), NEW W,
           \A o \in DOMAIN W : W[o] \in 1..Len(init), "shared_secret" \in DOMAIN W,
               StepsFit(init, W)
    PROVE  StepsFit(steps, W)
<1>1. init \in Seq(StepKind) /\ steps \in Seq(StepKind) /\ Len(init) \in Nat /\ Len(steps) \in Nat
  BY DEF Continues
<1>2. ASSUME NEW i \in 1..Len(steps) PROVE StepFits(steps[i], i, W)
  <2>1. CASE i <= Len(init)
    BY <1>1, <2>1 DEF Continues, StepsFit
  <2>2. CASE ~(i <= Len(init))
    <3>1. steps[i] \in Quiet /\ \A o \in DOMAIN W : W[o] < i
      BY <1>1, <2>2 DEF Continues
    <3> QED  BY <3>1 DEF StepFits, Quiet
  <2> QED  BY <2>1, <2>2
<1> QED  BY <1>2 DEF StepsFit

\* What a program that derives the application keys has to do for that.
LEMMA KeysAreWiped ==
    ASSUME NEW f \in ProgramNames, NEW init, NEW steps, Continues(init, steps), Len(init) > 0,
           \A i \in 1..Len(init) : Plain(init[i]), NEW release \in Seq(ReleaseType), NEW atOnce
               \in SUBSET {1},
           \A j \in 1..Len(release) : release[j].erases \intersect ApplicationKeys # {}
               => WipesAll(release[j]),
           \E j \in 1..Len(release) : WipesAll(release[j])
    PROVE  KeepsTo(f, steps, release, atOnce)
<1>1. init \in Seq(StepKind) /\ steps \in Seq(StepKind) /\ Len(init) \in Nat /\ Len(steps) \in Nat
  BY DEF Continues
<1>2. ASSUME NEW i \in 1..Len(steps)
      PROVE  /\ steps[i].fills \intersect ApplicationKeys = {} /\ steps[i].verifies = {}
             /\ steps[i].decrypts = {}
             /\ Deriver(steps[i].calls) => i > Len(init)
  <2>1. CASE i <= Len(init)
    <3>1. steps[i] = init[i] /\ i \in 1..Len(init)
      BY <1>1, <2>1 DEF Continues
    <3> QED  BY <3>1 DEF Plain, Deriver
  <2>2. CASE ~(i <= Len(init))
    BY <1>1, <2>2 DEF Continues, Quiet
  <2> QED  BY <2>1, <2>2
<1>3. ASSUME NEW i \in 1..Len(steps), i > Len(init), NEW at \in i..(Len(steps) + 1)
                 PROVE at \notin atOnce
  BY <1>1, <1>3
<1>4. ~Deriver(f)
  BY DEF Deriver, ProgramNames
<1> QED  BY <1>2, <1>3, <1>4 DEF KeepsTo

LEMMA QuietParts ==
    /\ SendMessage \in Seq(Quiet) /\ RecvMessage \in Seq(Quiet) /\ GetHash \in Seq(Quiet)
    /\ Session \in Seq(Quiet) /\ ServerRecords \in Seq(Quiet) /\ ClientRecords \in Seq(Quiet)
    /\ ServerHandshake \in Seq(Quiet) /\ ClientHandshake \in Seq(Quiet)
<1>1. /\ Try \in Quiet
      /\ Call("transcript_get_hash") \in Quiet /\ Call("transcript_update_handshake_msg")
             \in Quiet
      /\ Call("compute_finished_verify_data") \in Quiet /\ Call("derive_application_keys")
             \in Quiet
      /\ Call("send_encrypted_record") \in Quiet /\ Call("recv_encrypted_record") \in Quiet
      /\ Fill({"shared_secret"}) \in Quiet /\ Fill({"recv_state", "send_state"}) \in Quiet
  BY QuietTry, QuietCall, QuietFill DEF Callees
<1>2. /\ SendMessage \in Seq(Quiet) /\ RecvMessage \in Seq(Quiet) /\ GetHash \in Seq(Quiet)
      /\ ServerRecords \in Seq(Quiet) /\ ClientRecords \in Seq(Quiet)
  BY <1>1 DEF SendMessage, RecvMessage, GetHash, ServerRecords, ClientRecords
<1>3. Session \in Seq(Quiet)
  BY <1>1, <1>2 DEF Session
<1>4. ServerHandshake \in Seq(Quiet)
  BY <1>1, <1>2 DEF ServerHandshake
<1>5. ClientHandshake \in Seq(Quiet)
  BY <1>1, <1>2 DEF ClientHandshake
<1> QED  BY <1>2, <1>3, <1>4, <1>5

LEMMA SecureServerOK == FunctionOK("secure_server")
<1>1. /\ {"sig", "sig_secret_key", "sig_public_key", "signature", "kem", "kem_public_key",
             "ciphertext", "shared_secret", "listenfd", "connfd", "ctx"} \subseteq Names
      /\ {"sig", "sig_secret_key", "sig_public_key", "signature", "kem", "kem_public_key",
             "ciphertext", "shared_secret", "listenfd", "connfd",
                 "ctx"} \subseteq ProgramObjects \union {"ctx"}
      /\ {"sig_secret_key", "shared_secret"} \subseteq Secrets \ ApplicationKeys
      /\ {"sig", "sig_public_key", "signature", "kem", "kem_public_key", "ciphertext", "listenfd",
             "connfd", "ctx"} \intersect Secrets = {}
      /\ "ctx" \notin {"sig", "sig_secret_key", "sig_public_key", "signature", "kem",
             "kem_public_key", "ciphertext", "shared_secret", "listenfd", "connfd"}
      /\ ApplicationKeys \in SUBSET Secrets /\ ApplicationKeys # {}
      /\ "secure_server" \in ProgramNames \ Callees
  BY DEF Names, ProgramObjects, Secrets, ApplicationKeys, ProgramNames, Callees
<1>2. PICK init : init = ServerInit
  OBVIOUS
<1>3. PICK release : release = ServerEnd
  OBVIOUS
<1>4. /\ Get({"sig"}) \in StepKind
      /\ Get({"sig"}).calls = "none"
      /\ Get({"sig"}).gets = {"sig"}
      /\ Get({"sig"}).fills = {}
      /\ Get({"sig"}).decrypts = {} /\ Get({"sig"}).verifies = {}
  <2>1. {"sig"} \in SUBSET Names
    BY <1>1
  <2> QED  BY <2>1, Getting
<1>5. /\ Get({"sig_secret_key", "sig_public_key", "signature"}) \in StepKind
      /\ Get({"sig_secret_key", "sig_public_key", "signature"}).calls = "none"
      /\ Get({"sig_secret_key", "sig_public_key", "signature"}).gets = {"sig_secret_key",
             "sig_public_key", "signature"}
      /\ Get({"sig_secret_key", "sig_public_key", "signature"}).fills = {}
      /\ Get({"sig_secret_key", "sig_public_key", "signature"}).decrypts = {}
      /\ Get({"sig_secret_key", "sig_public_key", "signature"}).verifies = {}
  <2>1. {"sig_secret_key", "sig_public_key", "signature"} \in SUBSET Names
    BY <1>1
  <2> QED  BY <2>1, Getting
<1>6. /\ CallFilling("load_file", {"sig_secret_key"}) \in StepKind
      /\ CallFilling("load_file", {"sig_secret_key"}).calls = "load_file"
      /\ CallFilling("load_file", {"sig_secret_key"}).gets = {}
      /\ CallFilling("load_file", {"sig_secret_key"}).fills = {"sig_secret_key"}
      /\ CallFilling("load_file", {"sig_secret_key"}).decrypts = {}
      /\ CallFilling("load_file", {"sig_secret_key"}).verifies = {}
  <2>1. "load_file" \in Callees /\ {"sig_secret_key"} \in SUBSET Secrets
    BY <1>1 DEF Callees
  <2> QED  BY <2>1, CallingFilling
<1>7. /\ Call("load_file") \in StepKind
      /\ Call("load_file").calls = "load_file"
      /\ Call("load_file").gets = {}
      /\ Call("load_file").fills = {}
      /\ Call("load_file").decrypts = {} /\ Call("load_file").verifies = {}
  <2>1. "load_file" \in Callees
    BY <1>1 DEF Callees
  <2> QED  BY <2>1, Calling
<1>8. /\ Get({"kem"}) \in StepKind
      /\ Get({"kem"}).calls = "none"
      /\ Get({"kem"}).gets = {"kem"}
      /\ Get({"kem"}).fills = {}
      /\ Get({"kem"}).decrypts = {} /\ Get({"kem"}).verifies = {}
  <2>1. {"kem"} \in SUBSET Names
    BY <1>1
  <2> QED  BY <2>1, Getting
<1>9. /\ Get({"kem_public_key", "ciphertext", "shared_secret"}) \in StepKind
      /\ Get({"kem_public_key", "ciphertext", "shared_secret"}).calls = "none"
      /\ Get({"kem_public_key", "ciphertext", "shared_secret"}).gets = {"kem_public_key",
             "ciphertext", "shared_secret"}
      /\ Get({"kem_public_key", "ciphertext", "shared_secret"}).fills = {}
      /\ Get({"kem_public_key", "ciphertext", "shared_secret"}).decrypts = {}
      /\ Get({"kem_public_key", "ciphertext", "shared_secret"}).verifies = {}
  <2>1. {"kem_public_key", "ciphertext", "shared_secret"} \in SUBSET Names
    BY <1>1
  <2> QED  BY <2>1, Getting
<1>10. /\ Get({"listenfd"}) \in StepKind
       /\ Get({"listenfd"}).calls = "none"
       /\ Get({"listenfd"}).gets = {"listenfd"}
       /\ Get({"listenfd"}).fills = {}
       /\ Get({"listenfd"}).decrypts = {} /\ Get({"listenfd"}).verifies = {}
  <2>1. {"listenfd"} \in SUBSET Names
    BY <1>1
  <2> QED  BY <2>1, Getting
<1>11. /\ Get({"connfd"}) \in StepKind
       /\ Get({"connfd"}).calls = "none"
       /\ Get({"connfd"}).gets = {"connfd"}
       /\ Get({"connfd"}).fills = {}
       /\ Get({"connfd"}).decrypts = {} /\ Get({"connfd"}).verifies = {}
  <2>1. {"connfd"} \in SUBSET Names
    BY <1>1
  <2> QED  BY <2>1, Getting
<1>12. /\ Call("transcript_init") \in StepKind
       /\ Call("transcript_init").calls = "transcript_init"
       /\ Call("transcript_init").gets = {}
       /\ Call("transcript_init").fills = {}
       /\ Call("transcript_init").decrypts = {} /\ Call("transcript_init").verifies = {}
  <2>1. "transcript_init" \in Callees
    BY <1>1 DEF Callees
  <2> QED  BY <2>1, Calling
<1>13. /\ init \in Seq(StepKind) /\ Len(init) = 12
       /\ init[1] = Get({"sig"})
       /\ init[2] = Get({"sig_secret_key", "sig_public_key", "signature"})
       /\ init[3] = CallFilling("load_file", {"sig_secret_key"})
       /\ init[4] = Call("load_file")
       /\ init[5] = Get({"kem"})
       /\ init[6] = Get({"kem_public_key", "ciphertext", "shared_secret"})
       /\ init[7] = Get({"listenfd"})
       /\ init[8] = Try
       /\ init[9] = Try
       /\ init[10] = Try
       /\ init[11] = Get({"connfd"})
       /\ init[12] = Call("transcript_init")
  BY <1>2, <1>4, <1>5, <1>6, <1>7, <1>8, <1>9, <1>10, <1>11, <1>12, Trying DEF ServerInit
<1>14. /\ Free("connfd") \in ReleaseType /\ Free("connfd").frees = {"connfd"}
       /\ Free("connfd").erases = {} /\ Free("connfd").given = {}
       /\ Free("connfd").after = 0
  <2>1. "connfd" \in Names
    BY <1>1
  <2> QED  BY <2>1, FreeingIt
<1>15. /\ Free("listenfd") \in ReleaseType /\ Free("listenfd").frees = {"listenfd"}
       /\ Free("listenfd").erases = {} /\ Free("listenfd").given = {}
       /\ Free("listenfd").after = 0
  <2>1. "listenfd" \in Names
    BY <1>1
  <2> QED  BY <2>1, FreeingIt
<1>16. /\ FreeTranscript(ServerInit) \in ReleaseType /\ FreeTranscript(ServerInit).frees = {"ctx"}
       /\ FreeTranscript(ServerInit).erases = {} /\ FreeTranscript(ServerInit).given = {}
       /\ FreeTranscript(ServerInit).after = 12
  <2>1. Len(ServerInit) \in Nat /\ Len(ServerInit) = 12
    BY <1>2, <1>13
  <2> QED  BY <2>1, FreeingTheTranscript
<1>17. /\ Erase(ApplicationKeys) \in ReleaseType /\ Erase(ApplicationKeys).frees = {}
       /\ Erase(ApplicationKeys).erases = ApplicationKeys /\ Erase(ApplicationKeys).given = {}
       /\ Erase(ApplicationKeys).after = 0
  BY <1>1, ErasingIt
<1>18. /\ SecureFree("shared_secret", "kem") \in ReleaseType
       /\ SecureFree("shared_secret", "kem").frees = {"shared_secret"}
       /\ SecureFree("shared_secret", "kem").erases = {"shared_secret"}
       /\ SecureFree("shared_secret", "kem").given = {"kem"}
       /\ SecureFree("shared_secret", "kem").after = 0
  <2>1. "shared_secret" \in Names /\ "shared_secret" \in Secrets /\ "kem" \in Names
    BY <1>1
  <2> QED  BY <2>1, FreeingSecurely
<1>19. /\ Free("kem_public_key") \in ReleaseType
       /\ Free("kem_public_key").frees = {"kem_public_key"}
       /\ Free("kem_public_key").erases = {} /\ Free("kem_public_key").given = {}
       /\ Free("kem_public_key").after = 0
  <2>1. "kem_public_key" \in Names
    BY <1>1
  <2> QED  BY <2>1, FreeingIt
<1>20. /\ Free("ciphertext") \in ReleaseType /\ Free("ciphertext").frees = {"ciphertext"}
       /\ Free("ciphertext").erases = {} /\ Free("ciphertext").given = {}
       /\ Free("ciphertext").after = 0
  <2>1. "ciphertext" \in Names
    BY <1>1
  <2> QED  BY <2>1, FreeingIt
<1>21. /\ Free("kem") \in ReleaseType /\ Free("kem").frees = {"kem"}
       /\ Free("kem").erases = {} /\ Free("kem").given = {}
       /\ Free("kem").after = 0
  <2>1. "kem" \in Names
    BY <1>1
  <2> QED  BY <2>1, FreeingIt
<1>22. /\ SecureFree("sig_secret_key", "sig") \in ReleaseType
       /\ SecureFree("sig_secret_key", "sig").frees = {"sig_secret_key"}
       /\ SecureFree("sig_secret_key", "sig").erases = {"sig_secret_key"}
       /\ SecureFree("sig_secret_key", "sig").given = {"sig"}
       /\ SecureFree("sig_secret_key", "sig").after = 0
  <2>1. "sig_secret_key" \in Names /\ "sig_secret_key" \in Secrets /\ "sig" \in Names
    BY <1>1
  <2> QED  BY <2>1, FreeingSecurely
<1>23. /\ Free("sig_public_key") \in ReleaseType
       /\ Free("sig_public_key").frees = {"sig_public_key"}
       /\ Free("sig_public_key").erases = {} /\ Free("sig_public_key").given = {}
       /\ Free("sig_public_key").after = 0
  <2>1. "sig_public_key" \in Names
    BY <1>1
  <2> QED  BY <2>1, FreeingIt
<1>24. /\ Free("signature") \in ReleaseType /\ Free("signature").frees = {"signature"}
       /\ Free("signature").erases = {} /\ Free("signature").given = {}
       /\ Free("signature").after = 0
  <2>1. "signature" \in Names
    BY <1>1
  <2> QED  BY <2>1, FreeingIt
<1>25. /\ Free("sig") \in ReleaseType /\ Free("sig").frees = {"sig"}
       /\ Free("sig").erases = {} /\ Free("sig").given = {}
       /\ Free("sig").after = 0
  <2>1. "sig" \in Names
    BY <1>1
  <2> QED  BY <2>1, FreeingIt
<1>26. /\ release \in Seq(ReleaseType) /\ Len(release) = 12
       /\ release[1] = Free("connfd")
       /\ release[2] = Free("listenfd")
       /\ release[3] = FreeTranscript(ServerInit)
       /\ release[4] = Erase(ApplicationKeys)
       /\ release[5] = SecureFree("shared_secret", "kem")
       /\ release[6] = Free("kem_public_key")
       /\ release[7] = Free("ciphertext")
       /\ release[8] = Free("kem")
       /\ release[9] = SecureFree("sig_secret_key", "sig")
       /\ release[10] = Free("sig_public_key")
       /\ release[11] = Free("signature")
       /\ release[12] = Free("sig")
  BY <1>3, <1>14, <1>15, <1>16, <1>17, <1>18, <1>19, <1>20, <1>21, <1>22, <1>23, <1>24, <1>25
     DEF ServerEnd, server_mlkem, server_mldsa
<1>27. PICK W : W = [o \in {"sig", "sig_secret_key", "sig_public_key", "signature", "kem",
                "kem_public_key", "ciphertext", "shared_secret", "listenfd", "connfd", "ctx"} |->
             IF o = "sig" THEN 1 ELSE
             IF o \in {"sig_secret_key", "sig_public_key", "signature"} THEN 2 ELSE
             IF o = "kem" THEN 5 ELSE
             IF o \in {"kem_public_key", "ciphertext", "shared_secret"} THEN 6 ELSE
             IF o = "listenfd" THEN 7 ELSE
             IF o = "connfd" THEN 11 ELSE
             12]
  OBVIOUS
<1>28. PICK F : F = [o \in {"sig", "sig_secret_key", "sig_public_key", "signature", "kem",
                "kem_public_key", "ciphertext", "shared_secret", "listenfd", "connfd", "ctx"} |->
             IF o = "sig" THEN 12 ELSE
             IF o = "sig_secret_key" THEN 9 ELSE
             IF o = "sig_public_key" THEN 10 ELSE
             IF o = "signature" THEN 11 ELSE
             IF o = "kem" THEN 8 ELSE
             IF o = "kem_public_key" THEN 6 ELSE
             IF o = "ciphertext" THEN 7 ELSE
             IF o = "shared_secret" THEN 5 ELSE
             IF o = "listenfd" THEN 2 ELSE
             IF o = "connfd" THEN 1 ELSE
             3]
  OBVIOUS
<1>29. /\ DOMAIN W = {"sig", "sig_secret_key", "sig_public_key", "signature", "kem",
              "kem_public_key", "ciphertext", "shared_secret", "listenfd", "connfd", "ctx"}
       /\ W["sig"] = 1 /\ W["sig_secret_key"] = 2 /\ W["sig_public_key"] = 2 /\ W["signature"] = 2
       /\ W["kem"] = 5 /\ W["kem_public_key"] = 6 /\ W["ciphertext"] = 6 /\ W["shared_secret"] = 6
       /\ W["listenfd"] = 7 /\ W["connfd"] = 11 /\ W["ctx"] = 12
       /\ F["sig"] = 12 /\ F["sig_secret_key"] = 9 /\ F["sig_public_key"] = 10
       /\ F["signature"] = 11
       /\ F["kem"] = 8 /\ F["kem_public_key"] = 6 /\ F["ciphertext"] = 7 /\ F["shared_secret"] = 5
       /\ F["listenfd"] = 2 /\ F["connfd"] = 1 /\ F["ctx"] = 3
  BY <1>27, <1>28
<1>30. /\ \A i \in 1..Len(init) : i = 1 \/ i = 2 \/ i = 3 \/ i = 4 \/ i = 5 \/ i = 6 \/ i = 7
              \/ i = 8 \/ i = 9 \/ i = 10 \/ i = 11 \/ i = 12
       /\ \A j \in 1..Len(release) : j = 1 \/ j = 2 \/ j = 3 \/ j = 4 \/ j = 5 \/ j = 6 \/ j = 7
              \/ j = 8 \/ j = 9 \/ j = 10 \/ j = 11 \/ j = 12
  BY <1>13, <1>26
<1>31. PICK steps : steps = ServerInit \o ServerHandshake \o Session \o ServerRecords
  OBVIOUS
<1>32. Continues(init, steps)
  BY <1>2, <1>13, <1>31, QuietParts, StartsItself, Continuing
<1>33. steps \in Seq(StepKind) /\ Len(steps) \in Nat /\ 12 <= Len(steps)
  BY <1>13, <1>32 DEF Continues
<1>34. Layout(steps, release, W, F)
  <2> SUFFICES ASSUME NEW o \in DOMAIN W
               PROVE  /\ o \in Names /\ W[o] \in 1..Len(steps) /\ F[o] \in 1..Len(release)
                      /\ o \in release[F[o]].frees /\ (W[o] = 1 => Alone(o, W))
    BY DEF Layout
  <2>1. CASE o = "sig"
    BY <1>1, <1>25, <1>26, <1>29, <1>33, <2>1 DEF Alone
  <2>2. CASE o = "sig_secret_key"
    BY <1>1, <1>22, <1>26, <1>29, <1>33, <2>2
  <2>3. CASE o = "sig_public_key"
    BY <1>1, <1>23, <1>26, <1>29, <1>33, <2>3
  <2>4. CASE o = "signature"
    BY <1>1, <1>24, <1>26, <1>29, <1>33, <2>4
  <2>5. CASE o = "kem"
    BY <1>1, <1>21, <1>26, <1>29, <1>33, <2>5
  <2>6. CASE o = "kem_public_key"
    BY <1>1, <1>19, <1>26, <1>29, <1>33, <2>6
  <2>7. CASE o = "ciphertext"
    BY <1>1, <1>20, <1>26, <1>29, <1>33, <2>7
  <2>8. CASE o = "shared_secret"
    BY <1>1, <1>18, <1>26, <1>29, <1>33, <2>8
  <2>9. CASE o = "listenfd"
    BY <1>1, <1>15, <1>26, <1>29, <1>33, <2>9
  <2>10. CASE o = "connfd"
    BY <1>1, <1>14, <1>26, <1>29, <1>33, <2>10
  <2>11. CASE o = "ctx"
    BY <1>1, <1>16, <1>26, <1>29, <1>33, <2>11
  <2> QED  BY <1>29, <2>1, <2>2, <2>3, <2>4, <2>5, <2>6, <2>7, <2>8, <2>9, <2>10, <2>11
<1>35. StepsFit(init, W)
  <2> SUFFICES ASSUME NEW i \in 1..Len(init) PROVE StepFits(init[i], i, W)
    BY DEF StepsFit
  <2>1. CASE i = 1
    BY <1>1, <1>4, <1>13, <1>29, <2>1 DEF StepFits, Gives
  <2>2. CASE i = 2
    BY <1>1, <1>5, <1>13, <1>29, <2>2 DEF StepFits, Gives
  <2>3. CASE i = 3
    BY <1>1, <1>6, <1>13, <1>29, <2>3 DEF StepFits, Gives
  <2>4. CASE i = 4
    BY <1>1, <1>7, <1>13, <1>29, <2>4 DEF StepFits, Gives
  <2>5. CASE i = 5
    BY <1>1, <1>8, <1>13, <1>29, <2>5 DEF StepFits, Gives
  <2>6. CASE i = 6
    BY <1>1, <1>9, <1>13, <1>29, <2>6 DEF StepFits, Gives
  <2>7. CASE i = 7
    BY <1>1, <1>10, <1>13, <1>29, <2>7 DEF StepFits, Gives
  <2>8. CASE i = 8
    BY <1>1, Trying, <1>13, <1>29, <2>8 DEF StepFits, Gives
  <2>9. CASE i = 9
    BY <1>1, Trying, <1>13, <1>29, <2>9 DEF StepFits, Gives
  <2>10. CASE i = 10
    BY <1>1, Trying, <1>13, <1>29, <2>10 DEF StepFits, Gives
  <2>11. CASE i = 11
    BY <1>1, <1>11, <1>13, <1>29, <2>11 DEF StepFits, Gives
  <2>12. CASE i = 12
    BY <1>1, <1>12, <1>13, <1>29, <2>12 DEF StepFits, Gives
  <2> QED  BY <1>30, <2>1, <2>2, <2>3, <2>4, <2>5, <2>6, <2>7, <2>8, <2>9, <2>10, <2>11, <2>12
<1>36. StepsFit(steps, W)
  <2>1. "shared_secret" \in DOMAIN W /\ \A o \in DOMAIN W : W[o] \in 1..Len(init)
    BY <1>13, <1>29
  <2> QED  BY <1>32, <1>35, <2>1, ContinuedFits
<1>37. ReleasesFit(release, W, F)
  <2> SUFFICES ASSUME NEW j \in 1..Len(release)
               PROVE  /\ ReleaseFits(release[j], j, W, F)
                      /\ "ctx" \in release[j].frees \union release[j].given
                             => release[j].after = W["ctx"]
    BY DEF ReleasesFit
  <2>1. CASE j = 1
    BY <1>1, <1>14, <1>26, <1>29, <2>1 DEF ReleaseFits
  <2>2. CASE j = 2
    BY <1>1, <1>15, <1>26, <1>29, <2>2 DEF ReleaseFits
  <2>3. CASE j = 3
    BY <1>1, <1>16, <1>26, <1>29, <2>3 DEF ReleaseFits, Alone
  <2>4. CASE j = 4
    BY <1>1, <1>17, <1>26, <1>29, <2>4 DEF ReleaseFits
  <2>5. CASE j = 5
    BY <1>1, <1>18, <1>26, <1>29, <2>5 DEF ReleaseFits
  <2>6. CASE j = 6
    BY <1>1, <1>19, <1>26, <1>29, <2>6 DEF ReleaseFits
  <2>7. CASE j = 7
    BY <1>1, <1>20, <1>26, <1>29, <2>7 DEF ReleaseFits
  <2>8. CASE j = 8
    BY <1>1, <1>21, <1>26, <1>29, <2>8 DEF ReleaseFits
  <2>9. CASE j = 9
    BY <1>1, <1>22, <1>26, <1>29, <2>9 DEF ReleaseFits
  <2>10. CASE j = 10
    BY <1>1, <1>23, <1>26, <1>29, <2>10 DEF ReleaseFits
  <2>11. CASE j = 11
    BY <1>1, <1>24, <1>26, <1>29, <2>11 DEF ReleaseFits
  <2>12. CASE j = 12
    BY <1>1, <1>25, <1>26, <1>29, <2>12 DEF ReleaseFits
  <2> QED  BY <1>30, <2>1, <2>2, <2>3, <2>4, <2>5, <2>6, <2>7, <2>8, <2>9, <2>10, <2>11, <2>12
<1>38. Owns("secure_server", steps, W)
  BY <1>1, <1>29 DEF Owns
<1>39. \A i \in 1..Len(init) : Plain(init[i])
  BY <1>1, <1>4, <1>5, <1>6, <1>7, <1>8, <1>9, <1>10, <1>11, <1>12, <1>13, <1>30, Trying DEF Plain
<1>40. /\ \A j \in 1..Len(release) : release[j].erases \intersect ApplicationKeys # {}
              => WipesAll(release[j])
       /\ \E j \in 1..Len(release) : WipesAll(release[j])
  <2>1. WipesAll(release[4]) /\ 4 \in 1..Len(release)
    BY <1>17, <1>26 DEF WipesAll
  <2>2. ASSUME NEW j \in 1..Len(release), j # 4
                   PROVE release[j].erases \intersect ApplicationKeys = {}
    BY <1>1, <1>14, <1>15, <1>16, <1>17, <1>18, <1>19, <1>20, <1>21, <1>22, <1>23, <1>24, <1>25,
       <1>26, <1>30, <2>2
  <2> QED  BY <2>1, <2>2
<1>41. /\ ~Deriver("secure_server") /\ "secure_server" # "transcript_init" /\ {1} \in SUBSET {1}
       /\ "secure_server" \in ProgramNames /\ Len(init) > 0
  BY <1>1, <1>13 DEF Deriver
<1>42. KeepsTo("secure_server", steps, release, {1})
  BY <1>32, <1>26, <1>39, <1>40, <1>41, KeysAreWiped
<1>43. Functions["secure_server"] = Body(steps, release, {1})
  BY <1>3, <1>31, TableOf DEF secure_server
<1>44. Fits("secure_server", steps, release, {1}, W, F)
  BY <1>26, <1>33, <1>34, <1>36, <1>37, <1>41, <1>43, Assembled
<1> QED  BY <1>38, <1>42, <1>44 DEF FunctionOK

LEMMA SecureClientOK == FunctionOK("secure_client")
<1>1. /\ {"sig", "sig_public_key", "signature", "kem", "kem_public_key", "kem_secret_key",
             "shared_secret", "ciphertext", "sockfd", "ctx"} \subseteq Names
      /\ {"sig", "sig_public_key", "signature", "kem", "kem_public_key", "kem_secret_key",
             "shared_secret", "ciphertext", "sockfd", "ctx"}
                 \subseteq ProgramObjects \union {"ctx"}
      /\ {"kem_secret_key", "shared_secret"} \subseteq Secrets \ ApplicationKeys
      /\ {"sig", "sig_public_key", "signature", "kem", "kem_public_key", "ciphertext", "sockfd",
             "ctx"} \intersect Secrets = {}
      /\ "ctx" \notin {"sig", "sig_public_key", "signature", "kem", "kem_public_key",
             "kem_secret_key", "shared_secret", "ciphertext", "sockfd"}
      /\ ApplicationKeys \in SUBSET Secrets /\ ApplicationKeys # {}
      /\ "secure_client" \in ProgramNames \ Callees
  BY DEF Names, ProgramObjects, Secrets, ApplicationKeys, ProgramNames, Callees
<1>2. PICK init : init = ClientInit
  OBVIOUS
<1>3. PICK release : release = ClientEnd
  OBVIOUS
<1>4. /\ Get({"sig"}) \in StepKind
      /\ Get({"sig"}).calls = "none"
      /\ Get({"sig"}).gets = {"sig"}
      /\ Get({"sig"}).fills = {}
      /\ Get({"sig"}).decrypts = {} /\ Get({"sig"}).verifies = {}
  <2>1. {"sig"} \in SUBSET Names
    BY <1>1
  <2> QED  BY <2>1, Getting
<1>5. /\ Get({"sig_public_key", "signature"}) \in StepKind
      /\ Get({"sig_public_key", "signature"}).calls = "none"
      /\ Get({"sig_public_key", "signature"}).gets = {"sig_public_key", "signature"}
      /\ Get({"sig_public_key", "signature"}).fills = {}
      /\ Get({"sig_public_key", "signature"}).decrypts = {}
      /\ Get({"sig_public_key", "signature"}).verifies = {}
  <2>1. {"sig_public_key", "signature"} \in SUBSET Names
    BY <1>1
  <2> QED  BY <2>1, Getting
<1>6. /\ Get({"kem"}) \in StepKind
      /\ Get({"kem"}).calls = "none"
      /\ Get({"kem"}).gets = {"kem"}
      /\ Get({"kem"}).fills = {}
      /\ Get({"kem"}).decrypts = {} /\ Get({"kem"}).verifies = {}
  <2>1. {"kem"} \in SUBSET Names
    BY <1>1
  <2> QED  BY <2>1, Getting
<1>7. /\ Get({"kem_public_key", "kem_secret_key", "shared_secret", "ciphertext"}) \in StepKind
      /\ Get({"kem_public_key", "kem_secret_key", "shared_secret", "ciphertext"}).calls = "none"
      /\ Get({"kem_public_key", "kem_secret_key", "shared_secret",
             "ciphertext"}).gets = {"kem_public_key", "kem_secret_key", "shared_secret",
                 "ciphertext"}
      /\ Get({"kem_public_key", "kem_secret_key", "shared_secret", "ciphertext"}).fills = {}
      /\ Get({"kem_public_key", "kem_secret_key", "shared_secret", "ciphertext"}).decrypts = {}
      /\ Get({"kem_public_key", "kem_secret_key", "shared_secret", "ciphertext"}).verifies = {}
  <2>1. {"kem_public_key", "kem_secret_key", "shared_secret", "ciphertext"} \in SUBSET Names
    BY <1>1
  <2> QED  BY <2>1, Getting
<1>8. /\ Fill({"kem_secret_key"}) \in StepKind
      /\ Fill({"kem_secret_key"}).calls = "none"
      /\ Fill({"kem_secret_key"}).gets = {}
      /\ Fill({"kem_secret_key"}).fills = {"kem_secret_key"}
      /\ Fill({"kem_secret_key"}).decrypts = {} /\ Fill({"kem_secret_key"}).verifies = {}
  <2>1. {"kem_secret_key"} \in SUBSET Secrets
    BY <1>1
  <2> QED  BY <2>1, FillingStep
<1>9. /\ Get({"sockfd"}) \in StepKind
      /\ Get({"sockfd"}).calls = "none"
      /\ Get({"sockfd"}).gets = {"sockfd"}
      /\ Get({"sockfd"}).fills = {}
      /\ Get({"sockfd"}).decrypts = {} /\ Get({"sockfd"}).verifies = {}
  <2>1. {"sockfd"} \in SUBSET Names
    BY <1>1
  <2> QED  BY <2>1, Getting
<1>10. /\ Call("transcript_init") \in StepKind
       /\ Call("transcript_init").calls = "transcript_init"
       /\ Call("transcript_init").gets = {}
       /\ Call("transcript_init").fills = {}
       /\ Call("transcript_init").decrypts = {} /\ Call("transcript_init").verifies = {}
  <2>1. "transcript_init" \in Callees
    BY <1>1 DEF Callees
  <2> QED  BY <2>1, Calling
<1>11. /\ init \in Seq(StepKind) /\ Len(init) = 9
       /\ init[1] = Get({"sig"})
       /\ init[2] = Get({"sig_public_key", "signature"})
       /\ init[3] = Get({"kem"})
       /\ init[4] = Get({"kem_public_key", "kem_secret_key", "shared_secret", "ciphertext"})
       /\ init[5] = Fill({"kem_secret_key"})
       /\ init[6] = Get({"sockfd"})
       /\ init[7] = Try
       /\ init[8] = Try
       /\ init[9] = Call("transcript_init")
  BY <1>2, <1>4, <1>5, <1>6, <1>7, <1>8, <1>9, <1>10, Trying DEF ClientInit
<1>12. /\ Free("sockfd") \in ReleaseType /\ Free("sockfd").frees = {"sockfd"}
       /\ Free("sockfd").erases = {} /\ Free("sockfd").given = {}
       /\ Free("sockfd").after = 0
  <2>1. "sockfd" \in Names
    BY <1>1
  <2> QED  BY <2>1, FreeingIt
<1>13. /\ FreeTranscript(ClientInit) \in ReleaseType /\ FreeTranscript(ClientInit).frees = {"ctx"}
       /\ FreeTranscript(ClientInit).erases = {} /\ FreeTranscript(ClientInit).given = {}
       /\ FreeTranscript(ClientInit).after = 9
  <2>1. Len(ClientInit) \in Nat /\ Len(ClientInit) = 9
    BY <1>2, <1>11
  <2> QED  BY <2>1, FreeingTheTranscript
<1>14. /\ Erase(ApplicationKeys) \in ReleaseType /\ Erase(ApplicationKeys).frees = {}
       /\ Erase(ApplicationKeys).erases = ApplicationKeys /\ Erase(ApplicationKeys).given = {}
       /\ Erase(ApplicationKeys).after = 0
  BY <1>1, ErasingIt
<1>15. /\ SecureFree("kem_secret_key", "kem") \in ReleaseType
       /\ SecureFree("kem_secret_key", "kem").frees = {"kem_secret_key"}
       /\ SecureFree("kem_secret_key", "kem").erases = {"kem_secret_key"}
       /\ SecureFree("kem_secret_key", "kem").given = {"kem"}
       /\ SecureFree("kem_secret_key", "kem").after = 0
  <2>1. "kem_secret_key" \in Names /\ "kem_secret_key" \in Secrets /\ "kem" \in Names
    BY <1>1
  <2> QED  BY <2>1, FreeingSecurely
<1>16. /\ SecureFree("shared_secret", "kem") \in ReleaseType
       /\ SecureFree("shared_secret", "kem").frees = {"shared_secret"}
       /\ SecureFree("shared_secret", "kem").erases = {"shared_secret"}
       /\ SecureFree("shared_secret", "kem").given = {"kem"}
       /\ SecureFree("shared_secret", "kem").after = 0
  <2>1. "shared_secret" \in Names /\ "shared_secret" \in Secrets /\ "kem" \in Names
    BY <1>1
  <2> QED  BY <2>1, FreeingSecurely
<1>17. /\ Free("kem_public_key") \in ReleaseType
       /\ Free("kem_public_key").frees = {"kem_public_key"}
       /\ Free("kem_public_key").erases = {} /\ Free("kem_public_key").given = {}
       /\ Free("kem_public_key").after = 0
  <2>1. "kem_public_key" \in Names
    BY <1>1
  <2> QED  BY <2>1, FreeingIt
<1>18. /\ Free("ciphertext") \in ReleaseType /\ Free("ciphertext").frees = {"ciphertext"}
       /\ Free("ciphertext").erases = {} /\ Free("ciphertext").given = {}
       /\ Free("ciphertext").after = 0
  <2>1. "ciphertext" \in Names
    BY <1>1
  <2> QED  BY <2>1, FreeingIt
<1>19. /\ Free("kem") \in ReleaseType /\ Free("kem").frees = {"kem"}
       /\ Free("kem").erases = {} /\ Free("kem").given = {}
       /\ Free("kem").after = 0
  <2>1. "kem" \in Names
    BY <1>1
  <2> QED  BY <2>1, FreeingIt
<1>20. /\ Free("sig_public_key") \in ReleaseType
       /\ Free("sig_public_key").frees = {"sig_public_key"}
       /\ Free("sig_public_key").erases = {} /\ Free("sig_public_key").given = {}
       /\ Free("sig_public_key").after = 0
  <2>1. "sig_public_key" \in Names
    BY <1>1
  <2> QED  BY <2>1, FreeingIt
<1>21. /\ Free("signature") \in ReleaseType /\ Free("signature").frees = {"signature"}
       /\ Free("signature").erases = {} /\ Free("signature").given = {}
       /\ Free("signature").after = 0
  <2>1. "signature" \in Names
    BY <1>1
  <2> QED  BY <2>1, FreeingIt
<1>22. /\ Free("sig") \in ReleaseType /\ Free("sig").frees = {"sig"}
       /\ Free("sig").erases = {} /\ Free("sig").given = {}
       /\ Free("sig").after = 0
  <2>1. "sig" \in Names
    BY <1>1
  <2> QED  BY <2>1, FreeingIt
<1>23. /\ release \in Seq(ReleaseType) /\ Len(release) = 11
       /\ release[1] = Free("sockfd")
       /\ release[2] = FreeTranscript(ClientInit)
       /\ release[3] = Erase(ApplicationKeys)
       /\ release[4] = SecureFree("kem_secret_key", "kem")
       /\ release[5] = SecureFree("shared_secret", "kem")
       /\ release[6] = Free("kem_public_key")
       /\ release[7] = Free("ciphertext")
       /\ release[8] = Free("kem")
       /\ release[9] = Free("sig_public_key")
       /\ release[10] = Free("signature")
       /\ release[11] = Free("sig")
  BY <1>3, <1>12, <1>13, <1>14, <1>15, <1>16, <1>17, <1>18, <1>19, <1>20, <1>21, <1>22
     DEF ClientEnd, client_mlkem, client_mldsa
<1>24. PICK W : W = [o \in {"sig", "sig_public_key", "signature", "kem", "kem_public_key",
                "kem_secret_key", "shared_secret", "ciphertext", "sockfd", "ctx"} |->
             IF o = "sig" THEN 1 ELSE
             IF o \in {"sig_public_key", "signature"} THEN 2 ELSE
             IF o = "kem" THEN 3 ELSE
             IF o \in {"kem_public_key", "kem_secret_key", "shared_secret", "ciphertext"} THEN 4
                 ELSE
             IF o = "sockfd" THEN 6 ELSE
             9]
  OBVIOUS
<1>25. PICK F : F = [o \in {"sig", "sig_public_key", "signature", "kem", "kem_public_key",
                "kem_secret_key", "shared_secret", "ciphertext", "sockfd", "ctx"} |->
             IF o = "sig" THEN 11 ELSE
             IF o = "sig_public_key" THEN 9 ELSE
             IF o = "signature" THEN 10 ELSE
             IF o = "kem" THEN 8 ELSE
             IF o = "kem_public_key" THEN 6 ELSE
             IF o = "kem_secret_key" THEN 4 ELSE
             IF o = "shared_secret" THEN 5 ELSE
             IF o = "ciphertext" THEN 7 ELSE
             IF o = "sockfd" THEN 1 ELSE
             2]
  OBVIOUS
<1>26. /\ DOMAIN W = {"sig", "sig_public_key", "signature", "kem", "kem_public_key",
              "kem_secret_key", "shared_secret", "ciphertext", "sockfd", "ctx"}
       /\ W["sig"] = 1 /\ W["sig_public_key"] = 2 /\ W["signature"] = 2 /\ W["kem"] = 3
       /\ W["kem_public_key"] = 4 /\ W["kem_secret_key"] = 4 /\ W["shared_secret"] = 4
       /\ W["ciphertext"] = 4
       /\ W["sockfd"] = 6 /\ W["ctx"] = 9
       /\ F["sig"] = 11 /\ F["sig_public_key"] = 9 /\ F["signature"] = 10 /\ F["kem"] = 8
       /\ F["kem_public_key"] = 6 /\ F["kem_secret_key"] = 4 /\ F["shared_secret"] = 5
       /\ F["ciphertext"] = 7
       /\ F["sockfd"] = 1 /\ F["ctx"] = 2
  BY <1>24, <1>25
<1>27. /\ \A i \in 1..Len(init) : i = 1 \/ i = 2 \/ i = 3 \/ i = 4 \/ i = 5 \/ i = 6 \/ i = 7
              \/ i = 8 \/ i = 9
       /\ \A j \in 1..Len(release) : j = 1 \/ j = 2 \/ j = 3 \/ j = 4 \/ j = 5 \/ j = 6 \/ j = 7
              \/ j = 8 \/ j = 9 \/ j = 10 \/ j = 11
  BY <1>11, <1>23
<1>28. PICK steps : steps = ClientInit \o ClientHandshake \o Session \o ClientRecords
  OBVIOUS
<1>29. Continues(init, steps)
  BY <1>2, <1>11, <1>28, QuietParts, StartsItself, Continuing
<1>30. steps \in Seq(StepKind) /\ Len(steps) \in Nat /\ 9 <= Len(steps)
  BY <1>11, <1>29 DEF Continues
<1>31. Layout(steps, release, W, F)
  <2> SUFFICES ASSUME NEW o \in DOMAIN W
               PROVE  /\ o \in Names /\ W[o] \in 1..Len(steps) /\ F[o] \in 1..Len(release)
                      /\ o \in release[F[o]].frees /\ (W[o] = 1 => Alone(o, W))
    BY DEF Layout
  <2>1. CASE o = "sig"
    BY <1>1, <1>22, <1>23, <1>26, <1>30, <2>1 DEF Alone
  <2>2. CASE o = "sig_public_key"
    BY <1>1, <1>20, <1>23, <1>26, <1>30, <2>2
  <2>3. CASE o = "signature"
    BY <1>1, <1>21, <1>23, <1>26, <1>30, <2>3
  <2>4. CASE o = "kem"
    BY <1>1, <1>19, <1>23, <1>26, <1>30, <2>4
  <2>5. CASE o = "kem_public_key"
    BY <1>1, <1>17, <1>23, <1>26, <1>30, <2>5
  <2>6. CASE o = "kem_secret_key"
    BY <1>1, <1>15, <1>23, <1>26, <1>30, <2>6
  <2>7. CASE o = "shared_secret"
    BY <1>1, <1>16, <1>23, <1>26, <1>30, <2>7
  <2>8. CASE o = "ciphertext"
    BY <1>1, <1>18, <1>23, <1>26, <1>30, <2>8
  <2>9. CASE o = "sockfd"
    BY <1>1, <1>12, <1>23, <1>26, <1>30, <2>9
  <2>10. CASE o = "ctx"
    BY <1>1, <1>13, <1>23, <1>26, <1>30, <2>10
  <2> QED  BY <1>26, <2>1, <2>2, <2>3, <2>4, <2>5, <2>6, <2>7, <2>8, <2>9, <2>10
<1>32. StepsFit(init, W)
  <2> SUFFICES ASSUME NEW i \in 1..Len(init) PROVE StepFits(init[i], i, W)
    BY DEF StepsFit
  <2>1. CASE i = 1
    BY <1>1, <1>4, <1>11, <1>26, <2>1 DEF StepFits, Gives
  <2>2. CASE i = 2
    BY <1>1, <1>5, <1>11, <1>26, <2>2 DEF StepFits, Gives
  <2>3. CASE i = 3
    BY <1>1, <1>6, <1>11, <1>26, <2>3 DEF StepFits, Gives
  <2>4. CASE i = 4
    BY <1>1, <1>7, <1>11, <1>26, <2>4 DEF StepFits, Gives
  <2>5. CASE i = 5
    BY <1>1, <1>8, <1>11, <1>26, <2>5 DEF StepFits, Gives
  <2>6. CASE i = 6
    BY <1>1, <1>9, <1>11, <1>26, <2>6 DEF StepFits, Gives
  <2>7. CASE i = 7
    BY <1>1, Trying, <1>11, <1>26, <2>7 DEF StepFits, Gives
  <2>8. CASE i = 8
    BY <1>1, Trying, <1>11, <1>26, <2>8 DEF StepFits, Gives
  <2>9. CASE i = 9
    BY <1>1, <1>10, <1>11, <1>26, <2>9 DEF StepFits, Gives
  <2> QED  BY <1>27, <2>1, <2>2, <2>3, <2>4, <2>5, <2>6, <2>7, <2>8, <2>9
<1>33. StepsFit(steps, W)
  <2>1. "shared_secret" \in DOMAIN W /\ \A o \in DOMAIN W : W[o] \in 1..Len(init)
    BY <1>11, <1>26
  <2> QED  BY <1>29, <1>32, <2>1, ContinuedFits
<1>34. ReleasesFit(release, W, F)
  <2> SUFFICES ASSUME NEW j \in 1..Len(release)
               PROVE  /\ ReleaseFits(release[j], j, W, F)
                      /\ "ctx" \in release[j].frees \union release[j].given
                             => release[j].after = W["ctx"]
    BY DEF ReleasesFit
  <2>1. CASE j = 1
    BY <1>1, <1>12, <1>23, <1>26, <2>1 DEF ReleaseFits
  <2>2. CASE j = 2
    BY <1>1, <1>13, <1>23, <1>26, <2>2 DEF ReleaseFits, Alone
  <2>3. CASE j = 3
    BY <1>1, <1>14, <1>23, <1>26, <2>3 DEF ReleaseFits
  <2>4. CASE j = 4
    BY <1>1, <1>15, <1>23, <1>26, <2>4 DEF ReleaseFits
  <2>5. CASE j = 5
    BY <1>1, <1>16, <1>23, <1>26, <2>5 DEF ReleaseFits
  <2>6. CASE j = 6
    BY <1>1, <1>17, <1>23, <1>26, <2>6 DEF ReleaseFits
  <2>7. CASE j = 7
    BY <1>1, <1>18, <1>23, <1>26, <2>7 DEF ReleaseFits
  <2>8. CASE j = 8
    BY <1>1, <1>19, <1>23, <1>26, <2>8 DEF ReleaseFits
  <2>9. CASE j = 9
    BY <1>1, <1>20, <1>23, <1>26, <2>9 DEF ReleaseFits
  <2>10. CASE j = 10
    BY <1>1, <1>21, <1>23, <1>26, <2>10 DEF ReleaseFits
  <2>11. CASE j = 11
    BY <1>1, <1>22, <1>23, <1>26, <2>11 DEF ReleaseFits
  <2> QED  BY <1>27, <2>1, <2>2, <2>3, <2>4, <2>5, <2>6, <2>7, <2>8, <2>9, <2>10, <2>11
<1>35. Owns("secure_client", steps, W)
  BY <1>1, <1>26 DEF Owns
<1>36. \A i \in 1..Len(init) : Plain(init[i])
  BY <1>1, <1>4, <1>5, <1>6, <1>7, <1>8, <1>9, <1>10, <1>11, <1>27, Trying DEF Plain
<1>37. /\ \A j \in 1..Len(release) : release[j].erases \intersect ApplicationKeys # {}
              => WipesAll(release[j])
       /\ \E j \in 1..Len(release) : WipesAll(release[j])
  <2>1. WipesAll(release[3]) /\ 3 \in 1..Len(release)
    BY <1>14, <1>23 DEF WipesAll
  <2>2. ASSUME NEW j \in 1..Len(release), j # 3
                   PROVE release[j].erases \intersect ApplicationKeys = {}
    BY <1>1, <1>12, <1>13, <1>14, <1>15, <1>16, <1>17, <1>18, <1>19, <1>20, <1>21, <1>22, <1>23,
       <1>27, <2>2
  <2> QED  BY <2>1, <2>2
<1>38. /\ ~Deriver("secure_client") /\ "secure_client" # "transcript_init" /\ {} \in SUBSET {1}
       /\ "secure_client" \in ProgramNames /\ Len(init) > 0
  BY <1>1, <1>11 DEF Deriver
<1>39. KeepsTo("secure_client", steps, release, {})
  BY <1>29, <1>23, <1>36, <1>37, <1>38, KeysAreWiped
<1>40. Functions["secure_client"] = Body(steps, release, {})
  BY <1>3, <1>28, TableOf DEF secure_client
<1>41. Fits("secure_client", steps, release, {}, W, F)
  BY <1>23, <1>30, <1>31, <1>33, <1>34, <1>38, <1>40, Assembled
<1> QED  BY <1>35, <1>39, <1>41 DEF FunctionOK

-----------------------------------------------------------------------------
(* Every function that is no program is called by one *)

Occurs(c, steps) == \E i \in 1..Len(steps) : steps[i].calls = c

LEMMA OccursBefore ==
    ASSUME NEW c, NEW s \in Seq(StepKind), NEW t \in Seq(StepKind), Occurs(c, s)
    PROVE  Occurs(c, s \o t)
<1>1. PICK i \in 1..Len(s) : s[i].calls = c
  BY DEF Occurs
<1>2. PICK all : all = s \o t
  OBVIOUS
<1>3. i \in 1..Len(all) /\ all[i] = s[i]
  BY <1>2
<1> QED  BY <1>1, <1>2, <1>3 DEF Occurs

LEMMA OccursAfter ==
    ASSUME NEW c, NEW s \in Seq(StepKind), NEW t \in Seq(StepKind), Occurs(c, t)
    PROVE  Occurs(c, s \o t)
<1>1. PICK i \in 1..Len(t) : t[i].calls = c
  BY DEF Occurs
<1>2. PICK all : all = s \o t
  OBVIOUS
<1>3. Len(s) \in Nat /\ Len(t) \in Nat /\ i \in Nat
  OBVIOUS
<1>4. PICK k \in Nat : k = Len(s) + i
  BY <1>3
<1>5. k \in 1..Len(all) /\ all[k] = t[i]
  BY <1>2, <1>3, <1>4
<1> QED  BY <1>1, <1>2, <1>5 DEF Occurs

LEMMA CalledAt ==
    ASSUME NEW c, NEW f \in DOMAIN Functions, NEW steps \in Seq(StepKind), StepsOf(f) = steps,
               Occurs(c, steps)
    PROVE  \E g \in DOMAIN Functions : \E i \in DOMAIN StepsOf(g) : StepsOf(g)[i].calls = c
<1>1. PICK i \in 1..Len(steps) : steps[i].calls = c
  BY DEF Occurs
<1> QED  BY <1>1

LEMMA ServerStarts == ServerInit \in Seq(StepKind)
<1>1. /\ {"sig"} \in SUBSET Names /\ {"sig_secret_key", "sig_public_key", "signature"}
             \in SUBSET Names
      /\ {"kem"} \in SUBSET Names /\ {"kem_public_key", "ciphertext", "shared_secret"}
             \in SUBSET Names
      /\ {"listenfd"} \in SUBSET Names /\ {"connfd"} \in SUBSET Names
      /\ {"sig_secret_key"} \in SUBSET Secrets /\ {"load_file", "transcript_init"}
             \subseteq Callees
  BY DEF Names, ProgramObjects, Secrets, Callees
<1>2. /\ Get({"sig"}) \in StepKind /\ Get({"sig_secret_key", "sig_public_key", "signature"})
             \in StepKind
      /\ Get({"kem"}) \in StepKind /\ Get({"kem_public_key", "ciphertext", "shared_secret"})
             \in StepKind
      /\ Get({"listenfd"}) \in StepKind /\ Get({"connfd"}) \in StepKind
  BY <1>1, Getting
<1>3. /\ CallFilling("load_file", {"sig_secret_key"}) \in StepKind /\ Call("load_file")
             \in StepKind
      /\ Call("transcript_init") \in StepKind /\ Try \in StepKind
  BY <1>1, Calling, CallingFilling, Trying
<1> QED  BY <1>2, <1>3 DEF ServerInit

LEMMA CalledByServer ==
    ASSUME NEW c \in {"transcript_init", "transcript_get_hash", "transcript_update_handshake_msg",
                      "compute_finished_verify_data", "derive_application_keys",
                      "send_encrypted_record", "recv_encrypted_record", "load_file"}
    PROVE  Occurs(c, StepsOf("secure_server"))
<1>1. c \in Callees
  BY DEF Callees
<1>2. Call(c) \in StepKind /\ Call(c).calls = c
  BY <1>1, Calling
<1>3. /\ ServerInit \in Seq(StepKind) /\ ServerHandshake \in Seq(StepKind) /\ Session
             \in Seq(StepKind)
      /\ ServerRecords \in Seq(StepKind)
  <2>1. \A q \in Seq(Quiet) : q \in Seq(StepKind)
    BY DEF Quiet
  <2> QED  BY <2>1, ServerStarts, QuietParts
<1>4. StepsOf("secure_server") = ServerInit \o ServerHandshake \o Session \o ServerRecords
  BY TableOf DEF StepsOf, secure_server, Body
<1>5. PICK a : a = ServerInit \o ServerHandshake
  OBVIOUS
<1>6. a \in Seq(StepKind) /\ a = ServerInit \o ServerHandshake
  BY <1>3, <1>5
<1>7. PICK b : b = a \o Session
  OBVIOUS
<1>8. b \in Seq(StepKind) /\ b = a \o Session
  BY <1>3, <1>6, <1>7
<1>9. StepsOf("secure_server") = b \o ServerRecords
  BY <1>4, <1>6, <1>8
<1>10. CASE c = "transcript_init"
  <2>1. ServerInit[12] = Call(c) /\ Len(ServerInit) = 12
    BY <1>10 DEF ServerInit
  <2>2. Occurs(c, ServerInit)
    BY <1>2, <2>1 DEF Occurs
  <2> QED  BY <1>3, <1>6, <1>8, <1>9, <2>2, OccursBefore
<1>11. CASE c = "transcript_get_hash"
  <2>1. PICK rest : rest = <<Call("derive_application_keys"), Fill({"recv_state", "send_state"})>>
    OBVIOUS
  <2>2. /\ rest = <<Call("derive_application_keys"), Fill({"recv_state", "send_state"})>>
        /\ rest \in Seq(StepKind)
    <3>1. Call("derive_application_keys") \in StepKind /\ Fill({"recv_state", "send_state"})
              \in StepKind
      BY Calling, FillingStep DEF Callees, Secrets
    <3> QED  BY <2>1, <3>1
  <2>3. GetHash \in Seq(StepKind) /\ Occurs(c, GetHash)
    BY <1>2, <1>11 DEF Occurs, GetHash
  <2>4. Session = GetHash \o rest
    BY <2>2 DEF Session
  <2>5. Occurs(c, Session)
    BY <2>2, <2>3, <2>4, OccursBefore
  <2> QED  BY <1>3, <1>6, <1>8, <1>9, <2>5, OccursBefore, OccursAfter
<1>12. CASE c = "derive_application_keys"
  <2>1. PICK rest : rest = <<Call(c), Fill({"recv_state", "send_state"})>>
    OBVIOUS
  <2>2. rest = <<Call(c), Fill({"recv_state", "send_state"})>> /\ rest \in Seq(StepKind)
    <3>1. Fill({"recv_state", "send_state"}) \in StepKind
      BY FillingStep DEF Secrets
    <3> QED  BY <1>2, <2>1, <3>1
  <2>3. GetHash \in Seq(StepKind) /\ Occurs(c, rest)
    <3>1. GetHash \in Seq(Quiet) /\ Quiet \subseteq StepKind
      BY QuietParts DEF Quiet
    <3> QED  BY <1>2, <2>2, <3>1 DEF Occurs
  <2>4. Session = GetHash \o rest
    BY <1>12, <2>2 DEF Session
  <2>5. Occurs(c, Session)
    BY <2>2, <2>3, <2>4, OccursAfter
  <2> QED  BY <1>3, <1>6, <1>8, <1>9, <2>5, OccursBefore, OccursAfter
<1>13. CASE c = "transcript_update_handshake_msg"
  <2>1. PICK front : /\ ServerHandshake = front \o <<Call(c)>>
                     /\ front \in Seq(StepKind)
    <3>1. /\ Quiet \subseteq StepKind /\ SendMessage \in Seq(Quiet) /\ RecvMessage \in Seq(Quiet)
          /\ GetHash \in Seq(Quiet)
          /\ Call("transcript_update_handshake_msg") \in Quiet /\ Try \in Quiet
          /\ Call("compute_finished_verify_data") \in Quiet /\ Fill({"shared_secret"}) \in Quiet
      BY QuietParts, QuietCall, QuietTry, QuietFill DEF Quiet, Callees
    <3> DEFINE front ==
          RecvMessage \o <<Call("transcript_update_handshake_msg"), Fill({"shared_secret"})>>
          \o SendMessage
          \o SendMessage
          \o GetHash \o <<Try>> \o SendMessage
          \o GetHash \o <<Call("compute_finished_verify_data")>> \o SendMessage
          \o RecvMessage \o GetHash \o <<Call("compute_finished_verify_data"), Try>>
    <3>2. front \in Seq(Quiet)
      BY <3>1
    <3>3. front \in Seq(StepKind)
      BY <3>1, <3>2
    <3>4. ServerHandshake = front \o <<Call(c)>>
      BY <1>13 DEF ServerHandshake
    <3> QED  BY <3>3, <3>4
  <2>2. <<Call(c)>> \in Seq(StepKind) /\ Occurs(c, <<Call(c)>>)
    BY <1>2 DEF Occurs
  <2>3. Occurs(c, ServerHandshake)
    BY <2>1, <2>2, OccursAfter
  <2> QED  BY <1>3, <1>6, <1>8, <1>9, <2>3, OccursBefore, OccursAfter
<1>14. CASE c = "compute_finished_verify_data"
  <2>1. PICK front, back : /\ ServerHandshake = (front \o <<Call(c), Try>>) \o back
                           /\ front \in Seq(StepKind) /\ back \in Seq(StepKind)
    <3>1. /\ Quiet \subseteq StepKind /\ SendMessage \in Seq(Quiet) /\ RecvMessage \in Seq(Quiet)
          /\ GetHash \in Seq(Quiet)
          /\ Call("transcript_update_handshake_msg") \in Quiet /\ Try \in Quiet
          /\ Call("compute_finished_verify_data") \in Quiet /\ Fill({"shared_secret"}) \in Quiet
      BY QuietParts, QuietCall, QuietTry, QuietFill DEF Quiet, Callees
    <3> DEFINE front ==
          RecvMessage \o <<Call("transcript_update_handshake_msg"), Fill({"shared_secret"})>>
          \o SendMessage
          \o SendMessage
          \o GetHash \o <<Try>> \o SendMessage
          \o GetHash \o <<Call("compute_finished_verify_data")>> \o SendMessage
          \o RecvMessage \o GetHash
    <3> DEFINE back == <<Call("transcript_update_handshake_msg")>>
    <3>2. front \in Seq(Quiet) /\ back \in Seq(Quiet)
      BY <3>1
    <3>3. front \in Seq(StepKind) /\ back \in Seq(StepKind)
      BY <3>1, <3>2
    <3>4. ServerHandshake = (front \o <<Call(c), Try>>) \o back
      BY <1>14 DEF ServerHandshake
    <3> QED  BY <3>3, <3>4
  <2>2. <<Call(c), Try>> \in Seq(StepKind) /\ Occurs(c, <<Call(c), Try>>)
    BY <1>2, Trying DEF Occurs
  <2>3. PICK middle : middle = <<Call(c), Try>>
    OBVIOUS
  <2>4. Occurs(c, front \o middle) /\ (front \o middle) \in Seq(StepKind)
    <3>1. front \in Seq(StepKind) /\ middle \in Seq(StepKind) /\ Occurs(c, middle)
      BY <2>1, <2>2, <2>3
    <3>2. Occurs(c, front \o middle)
      BY <3>1, OccursAfter
    <3> QED  BY <3>1, <3>2
  <2>5. Occurs(c, ServerHandshake)
    BY <2>1, <2>3, <2>4, OccursBefore
  <2> QED  BY <1>3, <1>6, <1>8, <1>9, <2>5, OccursBefore, OccursAfter
<1>15. CASE c \in {"send_encrypted_record", "recv_encrypted_record"}
  <2>1. /\ ServerRecords[1] = Call("recv_encrypted_record")
        /\ ServerRecords[2] = Call("send_encrypted_record")
        /\ Len(ServerRecords) = 2
    BY DEF ServerRecords
  <2>2. Occurs(c, ServerRecords)
    BY <1>2, <1>15, <2>1 DEF Occurs
  <2> QED  BY <1>3, <1>8, <1>9, <2>2, OccursAfter
<1>16. CASE c = "load_file"
  <2>1. ServerInit[4] = Call(c) /\ Len(ServerInit) = 12
    BY <1>16 DEF ServerInit
  <2>2. Occurs(c, ServerInit)
    BY <1>2, <2>1 DEF Occurs
  <2> QED  BY <1>3, <1>6, <1>8, <1>9, <2>2, OccursBefore
<1> QED  BY <1>10, <1>11, <1>12, <1>13, <1>14, <1>15, <1>16

LEMMA CalledElsewhere ==
    /\ Occurs("derive_aes256_key_hkdf", StepsOf("hkdf_demo"))
    /\ Occurs("derive_finished_key", StepsOf("compute_finished_verify_data"))
    /\ Occurs("hkdf_derive_label", StepsOf("derive_application_keys"))
    /\ Occurs("aes_gcm_encrypt", StepsOf("send_encrypted_record"))
    /\ Occurs("aes_gcm_decrypt", StepsOf("recv_encrypted_record"))
    /\ Occurs("KeyFile", StepsOf("generate_dsa_keypair"))
    /\ Occurs("demo_encrypt", StepsOf("aes_demo"))
    /\ Occurs("demo_decrypt", StepsOf("aes_demo"))
<1>1. /\ "derive_aes256_key_hkdf" \in Callees /\ "derive_finished_key" \in Callees
      /\ "hkdf_derive_label" \in Callees /\ "aes_gcm_encrypt" \in Callees /\ "aes_gcm_decrypt"
             \in Callees
      /\ "KeyFile" \in Callees /\ "demo_encrypt" \in Callees /\ "demo_decrypt" \in Callees
  BY DEF Callees
<1>2. \A g \in Callees : Call(g).calls = g
  BY Calling
<1>3. Occurs("derive_aes256_key_hkdf", StepsOf("hkdf_demo"))
  <2>1. StepsOf("hkdf_demo") = <<Call("derive_aes256_key_hkdf"), Try>>
    BY TableOf DEF StepsOf, hkdf_demo, Body
  <2> QED  BY <1>1, <1>2, <2>1 DEF Occurs
<1>4. Occurs("derive_finished_key", StepsOf("compute_finished_verify_data"))
  <2>1. StepsOf("compute_finished_verify_data") = <<CallFilling("derive_finished_key",
            {"finished_key"}), Try, Try>>
    BY TableOf DEF StepsOf, compute_finished_verify_data, Body
  <2>2. {"finished_key"} \in SUBSET Secrets
    BY DEF Secrets
  <2>3. CallFilling("derive_finished_key", {"finished_key"}).calls = "derive_finished_key"
    BY <1>1, <2>2, CallingFilling
  <2> QED  BY <2>1, <2>3 DEF Occurs
<1>5. Occurs("hkdf_derive_label", StepsOf("derive_application_keys"))
  <2>1. StepsOf("derive_application_keys") = Labels
    BY TableOf DEF StepsOf, derive_application_keys, Body
  <2>2. Labels[1] = Label("client_key") /\ Len(Labels) = 4
    BY DEF Labels
  <2>3. Label("client_key").calls = "hkdf_derive_label"
    BY ALabel DEF ApplicationKeys
  <2> QED  BY <2>1, <2>2, <2>3 DEF Occurs
<1>6. Occurs("aes_gcm_encrypt", StepsOf("send_encrypted_record"))
  <2>1. StepsOf("send_encrypted_record") = <<Call("aes_gcm_encrypt"), Try, Try, Try>>
    BY TableOf DEF StepsOf, send_encrypted_record, Body
  <2> QED  BY <1>1, <1>2, <2>1 DEF Occurs
<1>7. Occurs("aes_gcm_decrypt", StepsOf("recv_encrypted_record"))
  <2>1. PICK s : s = <<Try, Try, Try, Try, Call("aes_gcm_decrypt")>>
    OBVIOUS
  <2>2. s[5] = Call("aes_gcm_decrypt") /\ Len(s) = 5
    BY <2>1
  <2>3. StepsOf("recv_encrypted_record") = s
    BY <2>1, TableOf DEF StepsOf, recv_encrypted_record, Body
  <2> QED  BY <1>1, <1>2, <2>2, <2>3 DEF Occurs
<1>8. Occurs("KeyFile", StepsOf("generate_dsa_keypair"))
  <2>1. PICK s : s = <<Get({"sig"}), Get({"public_key", "secret_key"}), Fill({"secret_key"}),
                       Call("KeyFile"), Call("KeyFile")>>
    OBVIOUS
  <2>2. s[4] = Call("KeyFile") /\ Len(s) = 5
    BY <2>1
  <2>3. StepsOf("generate_dsa_keypair") = s
    BY <2>1, TableOf DEF StepsOf, generate_dsa_keypair, Body
  <2> QED  BY <1>1, <1>2, <2>2, <2>3 DEF Occurs
<1>9. Occurs("demo_encrypt", StepsOf("aes_demo")) /\ Occurs("demo_decrypt", StepsOf("aes_demo"))
  <2>1. PICK s : s = <<Try, Try, Call("demo_encrypt"), Call("demo_decrypt")>>
    OBVIOUS
  <2>2. s[3] = Call("demo_encrypt") /\ s[4] = Call("demo_decrypt") /\ Len(s) = 4
    BY <2>1
  <2>3. StepsOf("aes_demo") = s
    BY <2>1, TableOf DEF StepsOf, aes_demo, Body
  <2> QED  BY <1>1, <1>2, <2>2, <2>3 DEF Occurs
<1> QED  BY <1>3, <1>4, <1>5, <1>6, <1>7, <1>8, <1>9

\* The tables of the repository's functions keep to the discipline.
LEMMA TablesDisciplined == Disciplined
<1>1. /\ FunctionOK("transcript_init") /\ FunctionOK("transcript_get_hash")
      /\ FunctionOK("transcript_update_handshake_msg") /\ FunctionOK("derive_aes256_key_hkdf")
      /\ FunctionOK("derive_finished_key") /\ FunctionOK("compute_finished_verify_data")
      /\ FunctionOK("hkdf_derive_label") /\ FunctionOK("derive_application_keys")
      /\ FunctionOK("aes_gcm_encrypt") /\ FunctionOK("aes_gcm_decrypt")
      /\ FunctionOK("send_encrypted_record") /\ FunctionOK("recv_encrypted_record")
      /\ FunctionOK("load_file") /\ FunctionOK("KeyFile")
      /\ FunctionOK("demo_encrypt") /\ FunctionOK("demo_decrypt")
  BY TranscriptInitOK, TranscriptGetHashOK, TranscriptUpdateHandshakeMsgOK, DeriveAes256KeyHkdfOK,
     DeriveFinishedKeyOK, ComputeFinishedVerifyDataOK, HkdfDeriveLabelOK, DeriveApplicationKeysOK,
     AesGcmEncryptOK, AesGcmDecryptOK, SendEncryptedRecordOK, RecvEncryptedRecordOK, LoadFileOK,
     KeyFileOK, DemoEncryptOK, DemoDecryptOK
<1>2. /\ FunctionOK("generate_dsa_keypair") /\ FunctionOK("secure_server")
      /\ FunctionOK("secure_client")
      /\ FunctionOK("kem_demo") /\ FunctionOK("sig_demo") /\ FunctionOK("aes_demo")
      /\ FunctionOK("hkdf_demo")
  BY GenerateDsaKeypairOK, SecureServerOK, SecureClientOK, KemDemoOK, SigDemoOK, AesDemoOK,
     HkdfDemoOK
<1>3. \A f \in Callees : FunctionOK(f)
  BY <1>1 DEF Callees
<1>4. \A f \in ProgramNames : FunctionOK(f)
  BY <1>2 DEF ProgramNames
<1>5. \A f \in DOMAIN Functions : FunctionOK(f)
  BY <1>3, <1>4, TableOf
<1>6. ASSUME NEW f \in DOMAIN Functions PROVE StepsOf(f) \in Seq(StepKind)
  <2>1. PICK steps, release, atOnce, W, F : Fits(f, steps, release, atOnce, W, F)
    BY <1>5 DEF FunctionOK
  <2>2. steps \in Seq(StepKind) /\ release \in Seq(ReleaseType)
            /\ Functions[f] = Body(steps, release, atOnce)
    BY <2>1 DEF Fits
  <2> QED  BY <2>2, Bodies
<1>7. ASSUME NEW c \in Callees PROVE \E f \in DOMAIN Functions : Occurs(c, StepsOf(f))
  <2>1. /\ "secure_server" \in DOMAIN Functions /\ "hkdf_demo" \in DOMAIN Functions
        /\ "compute_finished_verify_data" \in DOMAIN Functions /\ "derive_application_keys"
               \in DOMAIN Functions
        /\ "send_encrypted_record" \in DOMAIN Functions /\ "recv_encrypted_record"
               \in DOMAIN Functions
        /\ "generate_dsa_keypair" \in DOMAIN Functions /\ "aes_demo" \in DOMAIN Functions
    BY TableOf DEF Callees, ProgramNames
  <2>2. CASE c \in {"transcript_init", "transcript_get_hash", "transcript_update_handshake_msg",
                    "compute_finished_verify_data", "derive_application_keys",
                    "send_encrypted_record", "recv_encrypted_record", "load_file"}
    BY <2>1, <2>2, CalledByServer
  <2>3. CASE c \in {"derive_aes256_key_hkdf", "derive_finished_key", "hkdf_derive_label",
                    "aes_gcm_encrypt", "aes_gcm_decrypt", "KeyFile", "demo_encrypt",
                        "demo_decrypt"}
    BY <2>1, <2>3, CalledElsewhere
  <2> QED  BY <2>2, <2>3 DEF Callees
<1>8. \A c \in Callees : \E f \in DOMAIN Functions : \E i
          \in DOMAIN StepsOf(f) : StepsOf(f)[i].calls = c
  <2> SUFFICES ASSUME NEW c \in Callees
               PROVE  \E f \in DOMAIN Functions : \E i
                          \in DOMAIN StepsOf(f) : StepsOf(f)[i].calls = c
    OBVIOUS
  <2>1. PICK f \in DOMAIN Functions : Occurs(c, StepsOf(f))
    BY <1>7
  <2>2. PICK s : s = StepsOf(f)
    OBVIOUS
  <2>3. s \in Seq(StepKind)
    BY <1>6, <2>2
  <2>4. PICK i \in 1..Len(s) : s[i].calls = c
    BY <2>1, <2>2 DEF Occurs
  <2> QED  BY <2>2, <2>3, <2>4
<1> QED  BY <1>5, <1>8, AllDisciplined

-----------------------------------------------------------------------------
(* What the discipline says of a function *)

LEMMA Tables ==
    ASSUME NEW f \in DOMAIN Functions
    PROVE  /\ End(f) \in Nat /\ 1 <= End(f) /\ Len(StepsOf(f)) = End(f) - 1
           /\ DOMAIN StepsOf(f) = 1..(End(f) - 1)
           /\ \A i \in 1..(End(f) - 1) : StepsOf(f)[i] \in StepType
           /\ \A at \in 1..End(f) :
                 /\ Ways(f, at) \in Seq(ReleaseType) /\ Len(Ways(f, at)) \in Nat
                 /\ DOMAIN Ways(f, at) = 1..Len(Ways(f, at))
                 /\ \A j \in 1..Len(Ways(f, at)) : Ways(f, at)[j] \in ReleaseType
<1>1. PICK steps \in Seq(StepType) : steps = StepsOf(f)
  BY TablesDisciplined DEF Disciplined, Typed
<1>2. Functions[f].releases \in [1..End(f) -> Seq(ReleaseType)]
  BY TablesDisciplined DEF Disciplined, Typed
<1>3. /\ Len(steps) \in Nat /\ DOMAIN steps = 1..Len(steps)
      /\ \A i \in 1..Len(steps) : steps[i] \in StepType
  OBVIOUS
<1>4. End(f) = Len(steps) + 1 /\ (Len(steps) + 1) - 1 = Len(steps)
  BY <1>1, <1>3 DEF End
<1>5. \A at \in 1..End(f) : Ways(f, at) \in Seq(ReleaseType)
  BY <1>2 DEF Ways
<1>6. ASSUME NEW w \in Seq(ReleaseType)
      PROVE  Len(w) \in Nat /\ DOMAIN w = 1..Len(w) /\ \A j \in 1..Len(w) : w[j] \in ReleaseType
  OBVIOUS
<1> QED  BY <1>1, <1>3, <1>4, <1>5, <1>6

\* What no function calls, and what some function does.
LEMMA CalledIsNotMain ==
    ASSUME NEW f \in DOMAIN Functions, NEW i \in 1..(End(f) - 1), StepsOf(f)[i].calls # "none"
    PROVE  /\ StepsOf(f)[i].calls \in DOMAIN Functions
           /\ StepsOf(f)[i].calls \notin Main
           /\ StepsOf(f)[i].gets = {} /\ StepsOf(f)[i].decrypts = {} /\ StepsOf(f)[i].verifies = {}
<1>1. i \in DOMAIN StepsOf(f) /\ StepsOf(f)[i].calls \in DOMAIN Functions
  BY Tables DEF StepType
<1>2. StepsOf(f)[i].calls \notin Main
  BY <1>1 DEF Main
<1> QED  BY <1>1, <1>2, TablesDisciplined DEF Disciplined, Typed

\* Who shares objects: none but main and transcript_init, and only the context.
LEMMA Sharing ==
    ASSUME NEW f \in DOMAIN Functions \ Main
    PROVE  /\ Own(f) # {} => Leaf(f)
           /\ \A i \in 1..(End(f) - 1) : StepsOf(f)[i].calls # "transcript_init"
           /\ \A p \in Main : \A o \in Own(f) \intersect Own(p) : o = "ctx" /\ f = "transcript_init"
BY TablesDisciplined, Tables DEF Disciplined, Acquires, Shares

\* What a step acquires.
LEMMA Acquiring ==
    ASSUME NEW f \in DOMAIN Functions, NEW i \in 1..(End(f) - 1)
    PROVE  /\ Acquired(f, i) = StepsOf(f)[i].gets \union
                (IF StepsOf(f)[i].calls = "transcript_init" THEN {"ctx"} ELSE {})
           /\ Acquired(f, i) \subseteq Own(f)
           /\ StepsOf(f)[i].calls = "none" => Acquired(f, i) = StepsOf(f)[i].gets
           /\ StepsOf(f)[i].calls # "none" /\ StepsOf(f)[i].calls # "transcript_init" => Acquired(f, i) = {}
           /\ StepsOf(f)[i].calls = "transcript_init" => Acquired(f, i) = {"ctx"}
           /\ Acquired(f, i) \intersect Before(f, i) = {}
           /\ Before(f, i + 1) = Before(f, i) \union Acquired(f, i)
<1>1. i \in DOMAIN StepsOf(f) /\ End(f) \in Nat
  BY Tables
<1>2. /\ Acquired(f, i) = StepsOf(f)[i].gets \union
            (IF StepsOf(f)[i].calls = "transcript_init" THEN {"ctx"} ELSE {})
      /\ Acquired(f, i) \subseteq Own(f)
  BY <1>1 DEF Acquired, Own
<1>3. /\ StepsOf(f)[i].calls = "none" => Acquired(f, i) = StepsOf(f)[i].gets
      /\ StepsOf(f)[i].calls # "none" /\ StepsOf(f)[i].calls # "transcript_init" => Acquired(f, i) = {}
      /\ StepsOf(f)[i].calls = "transcript_init" => Acquired(f, i) = {"ctx"}
  BY <1>2, CalledIsNotMain
<1>4. ASSUME NEW k \in 1..(i - 1) PROVE Acquired(f, i) \intersect Acquired(f, k) = {}
  <2>1. k \in DOMAIN StepsOf(f) /\ k # i
    BY <1>1, Tables
  <2> QED  BY <1>1, <2>1, TablesDisciplined DEF Disciplined, Acquires
<1>5. Acquired(f, i) \intersect Before(f, i) = {}
  BY <1>4 DEF Before
<1>6. 1..((i + 1) - 1) = (1..(i - 1)) \union {i}
  BY <1>1
<1>7. Before(f, i + 1) = Before(f, i) \union Acquired(f, i)
  BY <1>6 DEF Before
<1> QED  BY <1>2, <1>3, <1>5, <1>7

LEMMA Starting ==
    ASSUME NEW f, NEW at
    PROVE  Before(f, 1) = {} /\ Freed(f, at, 0) = {}
<1>1. 1..(1 - 1) = {} /\ 1..0 = {}
  OBVIOUS
<1> QED  BY <1>1 DEF Before, Freed

LEMMA FreeingOneMore ==
    ASSUME NEW f, NEW at, NEW n \in Nat
    PROVE  Freed(f, at, n + 1) = Freed(f, at, n) \union Ways(f, at)[n + 1].frees
<1>1. 1..(n + 1) = (1..n) \union {n + 1}
  OBVIOUS
<1> QED  BY <1>1 DEF Freed

LEMMA EverythingOwn ==
    ASSUME NEW f \in DOMAIN Functions
    PROVE  /\ Locals(f) \subseteq Own(f)
           /\ Leaf(f) => Locals(f) = Own(f)
           /\ \A at \in 1..End(f) : MaybeLive(f, at) \subseteq Own(f)
<1>1. ASSUME NEW i \in DOMAIN StepsOf(f) PROVE
        /\ StepsOf(f)[i].gets \subseteq Acquired(f, i)
        /\ Leaf(f) => StepsOf(f)[i].gets = Acquired(f, i)
  BY Tables, Acquiring DEF Leaf
<1>2. Locals(f) = UNION {StepsOf(f)[i].gets : i \in DOMAIN StepsOf(f)}
  BY DEF Locals, StepsOf
<1>3. Locals(f) \subseteq Own(f) /\ (Leaf(f) => Locals(f) = Own(f))
  BY <1>1, <1>2 DEF Own
<1>4. ASSUME NEW at \in 1..End(f) PROVE MaybeLive(f, at) \subseteq Own(f)
  <2>1. ASSUME NEW i \in 1..(at - 1) PROVE Acquired(f, i) \subseteq Own(f)
    <3>1. i \in 1..(End(f) - 1)
      BY Tables
    <3> QED  BY <3>1, Acquiring
  <2>2. Acquired(f, at) \subseteq Own(f)
    <3>1. CASE at \in DOMAIN StepsOf(f)
      BY <3>1 DEF Own
    <3>2. CASE at \notin DOMAIN StepsOf(f)
      BY <3>2 DEF Acquired
    <3> QED  BY <3>1, <3>2
  <2> QED  BY <2>1, <2>2 DEF MaybeLive, Before
<1> QED  BY <1>3, <1>4

\* transcript_init acquires the context it hands over.
LEMMA ContextIsObject == "ctx" \in Objects /\ "ctx" \in Own("transcript_init")
<1>1. "transcript_init" \in DOMAIN Functions \ Main
  BY TablesDisciplined DEF Disciplined
<1>2. "ctx" \in Own("transcript_init") /\ Leaf("transcript_init")
  <2>1. End("transcript_init") \in 1..End("transcript_init")
    BY <1>1, Tables
  <2>2. Handed("transcript_init", End("transcript_init")) \subseteq Before("transcript_init", End("transcript_init"))
    BY <1>1, <2>1, TablesDisciplined DEF Disciplined, Cleans
  <2>3. "ctx" \in MaybeLive("transcript_init", End("transcript_init"))
    BY <2>2 DEF Handed, MaybeLive
  <2>4. "ctx" \in Own("transcript_init")
    BY <1>1, <2>1, <2>3, EverythingOwn
  <2> QED  BY <1>1, <2>4, Sharing
<1>3. "ctx" \in Locals("transcript_init")
  BY <1>1, <1>2, EverythingOwn
<1>4. PICK i \in DOMAIN StepsOf("transcript_init") : "ctx" \in StepsOf("transcript_init")[i].gets
  BY <1>3 DEF Locals, StepsOf
<1>5. i \in 1..(End("transcript_init") - 1)
  BY <1>1, Tables
<1>6. "ctx" \in Objects
  BY <1>1, <1>4, <1>5, Tables DEF StepType
<1> QED  BY <1>2, <1>6

LEMMA OwnObjects == \A f \in DOMAIN Functions : Own(f) \subseteq Objects
<1> SUFFICES ASSUME NEW f \in DOMAIN Functions, NEW i \in DOMAIN StepsOf(f)
             PROVE  Acquired(f, i) \subseteq Objects
  BY DEF Own
<1>1. i \in 1..(End(f) - 1)
  BY Tables
<1>2. StepsOf(f)[i].gets \subseteq Objects
  BY <1>1, Tables DEF StepType
<1>3. "ctx" \in Objects
  BY ContextIsObject
<1> QED  BY <1>1, <1>2, <1>3, Acquiring

-----------------------------------------------------------------------------
(* Sequences *)

\* The stack after a step, a call, a return, and what it has of the stack before.
ReplaceTop(s, x) == <<x>> \o Tail(s)
PushTop(s, x)    == <<x>> \o s
PopTop(s, x)     == <<x>> \o SubSeq(s, 3, Len(s))

IsReplaced(t, s, x) == Len(t) = Len(s) /\ t[1] = x /\ \A k \in 2..Len(s) : t[k] = s[k]
IsPushed(t, s, x)   == Len(t) = Len(s) + 1 /\ t[1] = x /\ \A k \in 2..Len(t) : t[k] = s[k - 1]
IsPopped(t, s, x)   == Len(t) = Len(s) - 1 /\ t[1] = x /\ \A k \in 2..Len(t) : t[k] = s[k + 1]

LEMMA Replaced ==
    ASSUME NEW S, NEW s \in Seq(S), s # <<>>, NEW x \in S, NEW t, t = <<x>> \o Tail(s)
    PROVE  t \in Seq(S) /\ Len(t) = Len(s) /\ t[1] = x /\ \A k \in 2..Len(s) : t[k] = s[k]
OBVIOUS

LEMMA Pushed ==
    ASSUME NEW S, NEW s \in Seq(S), NEW x \in S, NEW t, t = <<x>> \o s
    PROVE  t \in Seq(S) /\ Len(t) = Len(s) + 1 /\ t[1] = x /\ \A k \in 2..Len(t) : t[k] = s[k - 1]
OBVIOUS

-----------------------------------------------------------------------------
(* The stack *)

LEMMA InStack ==
    ASSUME NEW s, StackOK(s)
    PROVE  /\ s \in Seq(Frame) /\ Len(s) \in Nat /\ (s # <<>> <=> Len(s) >= 1)
           /\ \A k \in 1..Len(s) :
                 /\ s[k] \in Frame /\ FrameOK(s[k])
                 /\ s[k].function \in DOMAIN Functions /\ s[k].at \in 1..End(s[k].function)
                 /\ s[k].released \in Nat /\ s[k].failed \in BOOLEAN
           /\ \A k \in 2..Len(s) :
                 /\ ~s[k].failed /\ s[k].at \in 1..(End(s[k].function) - 1) /\ s[k].released = 0
                 /\ StepsOf(s[k].function)[s[k].at].calls = s[k - 1].function
                 /\ s[k - 1].function \in DOMAIN Functions \ Main
<1>1. s \in Seq(Frame) /\ Len(s) \in Nat /\ (s # <<>> <=> Len(s) >= 1)
  BY DEF StackOK
<1>2. ASSUME NEW k \in 1..Len(s) PROVE
        /\ s[k] \in Frame /\ FrameOK(s[k])
        /\ s[k].function \in DOMAIN Functions /\ s[k].at \in 1..End(s[k].function)
        /\ s[k].released \in Nat /\ s[k].failed \in BOOLEAN
  <2>1. s[k] \in Frame /\ FrameOK(s[k])
    BY <1>1 DEF StackOK
  <2>2. \A frame \in Frame : /\ frame.function \in DOMAIN Functions
                             /\ frame.released \in Nat /\ frame.failed \in BOOLEAN
    BY DEF Frame
  <2>3. s[k].at \in 1..End(s[k].function)
    BY <2>1 DEF FrameOK
  <2> QED  BY <2>1, <2>2, <2>3
<1>3. ASSUME NEW k \in 2..Len(s) PROVE
        /\ ~s[k].failed /\ s[k].at \in 1..(End(s[k].function) - 1) /\ s[k].released = 0
        /\ StepsOf(s[k].function)[s[k].at].calls = s[k - 1].function
        /\ s[k - 1].function \in DOMAIN Functions \ Main
  <2>1. k \in 1..Len(s) /\ k - 1 \in 1..Len(s)
    BY <1>1
  <2>2. /\ ~s[k].failed /\ s[k].at # End(s[k].function)
        /\ StepsOf(s[k].function)[s[k].at].calls = s[k - 1].function
    BY DEF StackOK
  <2>3. s[k].released = 0
    BY <1>2, <2>1, <2>2 DEF FrameOK
  <2>4. s[k].at \in 1..(End(s[k].function) - 1)
    BY <1>2, <2>1, <2>2, Tables
  <2>5. s[k - 1].function \in DOMAIN Functions /\ s[k - 1].function # "none"
    <3>1. "none" \notin DOMAIN Functions
      BY DEF Functions
    <3> QED  BY <1>2, <2>1, <3>1
  <2>6. s[k - 1].function \notin Main
    BY <1>2, <2>1, <2>2, <2>4, <2>5, CalledIsNotMain
  <2> QED  BY <2>2, <2>3, <2>4, <2>5, <2>6
<1> QED  BY <1>1, <1>2, <1>3

LEMMA StackReplaced ==
    ASSUME NEW s, StackOK(s), s # <<>>, NEW x \in Frame, FrameOK(x), x.function = s[1].function,
           NEW t, t = ReplaceTop(s, x)
    PROVE  StackOK(t) /\ IsReplaced(t, s, x)
<1>1. s \in Seq(Frame) /\ Len(s) \in Nat /\ Len(s) >= 1
  BY InStack
<1>2. t \in Seq(Frame) /\ Len(t) = Len(s) /\ t[1] = x /\ \A k \in 2..Len(s) : t[k] = s[k]
  <2>1. t = <<x>> \o Tail(s)
    BY DEF ReplaceTop
  <2> QED  BY <1>1, <2>1, Replaced
<1>3. ASSUME NEW k \in 1..Len(t) PROVE FrameOK(t[k]) /\ t[k].function = s[k].function
  BY <1>1, <1>2 DEF StackOK
<1>4. ASSUME NEW k \in 2..Len(t) PROVE
        /\ ~t[k].failed /\ t[k].at # End(t[k].function)
        /\ StepsOf(t[k].function)[t[k].at].calls = t[k - 1].function
  <2>1. k - 1 \in 1..Len(t) /\ t[k] = s[k] /\ k \in 2..Len(s)
    BY <1>1, <1>2
  <2>2. t[k - 1].function = s[k - 1].function
    BY <1>3, <2>1
  <2> QED  BY <2>1, <2>2 DEF StackOK
<1>5. t[Len(t)].function \in Main
  BY <1>1, <1>2, <1>3 DEF StackOK
<1> QED  BY <1>2, <1>3, <1>4, <1>5 DEF StackOK, IsReplaced

LEMMA NewActivation ==
    ASSUME NEW f \in DOMAIN Functions
    PROVE  Activation(f) \in Frame /\ FrameOK(Activation(f))
<1>1. 1 \in 1..End(f) /\ Len(Ways(f, 1)) \in Nat
  BY Tables
<1> QED  BY <1>1 DEF Activation, Frame, FrameOK

LEMMA StackPushed ==
    ASSUME NEW s, StackOK(s), s # <<>>, ~s[1].failed, s[1].at # End(s[1].function),
           NEW g, g = StepsOf(s[1].function)[s[1].at].calls, g # "none",
           NEW t, t = PushTop(s, Activation(g))
    PROVE  StackOK(t) /\ IsPushed(t, s, Activation(g)) /\ g \in DOMAIN Functions \ Main
<1>1. s \in Seq(Frame) /\ Len(s) \in Nat /\ Len(s) >= 1
  BY InStack
<1>2. g \in DOMAIN Functions \ Main
  <2>1. s[1].function \in DOMAIN Functions /\ s[1].at \in 1..(End(s[1].function) - 1)
    BY <1>1, InStack, Tables
  <2> QED  BY <2>1, CalledIsNotMain
<1>3. Activation(g) \in Frame /\ FrameOK(Activation(g)) /\ Activation(g).function = g
  BY <1>2, NewActivation DEF Activation
<1>4. t \in Seq(Frame) /\ Len(t) = Len(s) + 1 /\ t[1] = Activation(g) /\ \A k \in 2..Len(t) : t[k] = s[k - 1]
  <2>1. t = <<Activation(g)>> \o s
    BY DEF PushTop
  <2> QED  BY <1>1, <1>3, <2>1, Pushed
<1>5. ASSUME NEW k \in 1..Len(t) PROVE FrameOK(t[k])
  <2>1. CASE k = 1
    BY <1>3, <1>4, <2>1
  <2>2. CASE k # 1
    <3>1. PICK i \in 1..Len(s) : i = k - 1
      BY <1>1, <1>4, <2>2
    <3>2. t[k] = s[i]
      BY <1>1, <1>4, <2>2, <3>1
    <3> QED  BY <3>1, <3>2 DEF StackOK
  <2> QED  BY <2>1, <2>2
<1>6. ASSUME NEW k \in 2..Len(t) PROVE
        /\ ~t[k].failed /\ t[k].at # End(t[k].function)
        /\ StepsOf(t[k].function)[t[k].at].calls = t[k - 1].function
  <2>1. CASE k = 2
    <3>1. t[k] = s[1] /\ t[k - 1] = Activation(g)
      BY <1>4, <2>1
    <3> QED  BY <1>3, <3>1
  <2>2. CASE k # 2
    <3>1. PICK i \in 2..Len(s) : i = k - 1
      BY <1>1, <1>4, <2>2
    <3>2. k - 1 \in 2..Len(t)
      BY <1>1, <1>4, <3>1
    <3>3. t[k] = s[i] /\ t[k - 1] = s[i - 1]
      BY <1>4, <3>1, <3>2
    <3> QED  BY <3>1, <3>3 DEF StackOK
  <2> QED  BY <2>1, <2>2
<1>7. t[Len(t)].function \in Main /\ t # <<>>
  BY <1>1, <1>4 DEF StackOK
<1> QED  BY <1>2, <1>4, <1>5, <1>6, <1>7 DEF StackOK, IsPushed

LEMMA StackPopped ==
    ASSUME NEW s, StackOK(s), Len(s) >= 2, NEW x \in Frame, FrameOK(x), x.function = s[2].function,
           NEW t, t = PopTop(s, x)
    PROVE  /\ StackOK(t) /\ IsPopped(t, s, x)
           /\ t # <<>> /\ t[Len(t)].function = s[Len(s)].function
<1>1. s \in Seq(Frame) /\ Len(s) \in Nat
  BY InStack
<1>2. t \in Seq(Frame) /\ Len(t) = Len(s) - 1 /\ t[1] = x /\ \A k \in 2..Len(t) : t[k] = s[k + 1]
  <2>1. PICK n \in Nat : n = Len(s) /\ n >= 2
    BY <1>1
  <2>2. PICK r \in Seq(Frame) : r = SubSeq(s, 3, n) /\ Len(r) = n - 2 /\ \A i \in 1..Len(r) : r[i] = s[i + 2]
    <3>1. SubSeq(s, 3, n) \in Seq(Frame)
      BY <1>1, <2>1
    <3>2. Len(SubSeq(s, 3, n)) = n - 2
      <4>1. CASE n = 2
        BY <1>1, <2>1, <4>1
      <4>2. CASE n > 2
        BY <1>1, <2>1, <4>2
      <4> QED  BY <2>1, <4>1, <4>2
    <3>3. \A i \in 1..(n - 2) : SubSeq(s, 3, n)[i] = s[i + 2]
      BY <1>1, <2>1
    <3> QED  BY <3>1, <3>2, <3>3
  <2>3. t = <<x>> \o r
    BY <2>1, <2>2 DEF PopTop
  <2>4. t \in Seq(Frame) /\ Len(t) = Len(r) + 1 /\ t[1] = x /\ \A k \in 2..Len(t) : t[k] = r[k - 1]
    BY <2>2, <2>3, Pushed
  <2>5. \A k \in 2..Len(t) : k - 1 \in 1..Len(r) /\ (k - 1) + 2 = k + 1
    BY <2>1, <2>2, <2>4
  <2> QED  BY <2>1, <2>2, <2>4, <2>5
<1>3. ASSUME NEW k \in 1..Len(t) PROVE FrameOK(t[k]) /\ t[k].function = s[k + 1].function
  <2>1. CASE k = 1
    BY <1>2, <2>1
  <2>2. CASE k # 1
    <3>1. k \in 2..Len(t) /\ k + 1 \in 1..Len(s)
      BY <1>1, <1>2, <2>2
    <3> QED  BY <1>2, <3>1 DEF StackOK
  <2> QED  BY <2>1, <2>2
<1>4. ASSUME NEW k \in 2..Len(t) PROVE
        /\ ~t[k].failed /\ t[k].at # End(t[k].function)
        /\ StepsOf(t[k].function)[t[k].at].calls = t[k - 1].function
  <2>1. PICK i \in 2..Len(s) : i = k + 1
    BY <1>1, <1>2
  <2>2. k - 1 \in 1..Len(t) /\ (k - 1) + 1 = i - 1
    BY <1>1, <1>2, <2>1
  <2>3. t[k] = s[i] /\ t[k - 1].function = s[i - 1].function
    BY <1>2, <1>3, <2>1, <2>2
  <2> QED  BY <2>1, <2>3 DEF StackOK
<1>5. t # <<>> /\ t[Len(t)].function = s[Len(s)].function
  BY <1>1, <1>2, <1>3
<1>6. s # <<>>
  BY <1>1
<1> QED  BY <1>2, <1>3, <1>4, <1>5, <1>6 DEF StackOK, IsPopped

-----------------------------------------------------------------------------
(* Pointers *)

\* The pointers after a step or a call, after a step that failed, after a
\* release that may take place, and the secrets after that.
Setting(p, objects, v)  == [o \in Objects |-> IF o \in objects THEN v ELSE p[o]]
SomeGot(p, gets, got)   ==
    [o \in Objects |-> IF o \in got THEN "live" ELSE IF o \in gets \ got THEN "null" ELSE p[o]]
Takes(release, a, p)    ==
    a > release.after /\ \A o \in release.given \union release.frees : p[o] # "null"
Freeing(p, release, a, v) == IF Takes(release, a, p) THEN Setting(p, release.frees, v) ELSE p
FreesSome(q, p, release, a) == \E v \in {"null", "dangling"} : q = Freeing(p, release, a, v)
GotSome(q, p, gets)     ==
    \E got \in SUBSET gets : (got = gets => got = {}) /\ q = SomeGot(p, gets, got)
Erasing(h, release, a, p) == IF Takes(release, a, p) THEN h \ release.erases ELSE h

\* What the innermost activation acquires is no business of another one, but
\* for what that one is about to be handed.
LEMMA Apart ==
    ASSUME NEW s, StackOK(s), NEW k \in 2..Len(s), NEW o \in Own(s[k].function),
           o \notin Acquired(s[k].function, s[k].at)
    PROVE  o \notin Own(s[1].function)
<1> SUFFICES ASSUME o \in Own(s[1].function) PROVE FALSE
  OBVIOUS
<1>1. Len(s) \in Nat /\ 1 \in 1..Len(s) /\ 2 \in 2..Len(s) /\ k \in 1..Len(s)
  BY InStack
<1>2. PICK f \in DOMAIN Functions : f = s[1].function
  BY <1>1, InStack
<1>3. PICK g \in DOMAIN Functions : g = s[k].function
  BY <1>1, InStack
<1>4. PICK a \in 1..(End(g) - 1) : a = s[k].at /\ StepsOf(g)[a].calls = s[k - 1].function
  BY <1>3, InStack
<1>5. s[k - 1].function \in DOMAIN Functions \ Main /\ f \notin Main
  <2>1. s[2 - 1].function \notin Main /\ 2 - 1 = 1
    BY <1>1, InStack
  <2> QED  BY <1>2, <2>1, InStack
<1>6. ~Leaf(g)
  <2>1. "none" \notin DOMAIN Functions
    BY DEF Functions
  <2>2. a \in DOMAIN StepsOf(g) /\ StepsOf(g)[a].calls # "none"
    BY <1>4, <1>5, <2>1, Tables
  <2> QED  BY <2>2 DEF Leaf
<1>7. g \in Main
  BY <1>3, <1>6, Sharing
<1>8. o = "ctx" /\ f = "transcript_init"
  BY <1>2, <1>3, <1>5, <1>7, Sharing
<1>9. PICK h \in DOMAIN Functions : /\ h = s[2].function /\ s[2].at \in 1..(End(h) - 1)
                                     /\ StepsOf(h)[s[2].at].calls = "transcript_init"
  <2>1. s[2].function \in DOMAIN Functions
    BY <1>1, InStack
  <2>2. s[2].at \in 1..(End(s[2].function) - 1) /\ StepsOf(s[2].function)[s[2].at].calls = s[2 - 1].function
    BY <1>1, InStack
  <2>3. 2 - 1 = 1
    OBVIOUS
  <2> QED  BY <1>2, <1>8, <2>1, <2>2, <2>3
<1>10. h \in Main
  <2>1. PICK b \in 1..(End(h) - 1) : StepsOf(h)[b].calls = "transcript_init"
    BY <1>9
  <2> QED  BY <2>1, Sharing
<1>11. k = 2
  <2> SUFFICES ASSUME k # 2 PROVE FALSE
    OBVIOUS
  <2>1. 3 \in 2..Len(s) /\ 3 - 1 = 2
    BY <1>1
  <2>2. s[3 - 1].function \notin Main
    BY <2>1, InStack
  <2> QED  BY <1>9, <1>10, <2>1, <2>2
<1>12. "ctx" \in Acquired(g, a)
  BY <1>3, <1>4, <1>9, <1>11, Acquiring
<1> QED  BY <1>3, <1>4, <1>8, <1>12

LEMMA Innermost ==
    ASSUME NEW s, StackOK(s), s # <<>>, NEW f, f = s[1].function, NEW a, a = s[1].at
    PROVE  /\ Len(s) \in Nat /\ Len(s) >= 1 /\ 1 \in 1..Len(s)
           /\ s[1] \in Frame /\ f \in DOMAIN Functions /\ a \in 1..End(f) /\ a \in Nat
           /\ s[1].released \in 0..Len(Ways(f, a))
           /\ s[1].failed => a \in 1..(End(f) - 1)
           /\ ~s[1].failed /\ a # End(f) => a \in 1..(End(f) - 1) /\ s[1].released = 0
<1>1. Len(s) \in Nat /\ Len(s) >= 1 /\ 1 \in 1..Len(s)
  BY InStack
<1>2. s[1] \in Frame /\ FrameOK(s[1]) /\ f \in DOMAIN Functions /\ a \in 1..End(f)
  BY <1>1, InStack
<1>3. End(f) \in Nat
  BY <1>2, Tables
<1> QED  BY <1>1, <1>2, <1>3 DEF FrameOK

\* The other activations do not notice what happens to its objects.
LEMMA OthersUnaffected ==
    ASSUME NEW s, StackOK(s), NEW p, PointersOK(s, p),
           NEW q, \A o \in Objects : o \notin Own(s[1].function) => q[o] = p[o],
           NEW k \in 2..Len(s), NEW o \in Own(s[k].function),
           o \notin Acquired(s[k].function, s[k].at)
    PROVE  ObjectOK(s[k], o, q[o])
<1>1. k \in 1..Len(s) /\ k # 1
  BY InStack
<1>2. o \in Objects
  BY <1>1, InStack, OwnObjects
<1>3. q[o] = p[o]
  BY <1>2, Apart
<1> QED  BY <1>1, <1>3 DEF PointersOK

\* A step that succeeds.
LEMMA PointersSucceed ==
    ASSUME NEW s, StackOK(s), s # <<>>, NEW p, PointersOK(s, p),
           NEW f, f = s[1].function, NEW a, a = s[1].at, a # End(f), ~s[1].failed,
           StepsOf(f)[a].calls = "none",
           NEW t, StackOK(t), IsReplaced(t, s, GoOn(s[1])),
           NEW q, q = Setting(p, StepsOf(f)[a].gets, "live")
    PROVE  PointersOK(t, q)
<1>0. Len(t) = Len(s) /\ t[1] = GoOn(s[1]) /\ \A k \in 2..Len(s) : t[k] = s[k]
  BY DEF IsReplaced
<1> USE <1>0
<1>1. Len(s) \in Nat /\ 1 \in 1..Len(s) /\ Len(s) >= 1
  BY Innermost
<1>2. f \in DOMAIN Functions /\ a \in 1..(End(f) - 1) /\ a \in Nat /\ s[1].released = 0 /\ s[1] \in Frame
  BY Innermost
<1>3. t[1].function = f /\ t[1].at = a + 1 /\ ~t[1].failed /\ t[1].released = 0
  BY <1>2 DEF GoOn, Frame
<1>4. PICK gets : gets = StepsOf(f)[a].gets /\ Acquired(f, a) = gets /\ gets \subseteq Own(f)
  BY <1>2, Acquiring
<1>5. Before(f, a + 1) = Before(f, a) \union gets
  BY <1>2, <1>4, Acquiring
<1>6. q = [o \in Objects |-> IF o \in gets THEN "live" ELSE p[o]]
  BY <1>4 DEF Setting
<1>7. q \in [Objects -> Value] /\ \A o \in Objects \ NoInitialValue : q[o] # "unset"
  BY <1>6 DEF PointersOK, Value
<1>8. \A k \in 1..Len(s) : t[k].function = s[k].function
  BY <1>1, <1>3
<1>9. \A g \in DOMAIN Functions : Own(g) \subseteq Objects
  BY OwnObjects
<1>10. ASSUME NEW k \in 1..Len(t), NEW o \in Own(t[k].function),
              k = 1 \/ o \notin Acquired(t[k].function, t[k].at)
       PROVE  ObjectOK(t[k], o, q[o])
  <2>1. CASE k = 1
    <3>1. o \in Own(f) /\ o \in Objects
      BY <1>2, <1>3, <1>9, <2>1
    <3>2. ObjectOK(s[1], o, p[o])
      BY <1>1, <3>1 DEF PointersOK
    <3>3. Freed(f, a, 0) = {} /\ Freed(f, a + 1, 0) = {}
      BY Starting
    <3>4. o \notin Before(f, a) => p[o] # "live" /\ (p[o] # "dangling" \/ o \in NoInitialValue)
      BY <1>2, <3>2, <3>3 DEF ObjectOK
    <3>5. o \in Before(f, a) => p[o] = "live"
      BY <1>2, <3>2, <3>3 DEF ObjectOK
    <3>6. o \in Before(f, a + 1) => q[o] = "live"
      BY <1>5, <1>6, <3>1, <3>5
    <3>7. o \notin Before(f, a + 1) => q[o] # "live" /\ (q[o] # "dangling" \/ o \in NoInitialValue)
      BY <1>5, <1>6, <3>1, <3>4
    <3> QED  BY <1>3, <2>1, <3>3, <3>6, <3>7 DEF ObjectOK
  <2>2. CASE k # 1
    <3>1. k \in 2..Len(s) /\ k \in 1..Len(s) /\ t[k] = s[k]
      BY <1>1, <2>2
    <3>2. \A w \in Objects : w \notin Own(f) => q[w] = p[w]
      BY <1>4, <1>6
    <3> QED  BY <1>10, <2>2, <3>1, <3>2, OthersUnaffected
  <2> QED  BY <2>1, <2>2
<1>11. ASSUME NEW o \in Objects, q[o] = "live" PROVE \E k \in 1..Len(t) : o \in Own(t[k].function)
  <2>1. CASE o \in gets
    BY <1>1, <1>3, <1>4, <2>1
  <2>2. CASE o \notin gets
    <3>1. p[o] = "live"
      BY <1>6, <1>11, <2>2
    <3> QED  BY <1>8, <3>1 DEF PointersOK
  <2> QED  BY <2>1, <2>2
<1> QED  BY <1>7, <1>10, <1>11 DEF PointersOK

\* A step that fails.
LEMMA PointersFail ==
    ASSUME NEW s, StackOK(s), s # <<>>, NEW p, PointersOK(s, p),
           NEW f, f = s[1].function, NEW a, a = s[1].at, a # End(f), ~s[1].failed,
           NEW gets, gets = StepsOf(f)[a].gets, StepsOf(f)[a].calls = "none",
           NEW got \in SUBSET gets, got = gets => got = {},
           NEW t, StackOK(t), IsReplaced(t, s, Fail(s[1])),
           NEW q, q = SomeGot(p, gets, got)
    PROVE  PointersOK(t, q)
<1>0. Len(t) = Len(s) /\ t[1] = Fail(s[1]) /\ \A k \in 2..Len(s) : t[k] = s[k]
  BY DEF IsReplaced
<1> USE <1>0
<1>9. q = [o \in Objects |-> IF o \in got THEN "live" ELSE IF o \in gets \ got THEN "null" ELSE p[o]]
  BY DEF SomeGot
<1>1. Len(s) \in Nat /\ 1 \in 1..Len(s) /\ Len(s) >= 1
  BY Innermost
<1>2. f \in DOMAIN Functions /\ a \in 1..(End(f) - 1) /\ a \in Nat /\ s[1].released = 0 /\ s[1] \in Frame
  BY Innermost
<1>3. t[1].function = f /\ t[1].at = a /\ t[1].failed /\ t[1].released = 0
  BY <1>2 DEF Fail, Frame
<1>4. Acquired(f, a) = gets /\ gets \subseteq Own(f) /\ gets \intersect Before(f, a) = {}
  BY <1>2, Acquiring
<1>5. q \in [Objects -> Value] /\ \A o \in Objects \ NoInitialValue : q[o] # "unset"
  BY <1>9 DEF PointersOK, Value
<1>6. \A k \in 1..Len(s) : t[k].function = s[k].function
  BY <1>1, <1>3
<1>7. ASSUME NEW k \in 1..Len(t), NEW o \in Own(t[k].function),
             k = 1 \/ o \notin Acquired(t[k].function, t[k].at)
      PROVE  ObjectOK(t[k], o, q[o])
  <2>1. CASE k = 1
    <3>1. o \in Own(f) /\ o \in Objects
      BY <1>2, <1>3, <2>1, OwnObjects
    <3>2. ObjectOK(s[1], o, p[o])
      BY <1>1, <3>1 DEF PointersOK
    <3>3. Freed(f, a, 0) = {}
      BY Starting
    <3>4. o \notin Before(f, a) => p[o] # "live" /\ (p[o] # "dangling" \/ o \in NoInitialValue)
      BY <1>2, <3>2, <3>3 DEF ObjectOK
    <3>5. o \in Before(f, a) => p[o] = "live"
      BY <1>2, <3>2, <3>3 DEF ObjectOK
    <3>6. o \in Before(f, a) => q[o] = "live"
      BY <1>4, <1>9, <3>1, <3>5
    <3>7. o \notin Before(f, a) => q[o] # "dangling" \/ o \in NoInitialValue
      BY <1>9, <3>1, <3>4
    <3>8. o \notin Before(f, a) /\ q[o] = "live" => o \in MaybeLive(f, a)
      <4> SUFFICES ASSUME o \notin Before(f, a), q[o] = "live" PROVE o \in MaybeLive(f, a)
        OBVIOUS
      <4>1. o \in got
        BY <1>9, <3>1, <3>4
      <4>2. o \in Acquired(f, a) /\ Acquired(f, a) # {o}
        BY <1>4, <4>1
      <4> QED  BY <4>2 DEF MaybeLive
    <3> QED  BY <1>3, <2>1, <3>3, <3>6, <3>7, <3>8 DEF ObjectOK
  <2>2. CASE k # 1
    <3>1. k \in 2..Len(s) /\ t[k] = s[k]
      BY <1>1, <2>2
    <3>2. \A w \in Objects : w \notin Own(f) => q[w] = p[w]
      BY <1>4, <1>9
    <3> QED  BY <1>7, <2>2, <3>1, <3>2, OthersUnaffected
  <2> QED  BY <2>1, <2>2
<1>8. ASSUME NEW o \in Objects, q[o] = "live" PROVE \E k \in 1..Len(t) : o \in Own(t[k].function)
  <2>1. CASE o \in gets
    BY <1>1, <1>3, <1>4, <2>1
  <2>2. CASE o \notin gets
    <3>1. p[o] = "live"
      BY <1>8, <1>9, <2>2
    <3> QED  BY <1>6, <3>1 DEF PointersOK
  <2> QED  BY <2>1, <2>2
<1> QED  BY <1>5, <1>7, <1>8 DEF PointersOK

\* A call: the callee has its own locals, and sets them.
LEMMA PointersCall ==
    ASSUME NEW s, StackOK(s), s # <<>>, NEW p, PointersOK(s, p), ~s[1].failed,
           NEW g \in DOMAIN Functions \ Main,
           NEW t, StackOK(t), IsPushed(t, s, Activation(g)),
           NEW q, q = Setting(p, Locals(g), "null")
    PROVE  PointersOK(t, q)
<1>0. Len(t) = Len(s) + 1 /\ t[1] = Activation(g) /\ \A k \in 2..Len(t) : t[k] = s[k - 1]
  BY DEF IsPushed
<1> USE <1>0
<1>8. q = [o \in Objects |-> IF o \in Locals(g) THEN "null" ELSE p[o]]
  BY DEF Setting
<1>1. Len(s) \in Nat /\ 1 \in 1..Len(s) /\ Len(s) >= 1
  BY Innermost
<1>2. t[1].function = g /\ t[1].at = 1 /\ t[1].released = 0
  BY DEF Activation
<1>3. q \in [Objects -> Value] /\ \A o \in Objects \ NoInitialValue : q[o] # "unset"
  BY <1>8 DEF PointersOK, Value
<1>4. Locals(g) \subseteq Own(g)
  BY EverythingOwn
<1>5. \A k \in 1..Len(s) : k + 1 \in 2..Len(t) /\ t[k + 1] = s[k]
  BY <1>1
<1>6. ASSUME NEW k \in 1..Len(t), NEW o \in Own(t[k].function),
             k = 1 \/ o \notin Acquired(t[k].function, t[k].at)
      PROVE  ObjectOK(t[k], o, q[o])
  <2>1. CASE k = 1
    <3>1. o \in Own(g) /\ o \in Objects
      BY <1>2, <2>1, OwnObjects
    <3>2. Own(g) = Locals(g)
      BY <3>1, Sharing, EverythingOwn
    <3>3. q[o] = "null"
      BY <1>8, <3>1, <3>2
    <3>4. Freed(g, 1, 0) = {} /\ Before(g, 1) = {}
      BY Starting
    <3> QED  BY <1>2, <2>1, <3>3, <3>4 DEF ObjectOK
  <2>2. CASE k # 1
    <3>1. k \in 2..Len(t)
      BY <2>2
    <3>2. PICK i \in 1..Len(s) : i = k - 1 /\ t[k] = s[i]
      BY <1>1, <3>1
    <3>3. o \notin Own(g)
      BY <1>2, <1>6, <2>2, <3>1, Apart
    <3>4. o \in Objects
      BY <3>2, InStack, OwnObjects
    <3>5. q[o] = p[o]
      BY <1>4, <1>8, <3>3, <3>4
    <3>6. ObjectOK(s[i], o, p[o])
      BY <1>6, <2>2, <3>2 DEF PointersOK
    <3> QED  BY <3>2, <3>5, <3>6
  <2> QED  BY <2>1, <2>2
<1>7. ASSUME NEW o \in Objects, q[o] = "live" PROVE \E k \in 1..Len(t) : o \in Own(t[k].function)
  <2>1. p[o] = "live"
    BY <1>7, <1>8
  <2>2. PICK k \in 1..Len(s) : o \in Own(s[k].function)
    BY <2>1 DEF PointersOK
  <2>3. k + 1 \in 1..Len(t) /\ t[k + 1] = s[k]
    BY <1>1, <1>5
  <2> QED  BY <2>2, <2>3
<1> QED  BY <1>3, <1>6, <1>7 DEF PointersOK

\* What the discipline says of one release.
LEMMA Cleaning ==
    ASSUME NEW f \in DOMAIN Functions, NEW a \in 1..End(f), NEW n \in Nat, n < Len(Ways(f, a)),
           NEW release, release = Ways(f, a)[n + 1]
    PROVE  /\ release \in ReleaseType
           /\ release.frees \union release.given \subseteq Own(f)
           /\ \A o1, o2 \in release.frees : o1 = o2
           /\ (release.frees \union release.given) \intersect Freed(f, a, n) = {}
           /\ release.frees \intersect MaybeLive(f, a) # {} =>
                 release.after < a /\ release.given \subseteq Before(f, a)
           /\ release.after < a =>
                 (release.frees \union release.given) \intersect NoInitialValue \subseteq Before(f, a)
           /\ release.frees \intersect Memory \subseteq release.erases
           /\ Freed(f, a, n + 1) = Freed(f, a, n) \union release.frees
<1>1. Len(Ways(f, a)) \in Nat /\ DOMAIN Ways(f, a) = 1..Len(Ways(f, a))
  BY Tables
<1>2. n + 1 \in 1..Len(Ways(f, a)) /\ (n + 1) - 1 = n
  BY <1>1
<1>3. release \in ReleaseType
  BY <1>2, Tables
<1>4. Cleans(f, a)
  BY TablesDisciplined DEF Disciplined
<1>5. /\ release.frees \union release.given \subseteq Own(f)
      /\ \A o1, o2 \in release.frees : o1 = o2
      /\ \A k \in 1..n : (release.frees \union release.given) \intersect Ways(f, a)[k].frees = {}
      /\ release.frees \intersect MaybeLive(f, a) # {} =>
            release.after < a /\ release.given \subseteq Before(f, a)
      /\ release.after < a =>
            (release.frees \union release.given) \intersect NoInitialValue \subseteq Before(f, a)
      /\ release.frees \intersect Memory \subseteq release.erases
  BY <1>1, <1>2, <1>4 DEF Cleans
<1>6. (release.frees \union release.given) \intersect Freed(f, a, n) = {}
  BY <1>5 DEF Freed
<1>7. Freed(f, a, n + 1) = Freed(f, a, n) \union release.frees
  BY FreeingOneMore
<1> QED  BY <1>3, <1>5, <1>6, <1>7

\* What is freed, or read in order to free, is live.
LEMMA ReleaseIsSafe ==
    ASSUME NEW s, StackOK(s), s # <<>>, NEW p, PointersOK(s, p),
           NEW f, f = s[1].function, NEW a, a = s[1].at,
           NEW n, n = s[1].released, n < Len(Ways(f, a)),
           NEW release, release = Ways(f, a)[n + 1], Takes(release, a, p),
           NEW o \in release.given \union release.frees
    PROVE  p[o] = "live"
<1>1. f \in DOMAIN Functions /\ a \in 1..End(f) /\ n \in Nat /\ 1 \in 1..Len(s)
  BY Innermost, InStack
<1>2. release \in ReleaseType /\ a > release.after /\ p[o] # "null"
  BY <1>1, Cleaning DEF Takes
<1>3. release.after < a
  <2>1. release.after \in Nat /\ a \in Nat
    BY <1>1, <1>2 DEF ReleaseType
  <2> QED  BY <1>2, <2>1
<1>4. /\ o \in Own(f) /\ o \notin Freed(f, a, n)
      /\ o \in NoInitialValue => o \in Before(f, a)
  BY <1>1, <1>3, Cleaning
<1>5. o \in Objects
  BY <1>1, <1>4, OwnObjects
<1>6. ObjectOK(s[1], o, p[o]) /\ p[o] \in Value /\ (p[o] # "unset" \/ o \in NoInitialValue)
  BY <1>1, <1>4, <1>5 DEF PointersOK
<1>7. CASE o \in Before(f, a)
  BY <1>4, <1>6, <1>7 DEF ObjectOK
<1>8. CASE o \notin Before(f, a)
  <2>1. p[o] # "dangling"
    BY <1>4, <1>6, <1>8 DEF ObjectOK
  <2> QED  BY <1>2, <1>4, <1>6, <1>8, <2>1 DEF Value
<1> QED  BY <1>7, <1>8

\* A release that does not take place had nothing to free.
LEMMA NothingToRelease ==
    ASSUME NEW s, StackOK(s), s # <<>>, NEW p, PointersOK(s, p),
           NEW f, f = s[1].function, NEW a, a = s[1].at,
           NEW n, n = s[1].released, n < Len(Ways(f, a)),
           NEW release, release = Ways(f, a)[n + 1], ~Takes(release, a, p),
           NEW o \in release.frees
    PROVE  p[o] # "live"
<1> SUFFICES ASSUME p[o] = "live" PROVE FALSE
  OBVIOUS
<1>1. f \in DOMAIN Functions /\ a \in 1..End(f) /\ n \in Nat /\ 1 \in 1..Len(s)
  BY Innermost, InStack
<1>2. /\ release \in ReleaseType
      /\ release.frees \union release.given \subseteq Own(f)
      /\ (release.frees \union release.given) \intersect Freed(f, a, n) = {}
      /\ release.frees \intersect MaybeLive(f, a) # {} =>
            release.after < a /\ release.given \subseteq Before(f, a)
  BY <1>1, Cleaning
<1>11. ASSUME NEW w \in release.frees PROVE w = o
  <2>1. PICK j \in 1..Len(Ways(f, a)) : release = Ways(f, a)[j]
    <3>1. n + 1 \in 1..Len(Ways(f, a))
      BY <1>1, Tables
    <3> QED  BY <3>1
  <2>2. Cleans(f, a) /\ j \in DOMAIN Ways(f, a)
    BY <1>1, Tables, TablesDisciplined DEF Disciplined
  <2> QED  BY <1>11, <2>1, <2>2 DEF Cleans
<1>3. ObjectOK(s[1], o, p[o])
  BY <1>1, <1>2 DEF PointersOK
<1>4. o \in MaybeLive(f, a)
  BY <1>3 DEF ObjectOK, MaybeLive
<1>5. release.after < a /\ release.given \subseteq Before(f, a)
  BY <1>2, <1>4
<1>6. a > release.after
  <2>1. release.after \in Nat /\ a \in Nat
    BY <1>1, <1>2 DEF ReleaseType
  <2> QED  BY <1>5, <2>1
<1>7. PICK w \in release.given \union release.frees : p[w] = "null"
  BY <1>6 DEF Takes
<1>8. w \notin release.frees
  BY <1>7, <1>11
<1>9. w \in release.given /\ w \in Before(f, a) /\ w \notin Freed(f, a, n) /\ w \in Own(f)
  BY <1>2, <1>5, <1>8
<1>10. ObjectOK(s[1], w, p[w])
  BY <1>1, <1>9 DEF PointersOK
<1> QED  BY <1>7, <1>9, <1>10 DEF ObjectOK

\* A release.
LEMMA PointersRelease ==
    ASSUME NEW s, StackOK(s), s # <<>>, NEW p, PointersOK(s, p),
           NEW f, f = s[1].function, NEW a, a = s[1].at,
           NEW n, n = s[1].released, n < Len(Ways(f, a)),
           NEW release, release = Ways(f, a)[n + 1], NEW v \in {"null", "dangling"},
           NEW t, StackOK(t), IsReplaced(t, s, [s[1] EXCEPT !.released = @ + 1]),
           NEW q, q = Freeing(p, release, a, v)
    PROVE  PointersOK(t, q)
<1>0. Len(t) = Len(s) /\ t[1] = [s[1] EXCEPT !.released = @ + 1] /\ \A k \in 2..Len(s) : t[k] = s[k]
  BY DEF IsReplaced
<1> USE <1>0
<1>1. /\ Len(s) \in Nat /\ 1 \in 1..Len(s) /\ s[1] \in Frame
      /\ f \in DOMAIN Functions /\ a \in 1..End(f) /\ n \in Nat
  BY Innermost, InStack
<1>2. t[1].function = f /\ t[1].at = a /\ t[1].failed = s[1].failed /\ t[1].released = n + 1
  BY <1>1 DEF Frame
<1>3. /\ release.frees \subseteq Own(f)
      /\ release.frees \intersect Freed(f, a, n) = {}
      /\ Freed(f, a, n + 1) = Freed(f, a, n) \union release.frees
  BY <1>1, Cleaning
<1>4. p \in [Objects -> Value] /\ \A o \in Objects \ NoInitialValue : p[o] # "unset"
  BY DEF PointersOK
<1>5. q \in [Objects -> Value] /\ \A o \in Objects \ NoInitialValue : q[o] # "unset"
  BY <1>4 DEF Value, Freeing, Setting
<1>6. /\ \A o \in Objects : o \notin release.frees => q[o] = p[o]
      /\ \A o \in Objects : o \in release.frees => q[o] # "live"
  <2>1. CASE Takes(release, a, p)
    BY <1>4, <2>1 DEF Freeing, Setting
  <2>2. CASE ~Takes(release, a, p)
    BY <2>2, NothingToRelease DEF Freeing
  <2> QED  BY <2>1, <2>2
<1>7. ASSUME NEW k \in 1..Len(s) PROVE t[k].function = s[k].function
  <2>1. CASE k = 1
    BY <1>2, <2>1
  <2>2. CASE k # 1
    <3>1. k \in 2..Len(s)
      BY <1>1, <2>2
    <3> QED  BY <3>1
  <2> QED  BY <2>1, <2>2
<1>8. ASSUME NEW k \in 1..Len(t), NEW o \in Own(t[k].function),
             k = 1 \/ o \notin Acquired(t[k].function, t[k].at)
      PROVE  ObjectOK(t[k], o, q[o])
  <2>1. CASE k = 1
    <3>1. o \in Own(f) /\ o \in Objects
      BY <1>1, <1>2, <2>1, OwnObjects
    <3>2. ObjectOK(s[1], o, p[o])
      BY <1>1, <3>1 DEF PointersOK
    <3>3. CASE o \in release.frees
      <4>1. q[o] # "live" /\ o \in Freed(f, a, n + 1)
        BY <1>3, <1>6, <3>1, <3>3
      <4> QED  BY <1>2, <2>1, <4>1 DEF ObjectOK
    <3>4. CASE o \notin release.frees
      <4>1. q[o] = p[o] /\ (o \in Freed(f, a, n + 1) <=> o \in Freed(f, a, n))
        BY <1>3, <1>6, <3>1, <3>4
      <4> QED  BY <1>2, <2>1, <3>2, <4>1 DEF ObjectOK
    <3> QED  BY <3>3, <3>4
  <2>2. CASE k # 1
    <3>1. k \in 2..Len(s) /\ t[k] = s[k]
      BY <1>1, <2>2
    <3>2. \A w \in Objects : w \notin Own(f) => q[w] = p[w]
      BY <1>3, <1>6
    <3> QED  BY <1>8, <2>2, <3>1, <3>2, OthersUnaffected
  <2> QED  BY <2>1, <2>2
<1>9. ASSUME NEW o \in Objects, q[o] = "live" PROVE \E k \in 1..Len(t) : o \in Own(t[k].function)
  <2>1. p[o] = "live"
    BY <1>6, <1>9
  <2> QED  BY <1>7, <2>1 DEF PointersOK
<1> QED  BY <1>5, <1>8, <1>9 DEF PointersOK

\* After its last release an activation holds nothing but what it hands over.
LEMMA NothingHeld ==
    ASSUME NEW s, StackOK(s), s # <<>>, NEW p, PointersOK(s, p),
           NEW f, f = s[1].function, NEW a, a = s[1].at, s[1].released = Len(Ways(f, a)),
           NEW o \in Own(f), p[o] = "live"
    PROVE  o \in Handed(f, a)
<1>1. f \in DOMAIN Functions /\ a \in 1..End(f) /\ 1 \in 1..Len(s)
  BY Innermost
<1>2. ObjectOK(s[1], o, p[o])
  BY <1>1 DEF PointersOK
<1>3. o \in MaybeLive(f, a) /\ o \notin Freed(f, a, Len(Ways(f, a)))
  BY <1>2 DEF ObjectOK, MaybeLive
<1>4. MaybeLive(f, a) \subseteq Freed(f, a, Len(Ways(f, a))) \union Handed(f, a)
  BY <1>1, TablesDisciplined DEF Disciplined, Cleans
<1> QED  BY <1>3, <1>4

LEMMA HandedOver ==
    ASSUME NEW s, StackOK(s), s # <<>>, NEW p, PointersOK(s, p),
           NEW f, f = s[1].function, NEW a, a = s[1].at, s[1].released = Len(Ways(f, a)),
           NEW o \in Handed(f, a)
    PROVE  p[o] = "live"
<1>1. f \in DOMAIN Functions /\ a \in 1..End(f) /\ 1 \in 1..Len(s)
  BY Innermost
<1>2. o \notin Freed(f, a, Len(Ways(f, a))) /\ o \in Before(f, a)
  BY <1>1, TablesDisciplined DEF Disciplined, Cleans
<1>3. o \in Own(f)
  BY <1>1, <1>2, EverythingOwn DEF MaybeLive
<1>4. ObjectOK(s[1], o, p[o])
  BY <1>1, <1>3 DEF PointersOK
<1> QED  BY <1>2, <1>4 DEF ObjectOK

\* A return to the caller, which is handed the context if there is one.
LEMMA PointersReturn ==
    ASSUME NEW s, StackOK(s), Len(s) >= 2, NEW p, PointersOK(s, p),
           NEW f, f = s[1].function, NEW a, a = s[1].at, s[1].released = Len(Ways(f, a)),
           s[1].failed \/ a = End(f),
           NEW x, x = IF s[1].failed THEN Fail(s[2]) ELSE GoOn(s[2]),
           NEW t, StackOK(t), IsPopped(t, s, x)
    PROVE  PointersOK(t, p)
<1>0. Len(t) = Len(s) - 1 /\ t[1] = x /\ \A k \in 2..Len(t) : t[k] = s[k + 1]
  BY DEF IsPopped
<1> USE <1>0
<1>1. Len(s) \in Nat /\ s # <<>> /\ 1 \in 1..Len(s) /\ 2 \in 2..Len(s) /\ 2 \in 1..Len(s) /\ 2 - 1 = 1
  BY InStack
<1>2. /\ f \in DOMAIN Functions /\ a \in 1..End(f)
      /\ s[1].failed => a # End(f)
  <2>1. s[1].failed => a \in 1..(End(f) - 1)
    BY <1>1, Innermost
  <2>2. f \in DOMAIN Functions /\ a \in 1..End(f)
    BY <1>1, Innermost
  <2>3. End(f) \in Nat
    BY <2>2, Tables
  <2> QED  BY <2>1, <2>2, <2>3
<1>3. PICK g \in DOMAIN Functions : g = s[2].function
  BY <1>1, InStack
<1>4. PICK b \in 1..(End(g) - 1) : b = s[2].at
  BY <1>1, <1>3, InStack
<1>5. StepsOf(g)[b].calls = f /\ f \notin Main /\ ~s[2].failed /\ s[2].released = 0 /\ s[2] \in Frame
  BY <1>1, <1>3, <1>4, InStack
<1>6. b \in Nat /\ "none" \notin DOMAIN Functions
  BY <1>3, Tables DEF Functions
<1>7. /\ Acquired(g, b) = IF f = "transcript_init" THEN {"ctx"} ELSE {}
      /\ Acquired(g, b) \intersect Before(g, b) = {} /\ Acquired(g, b) \subseteq Own(g)
      /\ Before(g, b + 1) = Before(g, b) \union Acquired(g, b)
  <2>1. StepsOf(g)[b].calls # "none"
    BY <1>2, <1>5, <1>6
  <2> QED  BY <1>5, <2>1, Acquiring
<1>8. /\ x.function = g /\ x.released = 0 /\ x.failed = s[1].failed
      /\ x.at = IF s[1].failed THEN b ELSE b + 1
  <2>1. PICK y \in Frame : y = s[2] /\ y.function = g /\ y.at = b /\ ~y.failed /\ y.released = 0
    BY <1>3, <1>4, <1>5
  <2>2. CASE s[1].failed
    <3>1. x = Fail(y) /\ s[1].failed = TRUE
      BY <1>1, <2>1, <2>2, InStack
    <3> QED  BY <2>1, <2>2, <3>1 DEF Fail, Frame
  <2>3. CASE ~s[1].failed
    <3>1. x = GoOn(y) /\ s[1].failed = FALSE
      BY <1>1, <2>1, <2>3, InStack
    <3>2. y.failed = FALSE
      BY <2>1 DEF Frame
    <3> QED  BY <2>1, <2>3, <3>1, <3>2 DEF GoOn, Frame
  <2> QED  BY <2>2, <2>3
<1>9. ASSUME NEW o \in Own(g) PROVE ObjectOK(x, o, p[o])
  <2>1. Freed(g, b, 0) = {} /\ Freed(g, b + 1, 0) = {}
    BY Starting
  <2>2. CASE o \notin Acquired(g, b)
    <3>1. ObjectOK(s[2], o, p[o])
      BY <1>1, <1>3, <1>4, <2>2 DEF PointersOK
    <3>2. /\ o \in Before(g, b) => p[o] = "live"
          /\ o \notin Before(g, b) => p[o] # "live" /\ (p[o] # "dangling" \/ o \in NoInitialValue)
      BY <1>3, <1>4, <1>5, <2>1, <3>1 DEF ObjectOK
    <3>3. o \in Before(g, b + 1) <=> o \in Before(g, b)
      BY <1>7, <2>2
    <3> QED  BY <1>8, <2>1, <3>2, <3>3 DEF ObjectOK
  <2>3. CASE o \in Acquired(g, b)
    <3>1. o = "ctx" /\ f = "transcript_init" /\ o \in NoInitialValue
      BY <1>7, <2>3 DEF NoInitialValue
    <3>2. o \in Before(g, b + 1) /\ o \notin Before(g, b)
      BY <1>7, <2>3
    <3>3. CASE s[1].failed
      <4>1. p[o] # "live"
        <5>1. Handed(f, a) = {}
          BY <1>2, <3>3 DEF Handed
        <5>2. o \in Own(f)
          BY <3>1, ContextIsObject
        <5> QED  BY <1>1, <5>1, <5>2, NothingHeld
      <4> QED  BY <1>8, <2>1, <3>1, <3>2, <3>3, <4>1 DEF ObjectOK
    <3>4. CASE ~s[1].failed
      <4>1. o \in Handed(f, a)
        BY <3>1, <3>4 DEF Handed
      <4>2. p[o] = "live"
        BY <1>1, <4>1, HandedOver
      <4> QED  BY <1>8, <2>1, <3>2, <3>4, <4>2 DEF ObjectOK
    <3> QED  BY <3>3, <3>4
  <2> QED  BY <2>2, <2>3
<1>10. ASSUME NEW k \in 1..Len(t), NEW o \in Own(t[k].function),
              k = 1 \/ o \notin Acquired(t[k].function, t[k].at)
       PROVE  ObjectOK(t[k], o, p[o])
  <2>1. CASE k = 1
    BY <1>8, <1>9, <2>1
  <2>2. CASE k # 1
    <3>1. k \in 2..Len(t) /\ k + 1 \in 1..Len(s) /\ k + 1 # 1
      BY <1>1, <2>2
    <3>2. t[k] = s[k + 1]
      BY <3>1
    <3> QED  BY <1>10, <2>2, <3>1, <3>2 DEF PointersOK
  <2> QED  BY <2>1, <2>2
<1>11. ASSUME NEW o \in Objects, p[o] = "live" PROVE \E k \in 1..Len(t) : o \in Own(t[k].function)
  <2>1. PICK k \in 1..Len(s) : o \in Own(s[k].function)
    BY <1>11 DEF PointersOK
  <2>2. 1 \in 1..Len(t) /\ t[1].function = g
    BY <1>1, <1>8
  <2>3. CASE k = 1
    <3>1. o \in Handed(f, a)
      BY <1>1, <1>11, <2>1, <2>3, NothingHeld
    <3>2. o \in Acquired(g, b)
      BY <1>7, <3>1 DEF Handed
    <3> QED  BY <1>7, <2>2, <3>2
  <2>4. CASE k = 2
    BY <1>3, <2>1, <2>2, <2>4
  <2>5. CASE k > 2
    <3>1. PICK i \in 2..Len(t) : i + 1 = k
      <4>1. k - 1 \in 2..Len(t) /\ (k - 1) + 1 = k
        BY <1>1, <2>5
      <4> QED  BY <4>1
    <3>2. t[i] = s[k] /\ i \in 1..Len(t)
      BY <1>1, <3>1
    <3> QED  BY <2>1, <3>2
  <2> QED  BY <2>3, <2>4, <2>5
<1> QED  BY <1>10, <1>11 DEF PointersOK

-----------------------------------------------------------------------------
(* The actions, in terms of the innermost activation *)

\* No table ignores a result, so an error that is there is noticed.
LEMMA Noticing ==
    ASSUME NEW frame, frame.function \in DOMAIN Functions, frame.at \in 1..(End(frame.function) - 1)
    PROVE  Noticed(frame) = Fail(frame)
<1>1. StepsOf(frame.function)[frame.at] \in StepType
  BY Tables
<1> QED  BY <1>1 DEF StepType, StepsOf, Noticed

LEMMA WhereItStands ==
    ASSUME NEW s, s = stack, StackOK(s), s # <<>>, NEW f, f = s[1].function, NEW a, a = s[1].at
    PROVE  /\ Top = s[1] /\ Steps = StepsOf(f) /\ Step = StepsOf(f)[a] /\ Releases = Ways(f, a)
           /\ Release = Ways(f, a)[s[1].released + 1]
           /\ Leaving <=> s[1].failed \/ a = End(f)
           /\ Running <=> ~s[1].failed /\ a # End(f)
<1>1. Top = s[1]
  BY InStack DEF Top
<1>2. Steps = StepsOf(f) /\ Step = StepsOf(f)[a] /\ Releases = Ways(f, a)
  BY <1>1 DEF Steps, Step, Releases, StepsOf, Ways
<1>3. Release = Ways(f, a)[s[1].released + 1]
  BY <1>1, <1>2 DEF Release
<1>4. a > Len(Steps) <=> a = End(f)
  <2>1. f \in DOMAIN Functions /\ a \in 1..End(f)
    BY Innermost
  <2>2. End(f) \in Nat /\ Len(StepsOf(f)) = End(f) - 1
    BY <2>1, Tables
  <2> QED  BY <1>2, <2>1, <2>2
<1>5. Leaving <=> s[1].failed \/ a = End(f)
  BY <1>1, <1>4 DEF Leaving
<1> QED  BY <1>1, <1>2, <1>3, <1>5 DEF Running

LEMMA Moves ==
    ASSUME NEW x \in Frame
    PROVE  /\ Fail(x) \in Frame /\ Fail(x).failed
           /\ Fail(x).function = x.function /\ Fail(x).at = x.at /\ Fail(x).released = x.released
           /\ GoOn(x) \in Frame /\ GoOn(x).failed = x.failed
           /\ GoOn(x).function = x.function /\ GoOn(x).at = x.at + 1 /\ GoOn(x).released = x.released
<1>1. /\ Fail(x).failed
      /\ Fail(x).function = x.function /\ Fail(x).at = x.at /\ Fail(x).released = x.released
  BY DEF Fail, Frame
<1>2. /\ GoOn(x).failed = x.failed
      /\ GoOn(x).function = x.function /\ GoOn(x).at = x.at + 1 /\ GoOn(x).released = x.released
  BY DEF GoOn, Frame
<1>3. Fail(x) \in Frame
  BY DEF Fail, Frame
<1>4. GoOn(x) \in Frame
  BY DEF GoOn, Frame
<1> QED  BY <1>1, <1>2, <1>3, <1>4

LEMMA SucceedsStep ==
    ASSUME Succeeds, NEW s, s = stack, StackOK(s), NEW f, f = s[1].function, NEW a, a = s[1].at,
           NEW t, t = stack'
    PROVE  /\ s # <<>> /\ ~s[1].failed /\ a # End(f) /\ StepsOf(f)[a].calls = "none"
           /\ StackOK(t) /\ IsReplaced(t, s, GoOn(s[1]))
           /\ pointer' = Setting(pointer, StepsOf(f)[a].gets, "live")
           /\ secret' = secret \union StepsOf(f)[a].fills
           /\ unverified' = (unverified \union StepsOf(f)[a].decrypts) \ StepsOf(f)[a].verifies
<1>1. s # <<>>
  BY DEF Succeeds, Running
<1>2. ~s[1].failed /\ a # End(f) /\ StepsOf(f)[a].calls = "none" /\ Top = s[1] /\ Step = StepsOf(f)[a]
  BY <1>1, WhereItStands DEF Succeeds
<1>3. t = ReplaceTop(s, GoOn(s[1]))
  BY <1>2 DEF Succeeds, WithTop, ReplaceTop
<1>4. GoOn(s[1]) \in Frame /\ FrameOK(GoOn(s[1])) /\ GoOn(s[1]).function = f
  <2>1. /\ s[1] \in Frame /\ f \in DOMAIN Functions /\ a \in 1..(End(f) - 1) /\ a \in Nat
        /\ s[1].released = 0 /\ s[1].failed = FALSE
    BY <1>1, <1>2, Innermost DEF Frame
  <2>2. a + 1 \in 1..End(f)
    BY <2>1, Tables
  <2>3. Len(Ways(f, a + 1)) \in Nat
    BY <2>1, <2>2, Tables
  <2>4. /\ GoOn(s[1]) \in Frame /\ ~GoOn(s[1]).failed /\ GoOn(s[1]).function = f
        /\ GoOn(s[1]).at = a + 1 /\ GoOn(s[1]).released = 0
    BY <2>1, Moves
  <2> QED  BY <2>2, <2>3, <2>4 DEF FrameOK
<1>5. StackOK(t) /\ IsReplaced(t, s, GoOn(s[1]))
  BY <1>1, <1>3, <1>4, StackReplaced
<1> QED  BY <1>1, <1>2, <1>5 DEF Succeeds, Assign, Setting

LEMMA FailsStep ==
    ASSUME Fails, NEW s, s = stack, StackOK(s), NEW f, f = s[1].function, NEW a, a = s[1].at,
           NEW t, t = stack'
    PROVE  /\ s # <<>> /\ ~s[1].failed /\ a # End(f) /\ StepsOf(f)[a].calls = "none"
           /\ StackOK(t) /\ IsReplaced(t, s, Fail(s[1]))
           /\ GotSome(pointer', pointer, StepsOf(f)[a].gets)
           /\ secret' = secret /\ unverified' = unverified
<1>1. s # <<>>
  BY DEF Fails, Running
<1>2. ~s[1].failed /\ a # End(f) /\ StepsOf(f)[a].calls = "none" /\ Top = s[1] /\ Step = StepsOf(f)[a]
  BY <1>1, WhereItStands DEF Fails
<1>3. t = ReplaceTop(s, Fail(s[1]))
  <2>1. f \in DOMAIN Functions /\ a \in 1..End(f) /\ End(f) \in Nat
    BY <1>1, Innermost, Tables
  <2>2. Noticed(s[1]) = Fail(s[1])
    BY <1>2, <2>1, Noticing
  <2> QED  BY <1>2, <2>2 DEF Fails, WithTop, ReplaceTop
<1>4. Fail(s[1]) \in Frame /\ FrameOK(Fail(s[1])) /\ Fail(s[1]).function = f
  <2>1. /\ s[1] \in Frame /\ f \in DOMAIN Functions /\ a \in 1..End(f) /\ a \in Nat
        /\ s[1].released = 0 /\ 0 \in 0..Len(Ways(f, a))
    BY <1>1, <1>2, Innermost
  <2>2. /\ Fail(s[1]) \in Frame /\ Fail(s[1]).failed /\ Fail(s[1]).function = f
        /\ Fail(s[1]).at = a /\ Fail(s[1]).released = 0
    BY <2>1, Moves
  <2> QED  BY <1>2, <2>1, <2>2 DEF FrameOK
<1>5. StackOK(t) /\ IsReplaced(t, s, Fail(s[1]))
  BY <1>1, <1>3, <1>4, StackReplaced
<1>6. PICK got \in SUBSET StepsOf(f)[a].gets :
         /\ got = StepsOf(f)[a].gets => got = {}
         /\ pointer' = [o \in Objects |->
               CASE o \in got -> "live"
                 [] o \in StepsOf(f)[a].gets \ got -> "null"
                 [] OTHER -> pointer[o]]
  BY <1>2 DEF Fails
<1>7. pointer' = SomeGot(pointer, StepsOf(f)[a].gets, got)
  BY <1>6 DEF SomeGot
<1> QED  BY <1>1, <1>2, <1>5, <1>6, <1>7 DEF Fails, GotSome

LEMMA CallsStep ==
    ASSUME Calls, NEW s, s = stack, StackOK(s), NEW f, f = s[1].function, NEW a, a = s[1].at,
           NEW g, g = StepsOf(f)[a].calls, NEW t, t = stack'
    PROVE  /\ s # <<>> /\ ~s[1].failed /\ a # End(f) /\ g \in DOMAIN Functions \ Main
           /\ StackOK(t) /\ IsPushed(t, s, Activation(g))
           /\ pointer' = Setting(pointer, Locals(g), "null")
           /\ secret' = secret /\ unverified' = unverified
<1>1. s # <<>>
  BY DEF Calls, Running
<1>2. ~s[1].failed /\ a # End(f) /\ g # "none" /\ Step = StepsOf(f)[a]
  BY <1>1, WhereItStands DEF Calls
<1>3. t = PushTop(s, Activation(g))
  BY <1>2 DEF Calls, PushTop
<1>4. /\ StackOK(t) /\ IsPushed(t, s, Activation(g))
      /\ g \in DOMAIN Functions \ Main
  BY <1>1, <1>2, <1>3, StackPushed
<1>5. /\ pointer' = Setting(pointer, Locals(g), "null")
      /\ secret' = secret /\ unverified' = unverified
  BY <1>2 DEF Calls, LocalsSet, Assign, Setting
<1> QED  BY <1>1, <1>2, <1>4, <1>5

LEMMA ReleasingStep ==
    ASSUME Releasing, NEW s, s = stack, StackOK(s), NEW f, f = s[1].function, NEW a, a = s[1].at,
           NEW n, n = s[1].released, NEW release, release = Ways(f, a)[n + 1], NEW t, t = stack'
    PROVE  /\ s # <<>> /\ (s[1].failed \/ a = End(f)) /\ n < Len(Ways(f, a)) /\ Release = release
           /\ StackOK(t) /\ IsReplaced(t, s, [s[1] EXCEPT !.released = @ + 1])
           /\ FreesSome(pointer', pointer, release, a)
           /\ secret' = Erasing(secret, release, a, pointer)
           /\ unverified' = unverified
           /\ TakesPlace <=> Takes(release, a, pointer)
<1>1. s # <<>>
  BY DEF Releasing, Leaving
<1>2. /\ s[1].failed \/ a = End(f)
      /\ Top = s[1] /\ Releases = Ways(f, a) /\ Release = release
  BY <1>1, WhereItStands DEF Releasing
<1>3. n < Len(Ways(f, a))
  BY <1>2 DEF Releasing
<1>4. t = ReplaceTop(s, [s[1] EXCEPT !.released = @ + 1])
  BY <1>2 DEF Releasing, WithTop, ReplaceTop
<1> DEFINE x == [s[1] EXCEPT !.released = @ + 1]
<1>5. x \in Frame /\ FrameOK(x) /\ x.function = f
  <2>1. /\ s[1] \in Frame /\ f \in DOMAIN Functions /\ a \in 1..End(f) /\ a \in Nat
        /\ n \in 0..Len(Ways(f, a)) /\ FrameOK(s[1])
    BY <1>1, Innermost, InStack
  <2>2. n + 1 \in 0..Len(Ways(f, a)) /\ n + 1 \in Nat
    BY <1>3, <2>1, Tables
  <2>3. x = [function |-> f, at |-> a, failed |-> s[1].failed, released |-> n + 1] /\ s[1].failed \in BOOLEAN
    BY <2>1 DEF Frame
  <2>4. s[1].failed => a # End(f)
    BY <2>1 DEF FrameOK
  <2> HIDE DEF x
  <2>5. x.function = f /\ x.at = a /\ x.failed = s[1].failed /\ x.released = n + 1
    BY <2>3
  <2>6. x \in Frame
    BY <2>1, <2>2, <2>3 DEF Frame
  <2> QED  BY <1>2, <2>1, <2>2, <2>4, <2>5, <2>6 DEF FrameOK
<1>6. t = ReplaceTop(s, x)
  BY <1>4
<1>7. StackOK(t) /\ IsReplaced(t, s, x)
  <2> HIDE DEF x
  <2> QED  BY <1>1, <1>5, <1>6, StackReplaced
<1>8. TakesPlace <=> Takes(release, a, pointer)
  BY <1>2 DEF TakesPlace, Takes
<1>9. CASE TakesPlace
  <2>1. PICK v \in {"null", "dangling"} : v = IF release.nulls THEN "null" ELSE "dangling"
    OBVIOUS
  <2>2. /\ pointer' = [o \in Objects |-> IF o \in release.frees THEN v ELSE pointer[o]]
        /\ secret' = secret \ release.erases /\ unverified' = unverified
    BY <1>2, <1>9, <2>1 DEF Releasing, Assign
  <2> QED  BY <1>1, <1>2, <1>3, <1>7, <1>8, <1>9, <2>2 DEF FreesSome, Freeing, Setting, Erasing
<1>10. CASE ~TakesPlace
  <2>1. pointer' = pointer /\ secret' = secret /\ unverified' = unverified
    BY <1>10 DEF Releasing
  <2> QED  BY <1>1, <1>2, <1>3, <1>7, <1>8, <1>10, <2>1 DEF FreesSome, Freeing, Erasing
<1> QED  BY <1>9, <1>10

\* A return to a caller,
LEMMA ReturnsStep ==
    ASSUME Returns, NEW s, s = stack, StackOK(s), NEW f, f = s[1].function, NEW a, a = s[1].at,
           Len(s) >= 2, NEW g, g = s[2].function, NEW b, b = s[2].at, NEW t, t = stack'
    PROVE  /\ s # <<>> /\ (s[1].failed \/ a = End(f)) /\ s[1].released = Len(Ways(f, a))
           /\ StackOK(t) /\ IsPopped(t, s, IF s[1].failed THEN Fail(s[2]) ELSE GoOn(s[2]))
           /\ t # <<>> /\ t[Len(t)].function = s[Len(s)].function
           /\ secret' = IF s[1].failed THEN secret ELSE secret \union StepsOf(g)[b].fills
           /\ pointer' = pointer /\ unverified' = unverified
<1>1. s # <<>> /\ Len(s) \in Nat /\ 2 \in 2..Len(s) /\ 2 \in 1..Len(s) /\ 2 - 1 = 1
  BY InStack
<1>2. (s[1].failed \/ a = End(f)) /\ Top = s[1] /\ Releases = Ways(f, a)
  BY <1>1, WhereItStands DEF Returns
<1>3. s[1].released = Len(Ways(f, a))
  BY <1>2 DEF Returns
<1> DEFINE x == IF s[1].failed THEN Fail(s[2]) ELSE GoOn(s[2])
<1>4. t = PopTop(s, x)
  <2>1. Noticed(s[2]) = Fail(s[2])
    BY <1>1, InStack, Noticing
  <2> QED  BY <1>1, <1>2, <2>1 DEF Returns, Resume, PopTop
<1>5. x \in Frame /\ FrameOK(x) /\ x.function = g
  <2>1. /\ s[2] \in Frame /\ g \in DOMAIN Functions /\ b \in 1..(End(g) - 1) /\ b \in Nat
        /\ s[2].released = 0 /\ ~s[2].failed
    <3>1. s[2] \in Frame /\ g \in DOMAIN Functions
      BY <1>1, InStack
    <3>2. b \in 1..(End(g) - 1) /\ s[2].released = 0 /\ ~s[2].failed
      BY <1>1, InStack
    <3>3. End(g) \in Nat
      BY <3>1, Tables
    <3> QED  BY <3>1, <3>2, <3>3
  <2>2. b + 1 \in 1..End(g) /\ b \in 1..End(g) /\ b # End(g)
    BY <2>1, Tables
  <2>3. Len(Ways(g, b + 1)) \in Nat /\ Len(Ways(g, b)) \in Nat
    BY <2>1, <2>2, Tables
  <2>4. CASE s[1].failed
    <3>1. x = Fail(s[2])
      BY <2>4
    <3>2. x \in Frame /\ x.failed /\ x.function = g /\ x.at = b /\ x.released = 0
      BY <2>1, <3>1, Moves
    <3> HIDE DEF x
    <3> QED  BY <2>2, <2>3, <3>2 DEF FrameOK
  <2>5. CASE ~s[1].failed
    <3>1. x = GoOn(s[2])
      BY <2>5
    <3>2. x \in Frame /\ ~x.failed /\ x.function = g /\ x.at = b + 1 /\ x.released = 0
      BY <2>1, <3>1, Moves
    <3> HIDE DEF x
    <3> QED  BY <2>2, <2>3, <3>2 DEF FrameOK
  <2> QED  BY <2>4, <2>5
<1>6. /\ StackOK(t) /\ IsPopped(t, s, x)
      /\ t # <<>> /\ t[Len(t)].function = s[Len(s)].function
  <2> HIDE DEF x
  <2> QED  BY <1>1, <1>4, <1>5, StackPopped
<1>7. /\ secret' = IF s[1].failed THEN secret ELSE secret \union StepsOf(g)[b].fills
      /\ pointer' = pointer /\ unverified' = unverified
  BY <1>1, <1>2 DEF Returns, StepsOf
<1> QED  BY <1>1, <1>2, <1>3, <1>6, <1>7

\* and the end of a program.
LEMMA ProgramEnds ==
    ASSUME Returns, NEW s, s = stack, StackOK(s), NEW f, f = s[1].function, NEW a, a = s[1].at,
           ~(Len(s) >= 2)
    PROVE  /\ s # <<>> /\ Len(s) = 1 /\ f \in Main
           /\ (s[1].failed \/ a = End(f)) /\ s[1].released = Len(Ways(f, a))
           /\ stack' = <<>> /\ secret' = secret /\ pointer' = pointer /\ unverified' = unverified
<1>1. s # <<>> /\ Len(s) = 1
  BY InStack DEF Returns, Leaving
<1>2. (s[1].failed \/ a = End(f)) /\ Top = s[1] /\ Releases = Ways(f, a)
  BY <1>1, WhereItStands DEF Returns
<1>3. s[1].released = Len(Ways(f, a))
  BY <1>2 DEF Returns
<1>4. f \in Main
  BY <1>1 DEF StackOK
<1>5. stack' = <<>> /\ secret' = secret /\ pointer' = pointer /\ unverified' = unverified
  BY <1>1 DEF Returns
<1> QED  BY <1>1, <1>2, <1>3, <1>4, <1>5

-----------------------------------------------------------------------------
(* Stack and pointers in every state *)

LEMMA StartingStack ==
    ASSUME Init
    PROVE  StackOK(stack) /\ PointersOK(stack, pointer) /\ Len(stack) = 1
<1>1. PICK f \in DOMAIN Functions : f \in Main /\ stack = <<Activation(f)>>
  BY ProgramsAssumption DEF Init, Main, StepsOf
<1>2. Activation(f) \in Frame /\ FrameOK(Activation(f)) /\ Activation(f).function = f
  BY NewActivation DEF Activation
<1>3. stack \in Seq(Frame) /\ Len(stack) = 1 /\ stack[1] = Activation(f) /\ stack # <<>>
  BY <1>1, <1>2
<1>4. StackOK(stack)
  BY <1>1, <1>2, <1>3 DEF StackOK
<1>5. pointer \in [Objects -> Value] /\ \A o \in Objects \ NoInitialValue : pointer[o] # "unset"
  BY DEF Init, Value
<1>6. \A o \in Objects : pointer[o] # "live" /\ pointer[o] # "dangling"
  BY DEF Init
<1>7. ASSUME NEW o \in Own(f) PROVE ObjectOK(stack[1], o, pointer[o])
  <2>1. o \in Objects
    BY OwnObjects
  <2>2. Freed(f, 1, 0) = {} /\ Before(f, 1) = {}
    BY Starting
  <2>3. stack[1].function = f /\ stack[1].at = 1 /\ stack[1].released = 0
    BY <1>3 DEF Activation
  <2> QED  BY <1>6, <2>1, <2>2, <2>3 DEF ObjectOK
<1>8. PointersOK(stack, pointer)
  BY <1>2, <1>3, <1>5, <1>6, <1>7 DEF PointersOK
<1> QED  BY <1>3, <1>4, <1>8

LEMMA PointersNext ==
    ASSUME StackOK(stack), PointersOK(stack, pointer), [Next]_vars
    PROVE  StackOK(stack)' /\ PointersOK(stack, pointer)'
<1>1. PICK s, p : s = stack /\ p = pointer
  OBVIOUS
<1>2. PICK t, q : t = stack' /\ q = pointer'
  OBVIOUS
<1>3. PICK f, a, n : f = s[1].function /\ a = s[1].at /\ n = s[1].released
  OBVIOUS
<1>4. StackOK(s) /\ PointersOK(s, p)
  BY <1>1
<1>5. SUFFICES StackOK(t) /\ PointersOK(t, q)
  BY <1>2
<1>6. CASE Succeeds
  <2>1. /\ s # <<>> /\ ~s[1].failed /\ a # End(f) /\ StepsOf(f)[a].calls = "none"
        /\ StackOK(t) /\ IsReplaced(t, s, GoOn(s[1]))
        /\ q = Setting(p, StepsOf(f)[a].gets, "live")
    BY <1>1, <1>2, <1>3, <1>4, <1>6, SucceedsStep
  <2> QED  BY <1>3, <1>4, <2>1, PointersSucceed
<1>7. CASE Fails
  <2>1. PICK gets : gets = StepsOf(f)[a].gets
    OBVIOUS
  <2>2. /\ s # <<>> /\ ~s[1].failed /\ a # End(f) /\ StepsOf(f)[a].calls = "none"
        /\ StackOK(t) /\ IsReplaced(t, s, Fail(s[1]))
    BY <1>1, <1>2, <1>3, <1>4, <1>7, FailsStep
  <2>3. GotSome(q, p, gets)
    <3>1. GotSome(pointer', pointer, StepsOf(f)[a].gets)
      BY <1>1, <1>2, <1>3, <1>4, <1>7, FailsStep
    <3> QED  BY <1>1, <1>2, <2>1, <3>1
  <2>4. PICK got \in SUBSET gets : (got = gets => got = {}) /\ q = SomeGot(p, gets, got)
    BY <2>3 DEF GotSome
  <2> QED  BY <1>3, <1>4, <2>1, <2>2, <2>4, PointersFail
<1>8. CASE Calls
  <2>1. PICK g : g = StepsOf(f)[a].calls
    OBVIOUS
  <2>2. /\ s # <<>> /\ ~s[1].failed /\ a # End(f) /\ g \in DOMAIN Functions \ Main
        /\ StackOK(t) /\ IsPushed(t, s, Activation(g))
        /\ q = Setting(p, Locals(g), "null")
    BY <1>1, <1>2, <1>3, <1>4, <1>8, <2>1, CallsStep
  <2> QED  BY <1>4, <2>2, PointersCall
<1>9. CASE Releasing
  <2>1. PICK release : release = Ways(f, a)[n + 1]
    OBVIOUS
  <2>2. /\ s # <<>> /\ n < Len(Ways(f, a))
        /\ StackOK(t) /\ IsReplaced(t, s, [s[1] EXCEPT !.released = @ + 1])
    BY <1>1, <1>2, <1>3, <1>4, <1>9, <2>1, ReleasingStep
  <2>3. PICK v \in {"null", "dangling"} : q = Freeing(p, release, a, v)
    <3>1. FreesSome(q, p, release, a)
      BY <1>1, <1>2, <1>3, <1>4, <1>9, <2>1, ReleasingStep
    <3> QED  BY <3>1 DEF FreesSome
  <2> QED  BY <1>3, <1>4, <2>1, <2>2, <2>3, PointersRelease
<1>10. CASE Returns /\ Len(s) >= 2
  <2>1. PICK x : x = IF s[1].failed THEN Fail(s[2]) ELSE GoOn(s[2])
    OBVIOUS
  <2>2. /\ s[1].failed \/ a = End(f)
        /\ s[1].released = Len(Ways(f, a))
        /\ StackOK(t) /\ IsPopped(t, s, x) /\ q = p
    BY <1>1, <1>2, <1>3, <1>4, <1>10, <2>1, ReturnsStep
  <2> QED  BY <1>3, <1>4, <1>10, <2>1, <2>2, PointersReturn
<1>11. CASE Returns /\ ~(Len(s) >= 2)
  <2>1. /\ s # <<>> /\ Len(s) = 1 /\ f \in Main /\ s[1].released = Len(Ways(f, a))
        /\ t = <<>> /\ q = p
    BY <1>1, <1>2, <1>3, <1>4, <1>11, ProgramEnds
  <2>2. StackOK(t)
    BY <2>1 DEF StackOK
  <2>3. ASSUME NEW o \in Objects PROVE p[o] # "live"
    <3> SUFFICES ASSUME p[o] = "live" PROVE FALSE
      OBVIOUS
    <3>1. PICK k \in 1..Len(s) : o \in Own(s[k].function)
      BY <1>4 DEF PointersOK
    <3>2. o \in Own(f)
      BY <1>3, <2>1, <3>1
    <3>3. o \in Handed(f, a)
      BY <1>3, <1>4, <2>1, <3>2, NothingHeld
    <3>4. f = "transcript_init" /\ "transcript_init" \notin Main
      BY <3>3, TablesDisciplined DEF Handed, Disciplined
    <3> QED  BY <2>1, <3>4
  <2>4. PointersOK(t, q)
    BY <1>4, <2>1, <2>3 DEF PointersOK
  <2> QED  BY <2>2, <2>4
<1>12. CASE UNCHANGED vars
  BY <1>1, <1>2, <1>4, <1>12 DEF vars
<1> QED  BY <1>6, <1>7, <1>8, <1>9, <1>10, <1>11, <1>12 DEF Next, Exited

-----------------------------------------------------------------------------
(* Secrets *)

LEMMA Filling ==
    ASSUME NEW f \in DOMAIN Functions, NEW i \in 1..(End(f) - 1)
    PROVE  StepsOf(f)[i].fills \subseteq Memory /\ StepsOf(f)[i].fills \intersect Objects \subseteq Before(f, i)
<1>1. i \in DOMAIN StepsOf(f)
  BY Tables
<1>2. StepsOf(f)[i].fills \intersect Objects \subseteq Before(f, i)
  BY <1>1, TablesDisciplined DEF Disciplined, Fills
<1> QED  BY <1>2, Tables DEF StepType

\* What an activation that waits for a call holds.
LEMMA HeldBefore ==
    ASSUME NEW s, StackOK(s), NEW p, PointersOK(s, p), NEW k \in 1..Len(s), s[k].released = 0,
           ~s[k].failed, s[k].at # End(s[k].function),
           NEW o \in Before(s[k].function, s[k].at)
    PROVE  p[o] = "live"
<1>1. PICK f \in DOMAIN Functions : f = s[k].function
  BY InStack
<1>2. PICK a \in 1..(End(f) - 1) : a = s[k].at
  <2>1. s[k].at \in 1..End(f)
    BY <1>1, InStack
  <2> QED  BY <1>1, <2>1, Tables
<1>3. o \in Own(f) /\ o \notin Acquired(f, a)
  <2>1. Acquired(f, a) \intersect Before(f, a) = {}
    BY Acquiring
  <2>2. a \in 1..End(f)
    BY Tables
  <2>3. o \in MaybeLive(f, a)
    BY <1>1, <1>2 DEF MaybeLive
  <2> QED  BY <1>1, <1>2, <2>1, <2>2, <2>3, EverythingOwn
<1>4. ObjectOK(s[k], o, p[o])
  BY <1>1, <1>2, <1>3 DEF PointersOK
<1>5. Freed(f, a, 0) = {}
  BY Starting
<1> QED  BY <1>1, <1>2, <1>4, <1>5 DEF ObjectOK

\* What an activation is about to acquire is not live yet.
LEMMA NotYetLive ==
    ASSUME NEW s, StackOK(s), s # <<>>, NEW p, PointersOK(s, p), NEW f, f = s[1].function, NEW a, a = s[1].at,
           ~s[1].failed, a # End(f), NEW o \in Acquired(f, a)
    PROVE  p[o] # "live"
<1>1. f \in DOMAIN Functions /\ a \in 1..(End(f) - 1) /\ 1 \in 1..Len(s)
  BY Innermost
<1>2. o \in Own(f) /\ o \notin Before(f, a)
  BY <1>1, Acquiring
<1>3. ObjectOK(s[1], o, p[o])
  BY <1>1, <1>2 DEF PointersOK
<1> QED  BY <1>2, <1>3 DEF ObjectOK

\* The locals of a callee are not live when it is called.
LEMMA CalleeIsNew ==
    ASSUME NEW s, StackOK(s), s # <<>>, NEW p, PointersOK(s, p), ~s[1].failed, s[1].at # End(s[1].function),
           NEW g, g = StepsOf(s[1].function)[s[1].at].calls, g \in DOMAIN Functions \ Main,
           NEW t, StackOK(t), IsPushed(t, s, Activation(g)), NEW o \in Locals(g)
    PROVE  p[o] # "live"
<1> SUFFICES ASSUME p[o] = "live" PROVE FALSE
  OBVIOUS
<1>1. o \in Own(g) /\ o \in Objects
  BY EverythingOwn, OwnObjects
<1>2. PICK k \in 1..Len(s) : o \in Own(s[k].function)
  BY <1>1 DEF PointersOK
<1>3. Len(s) \in Nat /\ Len(s) >= 1
  BY Innermost
<1>4. PICK i \in 2..Len(t) : i = k + 1 /\ t[i] = s[k] /\ t[1].function = g
  <2>1. k + 1 \in 2..Len(t) /\ (k + 1) - 1 = k
    BY <1>3 DEF IsPushed
  <2>2. t[k + 1] = s[k]
    BY <2>1 DEF IsPushed
  <2>3. t[1].function = g
    BY DEF IsPushed, Activation
  <2> QED  BY <2>1, <2>2, <2>3
<1>5. o \in Acquired(s[k].function, s[k].at)
  BY <1>1, <1>2, <1>4, Apart
<1>6. CASE k = 1
  BY <1>5, <1>6, NotYetLive
<1>7. CASE k # 1
  <2>1. k \in 2..Len(s) /\ 2 \in 2..Len(s)
    BY <1>3, <1>7
  <2>2. PICK h \in DOMAIN Functions : h = s[k].function
    BY InStack
  <2>3. PICK b \in 1..(End(h) - 1) : b = s[k].at /\ StepsOf(h)[b].calls = s[k - 1].function
    BY <2>1, <2>2, InStack
  <2>4. s[k - 1].function \in DOMAIN Functions \ Main
    BY <2>1, InStack
  <2>5. StepsOf(h)[b].calls = "transcript_init"
    <3>1. "none" \notin DOMAIN Functions
      BY DEF Functions
    <3>2. Acquired(h, b) # {}
      BY <1>5, <2>2, <2>3
    <3>3. StepsOf(h)[b].calls # "none"
      BY <2>3, <2>4, <3>1
    <3> QED  BY <3>2, <3>3, Acquiring
  <2>6. Leaf("transcript_init")
    BY <2>3, <2>4, <2>5, ContextIsObject, Sharing
  <2>7. PICK j \in 1..Len(s) : j = k - 1 /\ s[j].function = "transcript_init"
    <3>1. k - 1 \in 1..Len(s)
      BY <1>3, <2>1
    <3> QED  BY <2>3, <2>5, <3>1
  <2>8. PICK c \in DOMAIN StepsOf("transcript_init") : StepsOf("transcript_init")[c].calls # "none"
    <3>1. "none" \notin DOMAIN Functions /\ "transcript_init" \in DOMAIN Functions
      BY <2>3, <2>4, <2>5 DEF Functions
    <3>2. CASE j = 1
      <4>1. s[1].at \in 1..(End("transcript_init") - 1)
        BY <2>7, <3>2, Innermost
      <4>2. s[1].at \in DOMAIN StepsOf("transcript_init")
        BY <3>1, <4>1, Tables
      <4> QED  BY <2>7, <3>1, <3>2, <4>2
    <3>3. CASE j # 1
      <4>1. j \in 2..Len(s)
        BY <3>3
      <4>2. /\ s[j].at \in 1..(End(s[j].function) - 1)
            /\ StepsOf(s[j].function)[s[j].at].calls = s[j - 1].function
            /\ s[j - 1].function \in DOMAIN Functions \ Main
        BY <4>1, InStack
      <4>3. s[j].at \in DOMAIN StepsOf("transcript_init")
        BY <2>7, <3>1, <4>2, Tables
      <4> QED  BY <2>7, <3>1, <4>2, <4>3
    <3> QED  BY <3>2, <3>3
  <2> QED  BY <2>6, <2>8 DEF Leaf
<1> QED  BY <1>6, <1>7

LEMMA SecretsNext ==
    ASSUME StackOK(stack), PointersOK(stack, pointer), SecretsOK(pointer, secret), [Next]_vars
    PROVE  SecretsOK(pointer, secret)'
<1>1. PICK s, p, h : s = stack /\ p = pointer /\ h = secret
  OBVIOUS
<1>2. PICK t, q, e : t = stack' /\ q = pointer' /\ e = secret'
  OBVIOUS
<1>3. PICK f, a, n : f = s[1].function /\ a = s[1].at /\ n = s[1].released
  OBVIOUS
<1>4. StackOK(s) /\ PointersOK(s, p)
  BY <1>1
<1>5. h \subseteq Memory /\ \A o \in h \intersect Objects : p[o] = "live"
  BY <1>1 DEF SecretsOK
<1>6. SUFFICES e \subseteq Memory /\ \A o \in e \intersect Objects : q[o] = "live"
  BY <1>2 DEF SecretsOK
<1>7. CASE Succeeds
  <2>1. /\ s # <<>> /\ ~s[1].failed /\ a # End(f) /\ StepsOf(f)[a].calls = "none"
        /\ q = Setting(p, StepsOf(f)[a].gets, "live")
        /\ e = h \union StepsOf(f)[a].fills
    BY <1>1, <1>2, <1>3, <1>4, <1>7, SucceedsStep
  <2>2. f \in DOMAIN Functions /\ a \in 1..(End(f) - 1) /\ n = 0 /\ 1 \in 1..Len(s)
    BY <1>3, <1>4, <2>1, Innermost
  <2>3. StepsOf(f)[a].fills \subseteq Memory /\ StepsOf(f)[a].fills \intersect Objects \subseteq Before(f, a)
    BY <2>2, Filling
  <2>4. ASSUME NEW o \in e \intersect Objects PROVE p[o] = "live"
    <3>1. CASE o \in h
      BY <1>5, <2>4, <3>1
    <3>2. CASE o \in StepsOf(f)[a].fills
      <4>1. o \in Before(f, a)
        BY <2>3, <2>4, <3>2
      <4>2. PICK k \in 1..Len(s) : k = 1
        BY <2>2
      <4>3. s[k].released = 0 /\ ~s[k].failed /\ s[k].at # End(s[k].function)
        BY <1>3, <2>1, <2>2, <4>2
      <4>4. o \in Before(s[k].function, s[k].at)
        BY <1>3, <4>1, <4>2
      <4> QED  BY <1>4, <4>3, <4>4, HeldBefore
    <3> QED  BY <2>1, <2>4, <3>1, <3>2
  <2> QED  BY <1>5, <2>1, <2>3, <2>4 DEF Setting
<1>8. CASE Fails
  <2>1. /\ s # <<>> /\ ~s[1].failed /\ a # End(f) /\ StepsOf(f)[a].calls = "none" /\ e = h
    BY <1>1, <1>2, <1>3, <1>4, <1>8, FailsStep
  <2>2. f \in DOMAIN Functions /\ a \in 1..(End(f) - 1)
    BY <1>3, <1>4, <2>1, Innermost
  <2>3. PICK gets : gets = StepsOf(f)[a].gets /\ gets = Acquired(f, a)
    BY <2>1, <2>2, Acquiring
  <2>4. PICK got \in SUBSET gets : q = SomeGot(p, gets, got)
    <3>1. GotSome(pointer', pointer, StepsOf(f)[a].gets)
      BY <1>1, <1>2, <1>3, <1>4, <1>8, FailsStep
    <3>2. GotSome(q, p, gets)
      BY <1>1, <1>2, <2>3, <3>1
    <3> QED  BY <3>2 DEF GotSome
  <2>5. \A o \in gets : p[o] # "live"
    BY <1>3, <1>4, <2>1, <2>3, NotYetLive
  <2> QED  BY <1>5, <2>1, <2>4, <2>5 DEF SomeGot
<1>9. CASE Calls
  <2>1. PICK g : g = StepsOf(f)[a].calls
    OBVIOUS
  <2>2. /\ s # <<>> /\ ~s[1].failed /\ a # End(f) /\ g \in DOMAIN Functions \ Main
        /\ StackOK(t) /\ IsPushed(t, s, Activation(g))
        /\ q = Setting(p, Locals(g), "null")
        /\ e = h
    BY <1>1, <1>2, <1>3, <1>4, <1>9, <2>1, CallsStep
  <2>3. \A o \in Locals(g) : p[o] # "live"
    BY <1>3, <1>4, <2>1, <2>2, CalleeIsNew
  <2> QED  BY <1>5, <2>2, <2>3 DEF Setting
<1>10. CASE Releasing
  <2>1. PICK release : release = Ways(f, a)[n + 1]
    OBVIOUS
  <2>2. s # <<>> /\ n < Len(Ways(f, a)) /\ e = Erasing(h, release, a, p)
    <3>1. /\ s # <<>> /\ n < Len(Ways(f, a))
          /\ secret' = Erasing(secret, release, a, pointer)
      BY <1>1, <1>2, <1>3, <1>4, <1>10, <2>1, ReleasingStep
    <3> QED  BY <1>1, <1>2, <3>1
  <2>3. PICK v \in {"null", "dangling"} : q = Freeing(p, release, a, v)
    <3>1. FreesSome(pointer', pointer, release, a)
      BY <1>1, <1>2, <1>3, <1>4, <1>10, <2>1, ReleasingStep
    <3>2. FreesSome(q, p, release, a)
      BY <1>1, <1>2, <3>1
    <3> QED  BY <3>2 DEF FreesSome
  <2>4. f \in DOMAIN Functions /\ a \in 1..End(f) /\ n \in Nat
    <3>1. 1 \in 1..Len(s)
      BY <1>4, <2>2, Innermost
    <3> QED  BY <1>3, <1>4, <2>2, <3>1, Innermost, InStack
  <2>5. release.frees \intersect Memory \subseteq release.erases
    BY <2>1, <2>2, <2>4, Cleaning
  <2>6. CASE Takes(release, a, p)
    BY <1>5, <2>2, <2>3, <2>5, <2>6 DEF Freeing, Erasing, Setting
  <2>7. CASE ~Takes(release, a, p)
    BY <1>5, <2>2, <2>3, <2>7 DEF Freeing, Erasing
  <2> QED  BY <2>6, <2>7
<1>11. CASE Returns /\ Len(s) >= 2
  <2>1. PICK g, b : g = s[2].function /\ b = s[2].at
    OBVIOUS
  <2>2. e = (IF s[1].failed THEN h ELSE h \union StepsOf(g)[b].fills) /\ q = p
    BY <1>1, <1>2, <1>3, <1>4, <1>11, <2>1, ReturnsStep
  <2>3. 2 \in 1..Len(s) /\ 2 \in 2..Len(s)
    BY <1>4, <1>11, InStack
  <2>4. g \in DOMAIN Functions /\ b \in 1..(End(g) - 1) /\ s[2].released = 0 /\ ~s[2].failed /\ b # End(g)
    <3>1. g \in DOMAIN Functions
      BY <1>4, <2>1, <2>3, InStack
    <3>2. b \in 1..(End(g) - 1) /\ s[2].released = 0 /\ ~s[2].failed
      BY <1>4, <2>1, <2>3, InStack
    <3> QED  BY <3>1, <3>2, Tables
  <2>5. StepsOf(g)[b].fills \subseteq Memory /\ StepsOf(g)[b].fills \intersect Objects \subseteq Before(g, b)
    BY <2>4, Filling
  <2>6. ASSUME NEW o \in StepsOf(g)[b].fills \intersect Objects PROVE p[o] = "live"
    <3>1. o \in Before(g, b)
      BY <2>5
    <3> QED  BY <1>4, <2>1, <2>3, <2>4, <3>1, HeldBefore
  <2> QED  BY <1>5, <2>2, <2>5, <2>6
<1>12. CASE Returns /\ ~(Len(s) >= 2)
  <2>1. q = p /\ e = h
    BY <1>1, <1>2, <1>3, <1>4, <1>12, ProgramEnds
  <2> QED  BY <1>5, <2>1
<1>13. CASE UNCHANGED vars
  BY <1>1, <1>2, <1>5, <1>13 DEF vars
<1> QED  BY <1>7, <1>8, <1>9, <1>10, <1>11, <1>12, <1>13 DEF Next, Exited

-----------------------------------------------------------------------------
(* The application keys *)

Deriving(s) == \E k \in 1..Len(s) : s[k].function = "derive_application_keys"

\* What the discipline says of a function and the keys.
LEMMA DerivingKeys ==
    ASSUME NEW f \in DOMAIN Functions
    PROVE  /\ \A i \in 1..(End(f) - 1) : StepsOf(f)[i].fills \intersect ApplicationKeys # {} => Deriver(f)
           /\ \A i \in 1..(End(f) - 1) : Deriver(StepsOf(f)[i].calls) => f \in Main
           /\ \A i \in 1..(End(f) - 1) : \A a \in 1..End(f) : Deriver(StepsOf(f)[i].calls) /\ i <= a =>
                 \E j \in 1..Len(Ways(f, a)) : Wipes(f, a, j)
           /\ \A a \in 1..End(f) : \A j \in 1..Len(Ways(f, a)) :
                 Ways(f, a)[j].erases \intersect ApplicationKeys # {} =>
                    Wipes(f, a, j) /\ (f \in Main \/ (Deriver(f) /\ a # End(f)))
           /\ Deriver(f) =>
                 /\ f \notin Main
                 /\ ApplicationKeys \subseteq UNION {StepsOf(f)[i].fills : i \in 1..(End(f) - 1)}
                 /\ \A a \in 1..(End(f) - 1) : \E j \in 1..Len(Ways(f, a)) : Wipes(f, a, j)
<1>1. Derives(f)
  BY TablesDisciplined DEF Disciplined
<1>2. /\ End(f) \in Nat /\ DOMAIN StepsOf(f) = 1..(End(f) - 1)
      /\ \A a \in 1..End(f) : DOMAIN Ways(f, a) = 1..Len(Ways(f, a))
  BY Tables
<1>3. \A a \in 1..(End(f) - 1) : a \in 1..End(f)
  BY <1>2
<1>4. \A i \in 1..(End(f) - 1) : StepsOf(f)[i].fills \intersect ApplicationKeys # {} => Deriver(f)
  BY <1>1, <1>2 DEF Derives, Deriver
<1>5. \A i \in 1..(End(f) - 1) : Deriver(StepsOf(f)[i].calls) => f \in Main
  BY <1>1, <1>2 DEF Derives, Deriver
<1>6. ASSUME NEW i \in 1..(End(f) - 1), NEW a \in 1..End(f), Deriver(StepsOf(f)[i].calls), i <= a
      PROVE  \E j \in 1..Len(Ways(f, a)) : Wipes(f, a, j)
  <2>1. a \in i..End(f)
    BY <1>2, <1>6
  <2> QED  BY <1>1, <1>2, <1>6, <2>1 DEF Derives, Deriver
<1>7. \A a \in 1..End(f) : \A j \in 1..Len(Ways(f, a)) :
         Ways(f, a)[j].erases \intersect ApplicationKeys # {} =>
            Wipes(f, a, j) /\ (f \in Main \/ (Deriver(f) /\ a # End(f)))
  BY <1>1, <1>2 DEF Derives, Deriver
<1>8. ASSUME Deriver(f)
      PROVE  /\ f \notin Main
             /\ ApplicationKeys \subseteq UNION {StepsOf(f)[i].fills : i \in 1..(End(f) - 1)}
             /\ \A a \in 1..(End(f) - 1) : \E j \in 1..Len(Ways(f, a)) : Wipes(f, a, j)
  <2>1. /\ f \notin Main
        /\ ApplicationKeys \subseteq UNION {StepsOf(f)[i].fills : i \in DOMAIN StepsOf(f)}
        /\ \A at \in DOMAIN StepsOf(f) : \E j \in DOMAIN Ways(f, at) : Wipes(f, at, j)
    BY <1>1, <1>8 DEF Derives, Deriver
  <2> QED  BY <1>2, <1>3, <2>1
<1> QED  BY <1>4, <1>5, <1>6, <1>7, <1>8

\* Nothing stands in the way of a release that wipes.
LEMMA Wiping ==
    ASSUME NEW f \in DOMAIN Functions, NEW a \in 1..End(f), NEW j \in 1..Len(Ways(f, a)), Wipes(f, a, j),
           NEW release, release = Ways(f, a)[j], NEW p, NEW h
    PROVE  Erasing(h, release, a, p) \intersect ApplicationKeys = {}
<1>1. /\ ApplicationKeys \subseteq release.erases
      /\ release.frees = {} /\ release.given = {} /\ release.after < a
  BY DEF Wipes
<1>2. release.after \in Nat /\ a \in Nat
  BY Tables DEF ReleaseType
<1>3. Takes(release, a, p)
  BY <1>1, <1>2 DEF Takes
<1> QED  BY <1>1, <1>3 DEF Erasing

\* The keys are derived for a program, which is then to erase them.
LEMMA DerivationCaller ==
    ASSUME NEW s, StackOK(s), NEW k \in 1..Len(s), Deriver(s[k].function)
    PROVE  /\ Len(s) \in Nat /\ Len(s) = k + 1 /\ s # <<>>
           /\ \A i \in 1..Len(s) : Deriver(s[i].function) => i = k
           /\ s[1].function \in Main => FALSE
           /\ KeepsKeys(s[Len(s)])
<1>1. Len(s) \in Nat /\ s # <<>> /\ Len(s) \in 1..Len(s)
  BY InStack
<1>2. ASSUME NEW i \in 1..Len(s), Deriver(s[i].function)
      PROVE  Len(s) = i + 1 /\ KeepsKeys(s[Len(s)])
  <2>1. s[i].function \in DOMAIN Functions
    BY InStack
  <2>2. s[i].function \notin Main
    BY <1>2, <2>1, DerivingKeys
  <2>3. i # Len(s)
    BY <1>1, <2>2 DEF StackOK
  <2>4. PICK m \in 2..Len(s) : m = i + 1 /\ m - 1 = i
    BY <1>1, <2>3
  <2>5. m \in 1..Len(s) /\ s[m].function \in DOMAIN Functions
    BY InStack, <2>4
  <2>6. /\ s[m].at \in 1..(End(s[m].function) - 1) /\ s[m].released = 0
        /\ StepsOf(s[m].function)[s[m].at].calls = s[m - 1].function
    BY InStack, <2>4
  <2>7. Deriver(StepsOf(s[m].function)[s[m].at].calls)
    BY <1>2, <2>4, <2>6
  <2>8. s[m].function \in Main
    BY <2>5, <2>6, <2>7, DerivingKeys
  <2>9. m = Len(s)
    <3> SUFFICES ASSUME m # Len(s) PROVE FALSE
      OBVIOUS
    <3>1. PICK l \in 2..Len(s) : l - 1 = m
      <4>1. m + 1 \in 2..Len(s) /\ (m + 1) - 1 = m
        BY <1>1, <2>4
      <4> QED  BY <4>1
    <3>2. s[l - 1].function \notin Main
      BY <3>1, InStack
    <3> QED  BY <2>8, <3>1, <3>2
  <2>10. KeepsKeys(s[m])
    <3>1. 1..s[m].released = {}
      BY <2>6
    <3>2. s[m].at \in DOMAIN StepsOf(s[m].function) /\ s[m].at <= s[m].at
      <4>1. End(s[m].function) \in Nat
        BY <2>5, Tables
      <4> QED  BY <2>5, <2>6, <4>1, Tables
    <3> QED  BY <2>7, <3>1, <3>2 DEF KeepsKeys, Deriver
  <2> QED  BY <2>4, <2>9, <2>10
<1>3. \A i \in 1..Len(s) : Deriver(s[i].function) => i = k
  BY <1>1, <1>2
<1>4. s[1].function \notin Main
  <2>1. Len(s) >= 2
    BY <1>1, <1>2
  <2>2. PICK l \in 2..Len(s) : l = 2 /\ l - 1 = 1
    BY <1>1, <2>1
  <2>3. s[l - 1].function \notin Main
    BY <2>2, InStack
  <2> QED  BY <2>2, <2>3
<1> QED  BY <1>1, <1>2, <1>3, <1>4

LEMMA WhileDeriving ==
    ASSUME NEW s, StackOK(s), NEW k \in 1..Len(s), Deriver(s[k].function),
           NEW h, DerivationOK(s[k], h)
    PROVE  KeysOK(s, h)
<1>1. /\ s # <<>> /\ \A i \in 1..Len(s) : Deriver(s[i].function) => i = k
      /\ KeepsKeys(s[Len(s)])
  BY DerivationCaller
<1> QED  BY <1>1 DEF KeysOK, Deriver

LEMMA NotDeriving ==
    ASSUME NEW s, NEW h, \A k \in 1..Len(s) : ~Deriver(s[k].function),
           ApplicationKeys \subseteq h \/ ApplicationKeys \intersect h = {},
           ApplicationKeys \intersect h # {} => s # <<>> /\ KeepsKeys(s[Len(s)])
    PROVE  KeysOK(s, h)
BY DEF KeysOK, Deriver

\* An activation that waits for a call does not notice what is added.
LEMMA DerivationWaits ==
    ASSUME NEW s, StackOK(s), NEW k \in 2..Len(s), NEW h, DerivationOK(s[k], h),
           NEW e, ApplicationKeys \intersect h \subseteq e
    PROVE  DerivationOK(s[k], e)
<1>1. s[k].released = 0 /\ ~s[k].failed
  BY InStack
<1>2. 1..s[k].released = {}
  BY <1>1
<1> QED  BY <1>1, <1>2 DEF DerivationOK

LEMMA DerivationGoesOn ==
    ASSUME NEW x \in Frame, x.at \in 1..(End(x.function) - 1), x.released = 0, ~x.failed,
           NEW h, DerivationOK(x, h), NEW e, h \subseteq e, StepsOf(x.function)[x.at].fills \subseteq e
    PROVE  DerivationOK(GoOn(x), e)
<1>1. /\ GoOn(x).function = x.function /\ GoOn(x).at = x.at + 1 /\ GoOn(x).released = 0
      /\ x.function \in DOMAIN Functions
  BY Moves DEF Frame
<1>2. End(x.function) \in Nat
  BY <1>1, Tables
<1>3. (x.at + 1) - 1 = x.at /\ 1..x.at = (1..(x.at - 1)) \union {x.at} /\ 1..0 = {}
  BY <1>2
<1>4. \A i \in 1..(x.at - 1) : StepsOf(x.function)[i].fills \intersect ApplicationKeys \subseteq h
  BY DEF DerivationOK
<1>5. \A i \in 1..x.at : StepsOf(x.function)[i].fills \intersect ApplicationKeys \subseteq e
  BY <1>3, <1>4
<1> QED  BY <1>1, <1>3, <1>5 DEF DerivationOK

LEMMA DerivationFails ==
    ASSUME NEW x \in Frame, x.released = 0, NEW h
    PROVE  DerivationOK(Fail(x), h)
<1>1. Fail(x).failed /\ Fail(x).released = 0 /\ 1..0 = {}
  BY Moves
<1> QED  BY <1>1 DEF DerivationOK

\* A program goes on, or fails.
LEMMA KeepsOn ==
    ASSUME NEW x, NEW y, KeepsKeys(x), x.function \in DOMAIN Functions, y.function = x.function,
           x.at \in Nat, y.at \in Nat, x.at <= y.at, y.released = 0
    PROVE  KeepsKeys(y)
<1>1. PICK i \in DOMAIN StepsOf(x.function) :
         i <= x.at /\ StepsOf(x.function)[i].calls = "derive_application_keys"
  BY DEF KeepsKeys
<1>2. i \in Nat
  BY <1>1, Tables
<1>3. i <= y.at /\ 1..y.released = {}
  BY <1>1, <1>2
<1> QED  BY <1>1, <1>3 DEF KeepsKeys

\* What the program is left with when the innermost activation is replaced.
LEMMA KeepsReplaced ==
    ASSUME NEW s, StackOK(s), s # <<>>, NEW x, x.function = s[1].function, x.at \in Nat, s[1].at <= x.at,
           x.released = 0, NEW t, IsReplaced(t, s, x), KeepsKeys(s[Len(s)])
    PROVE  KeepsKeys(t[Len(t)])
<1>1. Len(s) \in Nat /\ Len(s) >= 1 /\ s[1].function \in DOMAIN Functions /\ s[1].at \in Nat
  BY Innermost
<1>2. Len(t) = Len(s) /\ t[1] = x /\ \A k \in 2..Len(s) : t[k] = s[k]
  BY DEF IsReplaced
<1>3. CASE Len(s) = 1
  BY <1>1, <1>2, <1>3, KeepsOn
<1>4. CASE Len(s) # 1
  <2>1. PICK n \in Nat : n = Len(s) /\ n >= 1 /\ n # 1
    BY <1>1, <1>4
  <2>2. n \in 2..n
    BY <2>1
  <2> QED  BY <1>2, <2>1, <2>2
<1> QED  BY <1>3, <1>4

\* A step that succeeds.
LEMMA KeysSucceed ==
    ASSUME NEW s, StackOK(s), s # <<>>, NEW h, KeysOK(s, h),
           NEW f, f = s[1].function, NEW a, a = s[1].at, a # End(f), ~s[1].failed,
           NEW t, StackOK(t), IsReplaced(t, s, GoOn(s[1])),
           NEW e, e = h \union StepsOf(f)[a].fills
    PROVE  KeysOK(t, e)
<1>1. /\ Len(s) \in Nat /\ 1 \in 1..Len(s) /\ s[1] \in Frame
      /\ f \in DOMAIN Functions /\ a \in 1..(End(f) - 1) /\ a \in Nat /\ s[1].released = 0
  BY Innermost
<1>2. Len(t) = Len(s) /\ t[1] = GoOn(s[1]) /\ \A k \in 2..Len(s) : t[k] = s[k]
  BY DEF IsReplaced
<1>3. t[1].function = f /\ t[1].at = a + 1 /\ t[1].released = 0
  BY <1>1, <1>2, Moves
<1>4. h \subseteq e
  OBVIOUS
<1>5. CASE Deriver(f)
  <2>1. DerivationOK(s[1], h)
    BY <1>1, <1>5 DEF KeysOK, Deriver
  <2>2. DerivationOK(t[1], e)
    BY <1>1, <1>2, <1>4, <2>1, DerivationGoesOn
  <2> QED  BY <1>1, <1>2, <1>3, <1>5, <2>2, WhileDeriving
<1>6. CASE \E k \in 2..Len(s) : Deriver(s[k].function)
  <2>1. PICK k \in 2..Len(s) : Deriver(s[k].function)
    BY <1>6
  <2>2. DerivationOK(s[k], h)
    BY <2>1 DEF KeysOK, Deriver
  <2>3. DerivationOK(s[k], e)
    BY <1>4, <2>2, DerivationWaits
  <2>4. k \in 1..Len(t) /\ t[k] = s[k]
    BY <1>2
  <2> QED  BY <2>1, <2>3, <2>4, WhileDeriving
<1>7. CASE ~Deriver(f) /\ ~(\E k \in 2..Len(s) : Deriver(s[k].function))
  <2>1. \A k \in 1..Len(s) : ~Deriver(s[k].function)
    BY <1>7
  <2>2. \A k \in 1..Len(t) : ~Deriver(t[k].function)
    BY <1>2, <1>3, <1>7
  <2>3. ApplicationKeys \intersect e = ApplicationKeys \intersect h
    BY <1>1, <1>7, DerivingKeys
  <2>4. ApplicationKeys \subseteq h \/ ApplicationKeys \intersect h = {}
    BY <2>1 DEF KeysOK, Deriver
  <2>5. ASSUME ApplicationKeys \intersect e # {} PROVE t # <<>> /\ KeepsKeys(t[Len(t)])
    <3>1. KeepsKeys(s[Len(s)])
      BY <2>3, <2>5 DEF KeysOK
    <3>2. PICK x : x = GoOn(s[1])
      OBVIOUS
    <3>3. x.function = s[1].function /\ x.at \in Nat /\ s[1].at <= x.at /\ x.released = 0
      BY <1>1, <1>2, <1>3, <3>2
    <3>4. KeepsKeys(t[Len(t)])
      BY <3>1, <3>2, <3>3, KeepsReplaced
    <3>5. t # <<>>
      BY <1>1, <1>2
    <3> QED  BY <3>4, <3>5
  <2>6. ApplicationKeys \subseteq e \/ ApplicationKeys \intersect e = {}
    BY <2>3, <2>4
  <2> QED  BY <2>2, <2>5, <2>6, NotDeriving
<1> QED  BY <1>5, <1>6, <1>7

\* A step that fails.
LEMMA KeysFail ==
    ASSUME NEW s, StackOK(s), s # <<>>, NEW h, KeysOK(s, h),
           NEW f, f = s[1].function, NEW a, a = s[1].at, a # End(f), ~s[1].failed,
           NEW t, StackOK(t), IsReplaced(t, s, Fail(s[1]))
    PROVE  KeysOK(t, h)
<1>1. /\ Len(s) \in Nat /\ 1 \in 1..Len(s) /\ s[1] \in Frame
      /\ f \in DOMAIN Functions /\ a \in Nat /\ s[1].released = 0
  BY Innermost
<1>2. Len(t) = Len(s) /\ t[1] = Fail(s[1]) /\ \A k \in 2..Len(s) : t[k] = s[k]
  BY DEF IsReplaced
<1>3. t[1].function = f /\ t[1].at = a /\ t[1].released = 0
  BY <1>1, <1>2, Moves
<1>4. CASE Deriver(f)
  <2>1. DerivationOK(t[1], h)
    BY <1>1, <1>2, DerivationFails
  <2> QED  BY <1>1, <1>2, <1>3, <1>4, <2>1, WhileDeriving
<1>5. CASE \E k \in 2..Len(s) : Deriver(s[k].function)
  <2>1. PICK k \in 2..Len(s) : Deriver(s[k].function)
    BY <1>5
  <2>2. DerivationOK(s[k], h)
    BY <2>1 DEF KeysOK, Deriver
  <2>3. k \in 1..Len(t) /\ t[k] = s[k]
    BY <1>2
  <2> QED  BY <2>1, <2>2, <2>3, WhileDeriving
<1>6. CASE ~Deriver(f) /\ ~(\E k \in 2..Len(s) : Deriver(s[k].function))
  <2>1. \A k \in 1..Len(s) : ~Deriver(s[k].function)
    BY <1>6
  <2>2. \A k \in 1..Len(t) : ~Deriver(t[k].function)
    BY <1>2, <1>3, <1>6
  <2>3. ApplicationKeys \subseteq h \/ ApplicationKeys \intersect h = {}
    BY <2>1 DEF KeysOK, Deriver
  <2>4. ASSUME ApplicationKeys \intersect h # {} PROVE t # <<>> /\ KeepsKeys(t[Len(t)])
    <3>1. KeepsKeys(s[Len(s)])
      BY <2>4 DEF KeysOK
    <3>2. PICK x : x = Fail(s[1])
      OBVIOUS
    <3>3. x.function = s[1].function /\ x.at \in Nat /\ s[1].at <= x.at /\ x.released = 0
      BY <1>1, <1>2, <1>3, <3>2
    <3>4. KeepsKeys(t[Len(t)])
      BY <3>1, <3>2, <3>3, KeepsReplaced
    <3>5. t # <<>>
      BY <1>1, <1>2
    <3> QED  BY <3>4, <3>5
  <2> QED  BY <2>2, <2>3, <2>4, NotDeriving
<1> QED  BY <1>4, <1>5, <1>6

\* A call.
LEMMA KeysCall ==
    ASSUME NEW s, StackOK(s), s # <<>>, NEW h, KeysOK(s, h), NEW g,
           NEW t, StackOK(t), IsPushed(t, s, Activation(g))
    PROVE  KeysOK(t, h)
<1>1. Len(s) \in Nat /\ Len(s) >= 1
  BY Innermost
<1>2. Len(t) = Len(s) + 1 /\ t[1] = Activation(g) /\ \A k \in 2..Len(t) : t[k] = s[k - 1]
  BY DEF IsPushed
<1>3. \A k \in 2..Len(t) : k - 1 \in 1..Len(s)
  BY <1>1, <1>2
<1>4. CASE Deriver(g)
  <2>1. t[1].function = g /\ t[1].at = 1 /\ t[1].released = 0 /\ 1..0 = {} /\ 1..(1 - 1) = {}
    BY <1>2 DEF Activation
  <2>2. DerivationOK(t[1], h)
    BY <2>1 DEF DerivationOK
  <2>3. 1 \in 1..Len(t)
    BY <1>1, <1>2
  <2> QED  BY <1>4, <2>1, <2>2, <2>3, WhileDeriving
<1>5. CASE \E k \in 1..Len(s) : Deriver(s[k].function)
  <2>1. PICK k \in 1..Len(s) : Deriver(s[k].function)
    BY <1>5
  <2>2. DerivationOK(s[k], h)
    BY <2>1 DEF KeysOK, Deriver
  <2>3. PICK i \in 2..Len(t) : i - 1 = k
    <3>1. k + 1 \in 2..Len(t) /\ (k + 1) - 1 = k
      BY <1>1, <1>2
    <3> QED  BY <3>1
  <2>4. i \in 1..Len(t) /\ t[i] = s[k]
    BY <1>2, <2>3
  <2> QED  BY <2>1, <2>2, <2>4, WhileDeriving
<1>6. CASE ~Deriver(g) /\ ~(\E k \in 1..Len(s) : Deriver(s[k].function))
  <2>1. t[1].function = g
    BY <1>2 DEF Activation
  <2>2. ASSUME NEW k \in 1..Len(t) PROVE ~Deriver(t[k].function)
    <3>1. CASE k = 1
      BY <1>6, <2>1, <3>1
    <3>2. CASE k # 1
      <4>1. k \in 2..Len(t)
        BY <3>2
      <4> QED  BY <1>2, <1>3, <1>6, <4>1
    <3> QED  BY <3>1, <3>2
  <2>3. t[Len(t)] = s[Len(s)] /\ t # <<>>
    <3>1. Len(t) \in 2..Len(t) /\ Len(t) - 1 = Len(s)
      BY <1>1, <1>2
    <3> QED  BY <1>1, <1>2, <3>1
  <2>4. ApplicationKeys \subseteq h \/ ApplicationKeys \intersect h = {}
    BY <1>6 DEF KeysOK, Deriver
  <2>5. ApplicationKeys \intersect h # {} => KeepsKeys(t[Len(t)])
    BY <2>3 DEF KeysOK
  <2> QED  BY <2>2, <2>3, <2>4, <2>5, NotDeriving
<1> QED  BY <1>4, <1>5, <1>6

\* A release erases none of the keys or, whatever happened before, all of them.
LEMMA KeysRelease ==
    ASSUME NEW s, StackOK(s), s # <<>>, NEW h, KeysOK(s, h),
           NEW f, f = s[1].function, NEW a, a = s[1].at, s[1].failed \/ a = End(f),
           NEW n, n = s[1].released, n < Len(Ways(f, a)),
           NEW release, release = Ways(f, a)[n + 1], NEW p,
           NEW t, StackOK(t), IsReplaced(t, s, [s[1] EXCEPT !.released = @ + 1]),
           NEW e, e = Erasing(h, release, a, p)
    PROVE  KeysOK(t, e)
<1>1. /\ Len(s) \in Nat /\ Len(s) >= 1 /\ 1 \in 1..Len(s) /\ s[1] \in Frame
      /\ f \in DOMAIN Functions /\ a \in 1..End(f) /\ n \in Nat
  BY Innermost, InStack
<1>2. /\ Len(t) = Len(s) /\ t[1] = [s[1] EXCEPT !.released = @ + 1]
      /\ \A k \in 2..Len(s) : t[k] = s[k]
  BY DEF IsReplaced
<1>3. t[1].function = f /\ t[1].at = a /\ t[1].failed = s[1].failed /\ t[1].released = n + 1
  BY <1>1, <1>2 DEF Frame
<1>4. PICK j \in 1..Len(Ways(f, a)) : j = n + 1 /\ release = Ways(f, a)[j] /\ 1..(n + 1) = (1..n) \union {j}
  <2>1. Len(Ways(f, a)) \in Nat
    BY <1>1, Tables
  <2>2. n + 1 \in 1..Len(Ways(f, a)) /\ 1..(n + 1) = (1..n) \union {n + 1}
    BY <1>1, <2>1
  <2> QED  BY <2>2
<1>5. e \subseteq h
  BY DEF Erasing
<1>6. Wipes(f, a, j) => ApplicationKeys \intersect e = {}
  <2> SUFFICES ASSUME Wipes(f, a, j) PROVE Erasing(h, release, a, p) \intersect ApplicationKeys = {}
    OBVIOUS
  <2> QED  BY <1>1, <1>4, Wiping
<1>7. release.erases \intersect ApplicationKeys = {} => ApplicationKeys \intersect e = ApplicationKeys \intersect h
  BY DEF Erasing
<1>8. release.erases \intersect ApplicationKeys # {} =>
         Wipes(f, a, j) /\ (f \in Main \/ (Deriver(f) /\ a # End(f)))
  BY <1>1, <1>4, DerivingKeys
<1>9. CASE Deriver(f)
  <2>1. DerivationOK(s[1], h) /\ f \notin Main
    BY <1>1, <1>9, DerivingKeys DEF KeysOK, Deriver
  <2>2. ASSUME ~t[1].failed, NEW i \in 1..(a - 1)
        PROVE  StepsOf(f)[i].fills \intersect ApplicationKeys \subseteq e
    <3>1. ApplicationKeys \intersect e = ApplicationKeys \intersect h
      BY <1>3, <1>7, <1>8, <2>1, <2>2
    <3>2. StepsOf(f)[i].fills \intersect ApplicationKeys \subseteq h
      BY <1>3, <2>1, <2>2 DEF DerivationOK
    <3> QED  BY <3>1, <3>2
  <2>3. ASSUME NEW i \in 1..(n + 1), Wipes(f, a, i) PROVE e \intersect ApplicationKeys = {}
    <3>1. CASE i = j
      BY <1>6, <2>3, <3>1
    <3>2. CASE i # j
      <4>1. i \in 1..n
        BY <1>4, <3>2
      <4>2. h \intersect ApplicationKeys = {}
        BY <2>1, <2>3, <4>1 DEF DerivationOK
      <4> QED  BY <1>5, <4>2
    <3> QED  BY <3>1, <3>2
  <2>4. DerivationOK(t[1], e)
    BY <1>3, <2>2, <2>3 DEF DerivationOK
  <2> QED  BY <1>1, <1>2, <1>3, <1>9, <2>4, WhileDeriving
<1>10. CASE \E k \in 2..Len(s) : Deriver(s[k].function)
  <2>1. PICK k \in 2..Len(s) : Deriver(s[k].function)
    BY <1>10
  <2>2. k \in 1..Len(s) /\ 1 # k
    BY <2>1
  <2>3. DerivationOK(s[k], h)
    BY <2>1, <2>2 DEF KeysOK, Deriver
  <2>4. ~Deriver(f) /\ f \notin Main
    <3>1. /\ \A i \in 1..Len(s) : Deriver(s[i].function) => i = k
          /\ s[1].function \in Main => FALSE
      BY <2>1, <2>2, DerivationCaller
    <3> QED  BY <1>1, <2>2, <3>1
  <2>5. ApplicationKeys \intersect h \subseteq e
    BY <1>7, <1>8, <2>4
  <2>6. DerivationOK(s[k], e)
    BY <2>1, <2>3, <2>5, DerivationWaits
  <2>7. k \in 1..Len(t) /\ t[k] = s[k]
    BY <1>2, <2>2
  <2> QED  BY <2>1, <2>6, <2>7, WhileDeriving
<1>11. CASE ~Deriver(f) /\ ~(\E k \in 2..Len(s) : Deriver(s[k].function))
  <2>1. \A k \in 1..Len(s) : ~Deriver(s[k].function)
    BY <1>11
  <2>2. ASSUME NEW k \in 1..Len(t) PROVE ~Deriver(t[k].function)
    <3>1. CASE k = 1
      BY <1>3, <1>11, <3>1
    <3>2. CASE k # 1
      <4>1. k \in 2..Len(s) /\ t[k] = s[k]
        BY <1>1, <1>2, <3>2
      <4> QED  BY <2>1, <4>1
    <3> QED  BY <3>1, <3>2
  <2>3. ApplicationKeys \subseteq h \/ ApplicationKeys \intersect h = {}
    BY <2>1 DEF KeysOK, Deriver
  <2>4. ApplicationKeys \subseteq e \/ ApplicationKeys \intersect e = {}
    BY <1>6, <1>7, <1>8, <2>3
  <2>5. ASSUME ApplicationKeys \intersect e # {} PROVE t # <<>> /\ KeepsKeys(t[Len(t)])
    <3>1. ~Wipes(f, a, j) /\ KeepsKeys(s[Len(s)])
      BY <1>5, <1>6, <2>5 DEF KeysOK
    <3>2. CASE Len(s) = 1
      <4>1. KeepsKeys(s[1])
        BY <3>1, <3>2
      <4>2. \A i \in 1..(n + 1) : ~Wipes(f, a, i)
        BY <1>4, <3>1, <4>1 DEF KeepsKeys
      <4>3. KeepsKeys(t[1])
        BY <1>3, <4>1, <4>2 DEF KeepsKeys
      <4> QED  BY <1>2, <3>2, <4>3
    <3>3. CASE Len(s) # 1
      <4>1. PICK m \in Nat : m = Len(s) /\ m >= 1 /\ m # 1
        BY <1>1, <3>3
      <4>2. m \in 2..m
        BY <4>1
      <4> QED  BY <1>2, <3>1, <4>1, <4>2
    <3> QED  BY <3>2, <3>3
  <2> QED  BY <2>2, <2>4, <2>5, NotDeriving
<1> QED  BY <1>9, <1>10, <1>11

\* A return: derive_application_keys has all of them or none.
LEMMA KeysReturn ==
    ASSUME NEW s, StackOK(s), Len(s) >= 2, NEW h, KeysOK(s, h),
           NEW f, f = s[1].function, NEW a, a = s[1].at, s[1].released = Len(Ways(f, a)),
           s[1].failed \/ a = End(f),
           NEW g, g = s[2].function, NEW b, b = s[2].at,
           NEW x, x = IF s[1].failed THEN Fail(s[2]) ELSE GoOn(s[2]),
           NEW t, StackOK(t), IsPopped(t, s, x), t # <<>>,
           NEW e, e = IF s[1].failed THEN h ELSE h \union StepsOf(g)[b].fills
    PROVE  KeysOK(t, e)
<1>1. /\ Len(s) \in Nat /\ s # <<>> /\ 1 \in 1..Len(s) /\ 2 \in 2..Len(s) /\ 2 \in 1..Len(s) /\ 2 - 1 = 1
  BY InStack
<1>2. f \in DOMAIN Functions /\ a \in 1..End(f) /\ (s[1].failed => a \in 1..(End(f) - 1))
  BY <1>1, Innermost
<1>3. s[2] \in Frame /\ g \in DOMAIN Functions
  BY <1>1, InStack
<1>4. /\ b \in 1..(End(g) - 1) /\ ~s[2].failed /\ s[2].released = 0
      /\ StepsOf(g)[b].calls = f
  BY <1>1, InStack
<1>5. Len(t) = Len(s) - 1 /\ t[1] = x /\ \A k \in 2..Len(t) : t[k] = s[k + 1]
  BY DEF IsPopped
<1>6. b \in Nat
  BY <1>3, <1>4, Tables
<1>7. x.function = g /\ x.released = 0 /\ x.at \in Nat /\ b <= x.at
  <2>1. CASE s[1].failed
    BY <1>3, <1>4, <1>6, <2>1, Moves
  <2>2. CASE ~s[1].failed
    BY <1>3, <1>4, <1>6, <2>2, Moves
  <2> QED  BY <2>1, <2>2
<1>8. h \subseteq e
  OBVIOUS
<1>9. \A k \in 2..Len(t) : k + 1 \in 2..Len(s)
  BY <1>1, <1>5
<1>10. KeepsKeys(s[Len(s)]) => KeepsKeys(t[Len(t)])
  <2> SUFFICES ASSUME KeepsKeys(s[Len(s)]) PROVE KeepsKeys(t[Len(t)])
    OBVIOUS
  <2>1. CASE Len(s) = 2
    <3>1. KeepsKeys(s[2]) /\ t[Len(t)] = x
      BY <1>5, <2>1
    <3> QED  BY <1>3, <1>6, <1>7, <3>1, KeepsOn
  <2>2. CASE Len(s) # 2
    <3>1. PICK m \in 2..Len(t) : m = Len(t) /\ m + 1 = Len(s)
      BY <1>1, <1>5, <2>2
    <3> QED  BY <1>5, <3>1
  <2> QED  BY <2>1, <2>2
<1>11. CASE Deriver(f)
  <2>1. /\ \A k \in 1..Len(s) : Deriver(s[k].function) => k = 1
        /\ KeepsKeys(s[Len(s)])
    BY <1>1, <1>11, DerivationCaller
  <2>2. ASSUME NEW k \in 1..Len(t) PROVE ~Deriver(t[k].function)
    <3>1. CASE k = 1
      <4>1. ~Deriver(g)
        BY <1>1, <2>1
      <4> QED  BY <1>5, <1>7, <3>1, <4>1
    <3>2. CASE k # 1
      <4>1. PICK m \in 1..Len(s) : m = k + 1 /\ m # 1 /\ t[k] = s[m]
        <5>1. k \in 2..Len(t) /\ k + 1 \in 1..Len(s) /\ k + 1 # 1
          BY <1>1, <1>5, <3>2
        <5> QED  BY <1>5, <5>1
      <4> QED  BY <2>1, <4>1
    <3> QED  BY <3>1, <3>2
  <2>3. DerivationOK(s[1], h)
    BY <1>1, <1>11 DEF KeysOK, Deriver
  <2>4. CASE s[1].failed
    <3>1. PICK j \in 1..Len(Ways(f, a)) : Wipes(f, a, j)
      BY <1>2, <1>11, <2>4, DerivingKeys
    <3>2. h \intersect ApplicationKeys = {}
      BY <2>3, <3>1 DEF DerivationOK
    <3> QED  BY <2>2, <2>4, <3>2, NotDeriving
  <2>5. CASE ~s[1].failed
    <3>1. \A i \in 1..(End(f) - 1) : StepsOf(f)[i].fills \intersect ApplicationKeys \subseteq h
      BY <2>3, <2>5 DEF DerivationOK
    <3>2. ApplicationKeys \subseteq UNION {StepsOf(f)[i].fills : i \in 1..(End(f) - 1)}
      BY <1>2, <1>11, DerivingKeys
    <3>3. ApplicationKeys \subseteq e
      BY <1>8, <3>1, <3>2
    <3> QED  BY <1>10, <2>1, <2>2, <3>3, NotDeriving
  <2> QED  BY <2>4, <2>5
<1>12. CASE ~Deriver(f) /\ Deriver(g)
  <2>1. DerivationOK(s[2], h)
    BY <1>1, <1>12 DEF KeysOK, Deriver
  <2>2. CASE s[1].failed
    <3>1. DerivationOK(x, e)
      BY <1>3, <1>4, <2>2, DerivationFails
    <3>2. 1 \in 1..Len(t)
      BY <1>1, <1>5
    <3> QED  BY <1>5, <1>7, <1>12, <3>1, <3>2, WhileDeriving
  <2>3. CASE ~s[1].failed
    <3>1. StepsOf(g)[b].fills \subseteq e /\ x = GoOn(s[2])
      BY <2>3
    <3>2. DerivationOK(x, e)
      BY <1>3, <1>4, <1>8, <2>1, <3>1, DerivationGoesOn
    <3>3. 1 \in 1..Len(t)
      BY <1>1, <1>5
    <3> QED  BY <1>5, <1>7, <1>12, <3>2, <3>3, WhileDeriving
  <2> QED  BY <2>2, <2>3
<1>13. CASE ~Deriver(f) /\ ~Deriver(g) /\ \E k \in 2..Len(t) : Deriver(t[k].function)
  <2>1. PICK k \in 2..Len(t) : Deriver(t[k].function)
    BY <1>13
  <2>2. PICK m \in 2..Len(s) : m = k + 1 /\ t[k] = s[m]
    BY <1>5, <1>9
  <2>3. DerivationOK(s[m], h)
    BY <2>1, <2>2 DEF KeysOK, Deriver
  <2>4. DerivationOK(s[m], e)
    BY <1>8, <2>3, DerivationWaits
  <2>5. k \in 1..Len(t)
    OBVIOUS
  <2> QED  BY <2>1, <2>2, <2>4, <2>5, WhileDeriving
<1>14. CASE ~Deriver(f) /\ ~Deriver(g) /\ ~(\E k \in 2..Len(t) : Deriver(t[k].function))
  <2>1. \A k \in 1..Len(t) : ~Deriver(t[k].function)
    BY <1>5, <1>7, <1>14
  <2>2. ASSUME NEW k \in 1..Len(s) PROVE ~Deriver(s[k].function)
    <3>1. CASE k = 1 \/ k = 2
      BY <1>14, <3>1
    <3>2. CASE k # 1 /\ k # 2
      <4>1. PICK m \in 2..Len(t) : m + 1 = k
        <5>1. k - 1 \in 2..Len(t) /\ (k - 1) + 1 = k
          BY <1>1, <1>5, <3>2
        <5> QED  BY <5>1
      <4> QED  BY <1>5, <1>14, <4>1
    <3> QED  BY <3>1, <3>2
  <2>3. ApplicationKeys \subseteq h \/ ApplicationKeys \intersect h = {}
    BY <2>2 DEF KeysOK, Deriver
  <2>4. ApplicationKeys \intersect e = ApplicationKeys \intersect h
    BY <1>3, <1>4, <1>14, DerivingKeys
  <2>5. ApplicationKeys \subseteq e \/ ApplicationKeys \intersect e = {}
    BY <2>3, <2>4
  <2>6. ApplicationKeys \intersect e # {} => KeepsKeys(t[Len(t)])
    BY <1>10, <2>4 DEF KeysOK
  <2> QED  BY <2>1, <2>5, <2>6, NotDeriving
<1> QED  BY <1>11, <1>12, <1>13, <1>14

LEMMA KeysNext ==
    ASSUME StackOK(stack), StackOK(stack)', KeysOK(stack, secret), [Next]_vars
    PROVE  KeysOK(stack, secret)'
<1>1. PICK s, h : s = stack /\ h = secret
  OBVIOUS
<1>2. PICK t, e : t = stack' /\ e = secret'
  OBVIOUS
<1>3. PICK f, a, n : f = s[1].function /\ a = s[1].at /\ n = s[1].released
  OBVIOUS
<1>4. StackOK(s) /\ KeysOK(s, h) /\ StackOK(t)
  BY <1>1, <1>2
<1>5. SUFFICES KeysOK(t, e)
  BY <1>2
<1>6. CASE Succeeds
  <2>1. /\ s # <<>> /\ ~s[1].failed /\ a # End(f)
        /\ IsReplaced(t, s, GoOn(s[1])) /\ e = h \union StepsOf(f)[a].fills
    BY <1>1, <1>2, <1>3, <1>4, <1>6, SucceedsStep
  <2> QED  BY <1>3, <1>4, <2>1, KeysSucceed
<1>7. CASE Fails
  <2>1. /\ s # <<>> /\ ~s[1].failed /\ a # End(f)
        /\ IsReplaced(t, s, Fail(s[1])) /\ e = h
    BY <1>1, <1>2, <1>3, <1>4, <1>7, FailsStep
  <2> QED  BY <1>3, <1>4, <2>1, KeysFail
<1>8. CASE Calls
  <2>1. PICK g : g = StepsOf(f)[a].calls
    OBVIOUS
  <2>2. s # <<>> /\ IsPushed(t, s, Activation(g)) /\ e = h
    BY <1>1, <1>2, <1>3, <1>4, <1>8, <2>1, CallsStep
  <2> QED  BY <1>4, <2>2, KeysCall
<1>9. CASE Releasing
  <2>1. PICK release, p : release = Ways(f, a)[n + 1] /\ p = pointer
    OBVIOUS
  <2>2. /\ s # <<>> /\ (s[1].failed \/ a = End(f)) /\ n < Len(Ways(f, a))
        /\ IsReplaced(t, s, [s[1] EXCEPT !.released = @ + 1])
        /\ e = Erasing(h, release, a, p)
    BY <1>1, <1>2, <1>3, <1>4, <1>9, <2>1, ReleasingStep
  <2> QED  BY <1>3, <1>4, <2>1, <2>2, KeysRelease
<1>10. CASE Returns /\ Len(s) >= 2
  <2>1. PICK g, b, x : /\ g = s[2].function /\ b = s[2].at
                       /\ x = IF s[1].failed THEN Fail(s[2]) ELSE GoOn(s[2])
    OBVIOUS
  <2>2. /\ s[1].failed \/ a = End(f)
        /\ s[1].released = Len(Ways(f, a))
        /\ IsPopped(t, s, x) /\ t # <<>>
        /\ e = IF s[1].failed THEN h ELSE h \union StepsOf(g)[b].fills
    BY <1>1, <1>2, <1>3, <1>4, <1>10, <2>1, ReturnsStep
  <2> QED  BY <1>3, <1>4, <1>10, <2>1, <2>2, KeysReturn
<1>11. CASE Returns /\ ~(Len(s) >= 2)
  <2>1. /\ s # <<>> /\ Len(s) = 1 /\ s[1].released = Len(Ways(f, a))
        /\ t = <<>> /\ e = h
    BY <1>1, <1>2, <1>3, <1>4, <1>11, ProgramEnds
  <2>2. f \in DOMAIN Functions /\ a \in 1..End(f) /\ a \in Nat
    BY <1>3, <1>4, <2>1, Innermost
  <2>3. ApplicationKeys \intersect h = {}
    <3> SUFFICES ASSUME ApplicationKeys \intersect h # {} PROVE FALSE
      OBVIOUS
    <3>1. KeepsKeys(s[1])
      BY <1>4, <2>1 DEF KeysOK
    <3>2. PICK i \in 1..(End(f) - 1) : i <= a /\ Deriver(StepsOf(f)[i].calls)
      BY <1>3, <2>2, <3>1, Tables DEF KeepsKeys, Deriver
    <3>3. \E j \in 1..Len(Ways(f, a)) : Wipes(f, a, j)
      BY <2>2, <3>2, DerivingKeys
    <3> QED  BY <1>3, <2>1, <3>1, <3>3 DEF KeepsKeys
  <2>4. \A k \in 1..Len(t) : ~Deriver(t[k].function)
    BY <2>1
  <2> QED  BY <2>1, <2>3, <2>4, NotDeriving
<1>12. CASE UNCHANGED vars
  BY <1>1, <1>2, <1>4, <1>12 DEF vars
<1> QED  BY <1>6, <1>7, <1>8, <1>9, <1>10, <1>11, <1>12 DEF Next, Exited

-----------------------------------------------------------------------------
(* The text *)

LEMMA Verifying ==
    ASSUME NEW f \in DOMAIN Functions, NEW i \in 1..(End(f) - 1)
    PROVE  /\ StepsOf(f)[i].decrypts \subseteq {"plaintext"} /\ StepsOf(f)[i].verifies \subseteq {"plaintext"}
           /\ StepsOf(f)[i].verifies # {} =>
                 f \notin Main /\ \A j \in 1..(End(f) - 1) : StepsOf(f)[j].calls = "none"
           /\ StepsOf(f)[i].decrypts # {} =>
                 \E v \in 1..(End(f) - 1) : v >= i + 1 /\ StepsOf(f)[v].verifies # {}
<1>1. Verifies(f)
  BY TablesDisciplined DEF Disciplined
<1>2. End(f) \in Nat /\ DOMAIN StepsOf(f) = 1..(End(f) - 1) /\ Len(StepsOf(f)) = End(f) - 1
  BY Tables
<1>3. StepsOf(f)[i].decrypts \subseteq {"plaintext"} /\ StepsOf(f)[i].verifies \subseteq {"plaintext"}
  BY Tables DEF StepType
<1>4. ASSUME StepsOf(f)[i].verifies # {}
      PROVE  f \notin Main /\ \A j \in 1..(End(f) - 1) : StepsOf(f)[j].calls = "none"
  BY <1>1, <1>2, <1>4 DEF Verifies, Leaf
<1>5. ASSUME StepsOf(f)[i].decrypts # {}
      PROVE  \E v \in 1..(End(f) - 1) : v >= i + 1 /\ StepsOf(f)[v].verifies # {}
  <2>1. PICK v \in (i + 1)..(End(f) - 1) : StepsOf(f)[v].verifies # {}
    BY <1>1, <1>2, <1>5 DEF Verifies
  <2>2. v \in 1..(End(f) - 1) /\ v >= i + 1
    BY <1>2
  <2> QED  BY <2>1, <2>2
<1> QED  BY <1>3, <1>4, <1>5

\* Text that was not checked is about to be, in the innermost activation.
LEMMA TextPending ==
    ASSUME NEW s, StackOK(s), s # <<>>, NEW text, TextOK(s, text), text # {}, ~s[1].failed,
           NEW f, f = s[1].function, NEW a, a = s[1].at
    PROVE  /\ f \notin Main /\ a # End(f) /\ StepsOf(f)[a].calls = "none"
           /\ \E v \in 1..(End(f) - 1) : v >= a /\ StepsOf(f)[v].verifies # {}
<1>1. f \in DOMAIN Functions /\ a \in 1..End(f) /\ a \in Nat
  BY Innermost
<1>2. End(f) \in Nat /\ DOMAIN StepsOf(f) = 1..(End(f) - 1)
  BY <1>1, Tables
<1>3. PICK v \in 1..(End(f) - 1) : v >= a /\ StepsOf(f)[v].verifies # {}
  BY <1>2 DEF TextOK
<1>4. f \notin Main /\ \A j \in 1..(End(f) - 1) : StepsOf(f)[j].calls = "none"
  BY <1>1, <1>3, Verifying
<1>5. a \in 1..(End(f) - 1) /\ a # End(f)
  BY <1>1, <1>2, <1>3
<1> QED  BY <1>3, <1>4, <1>5

LEMMA TextNext ==
    ASSUME StackOK(stack), StackOK(stack)', TextOK(stack, unverified), [Next]_vars
    PROVE  TextOK(stack, unverified)'
<1>1. PICK s, u : s = stack /\ u = unverified
  OBVIOUS
<1>2. PICK t, w : t = stack' /\ w = unverified'
  OBVIOUS
<1>3. PICK f, a, n : f = s[1].function /\ a = s[1].at /\ n = s[1].released
  OBVIOUS
<1>4. StackOK(s) /\ TextOK(s, u) /\ StackOK(t) /\ u \subseteq {"plaintext"}
  BY <1>1, <1>2 DEF TextOK
<1>5. SUFFICES TextOK(t, w)
  BY <1>2
<1>6. CASE Succeeds
  <2>1. /\ s # <<>> /\ ~s[1].failed /\ a # End(f)
        /\ IsReplaced(t, s, GoOn(s[1]))
        /\ w = (u \union StepsOf(f)[a].decrypts) \ StepsOf(f)[a].verifies
    BY <1>1, <1>2, <1>3, <1>4, <1>6, SucceedsStep
  <2>2. f \in DOMAIN Functions /\ a \in 1..(End(f) - 1) /\ s[1] \in Frame /\ a \in Nat
    BY <1>3, <1>4, <2>1, Innermost
  <2>3. StepsOf(f)[a].decrypts \subseteq {"plaintext"} /\ StepsOf(f)[a].verifies \subseteq {"plaintext"}
    BY <2>2, Verifying
  <2>4. t[1].function = f /\ t[1].at = a + 1
    BY <1>3, <2>1, <2>2, Moves DEF IsReplaced
  <2>5. ASSUME w # {}
        PROVE  \E v \in 1..(End(f) - 1) : v >= a + 1 /\ StepsOf(f)[v].verifies # {}
    <3>1. StepsOf(f)[a].verifies = {}
      BY <1>4, <2>1, <2>3, <2>5
    <3>2. CASE u # {}
      <4>1. PICK v \in 1..(End(f) - 1) : v >= a /\ StepsOf(f)[v].verifies # {}
        BY <1>3, <1>4, <2>1, <3>2, TextPending
      <4>2. v >= a + 1
        BY <2>2, <3>1, <4>1, Tables
      <4> QED  BY <4>1, <4>2
    <3>3. CASE StepsOf(f)[a].decrypts # {}
      BY <2>2, <3>3, Verifying
    <3> QED  BY <2>1, <2>5, <3>2, <3>3
  <2>6. w \subseteq {"plaintext"}
    BY <1>4, <2>1, <2>3
  <2>7. DOMAIN StepsOf(f) = 1..(End(f) - 1)
    BY <2>2, Tables
  <2> QED  BY <2>4, <2>5, <2>6, <2>7 DEF TextOK
<1>7. CASE Fails
  <2>1. s # <<>> /\ IsReplaced(t, s, Fail(s[1])) /\ w = u
    BY <1>1, <1>2, <1>3, <1>4, <1>7, FailsStep
  <2>2. t[1].failed
    BY <1>3, <1>4, <2>1, Innermost, Moves DEF IsReplaced
  <2> QED  BY <1>4, <2>1, <2>2 DEF TextOK
<1>8. CASE Calls
  <2>1. PICK g : g = StepsOf(f)[a].calls
    OBVIOUS
  <2>2. s # <<>> /\ ~s[1].failed /\ g \in DOMAIN Functions /\ w = u
    BY <1>1, <1>2, <1>3, <1>4, <1>8, <2>1, CallsStep
  <2>3. u = {}
    <3>1. "none" \notin DOMAIN Functions
      BY DEF Functions
    <3> QED  BY <1>3, <1>4, <2>1, <2>2, <3>1, TextPending
  <2> QED  BY <2>2, <2>3 DEF TextOK
<1>9. CASE Releasing
  <2>1. PICK release : release = Ways(f, a)[n + 1]
    OBVIOUS
  <2>2. s # <<>> /\ IsReplaced(t, s, [s[1] EXCEPT !.released = @ + 1]) /\ w = u
    BY <1>1, <1>2, <1>3, <1>4, <1>9, <2>1, ReleasingStep
  <2>3. s[1] \in Frame
    BY <1>3, <1>4, <2>2, Innermost
  <2>4. t[1].function = s[1].function /\ t[1].at = s[1].at /\ t[1].failed = s[1].failed
    BY <2>2, <2>3 DEF IsReplaced, Frame
  <2> QED  BY <1>4, <2>2, <2>4 DEF TextOK
<1>10. CASE Returns /\ Len(s) >= 2
  <2>1. /\ s # <<>> /\ (s[1].failed \/ a = End(f))
        /\ IsPopped(t, s, IF s[1].failed THEN Fail(s[2]) ELSE GoOn(s[2])) /\ w = u
    BY <1>1, <1>2, <1>3, <1>4, <1>10, ReturnsStep
  <2>2. CASE s[1].failed
    <3>1. 2 \in 1..Len(s)
      BY <1>4, <1>10, InStack
    <3>2. s[2] \in Frame
      BY <1>4, <3>1, InStack
    <3>3. t[1].failed
      BY <2>1, <2>2, <3>2, Moves DEF IsPopped
    <3> QED  BY <1>4, <2>1, <3>3 DEF TextOK
  <2>3. CASE ~s[1].failed
    <3>1. u = {}
      BY <1>3, <1>4, <2>1, <2>3, TextPending
    <3> QED  BY <2>1, <3>1 DEF TextOK
  <2> QED  BY <2>2, <2>3
<1>11. CASE Returns /\ ~(Len(s) >= 2)
  <2>1. t = <<>> /\ w = u
    BY <1>1, <1>2, <1>3, <1>4, <1>11, ProgramEnds
  <2> QED  BY <1>4, <2>1 DEF TextOK
<1>12. CASE UNCHANGED vars
  BY <1>1, <1>2, <1>4, <1>12 DEF vars
<1> QED  BY <1>6, <1>7, <1>8, <1>9, <1>10, <1>11, <1>12 DEF Next, Exited

-----------------------------------------------------------------------------
(* The theorems *)

LEMMA InvInit == Init => LifecycleInv
<1> SUFFICES ASSUME Init PROVE LifecycleInv
  OBVIOUS
<1>1. StackOK(stack) /\ PointersOK(stack, pointer) /\ Len(stack) = 1
  BY StartingStack
<1>2. secret = {} /\ unverified = {}
  BY DEF Init
<1>3. SecretsOK(pointer, secret) /\ TextOK(stack, unverified)
  BY <1>2 DEF SecretsOK, TextOK
<1>4. KeysOK(stack, secret)
  <2>1. PICK f : stack = <<Activation(f)>>
    BY DEF Init
  <2>2. stack[1].at = 1 /\ stack[1].released = 0 /\ 1..0 = {} /\ 1..(1 - 1) = {}
    BY <2>1 DEF Activation
  <2>3. DerivationOK(stack[1], secret)
    BY <2>2 DEF DerivationOK
  <2> QED  BY <1>1, <1>2, <2>3 DEF KeysOK
<1> QED  BY <1>1, <1>3, <1>4 DEF LifecycleInv

LEMMA InvNext == LifecycleInv /\ [Next]_vars => LifecycleInv'
<1> SUFFICES ASSUME LifecycleInv, [Next]_vars PROVE LifecycleInv'
  OBVIOUS
<1>1. StackOK(stack)' /\ PointersOK(stack, pointer)'
  BY PointersNext DEF LifecycleInv
<1>2. SecretsOK(pointer, secret)'
  BY SecretsNext DEF LifecycleInv
<1>3. KeysOK(stack, secret)'
  BY <1>1, KeysNext DEF LifecycleInv
<1>4. TextOK(stack, unverified)'
  BY <1>1, TextNext DEF LifecycleInv
<1> QED  BY <1>1, <1>2, <1>3, <1>4 DEF LifecycleInv

\* Whatever the programs and whatever fails: what each activation holds, of
\* objects, secrets, keys and text, follows from where it stands in its table.
THEOREM LifecycleInvariance == Spec => []LifecycleInv
<1>1. Init => LifecycleInv
  BY InvInit
<1>2. LifecycleInv /\ [Next]_vars => LifecycleInv'
  BY InvNext
<1> QED  BY <1>1, <1>2, PTL DEF Spec

\* Whatever the programs, every function active is one of the tables, at one
\* of its steps or releases, and pointers, secrets and text are of their kinds.
THEOREM TypeOKHolds == Spec => []TypeOK
<1>1. LifecycleInv => TypeOK
  <2> SUFFICES ASSUME LifecycleInv PROVE TypeOK
    OBVIOUS
  <2>1. PICK s : s = stack
    OBVIOUS
  <2>2. StackOK(s) /\ DOMAIN s = 1..Len(s)
    BY <2>1 DEF LifecycleInv, StackOK
  <2>3. ASSUME NEW i \in DOMAIN s
        PROVE  /\ s[i].function \in DOMAIN Functions
               /\ s[i].at \in 1..(Len(Functions[s[i].function].steps) + 1)
               /\ s[i].failed \in BOOLEAN
               /\ s[i].released \in 0..Len(Functions[s[i].function].releases[s[i].at])
    <3>1. /\ FrameOK(s[i]) /\ s[i].function \in DOMAIN Functions
          /\ s[i].failed \in BOOLEAN
      BY <2>2, InStack
    <3> QED  BY <3>1 DEF FrameOK, End, Ways, StepsOf
  <2>4. /\ pointer \in [Objects -> {"null", "live", "dangling", "unset"}]
        /\ \A o \in Objects \ NoInitialValue : pointer[o] # "unset"
        /\ secret \subseteq Memory /\ unverified \subseteq {"plaintext"}
    BY DEF LifecycleInv, PointersOK, Value, SecretsOK, TextOK
  <2> QED  BY <2>1, <2>3, <2>4 DEF TypeOK
<1> QED  BY <1>1, LifecycleInvariance, PTL

\* Whatever the programs and wherever they fail, nothing is released that was
\* not acquired or was released before, nor is a length read from it.
THEOREM ReleasesAreSafeHolds == Spec => []ReleasesAreSafe
<1>1. LifecycleInv => ReleasesAreSafe
  <2> SUFFICES ASSUME LifecycleInv, Leaving, Top.released < Len(Releases), TakesPlace,
                      NEW o \in Release.given \union Release.frees
               PROVE  pointer[o] = "live"
    BY DEF ReleasesAreSafe
  <2>1. PICK s, p : s = stack /\ p = pointer
    OBVIOUS
  <2>2. PICK f, a, n : f = s[1].function /\ a = s[1].at /\ n = s[1].released
    OBVIOUS
  <2>3. PICK release : release = Ways(f, a)[n + 1]
    OBVIOUS
  <2>4. StackOK(s) /\ PointersOK(s, p) /\ s # <<>>
    BY <2>1 DEF LifecycleInv, Leaving
  <2>5. Top = s[1] /\ Releases = Ways(f, a) /\ Release = release
    BY <2>1, <2>2, <2>3, <2>4, WhereItStands
  <2>6. Takes(release, a, p) /\ n < Len(Ways(f, a)) /\ o \in release.given \union release.frees
    BY <2>1, <2>2, <2>5 DEF TakesPlace, Takes
  <2>7. p[o] = "live"
    BY <2>2, <2>3, <2>4, <2>6, ReleaseIsSafe
  <2> QED  BY <2>1, <2>7
<1> QED  BY <1>1, LifecycleInvariance, PTL

\* Whatever the programs and wherever they fail, a function that returns leaves
\* nothing behind but the context transcript_init hands over, and a program
\* that exits nothing at all.
THEOREM NothingLeaksHolds == Spec => []NothingLeaks
<1>1. LifecycleInv => NothingLeaks
  <2> SUFFICES ASSUME LifecycleInv PROVE NothingLeaks
    OBVIOUS
  <2>1. PICK s, p : s = stack /\ p = pointer
    OBVIOUS
  <2>2. PICK f, a : f = s[1].function /\ a = s[1].at
    OBVIOUS
  <2>3. StackOK(s) /\ PointersOK(s, p)
    BY <2>1 DEF LifecycleInv
  <2>4. ASSUME Leaving, Top.released = Len(Releases), NEW o \in Locals(Top.function) \ HandsOver
        PROVE  p[o] # "live"
    <3> SUFFICES ASSUME p[o] = "live" PROVE FALSE
      OBVIOUS
    <3>1. s # <<>>
      BY <2>1, <2>4 DEF Leaving
    <3>2. /\ Top = s[1] /\ Releases = Ways(f, a)
          /\ s[1].failed \/ a = End(f)
      BY <2>1, <2>2, <2>3, <2>4, <3>1, WhereItStands
    <3>3. f \in DOMAIN Functions /\ FrameOK(s[1])
      BY <2>2, <2>3, <3>1, Innermost, InStack
    <3>4. o \in Own(f)
      BY <2>2, <2>4, <3>2, <3>3, EverythingOwn
    <3>5. o \in Handed(f, a)
      BY <2>2, <2>3, <2>4, <3>1, <3>2, <3>4, NothingHeld
    <3>6. f = "transcript_init" /\ a = End(f) /\ o = "ctx"
      BY <3>5 DEF Handed
    <3>7. ~s[1].failed
      BY <2>2, <3>3, <3>6 DEF FrameOK
    <3> QED  BY <2>2, <2>4, <3>2, <3>6, <3>7 DEF HandsOver
  <2>5. ASSUME s = <<>>, NEW o \in Objects PROVE p[o] # "live"
    BY <2>3, <2>5 DEF PointersOK
  <2> QED  BY <2>1, <2>4, <2>5 DEF NothingLeaks
<1> QED  BY <1>1, LifecycleInvariance, PTL

\* Whatever the programs and wherever they fail, a secret in a buffer of its
\* own is erased before the buffer is freed, and no such buffer and none of
\* the application keys is left at the exit.
THEOREM SecretsErasedHolds == Spec => []SecretsErased
<1>1. LifecycleInv => SecretsErased
  <2> SUFFICES ASSUME LifecycleInv PROVE SecretsErased
    OBVIOUS
  <2>1. secret \subseteq Memory /\ \A o \in secret \intersect Objects : pointer[o] = "live"
    BY DEF LifecycleInv, SecretsOK
  <2>2. ASSUME stack = <<>> PROVE secret \intersect Erasable = {}
    <3>1. \A o \in Objects : pointer[o] # "live"
      BY <2>2 DEF LifecycleInv, PointersOK
    <3>2. secret \intersect ApplicationKeys = {}
      BY <2>2 DEF LifecycleInv, KeysOK
    <3> QED  BY <2>1, <3>1, <3>2 DEF Erasable
  <2> QED  BY <2>1, <2>2 DEF SecretsErased
<1> QED  BY <1>1, LifecycleInvariance, PTL

\* Whatever the programs and whichever derivation fails, the four application
\* keys are there together or not at all once derive_application_keys is left.
THEOREM KeysAllOrNothingHolds == Spec => []KeysAllOrNothing
<1>1. LifecycleInv => KeysAllOrNothing
  <2>1. LifecycleInv => DOMAIN stack = 1..Len(stack)
    BY DEF LifecycleInv, StackOK
  <2> QED  BY <2>1 DEF LifecycleInv, KeysOK, KeysAllOrNothing
<1> QED  BY <1>1, LifecycleInvariance, PTL

\* Whatever the programs, one that goes on holds no text whose tag was not
\* checked.
THEOREM TextIsVerifiedHolds == Spec => []TextIsVerified
<1>1. LifecycleInv => TextIsVerified
  <2> SUFFICES ASSUME LifecycleInv, Len(stack) = 1, Running, unverified # {} PROVE FALSE
    BY DEF TextIsVerified
  <2>1. PICK s, u : s = stack /\ u = unverified
    OBVIOUS
  <2>2. PICK f, a : f = s[1].function /\ a = s[1].at
    OBVIOUS
  <2>3. StackOK(s) /\ TextOK(s, u) /\ s # <<>>
    BY <2>1 DEF LifecycleInv, Running
  <2>4. ~s[1].failed
    BY <2>1, <2>2, <2>3, WhereItStands
  <2>5. f \notin Main
    BY <2>1, <2>2, <2>3, <2>4, TextPending
  <2> QED  BY <2>1, <2>2, <2>3, <2>5 DEF StackOK
<1> QED  BY <1>1, LifecycleInvariance, PTL
==============================================================================
