------------------------------ MODULE Lifecycle ------------------------------
(***************************************************************************)
(* What the programs hold, and what they leave behind, on every way        *)
(* through them: one process that runs one of the programs, whose calls    *)
(* succeed or fail, down to the functions of the repository it calls.      *)
(* What each of them acquires and releases is in module CallTables.        *)
(*                                                                         *)
(* A process that is killed, SIGPIPE included, releases nothing; that is   *)
(* module Handshake's.                                                     *)
(***************************************************************************)
EXTENDS CallTables, FiniteSets

CONSTANT Programs   \* those of the functions that are programs

\* None of the functions calls the main of a program.
ASSUME ProgramsAssumption ==
    Programs \subseteq {p \in DOMAIN Functions :
        \A f \in DOMAIN Functions : \A i \in DOMAIN Functions[f].steps : Functions[f].steps[i].calls # p}

Objects == UNION {UNION {Functions[f].steps[i].gets : i \in DOMAIN Functions[f].steps} : f \in DOMAIN Functions}
Memory  == UNION {UNION {Functions[f].steps[i].fills : i \in DOMAIN Functions[f].steps} : f \in DOMAIN Functions}

Locals(f) == UNION {Functions[f].steps[i].gets : i \in DOMAIN Functions[f].steps}

\* The context of the transcript is part of a structure that is an automatic
\* variable of main, without an initial value.
NoInitialValue == {"ctx"}

VARIABLES
    stack,      \* the active functions, the innermost first
    pointer,    \* each pointer or descriptor: NULL or -1, live, dangling, or not set yet
    secret,     \* the memory that holds a key or a secret
    unverified  \* the memory that holds text whose tag was not checked

vars == <<stack, pointer, secret, unverified>>

\* An activation: its next step, or the one that failed, and how many of the
\* releases it leaves with are done.
Activation(f) == [function |-> f, at |-> 1, failed |-> FALSE, released |-> 0]

Init ==
    /\ \E p \in Programs : stack = <<Activation(p)>>
    /\ pointer = [o \in Objects |-> IF o \in NoInitialValue THEN "unset" ELSE "null"]
    /\ secret = {}
    /\ unverified = {}

-----------------------------------------------------------------------------
(* Where the process stands *)

Top      == Head(stack)
Steps    == Functions[Top.function].steps
Leaving  == stack # <<>> /\ (Top.failed \/ Top.at > Len(Steps))
Running  == stack # <<>> /\ ~Leaving
Step     == Steps[Top.at]
Releases == Functions[Top.function].releases[Top.at]
Release  == Releases[Top.released + 1]

Assign(objects, value) == [o \in Objects |-> IF o \in objects THEN value ELSE pointer[o]]

GoOn(frame) == [frame EXCEPT !.at = @ + 1]
Fail(frame) == [frame EXCEPT !.failed = TRUE]
WithTop(frame) == <<frame>> \o Tail(stack)

\* What the check of a result makes of an error: without it the function goes on.
Noticed(frame) ==
    IF Functions[frame.function].steps[frame.at].checked THEN Fail(frame) ELSE GoOn(frame)

-----------------------------------------------------------------------------
(* Actions *)

\* A call of a library or of the kernel.
Succeeds ==
    /\ Running /\ Step.calls = "none"
    /\ stack' = WithTop(GoOn(Top))
    /\ pointer' = Assign(Step.gets, "live")
    /\ secret' = secret \union Step.fills
    /\ unverified' = (unverified \union Step.decrypts) \ Step.verifies

\* Of several allocations that are checked together some may succeed.
Fails ==
    /\ Running /\ Step.calls = "none"
    /\ \E got \in SUBSET Step.gets :
          /\ got = Step.gets => got = {}
          /\ pointer' = [o \in Objects |->
                CASE o \in got -> "live"
                  [] o \in Step.gets \ got -> "null"
                  [] OTHER -> pointer[o]]
    /\ stack' = WithTop(Noticed(Top))
    /\ UNCHANGED <<secret, unverified>>

\* The locals of the callee start as NULL; transcript_init clears its structure.
Mutant_LocalsNotSet(f) == Assign(Locals(f), "unset")
LocalsSet(f) == Assign(Locals(f), "null")

Calls ==
    /\ Running /\ Step.calls # "none"
    /\ stack' = <<Activation(Step.calls)>> \o stack
    /\ pointer' = LocalsSet(Step.calls)
    /\ UNCHANGED <<secret, unverified>>

\* free(NULL) does nothing; a descriptor is closed if it is not -1.
TakesPlace ==
    /\ Top.at > Release.after
    /\ \A o \in Release.given \union Release.frees : pointer[o] # "null"

Releasing ==
    /\ Leaving /\ Top.released < Len(Releases)
    /\ stack' = WithTop([Top EXCEPT !.released = @ + 1])
    /\ IF TakesPlace
       THEN /\ pointer' = Assign(Release.frees, IF Release.nulls THEN "null" ELSE "dangling")
            /\ secret' = secret \ Release.erases
       ELSE UNCHANGED <<pointer, secret>>
    /\ UNCHANGED unverified

\* The caller goes on, or has the error to notice.
Resume(frame) == IF Top.failed THEN Noticed(frame) ELSE GoOn(frame)

Returns ==
    /\ Leaving /\ Top.released = Len(Releases)
    /\ LET caller == stack[2] IN
       IF Len(stack) = 1 THEN stack' = <<>> /\ UNCHANGED secret
       ELSE /\ stack' = <<Resume(caller)>> \o SubSeq(stack, 3, Len(stack))
            /\ secret' = IF Top.failed THEN secret
                         ELSE secret \union Functions[caller.function].steps[caller.at].fills
    /\ UNCHANGED <<pointer, unverified>>

Exited == stack = <<>> /\ UNCHANGED vars

Next == Succeeds \/ Fails \/ Calls \/ Releasing \/ Returns \/ Exited

Spec == Init /\ [][Next]_vars

-----------------------------------------------------------------------------
(* Properties *)

\* The value a pointer may have before its function has set it.
TypeOK ==
    /\ \A i \in DOMAIN stack : LET frame == stack[i] IN
          /\ frame.function \in DOMAIN Functions
          /\ frame.at \in 1..(Len(Functions[frame.function].steps) + 1)
          /\ frame.failed \in BOOLEAN
          /\ frame.released \in 0..Len(Functions[frame.function].releases[frame.at])
    /\ pointer \in [Objects -> {"null", "live", "dangling", "unset"}]
    /\ \A o \in Objects \ NoInitialValue : pointer[o] # "unset"
    /\ secret \subseteq Memory
    /\ unverified \subseteq {"plaintext"}

\* What is released was acquired and is released once, and no length is read
\* from an object that is gone: one label serves failures at every step.
ReleasesAreSafe ==
    Leaving /\ Top.released < Len(Releases) /\ TakesPlace =>
        \A o \in Release.given \union Release.frees : pointer[o] = "live"

\* A function that returns leaves nothing of its own behind, but for a
\* context that transcript_init has set up for its caller to free.
HandsOver == IF Top.function = "transcript_init" /\ ~Top.failed THEN {"ctx"} ELSE {}

NothingLeaks ==
    /\ Leaving /\ Top.released = Len(Releases) =>
          \A o \in Locals(Top.function) \ HandsOver : pointer[o] # "live"
    /\ stack = <<>> => \A o \in Objects : pointer[o] # "live"

\* What the code sets out to erase: secrets in buffers of their own, and the
\* application keys.  It holds copies of the keys in the two record states.
Erasable == (Memory \intersect Objects) \union ApplicationKeys

\* No such secret is freed or left at the exit without having been erased,
\* wherever the program fails.
SecretsErased ==
    /\ \A o \in secret \intersect Objects : pointer[o] = "live"
    /\ stack = <<>> => secret \intersect Erasable = {}

\* The four application keys are there together or not at all, whichever of
\* their derivations fails, as soon as derive_application_keys has returned.
KeysAllOrNothing ==
    \/ ApplicationKeys \subseteq secret \/ ApplicationKeys \intersect secret = {}
    \/ \E i \in DOMAIN stack : stack[i].function = "derive_application_keys"

\* A program that goes on after recv_encrypted_record uses only text whose
\* tag was checked, although what is refused stays in its buffer.
TextIsVerified ==
    Len(stack) = 1 /\ Running => unverified = {}

\* The comment at tls_finished.c:77 says of what follows "Clean Finished key":
\* no Finished key outlives compute_finished_verify_data.
FinishedKeyErased ==
    "finished_key" \in secret =>
        \E i \in DOMAIN stack : stack[i].function = "compute_finished_verify_data"
=============================================================================
