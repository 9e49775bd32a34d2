------------------------------- MODULE Enclave -------------------------------
(***************************************************************************)
(* The store of the master password: a file beside the socket that holds a *)
(* key only the Secure Enclave can use and what was sealed to it           *)
(* (src/src/enclave.rs, master/enclave.rs, swift/secure_enclave.swift),    *)
(* written by store-master-password as src/src/files.rs writes, removed by *)
(* forget-master-password, and read by an agent that has to unlock.        *)
(*                                                                         *)
(* The key works for the fingerprints enrolled when it was made. Commands  *)
(* has who runs what: its `stored` is the secret in the file, and its Keep *)
(* the last of the steps by which one is kept.                             *)
(***************************************************************************)
EXTENDS Commands

CONSTANT MaxEnrolled    \* a bound on the sets of fingerprints

ASSUME EnrolledAssumption == MaxEnrolled \in Nat \ {0}

VARIABLES
    form,           \* what the file is
    sealed,         \* the fingerprints its key was made for
    enrolled,       \* the fingerprints enrolled now
    draft,          \* how far each process is in writing the file
    sealing,        \* the fingerprints each process made its key for
    staging,        \* the file each process stages in; one that dies leaves it
    reading         \* each agent's look at the store, or its last one

fileVars == <<form, sealed>>
draftVars == <<draft, sealing, staging>>
enclaveVars == <<fileVars, enrolled, draftVars, reading>>
allVars == <<vars, enclaveVars>>

\* "odd" is not a regular file, "garbled" does not decode, "damaged" decodes to what has
\* not stayed as it was sealed. What another program has sealed holds a block that pad
\* would not make ("misshapen"), or one laid out as pad does ("foreign").
Forms == {"absent", "odd", "garbled", "damaged", "misshapen", "foreign", "whole"}
Enrolments == 1 .. MaxEnrolled
Drafts == {"none", "sealed", "open", "written"}
Contents == {"none", "empty", "whole"}
Answers == {"secret", "empty", "error"}

NotReading == [step |-> "none"]
Copy == [form : Forms, secret : Candidates \union {"none"}, sealed : Enrolments]

Readings ==
    {NotReading} \union [step : {"loaded"}, copy : Copy]
        \union [step : {"answered"}, copy : Copy, answer : Answers]

EnclaveTypeOK ==
    /\ form \in Forms
    /\ sealed \in Enrolments
    /\ enrolled \in Enrolments
    /\ draft \in [Processes -> Drafts]
    /\ sealing \in [Processes -> Enrolments]
    /\ staging \in [Processes -> Contents]
    /\ reading \in [Processes -> Readings]

EnclaveInit ==
    /\ Init
    /\ form \in IF stored = "none" THEN Forms \ {"whole"} ELSE {"whole"}
    /\ sealed = 1
    /\ enrolled = 1
    /\ draft = [p \in Processes |-> "none"]
    /\ sealing = [p \in Processes |-> 1]
    /\ staging = [p \in Processes |-> "none"]
    /\ reading = [p \in Processes |-> NotReading]

-----------------------------------------------------------------------------
(* What a call of the shim comes back with, and what is made of it.        *)

(***************************************************************************)
(* lssha_se_open: where it may stop. With other fingerprints than the key  *)
(* was made for it fails somewhere, which is not known to be the same      *)
(* place or code each time; another program's key may be bound to none.    *)
(* What was altered fails by its tag, or before that.                      *)
(***************************************************************************)
Stages(copy) ==
    CASE copy.form = "whole" /\ copy.sealed = enrolled -> {"ok", "agreement", "other"}
      [] copy.form = "whole" /\ copy.sealed # enrolled -> {"restore", "agreement", "other"}
      [] copy.form = "foreign" -> {"ok", "restore", "agreement", "other"}
      [] copy.form = "misshapen" -> {"ok", "malformed", "restore", "agreement", "other"}
      [] copy.form = "damaged" -> {"malformed", "restore", "agreement", "decrypt", "other"}

\* A variant that must fail: an agreement that fails is the end of the key.
MeaningOfFailure(stage, declined) ==
    CASE stage = "ok" -> "done"
      [] stage \in {"restore", "malformed", "decrypt", "agreement"} -> "reseed"
      [] OTHER -> "failed"

\* meaning: a code that says nobody proved presence counts at the agreement only.
Meaning(stage, declined) ==
    CASE stage = "ok" -> "done"
      [] stage \in {"restore", "malformed", "decrypt"} -> "reseed"
      [] stage = "agreement" /\ declined -> "refused"
      [] OTHER -> "failed"

\* A variant that must fail: whatever was decrypted is taken for a password.
UnwrappedUnchecked(outcome, copy) ==
    CASE outcome = "done" -> "secret"
      [] outcome = "reseed" -> "empty"
      [] OTHER -> "error"

\* unpad: a block of the one size, with a length within the cap. Who made it, it cannot tell.
Padded(copy) == copy.form \in {"whole", "foreign"}

\* unwrapped: what is no such block is as past saving as a key that will not load.
Unwrapped(outcome, copy) ==
    CASE outcome = "done" -> IF Padded(copy) THEN "secret" ELSE "empty"
      [] outcome = "reseed" -> "empty"
      [] OTHER -> "error"

-----------------------------------------------------------------------------
(* Keeping: sealed, staged, written and renamed. Any step may fail.        *)

Draft(p, from, to) ==
    /\ At(p, "keeping")
    /\ draft[p] = from
    /\ draft' = [draft EXCEPT ![p] = to]

\* pad and seal: a new key, which asks for no fingerprint.
Seal(p) ==
    /\ Draft(p, "none", "sealed")
    /\ sealing' = [sealing EXCEPT ![p] = enrolled]
    /\ UNCHANGED <<vars, fileVars, enrolled, staging, reading>>

\* A variant that must fail: the file itself is opened and truncated.
OpenInPlace(p) ==
    /\ Draft(p, "sealed", "open")
    /\ staging' = [staging EXCEPT ![p] = "empty"]
    /\ form' = "garbled"
    /\ stored' = "none"
    /\ UNCHANGED <<agentVars, shell, candidate, sealed, enrolled, sealing, reading>>

\* A variant that must fail: a file left by an earlier crash keeps what it holds.
OpenUntruncated(p) ==
    /\ Draft(p, "sealed", "open")
    /\ staging' = [staging EXCEPT ![p] = IF @ = "none" THEN "empty" ELSE @]
    /\ UNCHANGED <<vars, fileVars, enrolled, sealing, reading>>

\* Under a name of this process's own, created or truncated.
OpenStaging(p) ==
    /\ Draft(p, "sealed", "open")
    /\ staging' = [staging EXCEPT ![p] = "empty"]
    /\ UNCHANGED <<vars, fileVars, enrolled, sealing, reading>>

WriteStaging(p) ==
    /\ Draft(p, "open", "written")
    /\ staging' = [staging EXCEPT ![p] = IF @ = "empty" THEN "whole" ELSE "mixed"]
    /\ UNCHANGED <<vars, fileVars, enrolled, sealing, reading>>

Rename(p) ==
    /\ Draft(p, "written", "none")
    /\ Keep(p)
    /\ form' = IF staging[p] = "whole" THEN "whole" ELSE "garbled"
    /\ sealed' = sealing[p]
    /\ staging' = [staging EXCEPT ![p] = "none"]
    /\ sealing' = [sealing EXCEPT ![p] = 1]
    /\ UNCHANGED <<enrolled, reading>>

Save(p) == Seal(p) \/ OpenStaging(p) \/ WriteStaging(p) \/ Rename(p)

-----------------------------------------------------------------------------
(* Reading, by an agent that serves: SecureEnclave::get.                   *)

\* open_regular: nothing that stands there, or a file and no link to one.
Openable == form # "odd"

Decodes == form \in {"damaged", "misshapen", "foreign", "whole"}

CopyNow == [form |-> form, secret |-> stored, sealed |-> sealed]

Answered(p, copy, answer) ==
    reading' = [reading EXCEPT ![p] = [step |-> "answered", copy |-> copy, answer |-> answer]]

\* A variant that must fail: a file that cannot be read is one that holds nothing.
LoadLossily(p) ==
    /\ At(p, "serving")
    /\ reading[p].step # "loaded"
    /\ \/ Answered(p, CopyNow, "empty")
       \/ /\ Decodes
          /\ reading' = [reading EXCEPT ![p] = [step |-> "loaded", copy |-> CopyNow]]
    /\ UNCHANGED <<vars, fileVars, enrolled, draftVars>>

(***************************************************************************)
(* load: no file and bytes that do not decode are an empty store; a read   *)
(* that fails is not, nor what is not a regular file.                      *)
(***************************************************************************)
Load(p) ==
    /\ At(p, "serving")
    /\ reading[p].step # "loaded"
    /\ \/ Answered(p, CopyNow, "error")
       \/ Openable /\ ~Decodes /\ Answered(p, CopyNow, "empty")
       \/ /\ Openable /\ Decodes
          /\ reading' = [reading EXCEPT ![p] = [step |-> "loaded", copy |-> CopyNow]]
    /\ UNCHANGED <<vars, fileVars, enrolled, draftVars>>

\* open, off the agent's thread: the prompt for a fingerprint, of what was read before it.
OpenSealed(p) ==
    /\ At(p, "serving")
    /\ reading[p].step = "loaded"
    /\ \E stage \in Stages(reading[p].copy), declined \in BOOLEAN :
          Answered(p, reading[p].copy, Unwrapped(Meaning(stage, declined), reading[p].copy))
    /\ UNCHANGED <<vars, fileVars, enrolled, draftVars>>

-----------------------------------------------------------------------------
(* The rest of Commands, beside the file.                                  *)

\* What a process was at is over when it ends; its staging file stays.
Over(p) ==
    /\ draft' = [draft EXCEPT ![p] = "none"]
    /\ sealing' = [sealing EXCEPT ![p] = 1]
    /\ reading' = [reading EXCEPT ![p] = NotReading]
    /\ UNCHANGED <<fileVars, enrolled, staging>>

RunAgent(p) == (Agent(p) \/ Die(p)) /\ Over(p)

RunStore(p) ==
    \/ GiveUp(p) /\ Over(p)
    \/ /\ Begin(p, "dropping") \/ DropShell(p) \/ CheckLocked(p) \/ Ask(p) \/ Try(p)
       /\ UNCHANGED enclaveVars

\* The file is another, and the secret in it gone. Removing it: already gone is success.
Turn(f) == form' = f /\ Forget /\ UNCHANGED <<sealed, enrolled, draftVars, reading>>

\* forget-master-password, and what else may become of a file at that name.
ForgetStored == Turn("absent")
Spoil == \E f \in {"odd", "garbled", "damaged", "misshapen", "foreign"} : Turn(f)

\* A fingerprint is added or removed.
Enrol ==
    /\ enrolled < MaxEnrolled
    /\ enrolled' = enrolled + 1
    /\ UNCHANGED <<vars, fileVars, draftVars, reading>>

EnclaveNext ==
    \/ \E p \in Processes :
          RunAgent(p) \/ RunStore(p) \/ Save(p) \/ Load(p) \/ OpenSealed(p)
    \/ ForgetStored
    \/ Spoil
    \/ Enrol
    \/ ShellTurns /\ UNCHANGED enclaveVars

EnclaveSpec == EnclaveInit /\ [][EnclaveNext]_allVars

-----------------------------------------------------------------------------
(***************************************************************************)
(* The store answers that it is empty, which tells the user to store the   *)
(* password again, only of what can never yield it any more: "a declined   *)
(* fingerprint above all - may well be sitting on a working secret"        *)
(* (unwrapped); nor of a read that failed ("the contents are unknown",     *)
(* load).                                                                  *)
(***************************************************************************)
EmptyIsPastSaving ==
    \A p \in Processes :
        reading[p].step = "answered" /\ reading[p].answer = "empty" =>
            \/ reading[p].copy.form \notin {"whole", "odd"}
            \/ reading[p].copy.sealed # enrolled

(***************************************************************************)
(* Of a file it wrote the store supplies the master password, and of one   *)
(* that was altered, cut short by a crash or sealed in another shape it    *)
(* supplies nothing (seed; unwrapped). A block another program has sealed  *)
(* and laid out as this one does is supplied for what it is, although      *)
(* unwrapped says that one must be "a block this wrote": unpad sees its    *)
(* size and its length alone. It is a password like a mistyped one, and    *)
(* what lpass makes of it is SigningAgent's (RejectedStoreIsNotHeld).      *)
(***************************************************************************)
SuppliesWhatWasSealed ==
    \A p \in Processes :
        reading[p].step = "answered" /\ reading[p].answer = "secret" =>
            \/ reading[p].copy.form = "whole" /\ reading[p].copy.secret = "right"
            \/ reading[p].copy.form = "foreign"

(***************************************************************************)
(* What was proved and kept reads back, whatever the processes that died   *)
(* in the middle of a write have left beside it (write_private: "a staging *)
(* file left behind by an earlier crash is reopened").                     *)
(***************************************************************************)
KeptIsWhole == (stored # "none") <=> (form = "whole")

(***************************************************************************)
(* Written in steps, the store changes as Commands says, in one:           *)
(* "whatever was there before survives a failed replacement untouched"     *)
(* (seed), at whichever step it fails or the process dies.                 *)
(***************************************************************************)
KeptInOneStep == Spec
=============================================================================
