--------------------------- MODULE CommandsProofs ---------------------------
(***************************************************************************)
(* Proofs about Commands, and about Enclave that keeps in steps what it    *)
(* stores, for any number of processes and of changes of the fingerprints. *)
(* The theorems that assume OneAtATime take commands to be run one after   *)
(* the other; that the file is whole holds however they overlap.           *)
(***************************************************************************)
EXTENDS Enclave, TLAPS

-----------------------------------------------------------------------------
(* Commands.                                                               *)

Busy(p) == pc[p] \notin {"idle", "serving"}

\* One process at most is in the middle of a command.
OneBusy == \A p, q \in Processes : Busy(p) /\ Busy(q) => p = q

\* Nobody serves where a start is about to remove or to bind.
NoneServes == \A q \in Processes : pc[q] # "serving"

\* What each step of a start or a stop finds at the path.
PathInv ==
    \A p \in Processes :
        /\ pc[p] \in {"serving", "listening"} => path = p
        /\ pc[p] \in {"removing", "binding", "listening", "unlinking"} => NoneServes

\* What each step of store-master-password finds of the vault.
StoreInv ==
    /\ \A p \in Processes :
          /\ pc[p] \in {"asking", "trying"} => ~shell
          /\ pc[p] = "keeping" => candidate[p] = "right"
    /\ stored # "wrong"

CommandInv == TypeOK /\ OneBusy /\ PathInv /\ StoreInv

\* A command begins only when no other is in progress.
LEMMA BeginsAlone ==
    ASSUME OneAtATime, MayBegin PROVE \A p \in Processes : ~Busy(p)
BY DEF MayBegin, Settled, Busy

LEMMA CommandInit == Init => CommandInv
BY PathAssumption
   DEF Init, CommandInv, TypeOK, Steps, StartSteps, StoreSteps, Candidates, OneBusy, Busy,
       PathInv, StoreInv

\* Every step keeps to its type.
LEMMA CommandTypes == TypeOK /\ [Next]_vars => TypeOK'
<1> SUFFICES ASSUME TypeOK, [Next]_vars PROVE TypeOK'
  OBVIOUS
<1> USE DEF TypeOK, Steps, StartSteps, StoreSteps, Candidates, agentVars, storeVars, Goto
<1>1. ASSUME NEW p \in Processes, Agent(p) PROVE TypeOK'
  BY <1>1 DEF Agent, Begin, Look, UnfitDirectory, Remove, BindPath, Listen, Stop, Unlink, Abandoned
<1>2. ASSUME NEW p \in Processes, Store(p) PROVE TypeOK'
  BY <1>2 DEF Store, Begin, DropShell, CheckLocked, Ask, Try, Keep, GiveUp, At
<1>3. ASSUME NEW p \in Processes, Die(p) PROVE TypeOK'
  BY <1>3 DEF Die, Abandoned
<1>4. CASE Forget
  BY <1>4 DEF Forget
<1>5. CASE ShellTurns
  BY <1>5 DEF ShellTurns
<1>6. CASE UNCHANGED vars
  BY <1>6 DEF vars
<1> QED
  BY <1>1, <1>2, <1>3, <1>4, <1>5, <1>6 DEF Next

\* A step of one process, which was in the middle of a command or begins one alone.
LEMMA OneStaysBusy ==
    ASSUME OneAtATime, TypeOK, OneBusy, NEW p \in Processes, NEW step \in Steps,
           Goto(p, step), Busy(p) \/ MayBegin \/ step \in {"idle", "serving"}
    PROVE  OneBusy'
BY BeginsAlone DEF OneBusy, Busy, Goto, TypeOK

\* Every step leaves one process at most in the middle of a command.
LEMMA BusyStep == OneAtATime /\ TypeOK /\ OneBusy /\ [Next]_vars => OneBusy'
<1> SUFFICES ASSUME OneAtATime, TypeOK, OneBusy, [Next]_vars PROVE OneBusy'
  OBVIOUS
<1> USE DEF Steps, StartSteps, StoreSteps
<1>1. ASSUME NEW p \in Processes, Agent(p) \/ Store(p) \/ Die(p) PROVE OneBusy'
  <2>1. PICK step \in Steps : Goto(p, step) /\ (Busy(p) \/ MayBegin \/ step \in {"idle", "serving"})
    <3>1. CASE Agent(p)
      BY <3>1 DEF Agent, Begin, Look, UnfitDirectory, Remove, BindPath, Listen, Stop, Unlink, At, Busy
    <3>2. CASE Store(p)
      BY <3>2 DEF Store, Begin, DropShell, CheckLocked, Ask, Try, Keep, GiveUp, At, Busy
    <3>3. CASE Die(p)
      BY <3>3 DEF Die
    <3> QED
      BY <1>1, <3>1, <3>2, <3>3
  <2> QED
    BY <2>1, OneStaysBusy
<1>2. CASE Forget \/ ShellTurns \/ UNCHANGED vars
  BY <1>2 DEF Forget, ShellTurns, vars, agentVars, OneBusy, Busy
<1> QED
  BY <1>1, <1>2 DEF Next

\* Every step of a start or a stop finds the path as it was left.
LEMMA PathStep == OneAtATime /\ CommandInv /\ [Next]_vars => PathInv'
<1> SUFFICES ASSUME OneAtATime, CommandInv, [Next]_vars PROVE PathInv'
  OBVIOUS
<1> USE PathAssumption DEF CommandInv, TypeOK, PathInv, NoneServes, storeVars, Goto, At
<1>1. ASSUME NEW p \in Processes, Agent(p) PROVE PathInv'
  <2>1. ASSUME NEW step \in {"looking", "dropping"}, Begin(p, step) PROVE PathInv'
    BY <2>1 DEF Begin, Idle
  <2>2. CASE Look(p)
    BY <2>2 DEF Look, UnfitDirectory, Deaf
  <2>3. CASE Remove(p)
    BY <2>3 DEF Remove, OneBusy, Busy
  <2>4. CASE BindPath(p)
    BY <2>4 DEF BindPath, OneBusy, Busy
  <2>5. CASE Listen(p)
    BY <2>5 DEF Listen, Abandoned, OneBusy, Busy
  <2>6. CASE Stop(p)
    BY <2>6, BeginsAlone DEF Stop, Busy
  <2>7. CASE Unlink(p)
    BY <2>7 DEF Unlink, OneBusy, Busy
  <2> QED
    BY <1>1, <2>1, <2>2, <2>3, <2>4, <2>5, <2>6, <2>7 DEF Agent
<1>2. ASSUME NEW p \in Processes, Store(p) PROVE PathInv'
  <2>1. /\ path' = path
        /\ \E step \in {"idle"} \union StoreSteps : Goto(p, step)
        /\ pc[p] # "serving"
    BY <1>2
       DEF Store, Begin, Idle, DropShell, CheckLocked, Ask, Try, Keep, GiveUp, StoreSteps
  <2> QED
    BY <2>1 DEF StoreSteps
<1>3. ASSUME NEW p \in Processes, Die(p) PROVE PathInv'
  BY <1>3 DEF Die, Abandoned
<1>4. CASE Forget \/ ShellTurns \/ UNCHANGED vars
  BY <1>4 DEF Forget, ShellTurns, vars, agentVars
<1> QED
  BY <1>1, <1>2, <1>3, <1>4 DEF Next

\* Every step of store-master-password finds the vault as it was seen.
LEMMA StoreStep == OneAtATime /\ CommandInv /\ [Next]_vars => StoreInv'
<1> SUFFICES ASSUME OneAtATime, CommandInv, [Next]_vars PROVE StoreInv'
  OBVIOUS
<1> USE DEF CommandInv, TypeOK, StoreInv, storeVars, Goto, At
<1>1. ASSUME NEW p \in Processes, Agent(p) PROVE StoreInv'
  BY <1>1 DEF Agent, Begin, Look, UnfitDirectory, Remove, BindPath, Listen, Stop, Unlink
<1>2. ASSUME NEW p \in Processes, Store(p) PROVE StoreInv'
  <2>1. ASSUME NEW step \in {"looking", "dropping"}, Begin(p, step) PROVE StoreInv'
    BY <2>1 DEF Begin
  <2>2. CASE DropShell(p)
    <3>1. ~shell => ~shell'
      BY <2>2, Zenon DEF DropShell
    <3>2. /\ UNCHANGED <<candidate, stored>>
          /\ \A q \in Processes : pc'[q] \in {pc[q], "checking"}
      BY <2>2 DEF DropShell
    <3> QED
      BY <3>1, <3>2
  <2>3. CASE CheckLocked(p)
    BY <2>3 DEF CheckLocked
  <2>4. CASE Ask(p)
    BY <2>4 DEF Ask, OneBusy, Busy
  <2>5. CASE Try(p)
    BY <2>5 DEF Try
  <2>6. CASE Keep(p)
    BY <2>6 DEF Keep
  <2>7. CASE GiveUp(p)
    BY <2>7 DEF GiveUp
  <2> QED
    BY <1>2, <2>1, <2>2, <2>3, <2>4, <2>5, <2>6, <2>7 DEF Store
<1>3. ASSUME NEW p \in Processes, Die(p) PROVE StoreInv'
  BY <1>3 DEF Die
<1>4. CASE Forget
  BY <1>4 DEF Forget, agentVars
<1>5. CASE ShellTurns
  BY <1>5, BeginsAlone DEF ShellTurns, agentVars, Busy
<1>6. CASE UNCHANGED vars
  BY <1>6 DEF vars, agentVars
<1> QED
  BY <1>1, <1>2, <1>3, <1>4, <1>5, <1>6 DEF Next

\* The invariant, of which both theorems are parts.
LEMMA CommandsKeepInv == ASSUME OneAtATime PROVE Spec => []CommandInv
<1>1. CommandInv /\ [Next]_vars => CommandInv'
  BY CommandTypes, BusyStep, PathStep, StoreStep DEF CommandInv
<1> QED
  BY CommandInit, <1>1, PTL DEF Spec

(***************************************************************************)
(* With commands run one after the other, an agent that serves is the one  *)
(* at the path, however many processes there are and whichever of them     *)
(* died (socket.rs, bind and SocketGuard).                                 *)
(***************************************************************************)
THEOREM ServesAtThePath == ASSUME OneAtATime PROVE Spec => []Reachable
<1>1. CommandInv => Reachable
  BY DEF CommandInv, PathInv, Reachable
<1> QED
  BY CommandsKeepInv, <1>1, PTL

(***************************************************************************)
(* With nobody opening the vault meanwhile, store-master-password stores   *)
(* nothing but the master password, whether or not pkill found the shell's *)
(* agent (master_password.rs, seed).                                       *)
(***************************************************************************)
THEOREM OnlyTheMasterPassword == ASSUME OneAtATime PROVE Spec => []StoredOpens
<1>1. CommandInv => StoredOpens
  BY DEF CommandInv, StoreInv, StoredOpens
<1> QED
  BY CommandsKeepInv, <1>1, PTL

-----------------------------------------------------------------------------
(* The file, kept in steps.                                                *)

\* A step of the file is one of Commands, or none of its variables change.
LEMMA EnclaveStep == [EnclaveNext]_allVars => [Next]_vars
<1> SUFFICES ASSUME [EnclaveNext]_allVars PROVE [Next]_vars
  OBVIOUS
<1>1. ASSUME NEW p \in Processes, RunAgent(p) PROVE Next
  BY <1>1 DEF RunAgent, Next
<1>2. ASSUME NEW p \in Processes, RunStore(p) PROVE Next
  BY <1>2 DEF RunStore, Store, Next
<1>3. ASSUME NEW p \in Processes, Save(p) PROVE [Next]_vars
  BY <1>3 DEF Save, Seal, OpenStaging, WriteStaging, Rename, Store, Next
<1>4. ASSUME NEW p \in Processes, Load(p) \/ OpenSealed(p) PROVE UNCHANGED vars
  BY <1>4 DEF Load, OpenSealed
<1>5. CASE ForgetStored \/ Spoil
  BY <1>5 DEF ForgetStored, Spoil, Turn, Next
<1>6. CASE Enrol
  BY <1>6 DEF Enrol
<1>7. CASE ShellTurns
  BY <1>7 DEF Next
<1>8. CASE UNCHANGED allVars
  BY <1>8 DEF allVars
<1> QED
  BY <1>1, <1>2, <1>3, <1>4, <1>5, <1>6, <1>7, <1>8 DEF EnclaveNext

(***************************************************************************)
(* Written in steps, of which any may fail or be the last of its process,  *)
(* the store changes as Commands says, in one (files.rs, write_private;    *)
(* master.rs, seed).                                                       *)
(***************************************************************************)
THEOREM KeepsInOneStep == EnclaveSpec => KeptInOneStep
<1>1. EnclaveInit => Init
  BY DEF EnclaveInit
<1> QED
  BY <1>1, EnclaveStep, PTL DEF EnclaveSpec, KeptInOneStep, Spec

\* What a process has staged by the step it is at, whatever was left there.
StagingInv ==
    \A p \in Processes :
        /\ draft[p] = "open" => staging[p] = "empty"
        /\ draft[p] = "written" => staging[p] = "whole"

\* No key is made for fingerprints to come.
SealedBefore == sealed <= enrolled /\ \A p \in Processes : sealing[p] <= enrolled

Decoding == {"damaged", "misshapen", "foreign", "whole"}

\* What a look found of the file, and what it made of that.
ReadInv ==
    \A p \in Processes :
        reading[p].step \in {"loaded", "answered"} =>
            /\ (reading[p].copy.secret # "none") <=> (reading[p].copy.form = "whole")
            /\ reading[p].copy.sealed <= enrolled
            /\ reading[p].step = "loaded" => reading[p].copy.form \in Decoding
            /\ reading[p].step = "answered" /\ reading[p].answer = "secret" =>
                  Padded(reading[p].copy)

FileInv ==
    /\ TypeOK /\ EnclaveTypeOK
    /\ StagingInv /\ KeptIsWhole /\ SealedBefore
    /\ ReadInv /\ EmptyIsPastSaving

LEMMA FileInit == EnclaveInit => FileInv
<1> SUFFICES ASSUME EnclaveInit PROVE FileInv
  OBVIOUS
<1>1. TypeOK
  BY DEF EnclaveInit, Init, TypeOK, Steps, StartSteps, StoreSteps, Candidates
<1>2. EnclaveTypeOK
  BY EnrolledAssumption
     DEF EnclaveInit, EnclaveTypeOK, Forms, Enrolments, Drafts, Contents, Readings, NotReading
<1>3. StagingInv /\ KeptIsWhole /\ SealedBefore
  BY EnrolledAssumption DEF EnclaveInit, Init, StagingInv, KeptIsWhole, SealedBefore, Forms
<1>4. ReadInv /\ EmptyIsPastSaving
  BY DEF EnclaveInit, ReadInv, EmptyIsPastSaving, NotReading
<1> QED
  BY <1>1, <1>2, <1>3, <1>4 DEF FileInv

\* A step of Commands that does not keep what was sealed leaves the secret as it is.
LEMMA SecretStays ==
    ASSUME NEW p \in Processes, RunAgent(p) \/ RunStore(p)
    PROVE  stored' = stored
<1>1. CASE RunAgent(p)
  <2>1. CASE Agent(p)
    BY <2>1
       DEF Agent, Begin, Look, UnfitDirectory, Remove, BindPath, Listen, Stop, Unlink, storeVars
  <2>2. CASE Die(p)
    BY <2>2 DEF Die, storeVars
  <2> QED
    BY <1>1, <2>1, <2>2 DEF RunAgent
<1>2. CASE RunStore(p)
  BY <1>2 DEF RunStore, Begin, DropShell, CheckLocked, Ask, Try, GiveUp, storeVars
<1> QED
  BY <1>1, <1>2

\* The steps that end what a process was at.
LEMMA OverKeeps ==
    ASSUME FileInv, NEW p \in Processes, Over(p), stored' = stored
    PROVE  /\ EnclaveTypeOK' /\ StagingInv' /\ KeptIsWhole' /\ SealedBefore'
           /\ ReadInv' /\ EmptyIsPastSaving'
<1> USE DEF FileInv, Over, fileVars
<1>1. EnclaveTypeOK'
  BY EnrolledAssumption DEF EnclaveTypeOK, Drafts, Enrolments, Readings, NotReading
<1>2. StagingInv' /\ KeptIsWhole'
  BY DEF StagingInv, KeptIsWhole, EnclaveTypeOK
<1>3. SealedBefore'
  BY EnrolledAssumption DEF SealedBefore, EnclaveTypeOK, Enrolments
<1>4. ReadInv'
  BY DEF ReadInv, EnclaveTypeOK, NotReading
<1>5. EmptyIsPastSaving'
  BY DEF EmptyIsPastSaving, EnclaveTypeOK, NotReading
<1> QED
  BY <1>1, <1>2, <1>3, <1>4, <1>5

\* The steps of a write.
LEMMA SaveKeeps ==
    ASSUME FileInv, NEW p \in Processes, Save(p)
    PROVE  /\ EnclaveTypeOK' /\ StagingInv' /\ KeptIsWhole' /\ SealedBefore'
           /\ ReadInv' /\ EmptyIsPastSaving'
<1> USE DEF FileInv, Draft, vars, storeVars, fileVars
<1>1. UNCHANGED <<enrolled, reading>>
  BY DEF Save, Seal, OpenStaging, WriteStaging, Rename
<1>2. ReadInv' /\ EmptyIsPastSaving'
  BY <1>1 DEF ReadInv, EmptyIsPastSaving
<1>3. CASE Seal(p)
  <2>1. EnclaveTypeOK'
    BY <1>3 DEF Seal, EnclaveTypeOK, Drafts
  <2>2. StagingInv' /\ KeptIsWhole' /\ SealedBefore'
    BY <1>3 DEF Seal, StagingInv, KeptIsWhole, SealedBefore, EnclaveTypeOK, Enrolments
  <2> QED
    BY <1>2, <2>1, <2>2
<1>4. CASE OpenStaging(p)
  <2>1. EnclaveTypeOK'
    BY <1>4 DEF OpenStaging, EnclaveTypeOK, Drafts, Contents
  <2>2. StagingInv' /\ KeptIsWhole' /\ SealedBefore'
    BY <1>4 DEF OpenStaging, StagingInv, KeptIsWhole, SealedBefore, EnclaveTypeOK
  <2> QED
    BY <1>2, <2>1, <2>2
<1>5. CASE WriteStaging(p)
  <2>1. staging' = [staging EXCEPT ![p] = "whole"]
    BY <1>5 DEF WriteStaging, StagingInv, EnclaveTypeOK
  <2>2. EnclaveTypeOK'
    BY <1>5, <2>1 DEF WriteStaging, EnclaveTypeOK, Drafts, Contents
  <2>3. StagingInv' /\ KeptIsWhole' /\ SealedBefore'
    BY <1>5, <2>1 DEF WriteStaging, StagingInv, KeptIsWhole, SealedBefore, EnclaveTypeOK
  <2> QED
    BY <1>2, <2>2, <2>3
<1>6. CASE Rename(p)
  <2>1. form' = "whole" /\ stored' = candidate[p] /\ candidate[p] # "none"
    BY <1>6 DEF Rename, Keep, StagingInv, TypeOK, Candidates
  <2>2. EnclaveTypeOK'
    BY <1>6, <2>1, EnrolledAssumption
       DEF Rename, EnclaveTypeOK, Forms, Drafts, Contents, Enrolments
  <2>3. StagingInv' /\ KeptIsWhole'
    BY <1>6, <2>1 DEF Rename, StagingInv, KeptIsWhole, EnclaveTypeOK
  <2>4. SealedBefore'
    BY <1>6, EnrolledAssumption DEF Rename, SealedBefore, EnclaveTypeOK, Enrolments
  <2> QED
    BY <1>2, <2>2, <2>3, <2>4
<1> QED
  BY <1>3, <1>4, <1>5, <1>6 DEF Save

-----------------------------------------------------------------------------
(* Looks at the file.                                                      *)

\* What is read is a file as it was: whole if and only if there is a secret in it.
LEMMA CopyIsSound ==
    ASSUME FileInv
    PROVE  /\ CopyNow \in Copy
           /\ (CopyNow.secret # "none") <=> (CopyNow.form = "whole")
           /\ CopyNow.sealed <= enrolled
BY DEF FileInv, TypeOK, EnclaveTypeOK, KeptIsWhole, SealedBefore, CopyNow, Copy, Candidates

\* An answer that the file is empty, or gives its secret, is about a file that is so.
LEMMA AnswerIsSound ==
    ASSUME NEW copy \in Copy, copy.form \in Decoding, copy.sealed <= enrolled,
           NEW stage \in Stages(copy), NEW declined \in BOOLEAN
    PROVE  LET answer == Unwrapped(Meaning(stage, declined), copy)
           IN  /\ answer \in Answers
               /\ answer = "secret" => Padded(copy)
               /\ answer = "empty" => copy.form # "whole" \/ copy.sealed # enrolled
<1>1. CASE copy.form # "whole"
  BY <1>1 DEF Unwrapped, Meaning, Answers
<1>2. CASE copy.form = "whole" /\ copy.sealed = enrolled
  <2>1. stage \in {"ok", "agreement", "other"}
    BY <1>2 DEF Stages
  <2> QED
    BY <1>2, <2>1 DEF Unwrapped, Meaning, Padded, Answers
<1>3. CASE copy.form = "whole" /\ copy.sealed # enrolled
  BY <1>3 DEF Unwrapped, Meaning, Padded, Answers
<1> QED
  BY <1>1, <1>2, <1>3

\* A reading that is set to what was found of one look.
LEMMA ReadingKeeps ==
    ASSUME FileInv, UNCHANGED enrolled, NEW p \in Processes, NEW new \in Readings,
           reading' = [reading EXCEPT ![p] = new],
           new.step \in {"loaded", "answered"},
           (new.copy.secret # "none") <=> (new.copy.form = "whole"),
           new.copy.sealed <= enrolled,
           new.step = "loaded" => new.copy.form \in Decoding,
           new.step = "answered" /\ new.answer = "secret" => Padded(new.copy),
           new.step = "answered" /\ new.answer = "empty" =>
               \/ new.copy.form \notin {"whole", "odd"}
               \/ new.copy.sealed # enrolled
    PROVE  ReadInv' /\ EmptyIsPastSaving' /\ (reading \in [Processes -> Readings])'
<1> USE DEF FileInv, EnclaveTypeOK
<1>1. \A q \in Processes : reading'[q] = IF q = p THEN new ELSE reading[q]
  OBVIOUS
<1>2. ReadInv'
  BY <1>1 DEF ReadInv
<1>3. EmptyIsPastSaving'
  BY <1>1 DEF EmptyIsPastSaving
<1> QED
  BY <1>1, <1>2, <1>3

LEMMA LookKeeps ==
    ASSUME FileInv, NEW p \in Processes, Load(p) \/ OpenSealed(p)
    PROVE  /\ EnclaveTypeOK' /\ StagingInv' /\ KeptIsWhole' /\ SealedBefore'
           /\ ReadInv' /\ EmptyIsPastSaving'
<1>1. UNCHANGED <<vars, fileVars, enrolled, draftVars>>
  BY DEF Load, OpenSealed
<1>2. StagingInv' /\ KeptIsWhole' /\ SealedBefore'
  BY <1>1 DEF FileInv, StagingInv, KeptIsWhole, SealedBefore, vars, storeVars, fileVars, draftVars
<1>3. ReadInv' /\ EmptyIsPastSaving' /\ (reading \in [Processes -> Readings])'
  <2>1. ASSUME NEW answer \in {"error", "empty"}, Load(p), Answered(p, CopyNow, answer),
               answer = "empty" => Openable /\ ~Decodes
        PROVE  ReadInv' /\ EmptyIsPastSaving' /\ (reading \in [Processes -> Readings])'
    <3> DEFINE new == [step |-> "answered", copy |-> CopyNow, answer |-> answer]
    <3>1. new \in Readings
      BY CopyIsSound DEF Readings, Answers
    <3>2. answer = "empty" => CopyNow.form \in {"absent", "garbled"}
      BY <2>1 DEF FileInv, EnclaveTypeOK, Forms, CopyNow, Openable, Decodes
    <3>3. reading' = [reading EXCEPT ![p] = new]
      BY <2>1 DEF Answered
    <3> QED
      BY <1>1, <3>1, <3>2, <3>3, CopyIsSound, ReadingKeeps
  <2>2. ASSUME Decodes, reading' = [reading EXCEPT ![p] = [step |-> "loaded", copy |-> CopyNow]]
        PROVE  ReadInv' /\ EmptyIsPastSaving' /\ (reading \in [Processes -> Readings])'
    <3> DEFINE new == [step |-> "loaded", copy |-> CopyNow]
    <3>1. new \in Readings
      BY CopyIsSound DEF Readings
    <3>2. CopyNow.form \in Decoding
      BY <2>2 DEF CopyNow, Decodes, Decoding
    <3> QED
      BY <1>1, <2>2, <3>1, <3>2, CopyIsSound, ReadingKeeps
  <2>3. CASE OpenSealed(p)
    <3> DEFINE copy == reading[p].copy
    <3>1. copy \in Copy /\ reading[p].step = "loaded"
      BY <2>3 DEF OpenSealed, FileInv, EnclaveTypeOK, Readings, NotReading
    <3>2. /\ (copy.secret # "none") <=> (copy.form = "whole")
          /\ copy.sealed <= enrolled
          /\ copy.form \in Decoding
      BY <3>1 DEF FileInv, ReadInv
    <3>3. PICK stage \in Stages(copy), declined \in BOOLEAN :
              Answered(p, copy, Unwrapped(Meaning(stage, declined), copy))
      BY <2>3 DEF OpenSealed
    <3> DEFINE answer == Unwrapped(Meaning(stage, declined), copy)
    <3> DEFINE new == [step |-> "answered", copy |-> copy, answer |-> answer]
    <3>4. /\ answer \in Answers
          /\ answer = "secret" => Padded(copy)
          /\ answer = "empty" => copy.form \notin {"whole", "odd"} \/ copy.sealed # enrolled
      BY <3>1, <3>2, <3>3, AnswerIsSound DEF Decoding
    <3>5. new \in Readings /\ reading' = [reading EXCEPT ![p] = new]
      BY <3>1, <3>3, <3>4 DEF Readings, Answered
    <3> HIDE DEF copy, answer
    <3> QED
      BY <1>1, <3>2, <3>4, <3>5, ReadingKeeps
  <2> QED
    BY <2>1, <2>2, <2>3 DEF Load
<1>4. EnclaveTypeOK'
  BY <1>1, <1>3 DEF FileInv, EnclaveTypeOK, fileVars, draftVars
<1> QED
  BY <1>2, <1>3, <1>4

-----------------------------------------------------------------------------
(* The invariant, and what it says of the store.                           *)

LEMMA FileStep == FileInv /\ [EnclaveNext]_allVars => FileInv'
<1> SUFFICES ASSUME FileInv, [EnclaveNext]_allVars PROVE FileInv'
  OBVIOUS
<1> DEFINE Kept == /\ EnclaveTypeOK' /\ StagingInv' /\ KeptIsWhole' /\ SealedBefore'
                   /\ ReadInv' /\ EmptyIsPastSaving'
<1>1. TypeOK'
  BY EnclaveStep, CommandTypes DEF FileInv
<1> SUFFICES Kept
  BY <1>1 DEF FileInv
<1>2. ASSUME stored' = stored, UNCHANGED enclaveVars PROVE Kept
  BY <1>2 DEF FileInv, EnclaveTypeOK, StagingInv, KeptIsWhole, SealedBefore, ReadInv,
              EmptyIsPastSaving, enclaveVars, fileVars, draftVars
<1>3. ASSUME NEW p \in Processes, RunAgent(p) \/ RunStore(p) PROVE Kept
  BY <1>2, <1>3, SecretStays, OverKeeps DEF RunAgent, RunStore
<1>4. ASSUME NEW p \in Processes, Save(p) \/ Load(p) \/ OpenSealed(p) PROVE Kept
  BY <1>4, SaveKeeps, LookKeeps
<1>5. CASE ForgetStored \/ Spoil
  <2>1. /\ form' \in Forms \ {"whole"}
        /\ stored' = "none"
        /\ UNCHANGED <<sealed, enrolled, draftVars, reading>>
    BY <1>5 DEF ForgetStored, Spoil, Turn, Forget, Forms
  <2> QED
    BY <2>1 DEF FileInv, EnclaveTypeOK, StagingInv, KeptIsWhole, SealedBefore, ReadInv,
                EmptyIsPastSaving, draftVars
<1>6. CASE Enrol
  <2>1. /\ enrolled' \in Enrolments /\ enrolled \in Int /\ enrolled' = enrolled + 1
        /\ UNCHANGED <<stored, fileVars, draftVars, reading>>
    BY <1>6, EnrolledAssumption
       DEF Enrol, FileInv, EnclaveTypeOK, Enrolments, vars, storeVars
  <2>2. EnclaveTypeOK' /\ StagingInv' /\ KeptIsWhole'
    BY <2>1 DEF FileInv, EnclaveTypeOK, StagingInv, KeptIsWhole, fileVars, draftVars
  <2>3. SealedBefore'
    BY <2>1, EnrolledAssumption
       DEF FileInv, EnclaveTypeOK, Enrolments, SealedBefore, fileVars, draftVars
  <2>4. \A p \in Processes :
            reading[p].step \in {"loaded", "answered"} => reading[p].copy.sealed \in Int
    BY EnrolledAssumption DEF FileInv, EnclaveTypeOK, Readings, NotReading, Copy, Enrolments
  <2>5. ReadInv' /\ EmptyIsPastSaving'
    BY <2>1, <2>4 DEF FileInv, ReadInv, EmptyIsPastSaving
  <2> QED
    BY <2>2, <2>3, <2>5
<1>7. CASE ShellTurns /\ UNCHANGED enclaveVars
  BY <1>2, <1>7 DEF ShellTurns
<1>8. CASE UNCHANGED allVars
  BY <1>2, <1>8 DEF allVars, vars, storeVars
<1> QED
  BY <1>3, <1>4, <1>5, <1>6, <1>7, <1>8 DEF EnclaveNext

\* The invariant, of which the theorems below are parts.
LEMMA FileKeepsInv == EnclaveSpec => []FileInv
BY FileInit, FileStep, PTL DEF EnclaveSpec

(***************************************************************************)
(* The file, the staging files and every look at the store are of their    *)
(* types, whatever the processes do and wherever they die.                 *)
(***************************************************************************)
THEOREM EnclaveTypeCorrect == EnclaveSpec => []EnclaveTypeOK
<1>1. FileInv => EnclaveTypeOK
  BY DEF FileInv
<1> QED
  BY FileKeepsInv, <1>1, PTL

(***************************************************************************)
(* There is a secret in the file if and only if it is a whole one, however *)
(* many processes died in the middle of writing it, and whatever their     *)
(* staging files hold (files.rs, write_private).                           *)
(***************************************************************************)
THEOREM WholeWhenKept == EnclaveSpec => []KeptIsWhole
<1>1. FileInv => KeptIsWhole
  BY DEF FileInv
<1> QED
  BY FileKeepsInv, <1>1, PTL

(***************************************************************************)
(* The store says that it is empty only of a file that can never yield its *)
(* secret any more (master/enclave.rs, load and unwrapped; enclave.rs,     *)
(* meaning), however often the fingerprints change.                        *)
(***************************************************************************)
THEOREM SaysEmptyOfTheLost == EnclaveSpec => []EmptyIsPastSaving
<1>1. FileInv => EmptyIsPastSaving
  BY DEF FileInv
<1> QED
  BY FileKeepsInv, <1>1, PTL

\* What a look found is what was stored then.
CopiesInv ==
    \A p \in Processes :
        reading[p].step \in {"loaded", "answered"} => reading[p].copy.secret # "wrong"

\* What was read stays as it was read.
LEMMA CopiesStep ==
    FileInv /\ CopiesInv /\ StoredOpens /\ [EnclaveNext]_allVars => CopiesInv'
<1> SUFFICES ASSUME FileInv, CopiesInv, StoredOpens, [EnclaveNext]_allVars PROVE CopiesInv'
  OBVIOUS
<1> USE DEF CopiesInv, FileInv, EnclaveTypeOK
<1>1. ASSUME UNCHANGED reading PROVE CopiesInv'
  BY <1>1
<1>2. ASSUME NEW p \in Processes, RunAgent(p) \/ RunStore(p) PROVE CopiesInv'
  BY <1>1, <1>2 DEF RunAgent, RunStore, Over, NotReading, enclaveVars
<1>3. ASSUME NEW p \in Processes, Save(p) PROVE CopiesInv'
  BY <1>1, <1>3 DEF Save, Seal, OpenStaging, WriteStaging, Rename
<1>4. ASSUME NEW p \in Processes, Load(p) PROVE CopiesInv'
  <2>1. PICK new : /\ reading' = [reading EXCEPT ![p] = new]
                   /\ new.copy = CopyNow
    BY <1>4 DEF Load, Answered
  <2> QED
    BY <2>1 DEF CopyNow, StoredOpens
<1>5. ASSUME NEW p \in Processes, OpenSealed(p) PROVE CopiesInv'
  <2>1. PICK new : /\ reading' = [reading EXCEPT ![p] = new]
                   /\ new.copy = reading[p].copy
                   /\ reading[p].step = "loaded"
    BY <1>5 DEF OpenSealed, Answered
  <2> QED
    BY <2>1
<1>6. CASE ForgetStored \/ Spoil \/ Enrol \/ (ShellTurns /\ UNCHANGED enclaveVars)
  BY <1>1, <1>6 DEF ForgetStored, Spoil, Turn, Enrol, enclaveVars
<1>7. CASE UNCHANGED allVars
  BY <1>1, <1>7 DEF allVars, enclaveVars
<1> QED
  BY <1>2, <1>3, <1>4, <1>5, <1>6, <1>7 DEF EnclaveNext

(***************************************************************************)
(* With commands run one after the other, what the store supplies of a     *)
(* file it wrote is the master password; of the others it supplies a block *)
(* laid out as its own and nothing else (master.rs, seed; enclave.rs,      *)
(* unwrapped and unpad).                                                   *)
(***************************************************************************)
THEOREM SuppliesOnlyTheSealed == ASSUME OneAtATime PROVE EnclaveSpec => []SuppliesWhatWasSealed
<1>1. EnclaveInit => CopiesInv
  BY DEF EnclaveInit, CopiesInv, NotReading
<1>2. EnclaveSpec => []StoredOpens
  BY KeepsInOneStep, OnlyTheMasterPassword, PTL DEF KeptInOneStep
<1>3. EnclaveSpec => []CopiesInv
  BY <1>1, <1>2, FileKeepsInv, CopiesStep, PTL DEF EnclaveSpec
<1>4. FileInv /\ CopiesInv => SuppliesWhatWasSealed
  <2> SUFFICES ASSUME FileInv, CopiesInv, NEW p \in Processes,
                      reading[p].step = "answered", reading[p].answer = "secret"
               PROVE  \/ reading[p].copy.form = "whole" /\ reading[p].copy.secret = "right"
                      \/ reading[p].copy.form = "foreign"
    BY DEF SuppliesWhatWasSealed
  <2>1. reading[p].copy.secret \in Candidates \union {"none"}
    BY DEF FileInv, EnclaveTypeOK, Readings, NotReading, Copy
  <2> QED
    BY <2>1 DEF FileInv, ReadInv, Padded, CopiesInv, Candidates
<1> QED
  BY <1>3, <1>4, FileKeepsInv, PTL
=============================================================================
