---------------------- MODULE SigningAgentPolicyProofs ----------------------
(***************************************************************************)
(* SigningAgent implements ApprovalPolicy. The epochs drop out through     *)
(* MemoryInv: nothing belongs to an epoch still to come, so that counting  *)
(* one lock ends every yes there is.                                       *)
(***************************************************************************)
EXTENDS SigningAgentTurnProofs

-----------------------------------------------------------------------------
(* What is filed and what each request holds, from one step to the next.   *)

\* Entries are never filed ahead of the epoch, nor lost within it.
FilesKept ==
    /\ locks <= locks'
    /\ \A m \in remembered' : m.epoch <= locks'
    /\ locks' = locks => \A m \in remembered : m.epoch = locks => m \in remembered'

\* An answer stays, goes, or is given or found in the epoch it is stamped with.
AnswerKept(r) ==
    \/ answer'[r] = answer[r] /\ question'[r] = question[r]
    \/ answer'[r] = NotNeeded
    \/ answer'[r] = Given(locks) /\ locks' = locks
    \/ /\ answer'[r] = Remembered(locks)
       /\ locks' = locks
       /\ [question |-> question'[r], epoch |-> locks] \in remembered'

\* What settling leaves filed belongs to no epoch still to come.
LEMMA SettleKeeps ==
    ASSUME TypeOK, MemoryInv, NEW a \in Answers, NEW q, NEW wasAsked \in BOOLEAN,
           NEW signed \in BOOLEAN, NEW now \in Nat, locks <= now,
           SettleFrom(now, a, q, wasAsked, signed)
    PROVE  FilesKept
<1> DEFINE ask == IF wasAsked THEN 1 ELSE 0
<1>1. ask \in {0, 1} /\ locks \in Nat /\ a.epoch \in Nat
  BY DEF TypeOK, ApprovalsTypeOK, Answers
<1>2. locks' = now + ask /\ locks <= locks'
  BY <1>1 DEF SettleFrom
<1>3. \A m \in remembered : m.epoch \in Nat /\ m.epoch <= locks
  BY DEF MemoryInv, TypeOK, ApprovalsTypeOK, Filed
<1>4. CASE remembered' = remembered
  BY <1>1, <1>2, <1>3, <1>4 DEF FilesKept
<1>5. CASE /\ a.epoch + ask = now + ask
           /\ remembered' = {m \in remembered : m.epoch = a.epoch + ask}
                                \cup {[question |-> q, epoch |-> a.epoch + ask]}
  BY <1>1, <1>2, <1>3, <1>5 DEF FilesKept
<1> QED
  BY <1>4, <1>5 DEF SettleFrom, RememberIn

\* Answers that nobody touched stay good when entries are only dropped with their epoch.
LEMMA MemoryKept ==
    ASSUME TypeOK, TypeOK', MemoryInv, FilesKept, \A r \in Requests : AnswerKept(r),
           \A r \in Requests : pc'[r] \in UnansweredSteps => answer'[r] = NotNeeded
    PROVE  MemoryInv'
<1>1. locks \in Nat /\ locks' \in Nat /\ locks <= locks'
  BY DEF TypeOK, ApprovalsTypeOK, FilesKept
<1>2. ASSUME NEW r \in Requests
      PROVE  /\ answer'[r].epoch <= locks'
             /\ answer'[r].how = "remembered" /\ answer'[r].epoch = locks'
                   => [question |-> question'[r], epoch |-> locks'] \in remembered'
  <2>1. /\ answer[r].epoch \in Nat /\ answer[r].epoch <= locks
        /\ answer[r].how = "remembered" /\ answer[r].epoch = locks
              => [question |-> question[r], epoch |-> locks] \in remembered
    BY DEF MemoryInv, TypeOK, RequestsTypeOK, Answers
  <2>2. CASE answer'[r] = answer[r] /\ question'[r] = question[r]
    BY <1>1, <2>1, <2>2 DEF FilesKept
  <2>3. CASE answer'[r] = NotNeeded
    BY <1>1, <2>3 DEF NotNeeded
  <2>4. CASE answer'[r] = Given(locks) /\ locks' = locks
    BY <1>1, <2>4 DEF Given
  <2>5. CASE /\ answer'[r] = Remembered(locks)
             /\ locks' = locks
             /\ [question |-> question'[r], epoch |-> locks] \in remembered'
    BY <1>1, <2>5 DEF Remembered
  <2> QED
    BY <2>2, <2>3, <2>4, <2>5 DEF AnswerKept
<1> QED
  BY <1>2 DEF MemoryInv, FilesKept

\* Only its own request's handlers change a request's answer.
LEMMA OthersKept ==
    ASSUME TypeOK, TypeOK', MemoryInv, OutcomeInv, FilesKept, NEW r \in Requests, AnswerKept(r),
           pc'[r] \in UnansweredSteps => answer'[r] = NotNeeded,
           pc'[r] # "done" => outcome'[r] = Pending,
           \A s \in Requests \ {r} :
              /\ pc'[s] = pc[s] /\ answer'[s] = answer[s]
              /\ question'[s] = question[s] /\ outcome'[s] = outcome[s]
    PROVE  MemoryInv' /\ OutcomeInv'
<1>1. \A s \in Requests : AnswerKept(s)
  BY DEF AnswerKept
<1>2. \A s \in Requests : pc'[s] \in UnansweredSteps => answer'[s] = NotNeeded
  BY DEF MemoryInv
<1>3. OutcomeInv'
  BY DEF OutcomeInv
<1> QED
  BY <1>1, <1>2, <1>3, MemoryKept

\* A request that ends has no answer left.
LEMMA EndKeeps ==
    ASSUME TypeOK, TypeOK', MemoryInv, OutcomeInv, FilesKept, NEW r \in Requests, NEW result,
           End(r, result)
    PROVE  MemoryInv' /\ OutcomeInv'
<1>1. AnswerKept(r) /\ answer'[r] = NotNeeded /\ pc'[r] = "done"
  BY DEF End, Goto, AnswerKept, TypeOK, RequestsTypeOK
<1>2. \A s \in Requests \ {r} :
         /\ pc'[s] = pc[s] /\ answer'[s] = answer[s]
         /\ question'[s] = question[s] /\ outcome'[s] = outcome[s]
  BY DEF End, Goto, TypeOK, RequestsTypeOK
<1> QED
  BY <1>1, <1>2, OthersKept

\* A step of a request that leaves what is filed and answered alone.
LEMMA MoveKeeps ==
    ASSUME TypeOK, TypeOK', MemoryInv, OutcomeInv, NEW r \in Requests, NEW step, Goto(r, step),
           step # "done", step \in UnansweredSteps => pc[r] \in UnansweredSteps,
           pc[r] # "done",
           UNCHANGED <<locks, remembered, question, answer, outcome>>
    PROVE  MemoryInv' /\ OutcomeInv'
<1>1. FilesKept /\ AnswerKept(r)
  BY DEF FilesKept, AnswerKept, MemoryInv, TypeOK, ApprovalsTypeOK
<1>2. \A s \in Requests \ {r} : pc'[s] = pc[s]
  BY DEF Goto, TypeOK, RequestsTypeOK
<1>3. pc'[r] = step
  BY DEF Goto, TypeOK, RequestsTypeOK
<1>4. pc'[r] \in UnansweredSteps => answer'[r] = NotNeeded
  BY <1>3 DEF MemoryInv
<1>5. outcome'[r] = Pending
  BY DEF OutcomeInv
<1> QED
  BY <1>1, <1>2, <1>4, <1>5, OthersKept

\* A signature, filed or voided, leaves the memory in order.
LEMMA SignKeeps ==
    ASSUME TypeOK, TypeOK', MemoryInv, OutcomeInv, NEW r \in Requests,
           NEW wasAsked \in BOOLEAN, Fail(r, wasAsked) \/ Sign(r, wasAsked)
    PROVE  MemoryInv' /\ OutcomeInv'
<1>1. answer[r] \in Answers /\ locks \in Nat /\ locks <= locks
  BY DEF TypeOK, RequestsTypeOK, ApprovalsTypeOK
<1>2. FilesKept
  BY <1>1, SettleKeeps DEF Fail, FailFrom, Sign
<1>3. \E result : End(r, result)
  BY DEF Fail, FailFrom, Sign
<1> QED
  BY <1>2, <1>3, EndKeeps

\* What follows a private key read leaves the memory in order.
LEMMA UsePemKeeps ==
    ASSUME TypeOK, TypeOK', MemoryInv, OutcomeInv, NEW r \in Requests,
           NEW wasAsked \in BOOLEAN, UsePem(r, wasAsked), pc[r] # "done"
    PROVE  MemoryInv' /\ OutcomeInv'
<1>1. CASE Fail(r, wasAsked) \/ Sign(r, wasAsked)
  BY <1>1, SignKeeps
<1>2. CASE /\ Goto(r, "passCopying")
           /\ UNCHANGED <<approvalVars, question, answer, outcome>>
  BY <1>2, MoveKeeps DEF approvalVars, UnansweredSteps
<1> QED
  BY <1>1, <1>2 DEF UsePem

\* A call that only moves its request leaves it alone.
LEMMA ProceedKeeps ==
    ASSUME TypeOK, TypeOK', MemoryInv, OutcomeInv, NEW r \in Requests, NEW step,
           Proceed(r, step), pc[r] # "done", step \notin UnansweredSteps
    PROVE  MemoryInv' /\ OutcomeInv'
BY MoveKeeps DEF Proceed, approvalVars, localVars, UnansweredSteps

\* Every handler keeps the memory and the outcomes in order.
LEMMA MemoryServe ==
    ASSUME TypeOK, TypeOK', MemoryInv, OutcomeInv, NEW r \in Requests, Serve(r)
    PROVE  MemoryInv' /\ OutcomeInv'
<1>still. ASSUME UNCHANGED approvalVars PROVE FilesKept /\ UNCHANGED <<locks, remembered>>
  BY <1>still DEF FilesKept, approvalVars, MemoryInv, TypeOK, ApprovalsTypeOK
<1>counted. CountedAnAsk(r) \in BOOLEAN /\ asked[r] \in BOOLEAN
  BY DEF CountedAnAsk, TypeOK, RequestsTypeOK
<1>1. CASE RefuseAtOnce(r)
  BY <1>1, <1>still, EndKeeps DEF RefuseAtOnce
<1>2. CASE Arrive(r)
  BY <1>2, <1>still, MoveKeeps DEF Arrive, UnansweredSteps, localVars
<1>3. CASE Name(r)
  <2>1. CASE \E q \in Questions : RememberedIn(q) /\ AnswerFromMemory(r, q)
    <3>1. AnswerKept(r) /\ pc'[r] = "copying" /\ outcome'[r] = Pending
      BY <2>1, <1>3, <1>still DEF Name, AnswerFromMemory, RememberedIn, AnswerKept, Goto, TypeOK,
                                  RequestsTypeOK, OutcomeInv
    <3>2. \A s \in Requests \ {r} :
             /\ pc'[s] = pc[s] /\ answer'[s] = answer[s]
             /\ question'[s] = question[s] /\ outcome'[s] = outcome[s]
      BY <2>1, <1>3 DEF Name, AnswerFromMemory, Goto, TypeOK, RequestsTypeOK
    <3> QED
      BY <3>1, <3>2, <1>3, <1>still, OthersKept DEF Name, UnansweredSteps
  <2>2. CASE Goto(r, "approving") /\ UNCHANGED <<question, answer>>
    BY <2>2, <1>3, <1>still, MoveKeeps DEF Name, UnansweredSteps
  <2> QED
    BY <1>3, <2>1, <2>2 DEF Name
<1>4. CASE EnterToConfirm(r)
  <2>0. answer[r] = NotNeeded /\ outcome[r] = Pending
    BY <1>4 DEF EnterToConfirm, MemoryInv, OutcomeInv, UnansweredSteps
  <2>1. PICK q \in Questions \cup {NoQuestion} :
            \/ RememberedIn(q) /\ AnswerFromMemory(r, q)
            \/ /\ question' = [question EXCEPT ![r] = q]
               /\ Goto(r, "confirming")
               /\ UNCHANGED answer
    BY <1>4 DEF EnterToConfirm
  <2>2. AnswerKept(r) /\ (pc'[r] \in UnansweredSteps => answer'[r] = NotNeeded)
    BY <2>0, <2>1, <1>4, <1>still
    DEF EnterToConfirm, AnswerFromMemory, RememberedIn, AnswerKept, Goto, TypeOK,
        RequestsTypeOK, UnansweredSteps
  <2>3. \A s \in Requests \ {r} :
           /\ pc'[s] = pc[s] /\ answer'[s] = answer[s]
           /\ question'[s] = question[s] /\ outcome'[s] = outcome[s]
    BY <2>1, <1>4 DEF EnterToConfirm, AnswerFromMemory, Goto, TypeOK, RequestsTypeOK
  <2> QED
    BY <2>0, <2>2, <2>3, <1>4, <1>still, OthersKept DEF EnterToConfirm
<1>5. CASE Confirm(r)
  <2>1. AnswerKept(r) /\ pc'[r] = "copying" /\ outcome'[r] = Pending
    BY <1>5, <1>still DEF Confirm, AnswerKept, Goto, TypeOK, RequestsTypeOK, OutcomeInv
  <2>2. \A s \in Requests \ {r} :
           /\ pc'[s] = pc[s] /\ answer'[s] = answer[s]
           /\ question'[s] = question[s] /\ outcome'[s] = outcome[s]
    BY <1>5 DEF Confirm, Goto, TypeOK, RequestsTypeOK
  <2> QED
    BY <2>1, <2>2, <1>5, <1>still, OthersKept DEF Confirm, UnansweredSteps
<1>6. CASE Deny(r)
  BY <1>6, <1>still, EndKeeps DEF Deny
<1>7. CASE Copy(r)
  <2>1. \E step \in {"reading", "rereading", "passReading"} : Goto(r, step)
    BY <1>7 DEF Copy, CopiedFor
  <2> QED
    BY <2>1, <1>7, <1>still, MoveKeeps DEF Copy, CopiedFor, UnansweredSteps
<1>8. CASE Read(r)
  BY <1>8, UsePemKeeps, ProceedKeeps, SignKeeps DEF Read, UnansweredSteps
<1>9. CASE EnterToAsk(r)
  BY <1>9, <1>still, MoveKeeps DEF EnterToAsk, UnansweredSteps
<1>10. CASE Reread(r)
  BY <1>10, <1>counted, UsePemKeeps, ProceedKeeps, SignKeeps DEF Reread, UnansweredSteps
<1>11. CASE Open(r)
  <2>1. \E step \in {"rereading", "prompting"} : Goto(r, step)
    BY <1>11 DEF Open
  <2> QED
    BY <2>1, <1>11, MoveKeeps DEF Open, UnansweredSteps
<1>12. CASE Resolve(r)
  <2>1. CASE GiveUp /\ Fail(r, CountedAnAsk(r))
    BY <2>1, <1>counted, SignKeeps
  <2>2. CASE /\ Goto(r, "rereading")
             /\ UNCHANGED <<locks, remembered, question, answer, outcome>>
    BY <2>2, <1>12, MoveKeeps DEF Resolve, UnansweredSteps
  <2> QED
    BY <1>12, <2>1, <2>2 DEF Resolve
<1>13. CASE Reject(r)
  <2> DEFINE wasAsked == IF pc[r] = "rerejecting" THEN CountedAnAsk(r) ELSE asked[r]
  <2>1. wasAsked \in BOOLEAN
    BY <1>counted
  <2>2. FailFrom(locks + BumpIfHeld, r, wasAsked)
    BY <1>13 DEF Reject
  <2> HIDE DEF wasAsked
  <2>3. /\ answer[r] \in Answers /\ locks \in Nat
        /\ locks + BumpIfHeld \in Nat /\ locks <= locks + BumpIfHeld
    BY DEF TypeOK, RequestsTypeOK, ApprovalsTypeOK, BumpIfHeld
  <2>4. FilesKept
    BY <2>1, <2>2, <2>3, SettleKeeps DEF FailFrom
  <2> QED
    BY <2>2, <2>4, EndKeeps DEF FailFrom
<1>14. CASE ReadPassphrase(r)
  BY <1>14, <1>counted, ProceedKeeps, SignKeeps DEF ReadPassphrase, UnansweredSteps
<1>15. CASE EnterForPassphrase(r)
  BY <1>15, <1>still, MoveKeeps DEF EnterForPassphrase, UnansweredSteps, localVars
<1>16. CASE AnswerPassphrase(r)
  BY <1>16, <1>counted, SignKeeps DEF AnswerPassphrase
<1> QED
  BY <1>1, <1>2, <1>3, <1>4, <1>5, <1>6, <1>7, <1>8, <1>9, <1>10, <1>11, <1>12, <1>13, <1>14,
     <1>15, <1>16 DEF Serve

\* So does everything around the requests.
LEMMA MemoryBackground ==
    ASSUME TypeOK, TypeOK', MemoryInv, OutcomeInv, Background
    PROVE  MemoryInv' /\ OutcomeInv'
<1>0. UNCHANGED <<requestVars, remembered>> /\ locks' \in {locks, locks + 1, locks + BumpIfHeld}
  BY DEF Background, ScanCopy, ScanRead, ScanReject, ShellTurns, ScreenLocks, Forget,
         ExpireIfIdle, DropIfIdle, DropAndBump, approvalVars
<1>1. UNCHANGED <<pc, question, answer, outcome, remembered>> /\ locks <= locks'
  BY <1>0, SecretTypes DEF requestVars, localVars, TypeOK, ApprovalsTypeOK
<1>2. FilesKept
  BY <1>1 DEF FilesKept, MemoryInv, TypeOK, ApprovalsTypeOK, Filed
<1>3. \A r \in Requests : AnswerKept(r)
  BY <1>1 DEF AnswerKept
<1>4. MemoryInv'
  BY <1>1, <1>2, <1>3, MemoryKept DEF MemoryInv
<1> QED
  BY <1>1, <1>4 DEF OutcomeInv

\* The invariant holds at first.
LEMMA IInvInit == Init => IInv
<1>1. Init => MemoryInv /\ OutcomeInv
  BY DEF Init, MemoryInv, OutcomeInv, NotNeeded
<1> QED
  BY <1>1, TurnInit DEF IInv, TurnInv

\* Every step keeps the invariant.
LEMMA IInvStep == IInv /\ [Next]_vars => IInv'
<1>1. IInv /\ [Next]_vars => TurnInv'
  BY TurnStep DEF IInv, TurnInv
<1>2. ASSUME IInv, Next PROVE MemoryInv' /\ OutcomeInv'
  BY <1>1, <1>2, MemoryServe, MemoryBackground DEF IInv, TurnInv, Next
<1>3. ASSUME IInv, UNCHANGED vars PROVE MemoryInv' /\ OutcomeInv'
  BY <1>3 DEF IInv, MemoryInv, OutcomeInv, vars, approvalVars, localVars
<1> QED
  BY <1>1, <1>2, <1>3 DEF IInv, TurnInv

(***************************************************************************)
(* The whole inductive invariant: the gate, the lock, the asks, and that   *)
(* nothing filed or answered belongs to an epoch still to come.            *)
(***************************************************************************)
THEOREM Invariant == Spec => []IInv
BY IInvInit, IInvStep, PTL DEF Spec

-----------------------------------------------------------------------------
(* The abstract steps. What ApprovalPolicy's variables stand for:          *)

GrantedNow == {m.question : m \in {f \in remembered : f.epoch = locks}}
YesNow == [r \in Requests |-> IF answer[r].how = "given" /\ answer[r].epoch = locks
                              THEN question[r] ELSE NoQuestion]
Holding == held # NoPassword

\* All answers stay as they are but for r's, which goes.
AnswerGoes(r) ==
    /\ answer'[r] = NotNeeded
    /\ \A s \in Requests \ {r} : answer'[s] = answer[s] /\ question'[s] = question[s]

\* A request that ends gets an outcome once, and is asking no longer.
LEMMA EndFinishes ==
    ASSUME IInv, NEW r \in Requests, NEW how, NEW q, End(r, [how |-> how, question |-> q]),
           outcome[r] = Pending, UNCHANGED forgetting
    PROVE  AnswerGoes(r) /\ Policy!Finish(r, how, q)
<1> USE DEF IInv, TypeOK, RequestsTypeOK
<1>1. AnswerGoes(r)
  BY DEF AnswerGoes, End
<1>2. Policy!Finish(r, how, q)
  BY DEF Policy!Finish, Policy!Pending, Pending, End
<1> QED
  BY <1>1, <1>2

\* Within an epoch, the yes of the request that ends is the only one to go.
LEMMA EpochStays ==
    ASSUME IInv, NEW r \in Requests, AnswerGoes(r), UNCHANGED locks
    PROVE  YesNow' = [YesNow EXCEPT ![r] = NoQuestion]
<1>1. NotNeeded.how # "given"
  BY DEF NotNeeded
<1>2. \A s \in Requests : YesNow'[s] = IF s = r THEN NoQuestion ELSE YesNow[s]
  BY <1>1 DEF YesNow, AnswerGoes
<1> QED
  BY <1>2 DEF YesNow

\* Across a lock, everything goes.
LEMMA EpochEnds ==
    ASSUME IInv, locks < locks', UNCHANGED remembered,
           \A r \in Requests : answer'[r] \in {answer[r], NotNeeded}
    PROVE  GrantedNow' = {} /\ YesNow' = [r \in Requests |-> NoQuestion]
<1> USE DEF IInv, TypeOK, ApprovalsTypeOK, RequestsTypeOK
<1>1. locks' # locks /\ locks \in Nat
  OBVIOUS
<1>2. \A m \in remembered' : m.epoch # locks'
  <2>1. \A m \in remembered : m.epoch \in Nat /\ m.epoch <= locks
    BY DEF MemoryInv, Filed
  <2> QED
    BY <2>1
<1>3. \A r \in Requests : ~(answer'[r].how = "given" /\ answer'[r].epoch = locks')
  <2>1. \A r \in Requests : answer[r].epoch \in Nat /\ answer[r].epoch <= locks
    BY DEF MemoryInv, Answers
  <2> QED
    BY <2>1 DEF NotNeeded
<1>4. GrantedNow' = {}
  BY <1>2 DEF GrantedNow
<1>5. YesNow' = [r \in Requests |-> NoQuestion]
  BY <1>3 DEF YesNow
<1> QED
  BY <1>4, <1>5

\* A refusal is a refusal of the policy, with or without a lock.
LEMMA RefusalMaps ==
    ASSUME IInv, NEW now, NEW r \in Requests, NEW wasAsked \in BOOLEAN, End(r, Refused),
           locks' = now + (IF wasAsked THEN 1 ELSE 0), UNCHANGED <<remembered, forgetting>>,
           wasAsked <=> r \in opened, outcome[r] = Pending,
           \/ now = locks /\ UNCHANGED held
           \/ now = locks + 1 /\ held' = NoPassword
    PROVE  Policy!Refuse(r)
<1>1. AnswerGoes(r) /\ Policy!Finish(r, "refused", NoQuestion)
  BY EndFinishes DEF Refused
<1>2. locks \in Nat
  BY DEF IInv, TypeOK, ApprovalsTypeOK
<1>3. CASE now = locks /\ ~wasAsked
  <2>1. GrantedNow' = GrantedNow /\ YesNow' = [YesNow EXCEPT ![r] = NoQuestion]
    BY <1>1, <1>2, <1>3, EpochStays DEF GrantedNow
  <2>2. (held # NoPassword)' = (held # NoPassword) /\ r \notin opened
    BY <1>2, <1>3
  <2> QED
    BY <2>1, <2>2, <1>1 DEF Policy!Refuse, GrantedNow, YesNow
<1>4. CASE now = locks + 1 \/ wasAsked
  <2>1. locks < locks'
    BY <1>2, <1>4
  <2>2. \A s \in Requests : answer'[s] \in {answer[s], NotNeeded}
    BY <1>1 DEF AnswerGoes
  <2>3. GrantedNow' = {} /\ YesNow' = [s \in Requests |-> NoQuestion]
    BY <2>1, <2>2, EpochEnds
  <2>4. Holding' \in {Holding, FALSE}
    BY DEF Holding
  <2> QED
    BY <2>3, <2>4, <1>1 DEF Policy!Refuse, Policy!NothingStands, GrantedNow, YesNow, Holding
<1> QED
  BY <1>3, <1>4

\* So is every failure of a fetch or a signature.
LEMMA FailMaps ==
    ASSUME IInv, NEW now, NEW r \in Requests, NEW wasAsked \in BOOLEAN,
           FailFrom(now, r, wasAsked), wasAsked <=> r \in opened, outcome[r] = Pending,
           UNCHANGED forgetting,
           \/ now = locks /\ UNCHANGED held
           \/ now = locks + 1 /\ held' = NoPassword
    PROVE  Policy!Refuse(r)
BY RefusalMaps DEF FailFrom, SettleFrom

\* Filing one entry of this epoch, beside others of it.
LEMMA OneEntry ==
    ASSUME NEW kept, NEW entry, entry.epoch = locks', \A m \in kept : m.epoch = locks',
           remembered' = kept \cup {entry}
    PROVE  \A q : q \in GrantedNow' <=> q = entry.question \/ \E m \in kept : m.question = q
BY DEF GrantedNow

\* A signature is one the policy allows, by what answered it.
LEMMA SignMaps ==
    ASSUME IInv, NEW r \in Requests, NEW wasAsked \in BOOLEAN, Sign(r, wasAsked),
           wasAsked <=> r \in opened, outcome[r] = Pending, UNCHANGED <<held, forgetting>>
    PROVE  \/ Policy!Refuse(r)
           \/ Policy!SignConfirmed(r) \/ Policy!SignFromMemory(r) \/ Policy!SignUnconfirmed(r)
<1> DEFINE ask == IF wasAsked THEN 1 ELSE 0
<1>1. SettleFrom(locks, answer[r], question[r], wasAsked, TRUE) /\ locks' = locks + ask
  BY DEF Sign, SettleFrom
<1>2. locks \in Nat /\ answer[r] \in Answers /\ question[r] \in Questions \cup {NoQuestion}
  BY DEF IInv, TypeOK, ApprovalsTypeOK, RequestsTypeOK
<1>3. (held # NoPassword)' = (held # NoPassword)
  OBVIOUS
<1>4. CASE Voided(answer[r], wasAsked)
  <2>1. End(r, Refused) /\ remembered' = remembered
    BY <1>1, <1>4 DEF Sign, Voided, SettleFrom
  <2> QED
    BY <2>1, <1>1, <1>2, RefusalMaps
<1>5. CASE ~Voided(answer[r], wasAsked)
  <2>1. End(r, Signature(r))
    BY <1>5 DEF Sign
  <2>2. AnswerGoes(r) /\ Policy!Finish(r, Signature(r).how, Signature(r).question)
    BY <2>1, EndFinishes DEF Signature
  <2>3. \A s \in Requests : answer'[s] \in {answer[s], NotNeeded}
    BY <2>2 DEF AnswerGoes
  <2>4. YesNow \in [Requests -> Questions \cup {NoQuestion}]
    BY DEF YesNow, IInv, TypeOK, RequestsTypeOK
  <2>5. wasAsked => YesNow' = [s \in Requests |-> NoQuestion]
    <3>1. ASSUME wasAsked, NEW s \in Requests PROVE YesNow'[s] = NoQuestion
      <4>1. answer[s].epoch \in Nat /\ answer[s].epoch <= locks
        BY DEF IInv, MemoryInv, TypeOK, RequestsTypeOK, Answers
      <4>2. answer[s].epoch # locks' /\ NotNeeded.how # "given"
        BY <3>1, <4>1, <1>1, <1>2 DEF NotNeeded
      <4> QED
        BY <4>2, <2>3 DEF YesNow
    <3> QED
      BY <3>1 DEF YesNow
  <2>6. ~wasAsked => YesNow' = [YesNow EXCEPT ![r] = NoQuestion]
    BY <1>1, <1>2, <2>2, EpochStays
  <2>7. CASE answer[r].how = "notneeded"
    <3>1. Policy!Finish(r, "unconfirmed", NoQuestion)
      BY <2>2, <2>7 DEF Signature
    <3>2. remembered' = remembered /\ YesNow[r] = NoQuestion
      BY <1>1, <2>7 DEF SettleFrom, YesNow
    <3>3. CASE wasAsked
      <4>1. GrantedNow' = {}
        BY <1>1, <1>2, <2>3, <3>2, <3>3, EpochEnds
      <4> QED
        BY <4>1, <3>1, <3>3, <2>5, <1>3
        DEF Policy!SignUnconfirmed, Policy!NothingStands, GrantedNow, YesNow
    <3>4. CASE ~wasAsked
      <4>1. GrantedNow' = GrantedNow
        BY <1>1, <1>2, <3>2, <3>4 DEF GrantedNow
      <4>2. YesNow' = YesNow
        BY <2>4, <2>6, <3>2, <3>4
      <4> QED
        BY <4>1, <4>2, <3>1, <3>4, <1>3 DEF Policy!SignUnconfirmed, GrantedNow, YesNow
    <3> QED
      BY <3>3, <3>4
  <2>8. CASE answer[r].how = "remembered"
    <3>1. ~wasAsked /\ answer[r].epoch = locks
      BY <1>5, <2>8 DEF Voided
    <3>2. Policy!Finish(r, "remembered", question[r])
      BY <2>2, <2>8 DEF Signature
    <3>3. remembered' = remembered /\ YesNow[r] = NoQuestion
      BY <1>1, <2>8 DEF SettleFrom, YesNow
    <3>4. question[r] \in GrantedNow
      <4>1. [question |-> question[r], epoch |-> locks] \in remembered
        BY <2>8, <3>1 DEF IInv, MemoryInv
      <4> QED
        BY <4>1 DEF GrantedNow
    <3>5. GrantedNow' = GrantedNow /\ YesNow' = YesNow
      BY <1>1, <1>2, <2>4, <2>6, <3>1, <3>3 DEF GrantedNow
    <3> QED
      BY <3>1, <3>2, <3>4, <3>5, <1>3 DEF Policy!SignFromMemory, GrantedNow, YesNow
  <2>9. CASE answer[r].how = "given"
    <3>1. Policy!Finish(r, "confirmed", NoQuestion)
      BY <2>2, <2>9 DEF Signature
    <3>2. answer[r].epoch \in Nat /\ answer[r].epoch <= locks
          /\ \A m \in remembered : m.epoch \in Nat /\ m.epoch <= locks
      BY <1>2 DEF IInv, MemoryInv, TypeOK, ApprovalsTypeOK, Filed, Answers
    <3>3. \/ remembered' = remembered
          \/ /\ answer[r].epoch + ask = locks + ask
             /\ question[r] # NoQuestion
             /\ remembered' = {m \in remembered : m.epoch = answer[r].epoch + ask}
                    \cup {[question |-> question[r], epoch |-> answer[r].epoch + ask]}
      BY <1>1 DEF SettleFrom, RememberIn
    <3>4. answer[r].epoch = locks /\ question[r] # NoQuestion
             => Policy!Own(r) = {question[r]}
      BY <2>9 DEF Policy!Own
    <3>5. CASE wasAsked
      <4>1. GrantedNow' \in {{}, Policy!Own(r)}
        <5>1. CASE remembered' = remembered
          BY <5>1, <1>1, <1>2, <2>3, <3>5, EpochEnds
        <5>2. CASE /\ answer[r].epoch + ask = locks + ask
                   /\ question[r] # NoQuestion
                   /\ remembered' = {m \in remembered : m.epoch = answer[r].epoch + ask}
                          \cup {[question |-> question[r], epoch |-> answer[r].epoch + ask]}
          <6>1. answer[r].epoch = locks
            BY <5>2, <1>2, <3>2
          <6>2. remembered' = {[question |-> question[r], epoch |-> locks']}
            BY <5>2, <6>1, <1>1, <1>2, <3>2, <3>5
          <6>3. GrantedNow' = {question[r]}
            <7> DEFINE entry == [question |-> question[r], epoch |-> locks']
                       kept == {}
            <7>1. entry.epoch = locks' /\ entry.question = question[r]
              OBVIOUS
            <7>2. remembered' = kept \cup {entry} /\ \A m \in kept : FALSE
              BY <6>2
            <7> HIDE DEF entry, kept
            <7>3. \A q : q \in GrantedNow' <=> q = question[r]
              BY <7>1, <7>2, OneEntry
            <7> QED
              BY <7>3
          <6> QED
            BY <6>1, <6>3, <5>2, <3>4
        <5> QED
          BY <5>1, <5>2, <3>3
      <4> QED
        BY <4>1, <3>1, <3>5, <2>5, <1>3 DEF Policy!SignConfirmed, GrantedNow, YesNow
    <3>6. CASE ~wasAsked
      <4>1. locks' = locks
        BY <3>6, <1>1, <1>2
      <4>2. GrantedNow' \in {GrantedNow, GrantedNow \cup Policy!Own(r)}
        <5>1. CASE remembered' = remembered
          BY <5>1, <4>1 DEF GrantedNow
        <5>2. CASE /\ answer[r].epoch + ask = locks + ask
                   /\ question[r] # NoQuestion
                   /\ remembered' = {m \in remembered : m.epoch = answer[r].epoch + ask}
                          \cup {[question |-> question[r], epoch |-> answer[r].epoch + ask]}
          <6>1. answer[r].epoch = locks /\ answer[r].epoch + ask = locks
            BY <5>2, <3>6, <1>2, <3>2
          <6>2. remembered' = {m \in remembered : m.epoch = locks}
                                  \cup {[question |-> question[r], epoch |-> locks]}
            BY <6>1, <5>2
          <6>3. GrantedNow' = GrantedNow \cup {question[r]}
            <7> DEFINE entry == [question |-> question[r], epoch |-> locks]
                       kept == {m \in remembered : m.epoch = locks}
            <7>1. entry.epoch = locks' /\ entry.question = question[r]
              BY <4>1
            <7>2. remembered' = kept \cup {entry} /\ \A m \in kept : m.epoch = locks'
              BY <6>2, <4>1
            <7>3. \A q : q \in GrantedNow <=> \E m \in kept : m.question = q
              BY DEF GrantedNow
            <7> HIDE DEF entry, kept
            <7>4. \A q : q \in GrantedNow' <=> q = question[r] \/ q \in GrantedNow
              BY <7>1, <7>2, <7>3, OneEntry
            <7> QED
              BY <7>4
          <6> QED
            BY <6>1, <6>3, <5>2, <3>4
        <5> QED
          BY <5>1, <5>2, <3>3
      <4> QED
        BY <4>2, <3>1, <3>6, <2>6, <1>3 DEF Policy!SignConfirmed, GrantedNow, YesNow
    <3> QED
      BY <3>5, <3>6
  <2> QED
    BY <2>7, <2>8, <2>9, <1>2 DEF Answers
<1> QED
  BY <1>4, <1>5

\* A step that none of the abstract variables notices.
LEMMA StutterMaps ==
    ASSUME UNCHANGED <<locks, remembered, opened, held, forgetting, outcome>>,
           \A r \in Requests :
              \/ answer'[r] = answer[r] /\ question'[r] = question[r]
              \/ answer[r].how # "given" /\ answer'[r].how # "given"
    PROVE  UNCHANGED Policy!vars
<1>1. YesNow' = YesNow
  BY DEF YesNow
<1>2. GrantedNow' = GrantedNow /\ (held # NoPassword)' = (held # NoPassword)
  BY DEF GrantedNow
<1> QED
  BY <1>1, <1>2 DEF Policy!vars, YesNow, GrantedNow

\* What follows a private key read is a step of the policy or none.
LEMMA UsePemMaps ==
    ASSUME IInv, NEW r \in Requests, NEW wasAsked \in BOOLEAN, UsePem(r, wasAsked),
           wasAsked <=> r \in opened, pc[r] # "done", UNCHANGED <<unlockVars, screenVars>>
    PROVE  Policy!Next \/ UNCHANGED Policy!vars
<1>1. outcome[r] = Pending /\ UNCHANGED <<held, forgetting>> /\ locks \in Nat
  BY DEF IInv, OutcomeInv, TypeOK, ApprovalsTypeOK, unlockVars, screenVars
<1>2. CASE Fail(r, wasAsked)
  BY <1>1, <1>2, FailMaps DEF Fail, Policy!Next
<1>3. CASE Sign(r, wasAsked)
  BY <1>1, <1>3, SignMaps DEF Policy!Next
<1>4. CASE UNCHANGED <<approvalVars, question, answer, outcome, historyVars>>
  BY <1>1, <1>4, StutterMaps DEF approvalVars, historyVars
<1> QED
  BY <1>2, <1>3, <1>4 DEF UsePem

\* Every handler is a step of the policy or none.
LEMMA ServeMaps ==
    ASSUME IInv, NEW r \in Requests, Serve(r)
    PROVE  Policy!Next \/ UNCHANGED Policy!vars
<1>pending. pc[r] # "done" => outcome[r] = Pending
  BY DEF IInv, OutcomeInv
<1>fresh. pc[r] \in UnansweredSteps => answer[r] = NotNeeded
  BY DEF IInv, MemoryInv
<1>quiet. pc[r] \notin CountingSteps \cup SettledSteps => r \notin opened
  BY DEF IInv, AskInv
<1>counted. /\ CountedAnAsk(r) \in BOOLEAN /\ asked[r] \in BOOLEAN
            /\ pc[r] \in CountingSteps => (CountedAnAsk(r) <=> r \in opened)
            /\ pc[r] \in SettledSteps => (asked[r] <=> r \in opened)
  BY DEF CountedAnAsk, IInv, AskInv, TypeOK, RequestsTypeOK
<1>still. ASSUME UNCHANGED approvalVars PROVE UNCHANGED <<locks, remembered>>
  BY <1>still DEF approvalVars
<1>lock. ASSUME UNCHANGED unlockVars PROVE UNCHANGED held
  BY <1>lock DEF unlockVars
<1>screen. ASSUME UNCHANGED screenVars PROVE UNCHANGED forgetting
  BY <1>screen DEF screenVars
<1>history. ASSUME UNCHANGED historyVars PROVE UNCHANGED opened
  BY <1>history DEF historyVars
<1>locks. locks \in Nat
  BY DEF IInv, TypeOK, ApprovalsTypeOK
<1>1. CASE RefuseAtOnce(r) \/ Deny(r)
  <2>1. End(r, Refused) /\ r \notin opened /\ outcome[r] = Pending
        /\ UNCHANGED <<locks, remembered, held, forgetting>>
    BY <1>1, <1>pending, <1>quiet, <1>still, <1>lock, <1>screen
    DEF RefuseAtOnce, Deny, CountingSteps, SettledSteps
  <2>2. locks' = locks + (IF FALSE THEN 1 ELSE 0)
    BY <2>1, <1>locks
  <2> QED
    BY <2>1, <2>2, RefusalMaps DEF Policy!Next
<1>2. CASE Arrive(r) \/ EnterToAsk(r) \/ EnterForPassphrase(r) \/ Copy(r)
  BY <1>2, <1>still, <1>lock, <1>screen, <1>history, StutterMaps
  DEF Arrive, EnterToAsk, EnterForPassphrase, Copy, localVars
<1>3. CASE Name(r) \/ EnterToConfirm(r)
  <2>1. answer[r].how # "given"
    BY <1>3, <1>fresh DEF Name, EnterToConfirm, UnansweredSteps, NotNeeded
  <2>2. answer'[r].how # "given"
    BY <2>1, <1>3 DEF Name, EnterToConfirm, AnswerFromMemory, Remembered, IInv, TypeOK,
                      RequestsTypeOK
  <2>3. \A s \in Requests \ {r} : answer'[s] = answer[s] /\ question'[s] = question[s]
    BY <1>3 DEF Name, EnterToConfirm, AnswerFromMemory, IInv, TypeOK, RequestsTypeOK
  <2>4. UNCHANGED <<locks, remembered, opened, held, forgetting, outcome>>
    BY <1>3, <1>still, <1>lock, <1>screen, <1>history DEF Name, EnterToConfirm
  <2> QED
    BY <2>1, <2>2, <2>3, <2>4, StutterMaps
<1>4. CASE Confirm(r)
  <2>1. UNCHANGED <<question, locks, remembered, opened, held, forgetting, outcome>>
    BY <1>4, <1>still, <1>lock, <1>screen, <1>history DEF Confirm
  <2>2. answer'[r] = Given(locks) /\ \A s \in Requests \ {r} : answer'[s] = answer[s]
    BY <1>4 DEF Confirm, IInv, TypeOK, RequestsTypeOK
  <2>3. answer[r].how # "given"
    BY <1>4, <1>fresh DEF Confirm, UnansweredSteps, NotNeeded
  <2>4. \A s \in Requests : YesNow'[s] = IF s = r THEN question[r] ELSE YesNow[s]
    BY <2>1, <2>2 DEF YesNow, Given
  <2>5. YesNow' = [YesNow EXCEPT ![r] = question[r]]
    BY <2>4 DEF YesNow
  <2>6. GrantedNow' = GrantedNow /\ (held # NoPassword)' = (held # NoPassword)
    BY <2>1 DEF GrantedNow
  <2>7. CASE question[r] \in Questions
    <3>1. Policy!SayYes(r)
      BY <2>1, <2>5, <2>6, <2>7, <1>4, <1>pending
      DEF Confirm, Policy!SayYes, Policy!Pending, Pending, YesNow, GrantedNow
    <3> QED
      BY <3>1 DEF Policy!Next
  <2>8. CASE question[r] = NoQuestion
    <3>1. YesNow[r] = NoQuestion
      BY <2>3 DEF YesNow
    <3>2. YesNow' = YesNow
      BY <3>1, <2>4, <2>8 DEF YesNow
    <3> QED
      BY <3>2, <2>1, <2>6 DEF Policy!vars, YesNow, GrantedNow
  <2> QED
    BY <2>7, <2>8 DEF IInv, TypeOK, RequestsTypeOK
<1>5. CASE Read(r)
  <2>1. r \notin opened /\ outcome[r] = Pending /\ UNCHANGED <<held, forgetting>>
    BY <1>5, <1>quiet, <1>pending, <1>lock, <1>screen DEF Read, CountingSteps, SettledSteps
  <2>2. CASE UsePem(r, FALSE)
    BY <2>1, <2>2, <1>5, UsePemMaps DEF Read
  <2>3. CASE \E step : Proceed(r, step)
    BY <2>1, <2>3, <1>still, <1>history, StutterMaps DEF Proceed, localVars
  <2>4. CASE Fail(r, FALSE)
    BY <2>1, <2>4, <1>locks, FailMaps DEF Fail, Policy!Next
  <2> QED
    BY <2>2, <2>3, <2>4, <1>5 DEF Read
<1>6. CASE Reread(r)
  <2>1. /\ CountedAnAsk(r) <=> r \in opened
        /\ outcome[r] = Pending /\ UNCHANGED <<held, forgetting>>
    BY <1>6, <1>counted, <1>pending, <1>lock, <1>screen DEF Reread, CountingSteps
  <2>2. CASE UsePem(r, CountedAnAsk(r))
    BY <2>1, <2>2, <1>6, <1>counted, UsePemMaps DEF Reread
  <2>3. CASE \E step : Proceed(r, step)
    BY <2>1, <2>3, <1>still, <1>history, StutterMaps DEF Proceed, localVars
  <2>4. CASE Fail(r, CountedAnAsk(r))
    BY <2>1, <2>4, <1>locks, <1>counted, FailMaps DEF Fail, Policy!Next
  <2> QED
    BY <2>2, <2>3, <2>4, <1>6 DEF Reread
<1>7. CASE Open(r)
  <2>1. UNCHANGED <<locks, remembered, held, forgetting, outcome, answer, question>>
    BY <1>7, <1>screen DEF Open, OpenPrompt, unlockVars
  <2>2. CASE UNCHANGED historyVars
    BY <2>1, <2>2, <1>history, StutterMaps
  <2>3. CASE opened' = opened \cup {r}
    <3>1. opened = {}
      BY <1>7 DEF Open, IInv, GateInv, AskInv, GatedSteps
    <3>2. YesNow' = YesNow /\ GrantedNow' = GrantedNow
          /\ (held # NoPassword)' = (held # NoPassword)
      BY <2>1 DEF YesNow, GrantedNow
    <3>3. Policy!Ask(r)
      BY <2>1, <2>3, <3>1, <3>2, <1>7, <1>pending
      DEF Open, Policy!Ask, Policy!Pending, Pending, YesNow, GrantedNow
    <3> QED
      BY <3>3 DEF Policy!Next
  <2> QED
    BY <2>2, <2>3, <1>7 DEF Open
<1>8. CASE Resolve(r)
  <2>1. CASE GiveUp /\ Fail(r, CountedAnAsk(r))
    <3>1. FailFrom(locks, r, CountedAnAsk(r)) /\ UNCHANGED <<held, forgetting>>
          /\ (CountedAnAsk(r) <=> r \in opened) /\ outcome[r] = Pending
      BY <2>1, <1>8, <1>counted, <1>pending, <1>screen
      DEF Resolve, Fail, GiveUp, CountingSteps
    <3> QED
      BY <3>1, <1>counted, FailMaps DEF Policy!Next
  <2>2. CASE /\ \E password \in Resolved : Hold(password)
             /\ UNCHANGED <<locks, remembered, question, answer, outcome, historyVars>>
    <3>1. (held # NoPassword)' = TRUE
      BY <2>2 DEF Hold, Resolved, Secrets, NoPassword
    <3>2. YesNow' = YesNow /\ GrantedNow' = GrantedNow
      BY <2>2 DEF YesNow, GrantedNow
    <3>3. UNCHANGED <<opened, forgetting, outcome>>
      BY <2>2, <1>8, <1>screen, <1>history DEF Resolve
    <3>4. CASE held = NoPassword
      BY <3>1, <3>2, <3>3, <3>4 DEF Policy!Next, Policy!Hold, YesNow, GrantedNow
    <3>5. CASE held # NoPassword
      BY <3>1, <3>2, <3>3, <3>5 DEF Policy!vars, YesNow, GrantedNow
    <3> QED
      BY <3>4, <3>5
  <2> QED
    BY <2>1, <2>2, <1>8 DEF Resolve
<1>9. CASE Reject(r)
  <2> DEFINE wasAsked == IF pc[r] = "rerejecting" THEN CountedAnAsk(r) ELSE asked[r]
             now == locks + BumpIfHeld
  <2>1. /\ wasAsked \in BOOLEAN /\ (wasAsked <=> r \in opened)
        /\ outcome[r] = Pending /\ UNCHANGED forgetting
    BY <1>9, <1>counted, <1>pending, <1>screen DEF Reject, CountingSteps, SettledSteps
  <2>2. \/ now = locks /\ UNCHANGED held
        \/ now = locks + 1 /\ held' = NoPassword
    BY <1>9, <1>locks DEF Reject, DropRejected, BumpIfHeld
  <2>3. FailFrom(now, r, wasAsked)
    BY <1>9 DEF Reject
  <2> HIDE DEF wasAsked, now
  <2> QED
    BY <2>1, <2>2, <2>3, FailMaps DEF Policy!Next
<1>10. CASE ReadPassphrase(r) \/ AnswerPassphrase(r)
  <2>1. /\ asked[r] <=> r \in opened
        /\ outcome[r] = Pending /\ UNCHANGED <<held, forgetting>>
    BY <1>10, <1>counted, <1>pending, <1>lock, <1>screen
    DEF ReadPassphrase, AnswerPassphrase, SettledSteps
  <2>2. CASE Sign(r, asked[r])
    BY <2>1, <2>2, <1>counted, SignMaps DEF Policy!Next
  <2>3. CASE Proceed(r, "passGating") \/ Proceed(r, "rejecting")
    BY <2>1, <2>3, <1>still, <1>history, StutterMaps DEF Proceed, localVars
  <2>4. CASE Fail(r, asked[r])
    BY <2>1, <2>4, <1>locks, <1>counted, FailMaps DEF Fail, Policy!Next
  <2> QED
    BY <2>2, <2>3, <2>4, <1>10 DEF ReadPassphrase, AnswerPassphrase
<1> QED
  BY <1>1, <1>2, <1>3, <1>4, <1>5, <1>6, <1>7, <1>8, <1>9, <1>10 DEF Serve

\* Everything around the requests is a lock, a notice or nothing.
LEMMA BackgroundMaps ==
    ASSUME IInv, Background
    PROVE  Policy!Next \/ UNCHANGED Policy!vars
<1>1. UNCHANGED <<requestVars, remembered>>
  BY DEF Background, ScanCopy, ScanRead, ScanReject, ShellTurns, ScreenLocks, Forget,
         ExpireIfIdle, DropIfIdle, DropAndBump, approvalVars
<1>2. UNCHANGED <<question, answer, outcome, opened>>
  BY <1>1 DEF requestVars, localVars, historyVars
<1>3. locks \in Nat
  BY DEF IInv, TypeOK, ApprovalsTypeOK
<1>4. ASSUME UNCHANGED <<locks, held, forgetting>> PROVE UNCHANGED Policy!vars
  BY <1>1, <1>2, <1>4, StutterMaps
<1>5. ASSUME locks' = locks + 1, held' = NoPassword, forgetting' \in {forgetting, FALSE}
      PROVE  Policy!Next
  <2>1. GrantedNow' = {} /\ YesNow' = [r \in Requests |-> NoQuestion]
    BY <1>1, <1>2, <1>3, <1>5, EpochEnds
  <2> QED
    BY <2>1, <1>2, <1>5 DEF Policy!Next, Policy!Lock, Policy!NothingStands, YesNow, GrantedNow
<1>6. CASE ScanCopy \/ ScanRead \/ ShellTurns
  BY <1>4, <1>6 DEF ScanCopy, ScanRead, ShellTurns, approvalVars, unlockVars, screenVars
<1>7. CASE ScreenLocks
  <2>1. UNCHANGED <<locks, held>> /\ forgetting' = TRUE
    BY <1>7 DEF ScreenLocks, approvalVars, unlockVars
  <2>2. YesNow' = YesNow /\ GrantedNow' = GrantedNow
        /\ (held # NoPassword)' = (held # NoPassword)
    BY <2>1, <1>1, <1>2 DEF YesNow, GrantedNow
  <2> QED
    BY <2>1, <2>2, <1>2 DEF Policy!Next, Policy!Notice, YesNow, GrantedNow
<1>8. CASE ScanReject
  <2>1. UNCHANGED forgetting /\ held' = NoPassword /\ locks' = locks + BumpIfHeld
    BY <1>8 DEF ScanReject, DropRejected, screenVars
  <2> QED
    BY <2>1, <1>3, <1>4, <1>5 DEF BumpIfHeld
<1>9. CASE Forget \/ ExpireIfIdle
  <2>1. locks' = locks + 1 /\ held' = NoPassword /\ forgetting' \in {forgetting, FALSE}
    BY <1>9 DEF Forget, ExpireIfIdle, DropIfIdle, DropAndBump, screenVars
  <2> QED
    BY <2>1, <1>5
<1> QED
  BY <1>6, <1>7, <1>8, <1>9 DEF Background

(***************************************************************************)
(* The agent honours approvals as ApprovalPolicy says, however many        *)
(* requests run side by side and whatever locks the vault under them.      *)
(***************************************************************************)
THEOREM ImplementsPolicy == Spec => PolicySpec
<1>1. Init => Policy!Init
  <2> SUFFICES ASSUME Init PROVE Policy!Init
    OBVIOUS
  <2>1. YesNow = [r \in Requests |-> NoQuestion] /\ GrantedNow = {}
    BY DEF Init, YesNow, GrantedNow, NotNeeded
  <2> QED
    BY <2>1 DEF Init, Policy!Init, Policy!Pending, Pending, YesNow, GrantedNow
<1>2. IInv /\ [Next]_vars => [Policy!Next]_(Policy!vars)
  <2>1. ASSUME IInv, Next PROVE Policy!Next \/ UNCHANGED Policy!vars
    BY <2>1, ServeMaps, BackgroundMaps DEF Next
  <2>2. ASSUME UNCHANGED vars PROVE UNCHANGED Policy!vars
    BY <2>2, StutterMaps DEF vars, approvalVars, unlockVars, localVars, screenVars, historyVars
  <2> QED
    BY <2>1, <2>2
<1> QED
  BY <1>1, <1>2, Invariant, PTL DEF Spec, PolicySpec, Policy!Spec
=============================================================================
