------------------------ MODULE SigningAgentTurnProofs -----------------------
(***************************************************************************)
(* The types of SigningAgent, for every set of requests, every setting and *)
(* any number of screen locks, and on top of them the gate, the password's *)
(* lock and the counter that tells whose ask was whose. That invariant is  *)
(* TypeOK /\ GateInv /\ LockInv /\ AskInv: the gate makes an ask between   *)
(* `before` and `asked` the request's own, and a second ask of one request *)
(* is excluded by what it feeds to lpass.                                  *)
(***************************************************************************)
EXTENDS SigningAgentInvariant, TLAPS

-----------------------------------------------------------------------------
(* What the shared steps leave behind, by type.                            *)

\* What can be held is a secret of some kind.
LEMMA SecretTypes ==
    UnlockTypeOK => held.secret \in Secrets \cup {"none"} /\ BumpIfHeld \in {0, 1}
BY DEF UnlockTypeOK, Passwords, NoPassword, Secrets, BumpIfHeld

\* Settling keeps the counters and the entries to their types.
LEMMA SettleTypes ==
    ASSUME ApprovalsTypeOK, NEW now \in Nat, NEW a \in Answers,
           NEW q \in Questions \cup {NoQuestion}, NEW wasAsked \in BOOLEAN,
           NEW signed \in BOOLEAN, SettleFrom(now, a, q, wasAsked, signed)
    PROVE  ApprovalsTypeOK'
<1> DEFINE ask == IF wasAsked THEN 1 ELSE 0
<1>1. ask \in {0, 1}
  OBVIOUS
<1>2. locks' = now + ask /\ unlocks' = unlocks
  BY DEF SettleFrom
<1>3. a.epoch + ask \in Nat
  BY <1>1 DEF Answers
<1>4. remembered' \in SUBSET Filed
  <2>1. CASE a.how = "given" /\ q # NoQuestion /\ signed
    <3>1. remembered' = RememberIn(q, a.epoch + ask, now + ask)
      BY <2>1 DEF SettleFrom
    <3>2. [question |-> q, epoch |-> a.epoch + ask] \in Filed
      BY <2>1, <1>3 DEF Filed
    <3> QED
      BY <3>1, <3>2 DEF RememberIn, ApprovalsTypeOK
  <2>2. CASE ~(a.how = "given" /\ q # NoQuestion /\ signed)
    BY <2>2 DEF SettleFrom, ApprovalsTypeOK
  <2> QED
    BY <2>1, <2>2
<1> QED
  BY <1>1, <1>2, <1>4 DEF ApprovalsTypeOK

\* Ending a request keeps its variables to their types.
LEMMA EndTypes ==
    ASSUME RequestsTypeOK, NEW r \in Requests, NEW result \in Outcomes, End(r, result)
    PROVE  RequestsTypeOK'
BY DEF RequestsTypeOK, End, Goto, Steps, Answers, NotNeeded

\* A signature is one of the outcomes.
LEMMA OutcomeTypes ==
    /\ Pending \in Outcomes
    /\ Refused \in Outcomes
    /\ RequestsTypeOK => \A r \in Requests : Signature(r) \in Outcomes
BY DEF Pending, Refused, Outcomes, Signature, RequestsTypeOK, Answers

\* A failure keeps every type.
LEMMA FailTypes ==
    ASSUME TypeOK, NEW now \in Nat, NEW r \in Requests, NEW wasAsked \in BOOLEAN,
           FailFrom(now, r, wasAsked)
    PROVE  ApprovalsTypeOK' /\ RequestsTypeOK' /\ scan' = scan
<1>1. answer[r] \in Answers /\ question[r] \in Questions \cup {NoQuestion}
  BY DEF TypeOK, RequestsTypeOK
<1>2. ApprovalsTypeOK'
  BY <1>1, SettleTypes DEF FailFrom, TypeOK
<1>3. RequestsTypeOK'
  BY EndTypes, OutcomeTypes DEF FailFrom, TypeOK
<1> QED
  BY <1>2, <1>3 DEF FailFrom

\* So does a signature.
LEMMA SignTypes ==
    ASSUME TypeOK, NEW r \in Requests, NEW wasAsked \in BOOLEAN, Sign(r, wasAsked)
    PROVE  /\ ApprovalsTypeOK' /\ RequestsTypeOK'
           /\ scan' \in {"idle", "copying", "reading", "rejecting"}
<1>1. answer[r] \in Answers /\ question[r] \in Questions \cup {NoQuestion} /\ locks \in Nat
  BY DEF TypeOK, RequestsTypeOK, ApprovalsTypeOK
<1>2. ApprovalsTypeOK'
  BY <1>1, SettleTypes DEF Sign, TypeOK
<1>3. RequestsTypeOK'
  BY EndTypes, OutcomeTypes DEF Sign, TypeOK
<1> QED
  BY <1>2, <1>3 DEF Sign, AfterSignature, TypeOK, ScanTypeOK

\* So does what follows a private key read.
LEMMA UsePemTypes ==
    ASSUME TypeOK, NEW r \in Requests, NEW wasAsked \in BOOLEAN, UsePem(r, wasAsked),
           UNCHANGED scanFed
    PROVE  ApprovalsTypeOK' /\ RequestsTypeOK' /\ ScanTypeOK'
<1> USE DEF TypeOK
<1>1. locks \in Nat
  BY DEF ApprovalsTypeOK
<1>2. CASE Fail(r, wasAsked)
  BY <1>1, <1>2, FailTypes DEF Fail, ScanTypeOK
<1>3. CASE Sign(r, wasAsked)
  BY <1>3, SignTypes DEF ScanTypeOK
<1>4. CASE /\ Goto(r, "passCopying")
           /\ asked' = [asked EXCEPT ![r] = wasAsked]
           /\ fed' = [fed EXCEPT ![r] = "none"]
           /\ UNCHANGED <<approvalVars, gate, question, answer, before, outcome, scan, historyVars>>
  BY <1>4 DEF ApprovalsTypeOK, RequestsTypeOK, ScanTypeOK, Goto, Steps, approvalVars, historyVars
<1> QED
  BY <1>2, <1>3, <1>4 DEF UsePem

\* So does a call that only moves its request.
LEMMA ProceedTypes ==
    ASSUME TypeOK, NEW r \in Requests, NEW step \in Steps, Proceed(r, step), UNCHANGED scanFed
    PROVE  ApprovalsTypeOK' /\ RequestsTypeOK' /\ ScanTypeOK'
BY DEF Proceed, TypeOK, ApprovalsTypeOK, RequestsTypeOK, ScanTypeOK, Goto, approvalVars,
       localVars, historyVars

-----------------------------------------------------------------------------
(* Type correctness.                                                       *)

\* The operations of the master password keep its types.
LEMMA UnlockTypes ==
    ASSUME UnlockTypeOK, ApprovalsTypeOK
    PROVE  /\ \A r \in Requests : OpenPrompt(r) /\ UNCHANGED stored
                  => UnlockTypeOK' /\ unlocks' \in Nat
           /\ \A password \in Resolved : Hold(password) /\ UNCHANGED stored
                  => UnlockTypeOK' /\ password.secret \in Secrets
           /\ GiveUp /\ UNCHANGED stored => UnlockTypeOK'
           /\ DropRejected /\ UNCHANGED stored => UnlockTypeOK'
           /\ DropAndBump /\ UNCHANGED stored => UnlockTypeOK' /\ ApprovalsTypeOK'
<1> USE DEF UnlockTypeOK, ApprovalsTypeOK
<1>1. \A r \in Requests : OpenPrompt(r) /\ UNCHANGED stored => UnlockTypeOK' /\ unlocks' \in Nat
  BY DEF OpenPrompt
<1>2. Resolved \subseteq Passwords
  BY DEF Resolved, Passwords
<1>3. \A password \in Resolved : Hold(password) /\ UNCHANGED stored
          => UnlockTypeOK' /\ password.secret \in Secrets
  BY <1>2 DEF Hold, Passwords
<1>4. GiveUp /\ UNCHANGED stored => UnlockTypeOK'
  BY DEF GiveUp
<1>5. DropRejected /\ UNCHANGED stored => UnlockTypeOK'
  BY DEF DropRejected
<1>6. DropAndBump /\ UNCHANGED stored => UnlockTypeOK' /\ ApprovalsTypeOK'
  BY DEF DropAndBump
<1> QED
  BY <1>1, <1>3, <1>4, <1>5, <1>6

\* The first states are typed.
LEMMA TypeInit == Init => TypeOK
<1> SUFFICES ASSUME Init PROVE TypeOK
  OBVIOUS
<1>1. held \in Passwords \cup {NoPassword} /\ stored \in Secrets \cup {"none"}
  BY DEF Init, Passwords, NoPassword, Secrets
<1>2. ApprovalsTypeOK
  BY DEF Init, ApprovalsTypeOK, BumpIfHeld
<1>3. UnlockTypeOK
  BY <1>1 DEF Init, UnlockTypeOK
<1>4. RequestsTypeOK
  BY DEF Init, RequestsTypeOK, Steps, Answers, NotNeeded, Outcomes, Pending
<1>5. ScanTypeOK
  BY DEF Init, ScanTypeOK
<1>6. 0 \in 0..MaxScreenLocks
  BY ScreenAssumption
<1>7. AroundTypeOK
  BY <1>6 DEF Init, AroundTypeOK
<1> QED
  BY <1>2, <1>3, <1>4, <1>5, <1>7 DEF TypeOK

\* Every handler keeps the types.
LEMMA TypeServe ==
    ASSUME TypeOK, NEW r \in Requests, Serve(r)
    PROVE  TypeOK'
<1> USE DEF TypeOK
<1> DEFINE AroundStays == UNCHANGED <<kind, screenVars>>
<1>around. ASSUME AroundStays PROVE AroundTypeOK'
  BY <1>around DEF AroundTypeOK, screenVars
<1>unlock. ASSUME UNCHANGED <<unlockVars, stored>> PROVE UnlockTypeOK'
  BY <1>unlock DEF UnlockTypeOK, unlockVars
<1>approvals. ASSUME UNCHANGED approvalVars PROVE ApprovalsTypeOK'
  BY <1>approvals DEF ApprovalsTypeOK, approvalVars
<1>scan. ASSUME UNCHANGED scanVars PROVE ScanTypeOK'
  BY <1>scan DEF ScanTypeOK, scanVars
<1>locks. locks \in Nat /\ BumpIfHeld \in {0, 1} /\ locks + BumpIfHeld \in Nat
  BY SecretTypes DEF ApprovalsTypeOK
<1>fixed. ASSUME UNCHANGED fixedVars PROVE stored' = stored /\ kind' = kind
  BY <1>fixed DEF fixedVars
<1>1. CASE RefuseAtOnce(r)
  <2>1. RequestsTypeOK'
    BY <1>1, EndTypes, OutcomeTypes DEF RefuseAtOnce
  <2> QED
    BY <2>1, <1>1, <1>around, <1>unlock, <1>approvals, <1>scan, <1>fixed DEF RefuseAtOnce
<1>2. CASE Arrive(r)
  <2>1. RequestsTypeOK'
    BY <1>2 DEF Arrive, RequestsTypeOK, Goto, Steps, localVars, historyVars
  <2> QED
    BY <2>1, <1>2, <1>around, <1>unlock, <1>approvals, <1>scan, <1>fixed DEF Arrive
<1>3. CASE Name(r)
  <2>1. RequestsTypeOK'
    BY <1>3 DEF Name, AnswerFromMemory, RequestsTypeOK, Goto, Steps, historyVars, Answers,
                Remembered, ApprovalsTypeOK
  <2> QED
    BY <2>1, <1>3, <1>around, <1>unlock, <1>approvals, <1>scan, <1>fixed DEF Name
<1>4. CASE EnterToConfirm(r)
  <2>1. RequestsTypeOK'
    BY <1>4 DEF EnterToConfirm, AnswerFromMemory, RequestsTypeOK, Goto, Steps, Answers,
                Remembered, ApprovalsTypeOK
  <2> QED
    BY <2>1, <1>4, <1>around, <1>unlock, <1>approvals, <1>scan, <1>fixed DEF EnterToConfirm
<1>5. CASE Confirm(r)
  <2>1. RequestsTypeOK'
    BY <1>5 DEF Confirm, RequestsTypeOK, Goto, Steps, historyVars, Answers, Given,
                ApprovalsTypeOK
  <2> QED
    BY <2>1, <1>5, <1>around, <1>unlock, <1>approvals, <1>scan, <1>fixed DEF Confirm
<1>6. CASE Deny(r)
  <2>1. RequestsTypeOK'
    BY <1>6, EndTypes, OutcomeTypes DEF Deny
  <2> QED
    BY <2>1, <1>6, <1>around, <1>unlock, <1>approvals, <1>scan, <1>fixed DEF Deny
<1>7. CASE Copy(r)
  <2>1. RequestsTypeOK'
    BY <1>7, SecretTypes DEF Copy, CopiedFor, RequestsTypeOK, Goto, Steps, historyVars
  <2> QED
    BY <2>1, <1>7, <1>around, <1>unlock, <1>approvals, <1>scan, <1>fixed DEF Copy
<1>8. CASE Read(r)
  <2>1. ApprovalsTypeOK' /\ RequestsTypeOK' /\ ScanTypeOK'
    BY <1>8, <1>locks, UsePemTypes, ProceedTypes, FailTypes DEF Read, Steps, Fail, ScanTypeOK
  <2> QED
    BY <2>1, <1>8, <1>around, <1>unlock, <1>fixed DEF Read
<1>9. CASE EnterToAsk(r)
  <2>1. RequestsTypeOK'
    BY <1>9 DEF EnterToAsk, RequestsTypeOK, ApprovalsTypeOK, Goto, Steps, historyVars
  <2> QED
    BY <2>1, <1>9, <1>around, <1>unlock, <1>approvals, <1>scan, <1>fixed DEF EnterToAsk
<1>10. CASE Reread(r)
  <2>1. CountedAnAsk(r) \in BOOLEAN
    BY DEF CountedAnAsk
  <2>2. ApprovalsTypeOK' /\ RequestsTypeOK' /\ ScanTypeOK'
    BY <1>10, <2>1, <1>locks, UsePemTypes, ProceedTypes, FailTypes
    DEF Reread, Steps, Fail, ScanTypeOK
  <2> QED
    BY <2>2, <1>10, <1>around, <1>unlock, <1>fixed DEF Reread
<1>11. CASE Open(r)
  <2>1. UnlockTypeOK' /\ unlocks' \in Nat
    BY <1>11, <1>fixed, <1>unlock, UnlockTypes DEF Open, ApprovalsTypeOK
  <2>2. RequestsTypeOK'
    BY <1>11, SecretTypes DEF Open, RequestsTypeOK, Goto, Steps, historyVars
  <2>3. ApprovalsTypeOK'
    BY <1>11, <2>1 DEF Open, ApprovalsTypeOK
  <2> QED
    BY <2>1, <2>2, <2>3, <1>11, <1>around, <1>scan, <1>fixed DEF Open
<1>12. CASE Resolve(r)
  <2>1. CountedAnAsk(r) \in BOOLEAN
    BY DEF CountedAnAsk
  <2>2. CASE /\ \E password \in Resolved :
                   Hold(password) /\ fed' = [fed EXCEPT ![r] = password.secret]
             /\ Goto(r, "rereading")
             /\ UNCHANGED <<locks, remembered, gate, question, answer, before, asked, outcome,
                            scan, historyVars>>
    <3>1. UnlockTypeOK' /\ RequestsTypeOK' /\ UNCHANGED unlocks
      BY <1>12, <2>2, <1>fixed, UnlockTypes
      DEF Resolve, Hold, RequestsTypeOK, Goto, Steps, historyVars
    <3> QED
      BY <3>1, <2>2, <1>12, <1>around, <1>fixed DEF Resolve, ApprovalsTypeOK, ScanTypeOK
  <2>3. CASE GiveUp /\ Fail(r, CountedAnAsk(r))
    <3>1. UnlockTypeOK'
      BY <1>12, <2>3, <1>fixed, UnlockTypes DEF Resolve
    <3>2. ApprovalsTypeOK' /\ RequestsTypeOK' /\ scan' = scan
      BY <2>1, <2>3, <1>locks, FailTypes DEF Fail
    <3> QED
      BY <3>1, <3>2, <1>12, <1>around, <1>fixed DEF Resolve, ScanTypeOK
  <2> QED
    BY <1>12, <2>2, <2>3 DEF Resolve
<1>13. CASE Reject(r)
  <2> DEFINE wasAsked == IF pc[r] = "rerejecting" THEN CountedAnAsk(r) ELSE asked[r]
  <2>1. wasAsked \in BOOLEAN
    BY DEF CountedAnAsk, RequestsTypeOK
  <2>2. UnlockTypeOK'
    BY <1>13, <1>fixed, UnlockTypes DEF Reject
  <2>3. FailFrom(locks + BumpIfHeld, r, wasAsked)
    BY <1>13 DEF Reject
  <2> HIDE DEF wasAsked
  <2>4. ApprovalsTypeOK' /\ RequestsTypeOK' /\ scan' = scan
    BY <2>1, <2>3, <1>locks, FailTypes
  <2> QED
    BY <2>2, <2>4, <1>13, <1>around, <1>fixed DEF Reject, ScanTypeOK
<1>14. CASE ReadPassphrase(r)
  <2>1. asked[r] \in BOOLEAN
    BY DEF RequestsTypeOK
  <2>2. ApprovalsTypeOK' /\ RequestsTypeOK' /\ ScanTypeOK'
    BY <1>14, <2>1, <1>locks, SignTypes, ProceedTypes, FailTypes
    DEF ReadPassphrase, Steps, Fail, ScanTypeOK
  <2> QED
    BY <2>2, <1>14, <1>around, <1>unlock, <1>fixed DEF ReadPassphrase
<1>15. CASE EnterForPassphrase(r)
  <2>1. RequestsTypeOK'
    BY <1>15 DEF EnterForPassphrase, RequestsTypeOK, Goto, Steps, localVars
  <2> QED
    BY <2>1, <1>15, <1>around, <1>unlock, <1>approvals, <1>scan, <1>fixed
    DEF EnterForPassphrase
<1>16. CASE AnswerPassphrase(r)
  <2>1. asked[r] \in BOOLEAN
    BY DEF RequestsTypeOK
  <2>2. ApprovalsTypeOK' /\ RequestsTypeOK' /\ ScanTypeOK'
    BY <1>16, <2>1, <1>locks, SignTypes, FailTypes DEF AnswerPassphrase, Fail, ScanTypeOK
  <2> QED
    BY <2>2, <1>16, <1>around, <1>unlock, <1>fixed DEF AnswerPassphrase
<1> QED
  BY <1>1, <1>2, <1>3, <1>4, <1>5, <1>6, <1>7, <1>8, <1>9, <1>10, <1>11, <1>12, <1>13, <1>14,
     <1>15, <1>16 DEF Serve

\* So does everything around the requests.
LEMMA TypeBackground ==
    ASSUME TypeOK, Background
    PROVE  TypeOK'
<1> USE DEF TypeOK
<1>requests. ASSUME UNCHANGED requestVars PROVE RequestsTypeOK'
  BY <1>requests DEF RequestsTypeOK, requestVars, localVars, historyVars
<1>around. ASSUME UNCHANGED <<kind, screenVars>> PROVE AroundTypeOK'
  BY <1>around DEF AroundTypeOK, screenVars
<1>unlock. ASSUME UNCHANGED <<unlockVars, stored>> PROVE UnlockTypeOK'
  BY <1>unlock DEF UnlockTypeOK, unlockVars
<1>approvals. ASSUME UNCHANGED approvalVars PROVE ApprovalsTypeOK'
  BY <1>approvals DEF ApprovalsTypeOK, approvalVars
<1>scan. ASSUME UNCHANGED scanVars PROVE ScanTypeOK'
  BY <1>scan DEF ScanTypeOK, scanVars
<1>fixed. ASSUME UNCHANGED fixedVars PROVE stored' = stored /\ kind' = kind
  BY <1>fixed DEF fixedVars
<1>1. CASE ScanCopy
  <2>1. ScanTypeOK'
    BY <1>1, SecretTypes DEF ScanCopy, ScanTypeOK
  <2> QED
    BY <2>1, <1>1, <1>requests, <1>around, <1>unlock, <1>approvals, <1>fixed DEF ScanCopy
<1>2. CASE ScanRead
  <2>1. ScanTypeOK'
    BY <1>2 DEF ScanRead, ScanTypeOK
  <2> QED
    BY <2>1, <1>2, <1>requests, <1>around, <1>unlock, <1>approvals, <1>fixed DEF ScanRead
<1>3. CASE ScanReject
  <2>1. UnlockTypeOK'
    BY <1>3, <1>fixed, UnlockTypes DEF ScanReject
  <2>2. ApprovalsTypeOK'
    BY <1>3, SecretTypes DEF ScanReject, ApprovalsTypeOK
  <2>3. ScanTypeOK'
    BY <1>3 DEF ScanReject, ScanTypeOK
  <2> QED
    BY <2>1, <2>2, <2>3, <1>3, <1>requests, <1>around, <1>fixed DEF ScanReject
<1>4. CASE ShellTurns
  <2>1. AroundTypeOK'
    BY <1>4, <1>fixed DEF ShellTurns, AroundTypeOK
  <2> QED
    BY <2>1, <1>4, <1>requests, <1>unlock, <1>approvals, <1>scan, <1>fixed DEF ShellTurns
<1>5. CASE ScreenLocks
  <2>1. screenLocks' \in 0..MaxScreenLocks
    BY <1>5, ScreenAssumption DEF ScreenLocks, AroundTypeOK
  <2>2. AroundTypeOK'
    BY <2>1, <1>5, <1>fixed DEF ScreenLocks, AroundTypeOK
  <2> QED
    BY <2>2, <1>5, <1>requests, <1>unlock, <1>approvals, <1>scan, <1>fixed DEF ScreenLocks
<1>6. CASE Forget
  <2>1. AroundTypeOK'
    BY <1>6, <1>fixed DEF Forget, AroundTypeOK
  <2> QED
    BY <2>1, <1>6, <1>requests, <1>scan, <1>fixed, UnlockTypes DEF Forget
<1>7. CASE ExpireIfIdle
  BY <1>7, <1>requests, <1>around, <1>scan, <1>fixed, UnlockTypes DEF ExpireIfIdle, DropIfIdle
<1> QED
  BY <1>1, <1>2, <1>3, <1>4, <1>5, <1>6, <1>7 DEF Background

\* So does a step that changes nothing.
LEMMA TypeStutter ==
    ASSUME TypeOK, UNCHANGED vars
    PROVE  TypeOK'
BY DEF TypeOK, ApprovalsTypeOK, UnlockTypeOK, RequestsTypeOK, ScanTypeOK, AroundTypeOK, vars,
       approvalVars, unlockVars, localVars, screenVars, scanVars, historyVars, fixedVars

(***************************************************************************)
(* Every variable keeps to its type, whatever the requests, the settings   *)
(* and the number of times the screen locks.                               *)
(***************************************************************************)
THEOREM TypeCorrect == Spec => []TypeOK
<1>1. TypeOK /\ [Next]_vars => TypeOK'
  BY TypeServe, TypeBackground, TypeStutter DEF Next
<1> QED
  BY <1>1, TypeInit, PTL DEF Spec

-----------------------------------------------------------------------------
(* The gate, the lock and the counter of asks.                              *)

TurnInv == TypeOK /\ GateInv /\ LockInv /\ AskInv

\* The first states satisfy it.
LEMMA TurnInit == Init => TurnInv
<1> SUFFICES ASSUME Init PROVE TurnInv
  OBVIOUS
<1>1. TypeOK
  BY TypeInit
<1>2. GateInv
  BY DEF Init, GateInv, GatedSteps
<1>3. LockInv
  BY DEF Init, LockInv
<1>4. AskInv
  BY SecretTypes, <1>1
  DEF Init, AskInv, CountingSteps, SettledSteps, TypeOK, BumpIfHeld
<1> QED
  BY <1>1, <1>2, <1>3, <1>4 DEF TurnInv

-----------------------------------------------------------------------------
(* The shared steps.                                                       *)

\* A request that ends gives its gate back and takes its asks with it.
LEMMA EndTurns ==
    ASSUME TurnInv, NEW r \in Requests, NEW result, End(r, result), UNCHANGED unlocks
    PROVE  GateInv' /\ AskInv'
<1> USE DEF TurnInv, TypeOK, RequestsTypeOK, ApprovalsTypeOK
<1>1. GateInv'
  BY DEF GateInv, End, Goto, GatedSteps
<1>2. AskInv'
  BY DEF AskInv, End, Goto, CountingSteps, SettledSteps, CountedAnAsk
<1> QED
  BY <1>1, <1>2

\* Leaving the gate and every count alone, to a step whose conditions hold.
LEMMA MoveTurns ==
    ASSUME TurnInv, NEW r \in Requests, NEW step, Goto(r, step),
           step \in GatedSteps => gate = r,
           step \in CountingSteps => pc[r] \in CountingSteps,
           step \in SettledSteps => pc[r] \in SettledSteps \/ (r \notin opened /\ ~asked[r]),
           step \notin SettledSteps => pc[r] \notin SettledSteps,
           step \notin CountingSteps \cup SettledSteps => r \notin opened,
           step = "opening" => r \notin opened,
           step \notin {"recopying", "rereading"},
           UNCHANGED <<unlocks, gate, before, asked, fed, historyVars>>
    PROVE  GateInv' /\ AskInv'
<1> USE DEF TurnInv, TypeOK, RequestsTypeOK, ApprovalsTypeOK, historyVars
<1>1. GateInv'
  BY DEF GateInv, Goto, GatedSteps
<1>2. AskInv'
  BY DEF AskInv, Goto, CountingSteps, SettledSteps, CountedAnAsk
<1> QED
  BY <1>1, <1>2

\* The lock's holder stays where it is while another request moves.
LEMMA LockStays ==
    ASSUME TurnInv, NEW r \in Requests, pc[r] # "prompting", NEW step, Goto(r, step),
           UNCHANGED <<held, asker>>
    PROVE  LockInv'
BY DEF TurnInv, TypeOK, UnlockTypeOK, RequestsTypeOK, LockInv, Goto

\* The lock belongs to the request at its prompt, and to no other.
LEMMA LockTaken ==
    ASSUME LockFree, UNCHANGED asker
    PROVE  LockInv'
BY DEF LockFree, LockInv

\* However a request ends, it is settled first, and the ask counter is left alone.
LEMMA Endings ==
    ASSUME NEW r \in Requests, NEW wasAsked
    PROVE  /\ \A now : FailFrom(now, r, wasAsked) => End(r, Refused) /\ UNCHANGED unlocks
           /\ Fail(r, wasAsked) => End(r, Refused) /\ UNCHANGED unlocks
           /\ Sign(r, wasAsked)
                => /\ End(r, Refused) \/ End(r, Signature(r))
                   /\ UNCHANGED unlocks
BY DEF Fail, FailFrom, Sign, SettleFrom

\* What follows a private key read, up to the passphrase or the end.
LEMMA UsePemTurns ==
    ASSUME TurnInv, NEW r \in Requests, NEW wasAsked \in BOOLEAN, UsePem(r, wasAsked),
           pc[r] # "prompting", UNCHANGED <<held, asker>>,
           wasAsked <=> r \in opened
    PROVE  GateInv' /\ AskInv' /\ LockInv'
<1>1. CASE \E result : End(r, result) /\ UNCHANGED unlocks
  BY <1>1, EndTurns, LockStays DEF End
<1>2. CASE /\ Goto(r, "passCopying")
           /\ asked' = [asked EXCEPT ![r] = wasAsked]
           /\ fed' = [fed EXCEPT ![r] = "none"]
           /\ UNCHANGED <<approvalVars, gate, question, answer, before, outcome, scan, historyVars>>
  <2> USE DEF TurnInv, TypeOK, RequestsTypeOK, ApprovalsTypeOK, historyVars, approvalVars
  <2>1. GateInv'
    BY <1>2 DEF GateInv, Goto, GatedSteps
  <2>2. AskInv'
    BY <1>2 DEF AskInv, Goto, CountingSteps, SettledSteps, CountedAnAsk
  <2> QED
    BY <1>2, <2>1, <2>2, LockStays
<1> QED
  BY <1>1, <1>2, Endings DEF UsePem

\* Entering the gate finds nobody else in conversation.
LEMMA GateEntered ==
    ASSUME TurnInv, NEW r \in Requests, GateOpen(r)
    PROVE  /\ \A s \in Requests : pc[s] \in GatedSteps => s = r
           /\ spoke \subseteq {r}
           /\ opened \subseteq {r}
BY RequestAssumption DEF TurnInv, GateInv, GateOpen, TypeOK, RequestsTypeOK

\* A call that came to nothing but its next step.
LEMMA ProceedTurns ==
    ASSUME TurnInv, NEW r \in Requests, NEW step, Proceed(r, step),
           pc[r] \in {"reading", "rereading", "passReading"}, UNCHANGED <<held, asker>>,
           \/ step \in {"waking", "rejecting"} /\ pc[r] = "reading"
           \/ step = "opening" /\ pc[r] = "rereading" /\ r \notin opened
           \/ step = "rerejecting" /\ pc[r] = "rereading"
           \/ step \in {"passGating", "rejecting"} /\ pc[r] = "passReading"
    PROVE  GateInv' /\ AskInv' /\ LockInv'
<1>1. r \in opened => gate = r
  BY DEF TurnInv, GateInv
<1>2. pc[r] \in GatedSteps => gate = r
  BY DEF TurnInv, GateInv
<1>3. pc[r] \notin SettledSteps => ~asked[r]
  BY DEF TurnInv, AskInv
<1>4. pc[r] \notin CountingSteps \cup SettledSteps => r \notin opened
  BY DEF TurnInv, AskInv
<1>5. GateInv' /\ AskInv'
  BY <1>1, <1>2, <1>3, <1>4, MoveTurns
  DEF Proceed, GatedSteps, CountingSteps, SettledSteps, approvalVars, localVars, historyVars
<1>6. LockInv'
  BY LockStays DEF Proceed
<1> QED
  BY <1>5, <1>6

-----------------------------------------------------------------------------
(* Every step of a request.                                                *)

\* Every handler keeps the gate, the lock and the asks in order.
LEMMA TurnServe ==
    ASSUME TurnInv, NEW r \in Requests, Serve(r)
    PROVE  TurnInv'
<1>type. TypeOK'
  BY TypeServe DEF TurnInv
<1>unlocks. ASSUME UNCHANGED approvalVars PROVE UNCHANGED unlocks
  BY <1>unlocks DEF approvalVars
<1>lock. ASSUME UNCHANGED unlockVars PROVE UNCHANGED <<held, asker>>
  BY <1>lock DEF unlockVars
<1>settled. pc[r] \notin SettledSteps => ~asked[r]
  BY DEF TurnInv, AskInv
<1>opened. pc[r] \notin CountingSteps \cup SettledSteps => r \notin opened
  BY DEF TurnInv, AskInv
<1>gated. pc[r] \in GatedSteps => gate = r
  BY DEF TurnInv, GateInv
<1>1. CASE RefuseAtOnce(r)
  BY <1>1, <1>type, <1>unlocks, <1>lock, EndTurns, LockStays DEF RefuseAtOnce, End, TurnInv
<1>2. CASE Arrive(r)
  <2>1. GateInv' /\ AskInv'
    BY <1>2, <1>settled, <1>opened, <1>unlocks, MoveTurns
    DEF Arrive, GatedSteps, CountingSteps, SettledSteps, localVars
  <2> QED
    BY <2>1, <1>2, <1>type, <1>lock, LockStays DEF Arrive, TurnInv
<1>3. CASE Name(r)
  <2>1. \E step \in {"copying", "approving"} : Goto(r, step)
    BY <1>3 DEF Name, AnswerFromMemory
  <2>2. GateInv' /\ AskInv'
    BY <2>1, <1>3, <1>settled, <1>opened, <1>unlocks, MoveTurns
    DEF Name, GatedSteps, CountingSteps, SettledSteps, localVars
  <2> QED
    BY <2>1, <2>2, <1>3, <1>type, <1>lock, LockStays DEF Name, TurnInv
<1>4. CASE EnterToConfirm(r)
  <2>1. \E step \in {"copying", "confirming"} : Goto(r, step)
    BY <1>4 DEF EnterToConfirm, AnswerFromMemory
  <2>2. GateInv'
    <3>1. /\ \A s \in Requests : pc'[s] \in GatedSteps => s = r
          /\ spoke' \subseteq {r} /\ opened' \subseteq {r}
      BY <2>1, <1>4, GateEntered DEF EnterToConfirm, Goto, TurnInv, TypeOK, RequestsTypeOK
    <3> QED
      BY <3>1, <1>4 DEF EnterToConfirm, GateInv
  <2>3. AskInv'
    BY <2>1, <1>4, <1>unlocks
    DEF EnterToConfirm, Goto, AskInv, CountingSteps, SettledSteps, CountedAnAsk, TurnInv,
        TypeOK, RequestsTypeOK
  <2> QED
    BY <2>1, <2>2, <2>3, <1>4, <1>type, <1>lock, LockStays DEF EnterToConfirm, TurnInv
<1>5. CASE Confirm(r)
  <2>1. GateInv' /\ AskInv'
    BY <1>5, <1>settled, <1>opened, <1>unlocks, MoveTurns
    DEF Confirm, GatedSteps, CountingSteps, SettledSteps
  <2> QED
    BY <2>1, <1>5, <1>type, <1>lock, LockStays DEF Confirm, TurnInv
<1>6. CASE Deny(r)
  BY <1>6, <1>type, <1>unlocks, <1>lock, EndTurns, LockStays DEF Deny, End, TurnInv
<1>7. CASE Copy(r)
  <2>1. \/ pc[r] = "copying" /\ Goto(r, "reading")
        \/ pc[r] = "recopying" /\ Goto(r, "rereading")
        \/ pc[r] = "passCopying" /\ Goto(r, "passReading")
    BY <1>7 DEF Copy, CopiedFor
  <2>2. GateInv'
    BY <2>1, <1>7 DEF Copy, Goto, GateInv, GatedSteps, TurnInv, TypeOK, RequestsTypeOK,
                     historyVars
  <2>3. AskInv'
    BY <2>1, <1>7, <1>unlocks
    DEF Copy, Goto, AskInv, CountingSteps, SettledSteps, CountedAnAsk, TurnInv, TypeOK,
        RequestsTypeOK, historyVars
  <2> QED
    BY <2>1, <2>2, <2>3, <1>7, <1>type, <1>lock, LockStays DEF Copy, TurnInv
<1>8. CASE Read(r)
  <2>1. CASE Opens(fed[r]) /\ UsePem(r, FALSE)
    BY <2>1, <1>8, <1>type, <1>lock, <1>opened, UsePemTurns
    DEF Read, TurnInv, CountingSteps, SettledSteps
  <2>2. CASE \E step \in {"waking", "rejecting"} : Proceed(r, step)
    BY <2>2, <1>8, <1>type, <1>lock, ProceedTurns DEF Read, TurnInv
  <2>3. CASE Fail(r, FALSE)
    BY <2>3, <1>8, <1>type, <1>lock, Endings, EndTurns, LockStays DEF Read, End, TurnInv
  <2> QED
    BY <1>8, <2>1, <2>2, <2>3 DEF Read
<1>9. CASE EnterToAsk(r)
  <2>1. GateInv'
    <3>1. /\ \A s \in Requests : pc'[s] \in GatedSteps => s = r
          /\ spoke' \subseteq {r} /\ opened' \subseteq {r}
      BY <1>9, GateEntered
      DEF EnterToAsk, Goto, TurnInv, TypeOK, RequestsTypeOK, historyVars
    <3> QED
      BY <3>1, <1>9 DEF EnterToAsk, GateInv
  <2>2. AskInv'
    BY <1>9, <1>unlocks
    DEF EnterToAsk, Goto, AskInv, CountingSteps, SettledSteps, CountedAnAsk, TurnInv, TypeOK,
        RequestsTypeOK, ApprovalsTypeOK, historyVars
  <2> QED
    BY <2>1, <2>2, <1>9, <1>type, <1>lock, LockStays DEF EnterToAsk, TurnInv
<1>10. CASE Reread(r)
  <2>1. CountedAnAsk(r) \in BOOLEAN /\ (CountedAnAsk(r) <=> r \in opened)
    BY <1>10 DEF Reread, CountedAnAsk, TurnInv, AskInv, CountingSteps
  <2>2. CASE Opens(fed[r]) /\ UsePem(r, CountedAnAsk(r))
    BY <2>1, <2>2, <1>10, <1>type, <1>lock, UsePemTurns DEF Reread, TurnInv
  <2>3. CASE FindsLocked(fed[r]) /\ Proceed(r, "opening")
    <3>1. r \notin opened
      BY <2>3, <1>10 DEF Reread, FindsLocked, TurnInv, AskInv
    <3> QED
      BY <3>1, <2>3, <1>10, <1>type, <1>lock, ProceedTurns DEF Reread, TurnInv
  <2>4. CASE Proceed(r, "rerejecting")
    BY <2>4, <1>10, <1>type, <1>lock, ProceedTurns DEF Reread, TurnInv
  <2>5. CASE Fail(r, CountedAnAsk(r))
    BY <2>5, <1>10, <1>type, <1>lock, Endings, EndTurns, LockStays DEF Reread, End, TurnInv
  <2> QED
    BY <1>10, <2>2, <2>3, <2>4, <2>5 DEF Reread
<1>11. CASE Open(r)
  <2>1. gate = r /\ r \notin opened
    BY <1>11 DEF Open, TurnInv, GateInv, AskInv, GatedSteps
  <2>2. CASE UNCHANGED <<unlockVars, unlocks, historyVars>>
    <3>1. fed' = [fed EXCEPT ![r] = held.secret] /\ Goto(r, "rereading") /\ UNCHANGED gate
      BY <2>2, <1>11, <2>1 DEF Open, historyVars, OpenPrompt, TurnInv, TypeOK, ApprovalsTypeOK
    <3>2. GateInv'
      BY <3>1, <2>1, <2>2 DEF Goto, GateInv, GatedSteps, TurnInv, TypeOK, RequestsTypeOK,
                              historyVars
    <3>3. AskInv'
      BY <3>1, <2>1, <2>2, <1>11
      DEF Open, Goto, AskInv, CountingSteps, SettledSteps, CountedAnAsk, TurnInv, TypeOK,
          RequestsTypeOK, historyVars
    <3> QED
      BY <3>1, <3>2, <3>3, <2>2, <1>11, <1>type, <1>lock, LockStays DEF Open, TurnInv
  <2>3. CASE /\ OpenPrompt(r)
             /\ Goto(r, "prompting")
             /\ spoke' = spoke \cup {r}
             /\ opened' = opened \cup {r}
             /\ UNCHANGED fed
    <3>1. GateInv'
      BY <2>1, <2>3, <1>11 DEF Open, Goto, GateInv, GatedSteps, TurnInv, TypeOK, RequestsTypeOK
    <3>2. \A s \in Requests : pc[s] \in CountingSteps => s = r
      BY <2>1 DEF TurnInv, GateInv, CountingSteps, GatedSteps
    <3>3. unlocks = before[r] /\ unlocks \in Nat /\ unlocks' = unlocks + 1
      BY <2>1, <2>3, <1>11 DEF Open, OpenPrompt, TurnInv, AskInv, CountingSteps, CountedAnAsk,
                               TypeOK, ApprovalsTypeOK
    <3>4. AskInv'
      BY <2>1, <2>3, <3>2, <3>3, <1>11
      DEF Open, Goto, AskInv, CountingSteps, SettledSteps, CountedAnAsk, TurnInv, TypeOK,
          RequestsTypeOK
    <3>5. LockInv'
      BY <2>3 DEF OpenPrompt, LockInv, Goto, TurnInv, TypeOK, RequestsTypeOK
    <3> QED
      BY <3>1, <3>4, <3>5, <1>type DEF TurnInv
  <2> QED
    BY <1>11, <2>2, <2>3 DEF Open
<1>12. CASE Resolve(r)
  <2>1. LockInv'
    BY <1>12 DEF Resolve, Hold, GiveUp, LockInv
  <2>2. CASE GiveUp /\ Fail(r, CountedAnAsk(r))
    BY <2>1, <2>2, <1>type, Endings, EndTurns DEF TurnInv
  <2>3. CASE /\ \E password \in Resolved :
                   Hold(password) /\ fed' = [fed EXCEPT ![r] = password.secret]
             /\ Goto(r, "rereading")
             /\ UNCHANGED <<locks, remembered, gate, question, answer, before, asked, outcome,
                            scan, historyVars>>
    <3>1. PICK password \in Resolved :
              Hold(password) /\ fed' = [fed EXCEPT ![r] = password.secret]
      BY <2>3
    <3>2. password.secret # "none" /\ UNCHANGED unlocks
      BY <3>1 DEF Hold, Resolved, Secrets
    <3>3. GateInv'
      BY <2>3, <1>12 DEF Resolve, Goto, GateInv, GatedSteps, TurnInv, TypeOK, RequestsTypeOK,
                         historyVars
    <3>4. AskInv'
      BY <2>3, <3>1, <3>2, <1>12
      DEF Resolve, Goto, AskInv, CountingSteps, SettledSteps, CountedAnAsk, TurnInv, TypeOK,
          RequestsTypeOK, historyVars
    <3> QED
      BY <2>1, <3>3, <3>4, <1>type DEF TurnInv
  <2> QED
    BY <1>12, <2>2, <2>3 DEF Resolve
<1>13. CASE Reject(r)
  <2>1. LockInv'
    BY <1>13, LockTaken DEF Reject, DropRejected
  <2>2. End(r, Refused) /\ UNCHANGED unlocks
    BY <1>13, Endings DEF Reject
  <2> QED
    BY <2>1, <2>2, <1>type, EndTurns DEF TurnInv
<1>14. CASE ReadPassphrase(r)
  <2>1. CASE \E step \in {"passGating", "rejecting"} : Proceed(r, step)
    BY <2>1, <1>14, <1>type, <1>lock, ProceedTurns DEF ReadPassphrase, TurnInv
  <2>2. CASE Sign(r, asked[r]) \/ Fail(r, asked[r])
    BY <2>2, <1>14, <1>type, <1>lock, Endings, EndTurns, LockStays
    DEF ReadPassphrase, End, TurnInv
  <2> QED
    BY <1>14, <2>1, <2>2 DEF ReadPassphrase
<1>15. CASE EnterForPassphrase(r)
  <2>1. GateInv'
    <3>1. /\ \A s \in Requests : pc'[s] \in GatedSteps => s = r
          /\ spoke' \subseteq {r} /\ opened' \subseteq {r}
      BY <1>15, GateEntered DEF EnterForPassphrase, Goto, TurnInv, TypeOK, RequestsTypeOK
    <3> QED
      BY <3>1, <1>15 DEF EnterForPassphrase, GateInv
  <2>2. AskInv'
    BY <1>15, <1>unlocks
    DEF EnterForPassphrase, Goto, AskInv, CountingSteps, SettledSteps, CountedAnAsk, TurnInv,
        TypeOK, RequestsTypeOK, localVars
  <2> QED
    BY <2>1, <2>2, <1>15, <1>type, <1>lock, LockStays DEF EnterForPassphrase, TurnInv
<1>16. CASE AnswerPassphrase(r)
  BY <1>16, <1>type, <1>lock, Endings, EndTurns, LockStays DEF AnswerPassphrase, End, TurnInv
<1> QED
  BY <1>1, <1>2, <1>3, <1>4, <1>5, <1>6, <1>7, <1>8, <1>9, <1>10, <1>11, <1>12, <1>13, <1>14,
     <1>15, <1>16 DEF Serve

-----------------------------------------------------------------------------
(* Every step around the requests.                                         *)

\* So does everything around the requests.
LEMMA TurnBackground ==
    ASSUME TurnInv, Background
    PROVE  TurnInv'
<1>1. TypeOK'
  BY TypeBackground DEF TurnInv
<1>2. UNCHANGED <<requestVars, unlocks>>
  BY DEF Background, ScanCopy, ScanRead, ScanReject, ShellTurns, ScreenLocks, Forget,
         ExpireIfIdle, DropIfIdle, DropAndBump, approvalVars
<1>3. GateInv' /\ AskInv'
  BY <1>2 DEF TurnInv, GateInv, AskInv, CountedAnAsk, requestVars, localVars, historyVars
<1>4. \/ UNCHANGED <<held, asker>>
      \/ LockFree /\ UNCHANGED asker
  BY DEF Background, ScanCopy, ScanRead, ScanReject, ShellTurns, ScreenLocks, Forget,
         ExpireIfIdle, DropIfIdle, DropAndBump, DropRejected, unlockVars
<1>5. LockInv'
  BY <1>2, <1>4 DEF TurnInv, LockInv, LockFree, requestVars
<1> QED
  BY <1>1, <1>3, <1>5 DEF TurnInv

\* Every step does.
LEMMA TurnStep == TurnInv /\ [Next]_vars => TurnInv'
<1>1. ASSUME TurnInv, UNCHANGED vars PROVE TurnInv'
  <2>1. TypeOK'
    BY <1>1, TypeStutter DEF TurnInv
  <2>2. GateInv' /\ LockInv' /\ AskInv'
    BY <1>1 DEF TurnInv, GateInv, LockInv, AskInv, CountedAnAsk, vars, approvalVars,
                unlockVars, localVars, historyVars
  <2> QED
    BY <2>1, <2>2 DEF TurnInv
<1> QED
  BY <1>1, TurnServe, TurnBackground DEF Next

\* Who holds the gate and the lock, and who has asked, in every reachable state.
THEOREM TurnsKept == Spec => []TurnInv
BY TurnInit, TurnStep, PTL DEF Spec

(***************************************************************************)
(* However many requests there are, two of them never have prompts up      *)
(* between their first prompt and their end: whoever has spoken holds the  *)
(* gate (InteractionGate).                                                 *)
(***************************************************************************)
THEOREM OnlyOneConversation == Spec => []OneConversation
<1>1. TurnInv => OneConversation
  BY DEF TurnInv, GateInv, OneConversation
<1> QED
  BY <1>1, TurnsKept, PTL

(***************************************************************************)
(* The unlocks counter, read twice under the gate, charges an ask to the   *)
(* request that made it and to no other (fetch_private_key).               *)
(***************************************************************************)
THEOREM AsksAreOwn == Spec => []AskIsOwn
<1>1. TurnInv => AskIsOwn
  BY DEF TurnInv, AskInv, AskIsOwn, CountingSteps, SettledSteps
<1> QED
  BY <1>1, TurnsKept, PTL

(***************************************************************************)
(* A store that lpass refused supplies nothing that is held again          *)
(* (Unlock::rejected, master::resolve).                                    *)
(***************************************************************************)
THEOREM RejectedStoreStaysOut == Spec => []RejectedStoreIsNotHeld
<1>1. Init => RejectedStoreIsNotHeld
  BY DEF Init, RejectedStoreIsNotHeld
<1>2. ASSUME RejectedStoreIsNotHeld, [Next]_vars PROVE RejectedStoreIsNotHeld'
  <2>1. CASE UNCHANGED <<held, storeRejected>>
    BY <1>2, <2>1 DEF RejectedStoreIsNotHeld
  <2>2. CASE DropRejected \/ DropAndBump
    <3>1. held' = NoPassword
      BY <2>2 DEF DropRejected, DropAndBump
    <3>2. NoPassword.from # "store"
      BY DEF NoPassword
    <3> QED
      BY <3>1, <3>2 DEF RejectedStoreIsNotHeld
  <2>3. CASE \E password \in Resolved : Hold(password)
    BY <1>2, <2>3 DEF Resolved, Hold, RejectedStoreIsNotHeld
  <2>4. [Next]_vars => \/ UNCHANGED <<held, storeRejected>>
                      \/ DropRejected \/ DropAndBump
                      \/ \E password \in Resolved : Hold(password)
    <3>1. ASSUME NEW r \in Requests, Serve(r)
          PROVE  \/ UNCHANGED <<held, storeRejected>>
                 \/ DropRejected
                 \/ \E password \in Resolved : Hold(password)
      BY <3>1 DEF Serve, RefuseAtOnce, Arrive, Name, EnterToConfirm, Confirm, Deny, Copy, Read,
                  EnterToAsk, Reread, Open, OpenPrompt, Resolve, GiveUp, Reject, ReadPassphrase,
                  EnterForPassphrase, AnswerPassphrase, unlockVars
    <3>2. Background => \/ UNCHANGED <<held, storeRejected>>
                        \/ DropRejected \/ DropAndBump
      BY DEF Background, ScanCopy, ScanRead, ScanReject, ShellTurns, ScreenLocks, Forget,
             ExpireIfIdle, DropIfIdle, unlockVars
    <3> QED
      BY <3>1, <3>2 DEF Next, vars, unlockVars
  <2> QED
    BY <1>2, <2>1, <2>2, <2>3, <2>4
<1> QED
  BY <1>1, <1>2, PTL DEF Spec
=============================================================================
