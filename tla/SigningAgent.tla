---------------------------- MODULE SigningAgent ----------------------------
(***************************************************************************)
(* The signing path of the agent: every request `LpassAgent::sign` serves  *)
(* (src/src/agent.rs), the interaction gate they share, the lpass calls    *)
(* they make, the master password and the approvals, the background scan a *)
(* signature sets off, and the screen lock and the idle time that drop the *)
(* password under them.                                                    *)
(*                                                                         *)
(* The program runs on one thread (main.rs picks tokio's current_thread    *)
(* flavor), so what stands between two awaits is one action                *)
(* here, and `pc` names the await a request is standing at.                *)
(*                                                                         *)
(*    naming -> approving -> confirming           approval_for             *)
(*    copying -> reading                          the quiet fetch          *)
(*    waking -> recopying -> rereading            the fetch that may ask   *)
(*    opening -> prompting -> rereading           the ask                  *)
(*    passCopying -> passReading                  the passphrase           *)
(*    passGating -> passPrompting                 the passphrase's prompt  *)
(*                                                                         *)
(* and after a read, rejecting or rerejecting when lpass has refused the   *)
(* password it was fed. Every path ends in done.                           *)
(***************************************************************************)
EXTENDS Unlock

CONSTANTS
    KeyKinds,           \* the kinds of key served: confirmed or not, encrypted or not
    PassphraseFallback, \* "error", or "ask" for every fallback that reaches the user
    MaxScreenLocks      \* a bound on how often the screen locks

ASSUME KindAssumption == KeyKinds \subseteq [confirm : BOOLEAN, encrypted : BOOLEAN]
ASSUME FallbackAssumption == PassphraseFallback \in {"error", "ask"}
ASSUME ScreenAssumption == MaxScreenLocks \in Nat

VARIABLES
    gate,               \* the request holding the interaction gate, or NoRequest
    pc,
    kind,               \* the key each request is for; fixed by the request
    question,           \* what the request's prompt asks, or was answered from memory
    answer,             \* its Answer
    before,             \* `before` of fetch_private_key: unlocks read under the gate
    asked,              \* Fetch.asked
    fed,                \* the secret fed to the lpass call in flight
    outcome,            \* what the request came to
    shell,              \* lpass finds an agent a shell left running
    forgetting,         \* the screen watcher is inside VaultKey::forget
    screenLocks,        \* how often the screen has locked
    scan,               \* where the background scan stands; "idle" is running = false
    scanFed,
    spoke,              \* history: unfinished requests that have shown a prompt
    opened              \* history: unfinished requests that asked for the master password

approvalVars == <<locks, unlocks, remembered>>
unlockVars == <<held, asker, storeRejected>>
localVars == <<question, answer, before, asked, fed>>
screenVars == <<shell, forgetting, screenLocks>>
scanVars == <<scan, scanFed>>
historyVars == <<spoke, opened>>
fixedVars == <<stored, kind>>
vars == <<approvalVars, unlockVars, gate, pc, localVars, outcome, screenVars, scanVars,
          historyVars, fixedVars>>

Steps == {"absent", "naming", "approving", "confirming", "copying", "reading", "waking",
          "recopying", "rereading", "opening", "prompting", "passCopying", "passReading",
          "passGating", "passPrompting", "rejecting", "rerejecting", "done"}

Outcomes == [how : {"pending", "refused", "unconfirmed", "confirmed", "remembered"},
             question : Questions \cup {NoQuestion}]
Pending == [how |-> "pending", question |-> NoQuestion]
Refused == [how |-> "refused", question |-> NoQuestion]

RequestsTypeOK ==
    /\ gate \in Requests \cup {NoRequest}
    /\ pc \in [Requests -> Steps]
    /\ question \in [Requests -> Questions \cup {NoQuestion}]
    /\ answer \in [Requests -> Answers]
    /\ before \in [Requests -> Nat]
    /\ asked \in [Requests -> BOOLEAN]
    /\ fed \in [Requests -> Secrets \cup {"none"}]
    /\ outcome \in [Requests -> Outcomes]
    /\ spoke \in SUBSET Requests
    /\ opened \in SUBSET Requests

ScanTypeOK ==
    /\ scan \in {"idle", "copying", "reading", "rejecting"}
    /\ scanFed \in Secrets \cup {"none"}

AroundTypeOK ==
    /\ kind \in [Requests -> KeyKinds]
    /\ shell \in BOOLEAN
    /\ forgetting \in BOOLEAN
    /\ screenLocks \in 0..MaxScreenLocks

TypeOK ==
    /\ ApprovalsTypeOK
    /\ UnlockTypeOK
    /\ RequestsTypeOK
    /\ ScanTypeOK
    /\ AroundTypeOK

(***************************************************************************)
(* commands::start::run up to listening. A start that scanned a locked     *)
(* vault has asked for the password already and holds it: a wrong one      *)
(* would have ended the start. at_startup has set the first scan off.      *)
(***************************************************************************)
Init ==
    /\ locks = 0
    /\ remembered = {}
    /\ stored \in IF TouchId THEN Secrets \cup {"none"} ELSE {"none"}
    /\ held \in {NoPassword, [secret |-> "right", from |-> "prompt"]}
                \cup {p \in Passwords : TouchId /\ stored = "right" /\ p.secret = "right"}
    /\ unlocks = BumpIfHeld
    /\ asker = NoRequest
    /\ storeRejected = FALSE
    /\ gate = NoRequest
    /\ pc = [r \in Requests |-> "absent"]
    /\ kind \in [Requests -> KeyKinds]
    /\ question = [r \in Requests |-> NoQuestion]
    /\ answer = [r \in Requests |-> NotNeeded]
    /\ before = [r \in Requests |-> 0]
    /\ asked = [r \in Requests |-> FALSE]
    /\ fed = [r \in Requests |-> "none"]
    /\ outcome = [r \in Requests |-> Pending]
    /\ shell \in BOOLEAN
    /\ forgetting = FALSE
    /\ screenLocks = 0
    /\ scan = "copying"
    /\ scanFed = "none"
    /\ spoke = {}
    /\ opened = {}

-----------------------------------------------------------------------------
(* What lpass can answer, by the secret it was fed. A shell's agent is     *)
(* used whatever was fed; a timeout, a failed spawn or a logged-out vault  *)
(* can befall any call.                                                    *)

Opens(secret) == shell \/ secret = "right"
FindsLocked(secret) == ~shell /\ secret = "none"
Refuses(secret) == ~shell /\ secret = "wrong"

-----------------------------------------------------------------------------
(* The steps shared by the handlers.                                       *)

Goto(r, step) == pc' = [pc EXCEPT ![r] = step]

\* InteractionGate::enter: at once for the request that holds the gate.
GateOpen(r) == gate \in {r, NoRequest}

\* A variant that must fail: the gate stays held after the request.
EndKeepingGate(r, result) ==
    /\ Goto(r, "done")
    /\ outcome' = [outcome EXCEPT ![r] = result]
    /\ gate' = gate
    /\ question' = [question EXCEPT ![r] = NoQuestion]
    /\ answer' = [answer EXCEPT ![r] = NotNeeded]
    /\ before' = [before EXCEPT ![r] = 0]
    /\ asked' = [asked EXCEPT ![r] = FALSE]
    /\ fed' = [fed EXCEPT ![r] = "none"]
    /\ spoke' = spoke \ {r}
    /\ opened' = opened \ {r}

(***************************************************************************)
(* The end of the request: its gate and its locals go out of scope.        *)
(***************************************************************************)
End(r, result) ==
    /\ Goto(r, "done")
    /\ outcome' = [outcome EXCEPT ![r] = result]
    /\ gate' = IF gate = r THEN NoRequest ELSE gate
    /\ question' = [question EXCEPT ![r] = NoQuestion]
    /\ answer' = [answer EXCEPT ![r] = NotNeeded]
    /\ before' = [before EXCEPT ![r] = 0]
    /\ asked' = [asked EXCEPT ![r] = FALSE]
    /\ fed' = [fed EXCEPT ![r] = "none"]
    /\ spoke' = spoke \ {r}
    /\ opened' = opened \ {r}

\* A fetch or a signature that failed: settled all the same, then refused.
FailFrom(now, r, wasAsked) ==
    /\ SettleFrom(now, answer[r], question[r], wasAsked, FALSE)
    /\ End(r, Refused)
    /\ UNCHANGED scan

Fail(r, wasAsked) == FailFrom(locks, r, wasAsked)

\* Refresher::after_signature: one scan at a time, and only when one is due.
AfterSignature == scan' \in {scan, IF scan = "idle" THEN "copying" ELSE scan}

Signature(r) ==
    [how |-> CASE answer[r].how = "notneeded" -> "unconfirmed"
               [] answer[r].how = "given" -> "confirmed"
               [] answer[r].how = "remembered" -> "remembered",
     question |-> IF answer[r].how = "remembered" THEN question[r] ELSE NoQuestion]

\* The key signed: settled, and refused after all if the answer was voided.
Sign(r, wasAsked) ==
    /\ SettleFrom(locks, answer[r], question[r], wasAsked, TRUE)
    /\ IF Voided(answer[r], wasAsked)
       THEN End(r, Refused) /\ UNCHANGED scan
       ELSE End(r, Signature(r)) /\ AfterSignature

(***************************************************************************)
(* sign_with once lpass has answered with the vault open. The item may be  *)
(* gone or hold another key, which discards the file (Identities); the     *)
(* field may be empty or not parse; the algorithm may be refused.          *)
(***************************************************************************)
UsePem(r, wasAsked) ==
    \/ Fail(r, wasAsked)
    \/ ~kind[r].encrypted /\ Sign(r, wasAsked)
    \/ /\ kind[r].encrypted
       /\ Goto(r, "passCopying")
       /\ asked' = [asked EXCEPT ![r] = wasAsked]
       /\ fed' = [fed EXCEPT ![r] = "none"]
       /\ UNCHANGED <<approvalVars, gate, question, answer, before, outcome, scan, historyVars>>

-----------------------------------------------------------------------------
(* LpassAgent::sign up to the vault.                                       *)

\* No such key, or a bound connection asking for another session.
RefuseAtOnce(r) ==
    /\ pc[r] = "absent"
    /\ End(r, Refused)
    /\ UNCHANGED <<approvalVars, unlockVars, screenVars, scanVars, fixedVars>>

Arrive(r) ==
    /\ pc[r] = "absent"
    /\ Goto(r, IF kind[r].confirm THEN "naming" ELSE "copying")
    /\ UNCHANGED <<approvalVars, unlockVars, gate, localVars, outcome, screenVars, scanVars,
                   historyVars, fixedVars>>

AnswerFromMemory(r, q) ==
    /\ question' = [question EXCEPT ![r] = q]
    /\ answer' = [answer EXCEPT ![r] = Remembered(locks)]
    /\ Goto(r, "copying")

(***************************************************************************)
(* approval_for once the hosts have their names. The question is what the  *)
(* requester looks like now, and will be looked at again under the gate.   *)
(***************************************************************************)
Name(r) ==
    /\ pc[r] = "naming"
    /\ \/ /\ \E q \in Questions : RememberedIn(q) /\ AnswerFromMemory(r, q)
       \/ /\ \E q \in Questions \cup {NoQuestion} : ~RememberedIn(q)
          /\ Goto(r, "approving")
          /\ UNCHANGED <<question, answer>>
    /\ UNCHANGED <<approvalVars, unlockVars, gate, before, asked, fed, outcome, screenVars,
                   scanVars, historyVars, fixedVars>>

\* The gate is this request's: look again, then put the prompt up.
EnterToConfirm(r) ==
    /\ pc[r] = "approving"
    /\ GateOpen(r)
    /\ gate' = r
    /\ \E q \in Questions \cup {NoQuestion} :
          \/ /\ RememberedIn(q)
             /\ AnswerFromMemory(r, q)
             /\ UNCHANGED spoke
          \/ /\ ~RememberedIn(q)
             /\ question' = [question EXCEPT ![r] = q]
             /\ Goto(r, "confirming")
             /\ spoke' = spoke \cup {r}
             /\ UNCHANGED answer
    /\ UNCHANGED <<approvalVars, unlockVars, before, asked, fed, outcome, screenVars, scanVars,
                   opened, fixedVars>>

\* A variant that must fail: the gate let go at its last use, the confirmation.
ConfirmAndLetGo(r) ==
    /\ pc[r] = "confirming"
    /\ answer' = [answer EXCEPT ![r] = Given(locks)]
    /\ gate' = NoRequest
    /\ Goto(r, "copying")
    /\ UNCHANGED <<approvalVars, unlockVars, question, before, asked, fed, outcome, screenVars,
                   scanVars, historyVars, fixedVars>>

\* Decision::Approve: the epoch is read after the answer, not before it.
Confirm(r) ==
    /\ pc[r] = "confirming"
    /\ answer' = [answer EXCEPT ![r] = Given(locks)]
    /\ Goto(r, "copying")
    /\ UNCHANGED <<approvalVars, unlockVars, gate, question, before, asked, fed, outcome,
                   screenVars, scanVars, historyVars, fixedVars>>

\* Decision::Deny, or a prompt that could not be shown or timed out.
Deny(r) ==
    /\ pc[r] = "confirming"
    /\ End(r, Refused)
    /\ UNCHANGED <<approvalVars, unlockVars, screenVars, scanVars, fixedVars>>

-----------------------------------------------------------------------------
(* The lpass calls. Each copies what is held under the password's lock,    *)
(* lets go, and runs lpass.                                                *)

CopiedFor ==
    [copying |-> "reading", recopying |-> "rereading", passCopying |-> "passReading"]

Copy(r) ==
    /\ pc[r] \in DOMAIN CopiedFor
    /\ LockFree
    /\ fed' = [fed EXCEPT ![r] = held.secret]
    /\ Goto(r, CopiedFor[pc[r]])
    /\ UNCHANGED <<approvalVars, unlockVars, gate, question, answer, before, asked, outcome,
                   screenVars, scanVars, historyVars, fixedVars>>

\* A call that ran and changed nothing but where its request stands.
Proceed(r, step) ==
    /\ Goto(r, step)
    /\ UNCHANGED <<approvalVars, gate, localVars, outcome, scan, historyVars>>

\* The quiet fetch of the private key; only a vault found locked goes on to ask.
Read(r) ==
    /\ pc[r] = "reading"
    /\ \/ Opens(fed[r]) /\ UsePem(r, FALSE)
       \/ FindsLocked(fed[r]) /\ Proceed(r, "waking")
       \/ Refuses(fed[r]) /\ Proceed(r, "rejecting")
       \/ Fail(r, FALSE)
    /\ UNCHANGED <<unlockVars, screenVars, scanFed, fixedVars>>

\* A variant that must fail: the counter read, and the ask made, without the gate.
AskUngated(r) ==
    /\ pc[r] = "waking"
    /\ before' = [before EXCEPT ![r] = unlocks]
    /\ Goto(r, "recopying")
    /\ UNCHANGED <<approvalVars, unlockVars, gate, question, answer, asked, fed, outcome,
                   screenVars, scanVars, historyVars, fixedVars>>

\* The gate, and then the counter: an ask seen from here on is this request's own.
EnterToAsk(r) ==
    /\ pc[r] = "waking"
    /\ GateOpen(r)
    /\ gate' = r
    /\ before' = [before EXCEPT ![r] = unlocks]
    /\ Goto(r, "recopying")
    /\ UNCHANGED <<approvalVars, unlockVars, question, answer, asked, fed, outcome, screenVars,
                   scanVars, historyVars, fixedVars>>

\* Fetch.asked, as it is computed when the asking client returns.
CountedAnAsk(r) == unlocks # before[r]

\* The same fetch through the client that may ask: before the ask, or after it.
Reread(r) ==
    /\ pc[r] = "rereading"
    /\ \/ Opens(fed[r]) /\ UsePem(r, CountedAnAsk(r))
       \/ FindsLocked(fed[r]) /\ Proceed(r, "opening")
       \/ Refuses(fed[r]) /\ Proceed(r, "rerejecting")
       \/ Fail(r, CountedAnAsk(r))
    /\ UNCHANGED <<unlockVars, screenVars, scanFed, fixedVars>>

\* Unlock::password(true): what is held by now, or the prompt.
Open(r) ==
    /\ pc[r] = "opening"
    /\ \/ /\ LockFree
          /\ held # NoPassword
          /\ fed' = [fed EXCEPT ![r] = held.secret]
          /\ Goto(r, "rereading")
          /\ UNCHANGED <<unlockVars, unlocks, historyVars>>
       \/ /\ OpenPrompt(r)
          /\ Goto(r, "prompting")
          /\ spoke' = spoke \cup {r}
          /\ opened' = opened \cup {r}
          /\ UNCHANGED fed
    /\ UNCHANGED <<locks, remembered, gate, question, answer, before, asked, outcome,
                   screenVars, scanVars, fixedVars>>

\* The store or the user answers, or neither does and the fetch fails.
Resolve(r) ==
    /\ pc[r] = "prompting"
    /\ \/ /\ \E password \in Resolved :
                Hold(password) /\ fed' = [fed EXCEPT ![r] = password.secret]
          /\ Goto(r, "rereading")
          /\ UNCHANGED <<locks, remembered, gate, question, answer, before, asked, outcome,
                         scan, historyVars>>
       \/ /\ GiveUp
          /\ Fail(r, CountedAnAsk(r))
    /\ UNCHANGED <<screenVars, scanFed, fixedVars>>

\* The password was refused: it is dropped, and the request fails.
Reject(r) ==
    /\ pc[r] \in {"rejecting", "rerejecting"}
    /\ DropRejected
    /\ FailFrom(locks + BumpIfHeld, r,
                IF pc[r] = "rerejecting" THEN CountedAnAsk(r) ELSE asked[r])
    /\ UNCHANGED <<screenVars, scanFed, fixedVars>>

-----------------------------------------------------------------------------
(* Unlocker::unlock, for an encrypted key: the vault's passphrase decides  *)
(* if there is one, and only an empty field reaches the user.              *)

ReadPassphrase(r) ==
    /\ pc[r] = "passReading"
    /\ \/ Opens(fed[r]) /\ Sign(r, asked[r])
       \/ Opens(fed[r]) /\ PassphraseFallback = "ask" /\ Proceed(r, "passGating")
       \/ Refuses(fed[r]) /\ Proceed(r, "rejecting")
       \/ Fail(r, asked[r])
    /\ UNCHANGED <<unlockVars, screenVars, scanFed, fixedVars>>

EnterForPassphrase(r) ==
    /\ pc[r] = "passGating"
    /\ GateOpen(r)
    /\ gate' = r
    /\ Goto(r, "passPrompting")
    /\ spoke' = spoke \cup {r}
    /\ UNCHANGED <<approvalVars, unlockVars, localVars, outcome, screenVars, scanVars, opened,
                   fixedVars>>

AnswerPassphrase(r) ==
    /\ pc[r] = "passPrompting"
    /\ Sign(r, asked[r]) \/ Fail(r, asked[r])
    /\ UNCHANGED <<unlockVars, screenVars, scanFed, fixedVars>>

-----------------------------------------------------------------------------
(* The background scan, one quiet call after another (Refresher::spawn).   *)
(* An error ends it, as its last call does; what it finds, serves and      *)
(* writes is Identities'.                                                  *)

requestVars == <<gate, pc, localVars, outcome, historyVars>>

ScanCopy ==
    /\ scan = "copying"
    /\ LockFree
    /\ scan' = "reading"
    /\ scanFed' = held.secret
    /\ UNCHANGED <<approvalVars, unlockVars, requestVars, screenVars, fixedVars>>

ScanRead ==
    /\ scan = "reading"
    /\ \/ Opens(scanFed) /\ scan' = "copying"
       \/ Refuses(scanFed) /\ scan' = "rejecting"
       \/ scan' = "idle"
    /\ scanFed' = "none"
    /\ UNCHANGED <<approvalVars, unlockVars, requestVars, screenVars, fixedVars>>

ScanReject ==
    /\ scan = "rejecting"
    /\ DropRejected
    /\ locks' = locks + BumpIfHeld
    /\ scan' = "idle"
    /\ UNCHANGED <<unlocks, remembered, requestVars, screenVars, scanFed, fixedVars>>

-----------------------------------------------------------------------------
(* What happens around the requests.                                       *)

\* A shell opens the vault, or its lpass agent runs out.
ShellTurns ==
    /\ shell' = ~shell
    /\ UNCHANGED <<approvalVars, unlockVars, requestVars, forgetting, screenLocks, scanVars,
                   fixedVars>>

\* vaultlock::watch sees the screen go from unlocked to locked.
ScreenLocks ==
    /\ ~forgetting
    /\ screenLocks < MaxScreenLocks
    /\ forgetting' = TRUE
    /\ screenLocks' = screenLocks + 1
    /\ UNCHANGED <<approvalVars, unlockVars, requestVars, shell, scanVars, fixedVars>>

\* A variant that must fail: a locked screen gives up on a lock that is busy.
ForgetIfFree ==
    /\ forgetting
    /\ \/ DropAndBump
       \/ ~LockFree /\ UNCHANGED <<approvalVars, unlockVars>>
    /\ forgetting' = FALSE
    /\ UNCHANGED <<requestVars, shell, screenLocks, scanVars, fixedVars>>

\* Unlock::forget, once the password's lock is its own.
Forget ==
    /\ forgetting
    /\ DropAndBump
    /\ forgetting' = FALSE
    /\ UNCHANGED <<requestVars, shell, screenLocks, scanVars, fixedVars>>

\* unlock::expire_when_idle.
ExpireIfIdle ==
    /\ DropIfIdle
    /\ UNCHANGED <<requestVars, screenVars, scanVars, fixedVars>>

-----------------------------------------------------------------------------
Serve(r) ==
    \/ RefuseAtOnce(r) \/ Arrive(r) \/ Name(r)
    \/ EnterToConfirm(r) \/ Confirm(r) \/ Deny(r)
    \/ Copy(r) \/ Read(r)
    \/ EnterToAsk(r) \/ Reread(r) \/ Open(r) \/ Resolve(r) \/ Reject(r)
    \/ ReadPassphrase(r) \/ EnterForPassphrase(r) \/ AnswerPassphrase(r)

Background ==
    \/ ScanCopy \/ ScanRead \/ ScanReject
    \/ ShellTurns \/ ScreenLocks \/ Forget \/ ExpireIfIdle

Next == (\E r \in Requests : Serve(r)) \/ Background

Spec == Init /\ [][Next]_vars

(***************************************************************************)
(* Every prompt has a timeout (confirm_timeout_secs) and every lpass call  *)
(* one of 30 s, so each wait of a request ends: weak fairness. The gate    *)
(* and the password's lock are tokio mutexes, which serve their waiters in *)
(* order: strong fairness for the steps that wait for one. Nothing is      *)
(* assumed of the user's answers, the shell, the screen or the idle time.  *)
(***************************************************************************)
CarriesOn(r) ==
    \/ Name(r) \/ Confirm(r) \/ Deny(r) \/ Read(r) \/ Reread(r) \/ Resolve(r)
    \/ ReadPassphrase(r) \/ AnswerPassphrase(r)

TakesItsTurn(r) ==
    \/ EnterToConfirm(r) \/ EnterToAsk(r) \/ EnterForPassphrase(r)
    \/ Copy(r) \/ Open(r) \/ Reject(r)

Fairness ==
    /\ \A r \in Requests : WF_vars(CarriesOn(r)) /\ SF_vars(TakesItsTurn(r))
    /\ SF_vars(Forget)

FairSpec == Spec /\ Fairness

-----------------------------------------------------------------------------
(* Properties.                                                             *)

(***************************************************************************)
(* Between a request's first prompt and its end, no other request has one  *)
(* up: an answer cannot land in another request's prompt, nor a passphrase *)
(* in its confirmation (src/src/interaction.rs).                           *)
(***************************************************************************)
OneConversation == \A r, s \in spoke : r = s

(***************************************************************************)
(* The unlocks counter, read before and after a fetch, tells a request     *)
(* whether it asked for the master password itself: no other request's ask *)
(* is ever charged to it, and none of its own is missed                    *)
(* (fetch_private_key).                                                    *)
(***************************************************************************)
AskIsOwn ==
    \A r \in Requests :
       /\ pc[r] \in {"recopying", "rereading", "opening", "prompting", "rerejecting"}
             => (CountedAnAsk(r) <=> r \in opened)
       /\ pc[r] \in {"passCopying", "passReading", "passGating", "passPrompting"}
             => (asked[r] <=> r \in opened)

(***************************************************************************)
(* What is asked, remembered and honoured is what ApprovalPolicy allows:   *)
(* a signature answered from memory has a yes behind it that no lock known *)
(* to the agent has overtaken, and every way the password can be dropped   *)
(* counts as one (settle, remember_in, remembered_in, forget, rejected,    *)
(* expire_if_idle).                                                        *)
(***************************************************************************)
Policy ==
    INSTANCE ApprovalPolicy WITH
        granted <- {m.question : m \in {f \in remembered : f.epoch = locks}},
        yes <- [r \in Requests |-> IF answer[r].how = "given" /\ answer[r].epoch = locks
                                   THEN question[r] ELSE NoQuestion],
        asking <- opened,
        holding <- held # NoPassword,
        notice <- forgetting

PolicySpec == Policy!Spec

(***************************************************************************)
(* Once lpass has refused what the store supplied, nothing the store       *)
(* supplied is held again: no further fingerprint is spent on a password   *)
(* that cannot work (Unlock.store_rejected, master::resolve).              *)
(***************************************************************************)
RejectedStoreIsNotHeld == storeRejected => held.from # "store"

(***************************************************************************)
(* A request that has arrived ends, whatever the user, the vault and the   *)
(* screen do: the gate and the password's lock are never waited for in a   *)
(* circle, and never left held (sign, InteractionGate, Unlock::password).  *)
(***************************************************************************)
EveryRequestEnds == \A r \in Requests : (pc[r] # "absent") ~> (pc[r] = "done")

(***************************************************************************)
(* A locked screen ends with nothing held and nothing on its way in: when  *)
(* it locks while the password prompt is up, the answer is dropped too     *)
(* (VaultKey::forget waits for the lock password() keeps across the        *)
(* prompt, where nothing is held yet).                                     *)
(***************************************************************************)
LockedScreenDrops == forgetting ~> (held = NoPassword /\ LockFree)

(***************************************************************************)
(* "Set once `lpass` has rejected what the store supplied"                 *)
(* (src/src/unlock.rs, store_rejected): the store is given up only when    *)
(* what it holds does not open the vault.                                  *)
(***************************************************************************)
OnlyABadStoreIsGivenUp == storeRejected => stored # "right"

(***************************************************************************)
(* "the request that finds it locked asks for the master password, and     *)
(* approvals end there" (README.md, Remembering approvals): no signature   *)
(* is answered from memory while another request has asked and not yet     *)
(* ended. A vault the shell has open meanwhile is left aside: README.md    *)
(* names that limit itself.                                                *)
(***************************************************************************)
AnsweredFromMemory(r) ==
    outcome[r] = Pending /\ outcome'[r].how = "remembered"

ApprovalsEndAtTheAsk ==
    [][\A r \in Requests : AnsweredFromMemory(r) => opened = {} \/ shell]_vars
=============================================================================
