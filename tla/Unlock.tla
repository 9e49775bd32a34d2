------------------------------- MODULE Unlock -------------------------------
(***************************************************************************)
(* Unlock (src/src/unlock.rs): the master password, held in memory between *)
(* the ask that supplied it and whatever drops it. Its one lock, a tokio   *)
(* mutex, is kept across the prompt; every other operation takes and gives *)
(* it back between two awaits, so a lock that is held is always held by a  *)
(* request standing at the master password prompt: `asker`.                *)
(*                                                                         *)
(* A password is abstracted to whether it opens the vault. Time is         *)
(* abstracted away: last_used and touch are not here, and a held password  *)
(* may be found idle at any moment.                                        *)
(***************************************************************************)
EXTENDS Approvals

CONSTANTS
    Requests,           \* the signing requests the agent ever receives
    NoRequest,
    TouchId,            \* master_password = "touchid": the store comes first
    IdleExpires         \* master_password_idle_secs is not 0

ASSUME RequestAssumption == NoRequest \notin Requests
ASSUME SettingAssumption == TouchId \in BOOLEAN /\ IdleExpires \in BOOLEAN

VARIABLES
    held,               \* Unlock.held, or NoPassword
    asker,              \* the request holding the lock across its prompt
    storeRejected,      \* Unlock.store_rejected
    stored              \* what the biometric store holds; fixed while we run

Secrets == {"right", "wrong"}
Passwords == [secret : Secrets, from : {"store", "prompt"}]
NoPassword == [secret |-> "none", from |-> "nowhere"]

UnlockTypeOK ==
    /\ held \in Passwords \cup {NoPassword}
    /\ asker \in Requests \cup {NoRequest}
    /\ storeRejected \in BOOLEAN
    /\ stored \in Secrets \cup {"none"}

LockFree == asker = NoRequest

\* What a drop adds to the epoch when it may find nothing to drop.
BumpIfHeld == IF held = NoPassword THEN 0 ELSE 1

\* A variant that must fail: an ask that nobody counts.
OpenPromptUncounted(r) ==
    /\ LockFree
    /\ held = NoPassword
    /\ asker' = r
    /\ UNCHANGED <<unlocks, held, storeRejected>>

(***************************************************************************)
(* Unlock::password(true) with nothing held: the ask is counted and the    *)
(* lock kept until Hold or GiveUp ends it.                                 *)
(***************************************************************************)
OpenPrompt(r) ==
    /\ LockFree
    /\ held = NoPassword
    /\ unlocks' = unlocks + 1
    /\ asker' = r
    /\ UNCHANGED <<held, storeRejected>>

\* A variant that must fail: a store asked again after lpass refused what it holds.
ResolvedFromAnyStore ==
    {[secret |-> s, from |-> "prompt"] : s \in Secrets}
        \cup {[secret |-> s, from |-> "store"] : s \in {t \in Secrets : TouchId /\ t = stored}}

(***************************************************************************)
(* What master::resolve may supply: the store's secret when the store is   *)
(* to be asked at all, or what was typed. The store may fail to answer.    *)
(***************************************************************************)
Resolved ==
    {[secret |-> s, from |-> "prompt"] : s \in Secrets}
        \cup {[secret |-> s, from |-> "store"] :
                  s \in {t \in Secrets : TouchId /\ ~storeRejected /\ t = stored}}

Hold(password) ==
    /\ held' = password
    /\ asker' = NoRequest
    /\ UNCHANGED <<unlocks, storeRejected>>

\* A prompt that fails, or an empty answer: nothing is held, no retry.
GiveUp ==
    /\ asker' = NoRequest
    /\ UNCHANGED <<held, unlocks, storeRejected>>

(***************************************************************************)
(* Unlock::rejected: whatever is held when the lock comes is dropped, and  *)
(* the store is blamed if that came from it. The epoch is the caller's to  *)
(* write, BumpIfHeld further on.                                           *)
(***************************************************************************)
DropRejected ==
    /\ LockFree
    /\ held' = NoPassword
    /\ storeRejected' = (storeRejected \/ held.from = "store")
    /\ UNCHANGED asker

\* Unlock::forget: counts as a lock even with nothing held.
DropAndBump ==
    /\ LockFree
    /\ held' = NoPassword
    /\ locks' = locks + 1
    /\ UNCHANGED <<unlocks, remembered, asker, storeRejected>>

\* Unlock::expire_if_idle: only a held password can be idle.
DropIfIdle ==
    /\ IdleExpires
    /\ held # NoPassword
    /\ DropAndBump
=============================================================================
