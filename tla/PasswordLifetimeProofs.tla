----------------------- MODULE PasswordLifetimeProofs -----------------------
(***************************************************************************)
(* Proofs about PasswordLifetime, for every idle time, every polling       *)
(* interval and every length of a prompt.                                  *)
(***************************************************************************)
EXTENDS PasswordLifetime, TLAPS

USE LifetimeAssumption DEF MaxAge, MaxUnreadable, LockFree

\* The three ways the clocks move in a tick.
LEMMA ClocksMove ==
    ASSUME TypeOK
    PROVE  /\ \A age \in 0..MaxAge : Older(age) \in 0..MaxAge /\ Older(age) <= age + 1
           /\ \A left \in 0..Poll :
                  Sooner(left) \in 0..Poll /\ (left > 0 => Sooner(left) = left - 1)
           /\ \A left \in 0..PromptTime : Sooner(left) \in 0..PromptTime
BY DEF Older, Sooner

\* The first state: both loops have all of their bound left.
LEMMA LifetimeInit == Init => LifetimeInv
<1> SUFFICES ASSUME Init PROVE LifetimeInv
  OBVIOUS
<1>1. TypeOK
  <2>1. held \in BOOLEAN /\ locked \in BOOLEAN /\ readable \in BOOLEAN
    BY DEF Init
  <2>2. seen \in BOOLEAN /\ sighted \in BOOLEAN /\ exposed \in BOOLEAN
    BY DEF Init
  <2>3. idleIn \in 0..Poll /\ watchIn \in 0..Poll /\ promptLeft \in 0..PromptTime
        /\ unreadable \in 0..(MaxUnreadable - 1)
    BY DEF Init
  <2>4. unused \in 0..MaxAge /\ unsigned \in 0..MaxAge /\ sinceChange \in 0..MaxAge
    BY DEF Init
  <2> QED
    BY <2>1, <2>2, <2>3, <2>4 DEF Init, TypeOK
<1>2. ~sighted /\ ~exposed
  BY DEF Init
<1> QED
  BY <1>1, <1>2 DEF Init, LifetimeInv

\* Every step keeps the clocks within what the bounds leave them.
LEMMA LifetimeStep == LifetimeInv /\ [Next]_vars => LifetimeInv'
<1> SUFFICES ASSUME LifetimeInv, [Next]_vars PROVE LifetimeInv'
  OBVIOUS
<1> USE DEF LifetimeInv, TypeOK, passwordVars, watchVars, screenVars, sightVars
<1>1. CASE SignQuietly
  BY <1>1 DEF SignQuietly
<1>2. CASE FindLocked
  BY <1>2 DEF FindLocked
<1>3. CASE CallAsking
  BY <1>3 DEF CallAsking
<1>4. ASSUME NEW supplied \in BOOLEAN, Answer(supplied) PROVE LifetimeInv'
  BY <1>4 DEF Answer
<1>5. ASSUME NEW accepted \in BOOLEAN, EndCall(accepted) PROVE LifetimeInv'
  BY <1>5 DEF EndCall
<1>6. CASE CheckIdle
  BY <1>6 DEF CheckIdle, Expired
<1>7. CASE StartWatch
  BY <1>7 DEF StartWatch, Look, LockingNow
<1>8. CASE Sample
  BY <1>8 DEF Sample, Look, Miss, LockingNow
<1>9. CASE Forget
  <2>1. ~held' /\ ~exposed' /\ watch' = "sleeping" /\ ~sighted'
    BY <1>9 DEF Forget
  <2>2. held' \in BOOLEAN /\ exposed' \in BOOLEAN
    BY <1>9 DEF Forget
  <2>3. TypeOK'
    BY <1>9, <2>2 DEF Forget
  <2> QED
    BY <2>1, <2>3
<1>10. CASE TurnScreen
  <2>1. locked' \in BOOLEAN /\ sighted' \in BOOLEAN /\ exposed' \in BOOLEAN
    BY <1>10 DEF TurnScreen
  <2>2. TypeOK'
    BY <1>10, <2>1 DEF TurnScreen
  <2>3. ~sighted' /\ sinceChange' = 0 /\ (exposed' => held /\ locked' /\ sighted)
    BY <1>10 DEF TurnScreen
  <2> QED
    BY <1>10, <2>2, <2>3 DEF TurnScreen
<1>11. CASE TurnReadable
  BY <1>11 DEF TurnReadable
<1>12. CASE Tick
  BY <1>12, ClocksMove DEF Tick, Quiet
<1>13. CASE UNCHANGED vars
  BY <1>13 DEF vars
<1> QED
  BY <1>1, <1>2, <1>3, <1>4, <1>5, <1>6, <1>7, <1>8, <1>9, <1>10, <1>11, <1>12, <1>13 DEF Next

(***************************************************************************)
(* The master password is held no longer than its idle time and one look   *)
(* after the last call that renewed it (Unlock::expire_if_idle).           *)
(***************************************************************************)
THEOREM HeldNoLongerThanIdle == Spec => []IdleBound
<1>1. LifetimeInv => IdleBound
  BY DEF LifetimeInv, TypeOK, IdleBound
<1> QED
  BY <1>1, LifetimeInit, LifetimeStep, PTL DEF Spec

(***************************************************************************)
(* What was held when the screen locked is dropped within one look, when   *)
(* the watch had found the screen open and can read it (vaultlock::watch). *)
(***************************************************************************)
THEOREM LockedScreenShutsInTime == Spec => []LockBound
<1>1. LifetimeInv => LockBound
  BY DEF LifetimeInv, TypeOK, LockBound
<1> QED
  BY <1>1, LifetimeInit, LifetimeStep, PTL DEF Spec
=============================================================================
