-------------------------- MODULE PasswordLifetime --------------------------
(***************************************************************************)
(* How long the master password is held, in time: the idle clock of Unlock *)
(* (src/src/unlock.rs), which calls renew it (src/src/lpass/cli.rs), and   *)
(* the watch on the screen (src/src/vaultlock.rs). SigningAgent has the    *)
(* same drops with the time taken out of them.                             *)
(*                                                                         *)
(* Times are ages and time left, in ticks. Both loops sleep between looks, *)
(* so time moves on only when neither has a look due that it could take. A *)
(* look that finds the password's lock kept across a prompt waits for it.  *)
(***************************************************************************)
EXTENDS Integers

CONSTANTS
    Enabled,        \* lock_on_screen_lock
    IdleTime,       \* master_password_idle_secs, 0 for never
    Poll,           \* POLL_INTERVAL, of both loops
    PromptTime      \* a bound on how long a prompt stays up

ASSUME LifetimeAssumption ==
    /\ Enabled \in BOOLEAN
    /\ IdleTime \in Nat
    /\ Poll \in Nat \ {0}
    /\ PromptTime \in Nat \ {0}

VARIABLES
    held,           \* the master password is held
    unused,         \* Held.last_used.elapsed()
    call,           \* the asking client's call: none, about to start, at the prompt, or running
    promptLeft,
    idleIn,         \* when expire_when_idle wakes next
    watch,          \* where vaultlock::watch stands
    watchIn,        \* when it wakes next
    seen,           \* its last reading: the screen was locked
    unreadable,     \* unreadable_in_a_row
    locked,         \* the screen
    readable,       \* the platform answers
    \* History.
    unsigned,       \* how long since a signature last used what is held
    sinceChange,    \* how long since the screen locked, unlocked, or became readable or not
    sighted,        \* the screen is open, and a reading has found it so
    exposed         \* what is held was held when the screen locked, found open before

passwordVars == <<held, unused, call, promptLeft>>
watchVars == <<watch, watchIn, seen, unreadable>>
screenVars == <<locked, readable>>
sightVars == <<sinceChange, sighted>>
vars == <<passwordVars, idleIn, watchVars, screenVars, unsigned, sightVars, exposed>>

MaxUnreadable == 3
MaxAge == IdleTime + Poll + 1     \* ages stop here: no comparison looks further
Older(age) == IF age < MaxAge THEN age + 1 ELSE age
Sooner(left) == IF left > 0 THEN left - 1 ELSE left

\* The agent has just bound; a first start may hold the password already.
Init ==
    /\ held \in BOOLEAN
    /\ call = "none" /\ promptLeft = 0
    /\ idleIn = Poll
    /\ watch = "starting" /\ watchIn = 0 /\ seen = FALSE /\ unreadable = 0
    /\ locked \in BOOLEAN /\ readable \in BOOLEAN
    /\ unused = 0 /\ unsigned = 0 /\ sinceChange = 0
    /\ sighted = FALSE /\ exposed = FALSE

LockFree == call # "prompting"

-----------------------------------------------------------------------------
(* Signatures.                                                             *)

\* Through the quiet client: MasterPasswordSource::used does nothing for it.
SignQuietly ==
    /\ held
    /\ LockFree
    /\ unsigned' = 0
    /\ UNCHANGED <<passwordVars, idleIn, watchVars, screenVars, sightVars, exposed>>

\* A request finds the vault locked, and goes on to the asking client.
FindLocked ==
    /\ ~held
    /\ call = "none"
    /\ call' = "waiting"
    /\ UNCHANGED <<held, unused, promptLeft, idleIn, watchVars, screenVars, unsigned, sightVars,
                   exposed>>

\* Unlock::password: what is held by now, or the prompt, under the lock.
CallAsking ==
    /\ call = "waiting"
    /\ IF held
       THEN call' = "running" /\ UNCHANGED promptLeft
       ELSE call' = "prompting" /\ promptLeft' = PromptTime
    /\ UNCHANGED <<held, unused, idleIn, watchVars, screenVars, unsigned, sightVars, exposed>>

Answer(supplied) ==
    /\ call = "prompting"
    /\ held' = supplied
    /\ call' = IF supplied THEN "running" ELSE "none"
    /\ IF supplied THEN unused' = 0 /\ unsigned' = 0 ELSE UNCHANGED <<unused, unsigned>>
    /\ UNCHANGED <<promptLeft, idleIn, watchVars, screenVars, sightVars, exposed>>

\* The call returns: `rejected` when lpass did not accept it, then `used`, which touches.
EndCall(accepted) ==
    /\ call = "running"
    /\ call' = "none"
    /\ held' = (held /\ accepted)
    /\ exposed' = (exposed /\ accepted)
    /\ IF held' THEN unused' = 0 /\ unsigned' = 0 ELSE UNCHANGED <<unused, unsigned>>
    /\ UNCHANGED <<promptLeft, idleIn, watchVars, screenVars, sightVars>>

-----------------------------------------------------------------------------
(* expire_when_idle.                                                       *)

\* A variant that must fail: a password dropped only past the idle time.
ExpiredPast == IdleTime # 0 /\ held /\ unused > IdleTime

Expired == IdleTime # 0 /\ held /\ unused >= IdleTime

CheckIdle ==
    /\ idleIn = 0
    /\ LockFree
    /\ held' = (held /\ ~Expired)
    /\ exposed' = (exposed /\ ~Expired)
    /\ idleIn' = Poll
    /\ UNCHANGED <<unused, call, promptLeft, watchVars, screenVars, unsigned, sightVars>>

-----------------------------------------------------------------------------
(* vaultlock::watch.                                                       *)

LockingNow(previous, current) == current /\ ~previous

\* A reading, and what comes of it: the key is forgotten, or the watch sleeps on.
Look(previous) ==
    /\ readable
    /\ seen' = locked
    /\ unreadable' = 0
    /\ sighted' = ~locked
    /\ IF LockingNow(previous, locked)
       THEN watch' = "forgetting" /\ UNCHANGED watchIn
       ELSE watch' = "sleeping" /\ watchIn' = Poll

\* The first reading counts what came before it as unlocked, and must succeed.
StartWatch ==
    /\ watch = "starting"
    /\ \/ Enabled /\ Look(FALSE)
       \/ /\ ~(Enabled /\ readable)
          /\ watch' = "off"
          /\ UNCHANGED <<watchIn, seen, unreadable, sighted>>
    /\ UNCHANGED <<passwordVars, idleIn, screenVars, unsigned, sinceChange, exposed>>

\* A variant that must fail: an unreadable screen guessed to be locked.
MissGuessing ==
    /\ ~readable
    /\ IF unreadable + 1 >= MaxUnreadable
       THEN watch' = "off" /\ UNCHANGED <<watchIn, seen, unreadable>>
       ELSE /\ unreadable' = unreadable + 1
            /\ watchIn' = Poll
            /\ seen' = TRUE
            /\ UNCHANGED watch

\* An unreadable screen is retried, leaving the last reading as it was.
Miss ==
    /\ ~readable
    /\ IF unreadable + 1 >= MaxUnreadable
       THEN watch' = "off" /\ UNCHANGED <<watchIn, seen, unreadable>>
       ELSE /\ unreadable' = unreadable + 1
            /\ watchIn' = Poll
            /\ UNCHANGED <<watch, seen>>

Sample ==
    /\ watch = "sleeping"
    /\ watchIn = 0
    /\ Look(seen) \/ (Miss /\ UNCHANGED sighted)
    /\ UNCHANGED <<passwordVars, idleIn, screenVars, unsigned, sinceChange, exposed>>

Forget ==
    /\ watch = "forgetting"
    /\ LockFree
    /\ held' = FALSE
    /\ exposed' = FALSE
    /\ watch' = "sleeping"
    /\ watchIn' = Poll
    /\ UNCHANGED <<unused, call, promptLeft, idleIn, seen, unreadable, screenVars, unsigned,
                   sightVars>>

-----------------------------------------------------------------------------
(* The desk, and the time.                                                 *)

TurnScreen ==
    /\ locked' = ~locked
    /\ sinceChange' = 0
    /\ sighted' = FALSE
    /\ exposed' = (locked' /\ held /\ sighted)
    /\ UNCHANGED <<passwordVars, idleIn, watchVars, readable, unsigned>>

TurnReadable ==
    /\ readable' = ~readable
    /\ sinceChange' = 0
    /\ UNCHANGED <<passwordVars, idleIn, watchVars, locked, unsigned, sighted, exposed>>

\* Nothing is due that could be done now.
Quiet ==
    /\ idleIn = 0 => ~LockFree
    /\ watch # "starting"
    /\ watch = "sleeping" => watchIn > 0
    /\ watch = "forgetting" => ~LockFree
    /\ ~LockFree => promptLeft > 0

Tick ==
    /\ Quiet
    /\ unused' = Older(unused)
    /\ unsigned' = Older(unsigned)
    /\ sinceChange' = Older(sinceChange)
    /\ idleIn' = Sooner(idleIn)
    /\ watchIn' = Sooner(watchIn)
    /\ promptLeft' = Sooner(promptLeft)
    /\ UNCHANGED <<held, call, watch, seen, unreadable, screenVars, sighted, exposed>>

Next ==
    \/ SignQuietly \/ FindLocked \/ CallAsking
    \/ \E well \in BOOLEAN : Answer(well) \/ EndCall(well)
    \/ CheckIdle
    \/ StartWatch \/ Sample \/ Forget
    \/ TurnScreen \/ TurnReadable
    \/ Tick

Spec == Init /\ [][Next]_vars

-----------------------------------------------------------------------------
(* Properties.                                                             *)

(***************************************************************************)
(* Every variable keeps to its type.                                       *)
(***************************************************************************)
TypeOK ==
    /\ held \in BOOLEAN /\ seen \in BOOLEAN /\ locked \in BOOLEAN
    /\ readable \in BOOLEAN /\ sighted \in BOOLEAN /\ exposed \in BOOLEAN
    /\ call \in {"none", "waiting", "prompting", "running"}
    /\ unused \in 0..MaxAge /\ unsigned \in 0..MaxAge /\ sinceChange \in 0..MaxAge
    /\ idleIn \in 0..Poll /\ watchIn \in 0..Poll
    /\ promptLeft \in 0..PromptTime
    /\ watch \in {"starting", "sleeping", "forgetting", "off"}
    /\ unreadable \in 0..(MaxUnreadable - 1)

(***************************************************************************)
(* A password no call renews is dropped within one look of its idle time   *)
(* (expire_if_idle, expire_when_idle), prompts and the screen aside.       *)
(***************************************************************************)
IdleBound == IdleTime # 0 /\ held => unused < IdleTime + Poll

(***************************************************************************)
(* A screen that locks shuts the vault within one look: what was held when *)
(* it locked is dropped, as long as a reading had found it open before and *)
(* the watch goes on. While the state cannot be read the look is late, and *)
(* "a screen that locks while the state cannot be read is still caught by  *)
(* the first reading that succeeds" (src/src/vaultlock.rs, watch).         *)
(***************************************************************************)
LockBound ==
    watch \in {"sleeping", "forgetting"} /\ exposed /\ readable => sinceChange <= Poll

(***************************************************************************)
(* Why the two bounds hold, in a form every step keeps: the clock that     *)
(* will drop the password never has further to go than the bound leaves.   *)
(***************************************************************************)
LifetimeInv ==
    /\ TypeOK
    /\ held => LockFree
    /\ IdleTime # 0 /\ held => unused + idleIn < IdleTime + Poll
    /\ sighted => ~locked /\ watch \in {"sleeping", "off"} /\ (watch = "sleeping" => ~seen)
    /\ exposed => held /\ locked /\ watch # "starting"
    /\ exposed /\ watch = "sleeping" => ~seen /\ (readable => sinceChange + watchIn <= Poll)
    /\ exposed /\ watch = "forgetting" /\ readable => sinceChange <= Poll

(***************************************************************************)
(* "Counted from the last signature that used it, not from when it was     *)
(* typed, so a busy hour never asks" (README.md, How often it asks): the   *)
(* idle time drops no password that a signature has used since.            *)
(***************************************************************************)
BusyHourNeverAsks ==
    [][held /\ ~held' /\ idleIn' # idleIn => unsigned >= IdleTime]_vars
=============================================================================
