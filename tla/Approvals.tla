----------------------------- MODULE Approvals -----------------------------
(***************************************************************************)
(* LockEpoch and Approvals (src/src/approvals.rs): the two counters that   *)
(* say how often the vault locked and how often the master password had to *)
(* be asked for, and the questions the user has already answered yes to.   *)
(* An answer is honoured again only in the epoch it was filed in, so one   *)
(* lock ends them all.                                                     *)
(*                                                                         *)
(* A question stands for the text approval_question builds out of the key, *)
(* the requester and the hosts; NoQuestion is its None, a requester that   *)
(* could not be told from another.                                         *)
(***************************************************************************)
EXTENDS Integers

CONSTANTS
    Questions,          \* the questions a confirmation prompt can put
    NoQuestion,
    RememberApprovals   \* the remember_approvals setting

ASSUME QuestionAssumption == NoQuestion \notin Questions
ASSUME RememberAssumption == RememberApprovals \in BOOLEAN

VARIABLES
    locks,              \* LockEpoch.locks
    unlocks,            \* LockEpoch.unlocks
    remembered          \* the HashMap, as the set of its entries

(***************************************************************************)
(* What a request has by way of approval when it goes to the vault. The    *)
(* question of Answer::Given is kept beside it, in the request.            *)
(***************************************************************************)
Answers == [how : {"notneeded", "remembered", "given"}, epoch : Nat]
NotNeeded == [how |-> "notneeded", epoch |-> 0]
Remembered(epoch) == [how |-> "remembered", epoch |-> epoch]
Given(epoch) == [how |-> "given", epoch |-> epoch]

Filed == [question : Questions, epoch : Nat]

ApprovalsTypeOK ==
    /\ locks \in Nat
    /\ unlocks \in Nat
    /\ remembered \in SUBSET Filed

\* Approvals::remembered_in: the entry counts only if its epoch is now.
RememberedIn(q) == [question |-> q, epoch |-> locks] \in remembered

\* A variant that must fail: an answer filed in whatever epoch it arrives in.
RememberInAnyEpoch(q, epoch, now) ==
    IF RememberApprovals
    THEN {m \in remembered : m.epoch = now} \cup {[question |-> q, epoch |-> now]}
    ELSE remembered

(***************************************************************************)
(* Approvals::remember_in, when the epoch is `now`: refused unless the     *)
(* answer still belongs to the epoch, and what older epochs left behind is *)
(* dropped before the entry goes in.                                       *)
(***************************************************************************)
RememberIn(q, epoch, now) ==
    IF RememberApprovals /\ epoch = now
    THEN {m \in remembered : m.epoch = epoch} \cup {[question |-> q, epoch |-> epoch]}
    ELSE remembered

(***************************************************************************)
(* Approvals::settle, in two parts. Voided is its Err. SettleFrom is its   *)
(* effect on the counters and the map, starting from an epoch of `now`:    *)
(* the caller may have bumped it already in the same step.                 *)
(***************************************************************************)
Voided(answer, wasAsked) ==
    answer.how = "remembered" /\ (wasAsked \/ answer.epoch # locks)

SettleFrom(now, answer, q, wasAsked, signed) ==
    LET ask == IF wasAsked THEN 1 ELSE 0
    IN  /\ locks' = now + ask
        /\ UNCHANGED unlocks
        /\ remembered' = IF answer.how = "given" /\ q # NoQuestion /\ signed
                         THEN RememberIn(q, answer.epoch + ask, now + ask)
                         ELSE remembered
=============================================================================
