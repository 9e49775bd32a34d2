----------------------- MODULE SigningAgentInvariant -----------------------
(***************************************************************************)
(* The inductive invariant of SigningAgent: what has to be known of a      *)
(* state for OneConversation, AskIsOwn and the refinement of               *)
(* ApprovalPolicy to survive every step. Kept apart from the proofs so     *)
(* that TLC can check it.                                                  *)
(***************************************************************************)
EXTENDS SigningAgent

\* Steps a request stands at only with the gate in hand.
GatedSteps == {"confirming", "recopying", "rereading", "opening", "prompting", "rerejecting",
               "passPrompting"}

\* Between reading `before` and turning it into `asked`.
CountingSteps == {"recopying", "rereading", "opening", "prompting", "rerejecting"}

\* With the fetch behind it, or refused before it.
SettledSteps == {"passCopying", "passReading", "passGating", "passPrompting", "rejecting"}

\* Nothing approved yet, or nothing left.
UnansweredSteps == {"absent", "naming", "approving", "confirming", "done"}

(***************************************************************************)
(* The gate is held by whoever has spoken, and by every request at a step  *)
(* that speaks; the password's lock by the request at its prompt.          *)
(***************************************************************************)
GateInv ==
    /\ \A r \in Requests : pc[r] \in GatedSteps => gate = r
    /\ spoke \subseteq {gate}
    /\ opened \subseteq {gate}

LockInv ==
    asker # NoRequest => pc[asker] = "prompting" /\ held = NoPassword

(***************************************************************************)
(* Who has asked, as each request will come to tell the approvals.         *)
(***************************************************************************)
AskInv ==
    \A r \in Requests :
       /\ before[r] <= unlocks
       /\ pc[r] \in CountingSteps => (CountedAnAsk(r) <=> r \in opened)
       /\ pc[r] \in SettledSteps => (asked[r] <=> r \in opened)
       /\ pc[r] \notin SettledSteps => ~asked[r]
       /\ pc[r] \notin CountingSteps \cup SettledSteps => r \notin opened
       /\ pc[r] \in {"recopying", "opening"} => r \notin opened
       /\ pc[r] = "rereading" /\ fed[r] = "none" => r \notin opened

(***************************************************************************)
(* Nothing is filed or answered in an epoch still to come, and an answer   *)
(* from memory still has its entry for as long as its epoch lasts.         *)
(***************************************************************************)
MemoryInv ==
    /\ \A m \in remembered : m.epoch <= locks
    /\ \A r \in Requests :
          /\ answer[r].epoch <= locks
          /\ answer[r].how = "remembered" /\ answer[r].epoch = locks
                => [question |-> question[r], epoch |-> locks] \in remembered
          /\ pc[r] \in UnansweredSteps => answer[r] = NotNeeded

OutcomeInv == \A r \in Requests : pc[r] # "done" => outcome[r] = Pending

(***************************************************************************)
(* The invariant as a whole.                                               *)
(***************************************************************************)
IInv ==
    /\ TypeOK
    /\ GateInv
    /\ LockInv
    /\ AskInv
    /\ MemoryInv
    /\ OutcomeInv
=============================================================================
