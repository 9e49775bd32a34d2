--------------------------- MODULE ApprovalPolicy ---------------------------
(***************************************************************************)
(* What a yes is worth, with no epoch and no counter: the specification    *)
(* that SigningAgent implements.                                           *)
(*                                                                         *)
(*   - A yes answers its own request, and once that request has signed,    *)
(*     the same question again.                                            *)
(*   - A lock of the vault ends every yes: those filed, and those still on *)
(*     their way to a signature. Dropping the master password is a lock,   *)
(*     acting on a locked screen is a lock, and so is the end of a request *)
(*     that had to ask for the password.                                   *)
(*   - One yes crosses a lock: the one a request was given before its own  *)
(*     fetch had to ask.                                                   *)
(*   - A request that had to ask is never answered from memory.            *)
(***************************************************************************)
CONSTANTS Requests, Questions, NoQuestion

VARIABLES
    granted,    \* the questions answered from memory
    yes,        \* per request, a question approved that no lock has overtaken
    asking,     \* the unfinished requests that had to ask for the master password
    holding,    \* the master password is held
    notice,     \* the screen has locked, and this has not been acted on
    outcome

vars == <<granted, yes, asking, holding, notice, outcome>>

Pending == [how |-> "pending", question |-> NoQuestion]

Init ==
    /\ granted = {}
    /\ yes = [r \in Requests |-> NoQuestion]
    /\ asking = {}
    /\ holding \in BOOLEAN
    /\ notice = FALSE
    /\ outcome = [r \in Requests |-> Pending]

-----------------------------------------------------------------------------
SayYes(r) ==
    /\ outcome[r] = Pending
    /\ \E q \in Questions : yes' = [yes EXCEPT ![r] = q]
    /\ UNCHANGED <<granted, asking, holding, notice, outcome>>

\* No two requests are at the master password at once.
Ask(r) ==
    /\ outcome[r] = Pending
    /\ asking = {}
    /\ asking' = {r}
    /\ UNCHANGED <<granted, yes, holding, notice, outcome>>

Hold ==
    /\ ~holding
    /\ holding' = TRUE
    /\ UNCHANGED <<granted, yes, asking, notice, outcome>>

Notice ==
    /\ notice' = TRUE
    /\ UNCHANGED <<granted, yes, asking, holding, outcome>>

-----------------------------------------------------------------------------
NothingStands == granted' = {} /\ yes' = [r \in Requests |-> NoQuestion]

\* The password dropped, or a locked screen acted on, or both.
Lock ==
    /\ NothingStands
    /\ holding' \in {holding, FALSE}
    /\ notice' \in {notice, FALSE}
    /\ UNCHANGED <<asking, outcome>>

Finish(r, how, q) ==
    /\ outcome[r] = Pending
    /\ outcome' = [outcome EXCEPT ![r] = [how |-> how, question |-> q]]
    /\ asking' = asking \ {r}
    /\ UNCHANGED notice

Refuse(r) ==
    /\ Finish(r, "refused", NoQuestion)
    /\ \/ /\ r \notin asking
          /\ yes' = [yes EXCEPT ![r] = NoQuestion]
          /\ UNCHANGED <<granted, holding>>
       \/ /\ NothingStands
          /\ holding' \in {holding, FALSE}

Own(r) == {yes[r]} \ {NoQuestion}

\* Approved for this very request, which may file the yes it holds.
SignConfirmed(r) ==
    /\ Finish(r, "confirmed", NoQuestion)
    /\ \/ /\ r \notin asking
          /\ granted' \in {granted, granted \cup Own(r)}
          /\ yes' = [yes EXCEPT ![r] = NoQuestion]
       \/ /\ r \in asking
          /\ granted' \in {{}, Own(r)}
          /\ yes' = [s \in Requests |-> NoQuestion]
    /\ UNCHANGED holding

SignFromMemory(r) ==
    /\ r \notin asking
    /\ \E q \in granted : Finish(r, "remembered", q)
    /\ UNCHANGED <<granted, yes, holding>>

\* A key that needs no confirmation.
SignUnconfirmed(r) ==
    /\ Finish(r, "unconfirmed", NoQuestion)
    /\ IF r \in asking THEN NothingStands ELSE UNCHANGED <<granted, yes>>
    /\ UNCHANGED holding

Next ==
    \/ \E r \in Requests : \/ SayYes(r) \/ Ask(r) \/ Refuse(r)
                           \/ SignConfirmed(r) \/ SignFromMemory(r) \/ SignUnconfirmed(r)
    \/ Hold \/ Notice \/ Lock

Spec == Init /\ [][Next]_vars
=============================================================================
