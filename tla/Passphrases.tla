---------------------------- MODULE Passphrases -----------------------------
(***************************************************************************)
(* Where the passphrase of an encrypted key comes from: Unlocker of        *)
(* src/src/passphrase.rs, in a request that is confirmed first if its key  *)
(* asks for it, with the terminal and the programs the agent asks through, *)
(* one request at a time: SigningAgent has several, and its interaction    *)
(* gate shows that at most one of them talks to the user.                  *)
(*                                                                         *)
(* A vault's key is encrypted under one of two passphrases, and is fetched *)
(* again for every request.                                                *)
(***************************************************************************)
EXTENDS Terminal, Helper, Config

CONSTANTS
    Files,          \* the config files the agent may be started with
    Homes           \* whether there is a home directory

ASSUME FilesAssumption == \A file \in Files \ {Missing, Unreadable} : Parses(file)

VARIABLES
    served,         \* what was built from the config the agent was started with
    entry,          \* what is configured of the key being used
    step,           \* where its request stands
    version,        \* the passphrase the vault's copy of the key opens with
    copy,           \* ... and the one the copy fetched for this request does
    field,          \* the item's Passphrase field
    saved,          \* the store's value for this key
    heard,          \* what lpass gave of the field, in this request
    outcome         \* of the request, "none" while it goes on

requestVars == <<served, entry, step, version, copy, field, saved, heard, outcome>>
vars == <<requestVars, terminalVars, helperVars, dialogVars>>

Steps == {"idle", "confirming", "fetching", "looking", "asking", "storing", "saving"}

PassphrasesTypeOK ==
    /\ DialogTypeOK
    /\ TerminalTypeOK
    /\ HelperTypeOK
    /\ entry \in served.entries
    /\ step \in Steps
    /\ {version, copy} \subseteq {"first", "second"}
    /\ field \in {"empty", "first", "second", "typo"}
    /\ saved \in {"none", "first", "second", "typo", "long"}
    /\ heard \in Answers
    /\ outcome \in {"none", "signed", "denied", "refused"}

UsesStore == entry.fallback \in Stores

\* Any config a start accepts, and any vault and store it may find.
Init ==
    /\ DialogInit /\ TerminalInit /\ HelperInit
    /\ \E platform \in Platforms :
          \E config \in {Load(platform, home, file) : home \in Homes, file \in Files} \ {Refused} :
              served = Served(platform, config)
    /\ entry \in served.entries
    /\ step = "idle"
    /\ version = "first" /\ copy = "first"
    /\ field \in {"empty", "first", "typo"}
    /\ saved \in IF UsesStore THEN {"none", "typo", "long"} ELSE {"none"}
    /\ heard = NoAnswer
    /\ outcome = "none"

Outside == UNCHANGED <<served, version, field, saved>>
Exchanged == UNCHANGED <<terminalVars, helperVars>>

\* One request at a time reaches the user: the next starts when this one is done.
Begin ==
    /\ step = "idle"
    /\ entry' \in served.entries
    /\ heard' = NoAnswer
    /\ outcome' = "none"
    /\ IF entry'.confirm
       THEN step' = "confirming" /\ OpenDialog("confirm")
       ELSE step' = "fetching" /\ UNCHANGED dialogVars
    /\ Outside /\ Exchanged /\ UNCHANGED copy

Finish(with) == step' = "idle" /\ outcome' = with /\ UNCHANGED dialogVars

Confirmed ==
    /\ step = "confirming"
    /\ purpose = "none"
    /\ IF answer.how = "approved"
       THEN step' = "fetching" /\ UNCHANGED <<outcome, dialogVars>>
       ELSE Finish("denied")
    /\ Outside /\ Exchanged /\ UNCHANGED <<entry, copy, heard>>

\* The encrypted key is there: unlock looks at the item's field.
Fetch ==
    /\ step = "fetching"
    /\ copy' = version
    /\ step' = "looking"
    /\ OpenDialog("field")
    /\ Outside /\ Exchanged /\ UNCHANGED <<entry, heard, outcome>>

Opens(text) == text = copy

\* decrypt: a wrong passphrase ends the request.
Decrypt(text) == Finish(IF Opens(text) THEN "signed" ELSE "refused")

Ask == step' = "asking" /\ OpenDialog("secret") /\ UNCHANGED outcome

\* What an empty field falls back to.
Fallback ==
    CASE entry.fallback = "error" -> Finish("refused")
      [] entry.fallback = "prompt" -> Ask
      [] entry.fallback \in Stores -> step' = "storing" /\ UNCHANGED <<outcome, dialogVars>>

\* A variant that must fail: a field that does not open the key falls through to the prompt.
ResolveByAsking ==
    IF answer.text # "empty" /\ Opens(answer.text) THEN Decrypt(answer.text) ELSE Fallback

\* A populated field is authoritative.
Resolve == IF answer.text # "empty" THEN Decrypt(answer.text) ELSE Fallback

Looked ==
    /\ step = "looking"
    /\ purpose = "none"
    /\ heard' = answer
    /\ IF answer.how = "typed" THEN Resolve ELSE Finish("refused")
    /\ Outside /\ Exchanged /\ UNCHANGED <<entry, copy>>

\* A variant that must fail: the saved value is as authoritative as the vault's.
TrySavedOnly(value) == IF value \notin {"none", "unreadable"} THEN Decrypt(value) ELSE Ask

\* A saved value that opens nothing is no reason to refuse: only asking is left.
TrySaved(value) == IF Opens(value) THEN Finish("signed") ELSE Ask

\* What the store holds for the key, or that it cannot be read.
StoreSays == {saved, "unreadable"}

\* Until it answers, a dialog of the store's own may be on screen.
StoreAnswers ==
    /\ step = "storing"
    /\ \E value \in StoreSays : TrySaved(value)
    /\ Outside /\ Exchanged /\ UNCHANGED <<entry, copy, heard>>

\* A variant that must fail: it is saved, and then tried.
SaveFirst == IF UsesStore THEN step' = "saving" /\ UNCHANGED <<outcome, dialogVars>>
                          ELSE Decrypt(answer.text)

\* The answer is tried, and only one that opened the key is on its way to the store.
UseTyped ==
    IF UsesStore /\ Opens(answer.text)
    THEN step' = "saving" /\ UNCHANGED <<outcome, dialogVars>>
    ELSE Decrypt(answer.text)

\* An entry that is empty is none.
Asked ==
    /\ step = "asking"
    /\ purpose = "none"
    /\ IF answer.how = "typed" /\ answer.text # "empty" THEN UseTyped ELSE Finish("refused")
    /\ Outside /\ Exchanged /\ UNCHANGED <<entry, copy, heard>>

\* The store takes it or does not: the signature goes ahead.
Save ==
    /\ step = "saving"
    /\ saved' \in {saved, answer.text}
    /\ Decrypt(answer.text)
    /\ Exchanged /\ UNCHANGED served /\ UNCHANGED <<version, field, entry, copy, heard>>

Request == Begin \/ Confirmed \/ Fetch \/ Looked \/ StoreAnswers \/ Asked \/ Save

-----------------------------------------------------------------------------
(* Others: the vault is edited, and the store is not the agent's alone.    *)

Reencrypt ==
    /\ version = "first"
    /\ version' = "second"
    /\ field' \in {field, "empty", "second"}
    /\ UNCHANGED <<served, entry, step, copy, saved, heard, outcome>>
    /\ Exchanged /\ UNCHANGED dialogVars

\* A store no key falls back to is left out.
OtherSaves ==
    /\ UsesStore
    /\ saved' \in {"none", "second", "long"} \ {saved}
    /\ UNCHANGED <<served, entry, step, version, copy, field, heard, outcome>>
    /\ Exchanged /\ UNCHANGED dialogVars

-----------------------------------------------------------------------------
(* Through whom a question goes.                                           *)

Through ==
    CASE purpose = "confirm" -> served.confirmer
      [] purpose = "secret" -> served.prompter
      [] purpose = "field" -> "lpass"
      [] OTHER -> "nobody"

AskTerminal == Through = "terminal" /\ AtTerminal
CallProgram == Through \in Calls /\ Spawn(Through)

\* What is typed where the agent never asks is nothing to it.
Typing == served.prompter = "terminal" /\ AtKeyboard

Terminals == (AskTerminal \/ Typing) /\ UNCHANGED <<requestVars, helperVars>>

Programs ==
    (CallProgram \/ AtProgram(field) \/ AtPipes) /\ UNCHANGED <<requestVars, terminalVars>>

Next == Request \/ Reencrypt \/ OtherSaves \/ Terminals \/ Programs

Spec == Init /\ [][Next]_vars

\* What the agent does by itself; every exchange has a deadline, a store has none.
Fairness ==
    /\ WF_vars(Confirmed \/ Fetch \/ Looked \/ Asked)
    /\ WF_vars((AskTerminal \/ GiveUpOnTerminal) /\ UNCHANGED <<requestVars, helperVars>>)
    /\ WF_vars((CallProgram \/ GiveUpOnHelper) /\ UNCHANGED <<requestVars, terminalVars>>)

FairSpec == Spec /\ Fairness

-----------------------------------------------------------------------------
(***************************************************************************)
(* What the agent itself puts in a store opened the key it was asked for:  *)
(* "a typo must never become a stored credential" (unlock_from_store).     *)
(***************************************************************************)
NoTypoIsSaved ==
    [][(step = "saving" /\ step' = "idle" /\ saved' # saved) => saved' = copy]_vars

(***************************************************************************)
(* A populated field decides: nobody is asked for, and no store is read    *)
(* for, a key whose passphrase the vault has, and it signs only if it is   *)
(* the right one (the head of passphrase.rs, "the whole point").           *)
(***************************************************************************)
VaultDecides ==
    /\ step \in {"asking", "storing", "saving"} => heard = Typed("empty")
    /\ outcome = "signed" => heard.how = "typed" /\ heard.text \in {"empty", copy}

(***************************************************************************)
(* A store is never a reason to refuse a key: what was saved for it before *)
(* it was reencrypted, saved by others or cannot be read is asked for      *)
(* again ("retrying a value that cannot work would lock the key").         *)
(***************************************************************************)
StaleIsAskedAgain ==
    [][(step \in {"storing", "saving"}) => outcome' # "refused"]_vars

(***************************************************************************)
(* A config that is accepted can be served: the helper it names is there,  *)
(* the store a key falls back to is one the platform has, and whoever is   *)
(* to be asked can be (validate, uses_fallback, and the comments on        *)
(* NoStore and from_config that rely on them).                             *)
(***************************************************************************)
ConfigServes ==
    /\ entry.fallback \in Stores => served.store = entry.fallback
    /\ entry.confirm => served.confirmer \in {"dialog", "terminal", "helper"}
    /\ served.prompter \in {"dialog", "terminal", "helper"}

(***************************************************************************)
(* A request that is over, or has only the vault or the store to wait for, *)
(* has nothing on screen and no program running: no dialog that could      *)
(* still be answered, no lpass that could still print a secret, and the    *)
(* terminal is the user's again (kill_on_drop, and the guard of            *)
(* passphrase/tty.rs), however the exchange before it ended.               *)
(***************************************************************************)
NothingLeftUp ==
    step \in {"idle", "fetching", "storing", "saving"} =>
        /\ <<purpose, call, child>> = <<"none", "none", "none">>
        /\ <<tty, mode>> = <<"closed", "user">>

(***************************************************************************)
(* Every request ends, whatever the user, a program or the terminal does,  *)
(* unless it waits for the store: a locked keychain or collection puts up  *)
(* a dialog of the system's, and no deadline is set on that.               *)
(***************************************************************************)
EndsOrWaitsForTheStore ==
    step \notin {"idle", "storing", "saving"} ~> step \in {"idle", "storing", "saving"}
=============================================================================
