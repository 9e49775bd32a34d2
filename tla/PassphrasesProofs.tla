-------------------------- MODULE PassphrasesProofs --------------------------
(***************************************************************************)
(* Proofs about Passphrases, for any config files, sizes of pipes, limits, *)
(* lines typed ahead and any use of the vault and the store by others.     *)
(*                                                                         *)
(* A verdict is given when an exchange ends, from what has been read. That *)
(* it is what the other side gave takes the whole course of the exchange:  *)
(* what the program will say (PlanInv), what of it is written and read     *)
(* (PipeInv), what is typed since the question flushed the terminal        *)
(* (TerminalInv), and that there is one exchange at a time, through the    *)
(* one its purpose calls for, and for the step its request is at (TurnInv).*)
(***************************************************************************)
EXTENDS Passphrases, TLAPS

\* What is served of a config that was accepted.
ServedInv ==
    /\ served.confirmer \in {"none", "dialog", "terminal", "helper", "nothing"}
    /\ served.prompter \in {"dialog", "terminal", "helper"}
    /\ \A e \in served.entries :
          /\ e.fallback \in Fallbacks
          /\ e.fallback \in Stores => served.store = e.fallback
          /\ e.confirm => served.confirmer \in {"dialog", "terminal", "helper"}

\* At most one exchange, through the one it goes through, for the step that waits for it.
TurnInv ==
    /\ purpose # "none" =>
          <<step, purpose>> \in
              {<<"confirming", "confirm">>, <<"looking", "field">>, <<"asking", "secret">>}
    /\ purpose = "none" => call = "none" /\ tty = "closed"
    /\ call # "none" => call = Through
    /\ tty # "closed" => Through = "terminal"
    /\ purpose # "none" /\ call = "none" /\ tty = "closed" => given = "nothing"
    /\ purpose # "none" => answer = NoAnswer

\* What is typed while a question is up is its own; unseen for a secret, and nothing of it
\* outlasts the question.
TerminalInv ==
    /\ mode = "hidden" <=> tty # "closed" /\ purpose = "secret"
    /\ typing.secret => queue = <<>> /\ mode = "hidden"
    /\ \A i \in 1 .. Len(queue) : queue[i].secret => i = 1 /\ mode = "hidden"
    /\ tty # "closed" =>
          /\ typing = NoLine \/ typing.own
          /\ given = IF queue = <<>> THEN "nothing" ELSE Head(queue).text

\* What a program will say is something its question can be answered with.
PlanInv ==
    /\ call = "none" <=> child = "none"
    /\ child \in {"none", "asking"} => plan = NoPlan
    /\ purpose = "confirm" => plan.out \in {"empty", "yes"} /\ plan.err \in {0, 1}
    /\ plan.says = "allow, gave up" => purpose = "confirm" /\ call = "dialog"
    /\ plan.ok /\ plan.says # "allow, gave up" =>
          given = IF purpose = "confirm" THEN "yes" ELSE plan.out

\* A stream is read as far as it is written, and to its end but for diagnostics over the limit.
PipeInv ==
    /\ child \in {"none", "asking"} => wrote = Nothing /\ got = Nothing
    /\ child = "none" => reading = {}
    /\ \A stream \in Streams : got[stream] <= wrote[stream] /\ wrote[stream] <= Planned(stream)
    /\ child = "exited" => \A stream \in Streams : Said(stream)
    /\ child # "none" => reading \subseteq Piped(call)
    /\ child # "none" => \A stream \in Piped(call) \ reading :
          \/ child \in {"exited", "killed"} /\ got[stream] = wrote[stream]
          \/ stream = "err" /\ Limited /\ got["err"] = MaxErr
    /\ Limited /\ "err" \in reading => got["err"] < MaxErr

\* What a request knows by now of the vault's field, and of what was typed.
StepInv ==
    /\ step # "idle" => outcome = "none"
    /\ step = "saving" => answer.text = copy
    /\ VaultDecides

PassphrasesInv ==
    /\ PassphrasesTypeOK
    /\ ServedInv /\ TurnInv /\ TerminalInv /\ PlanInv /\ PipeInv /\ StepInv
    /\ AnswersAreFresh

-----------------------------------------------------------------------------
(* What is served of an accepted config.                                   *)

\* What an accepted config has been checked for.
Accepted(platform, config) ==
    /\ config.confirm \in ConfirmModes
    /\ config.passphrase_fallback \in Fallbacks
    /\ config.keys \in Seq(KeyConfigs)
    /\ config.confirm = "askpass" => config.askpass # Unset
    /\ platform # "macos" => ~UsesFallback(config, "keychain")
    /\ platform # "linux" => ~UsesFallback(config, "secretservice")

LEMMA LoadAccepts ==
    ASSUME NEW platform \in Platforms, NEW home, NEW file \in Files,
           Load(platform, home, file) # Refused
    PROVE  Accepted(platform, Load(platform, home, file))
<1>1. CASE file = Missing
  BY <1>1 DEF Load, Accepted, Defaults, ConfirmModes, Fallbacks, UsesFallback, Platforms
<1>2. CASE file # Missing
  <2> DEFINE parsed == Parsed(platform, file)
             config == Expand(parsed, home)
  <2>1. Parses(file) /\ Load(platform, home, file) = config /\ Valid(platform, config)
    BY <1>2, FilesAssumption DEF Load
  <2>2. /\ parsed["confirm"] \in ConfirmModes
        /\ parsed["passphrase_fallback"] \in Fallbacks
        /\ parsed["keys"] \in Seq(KeyConfigs)
    <3>1. {"confirm", "passphrase_fallback", "keys"} \subseteq DOMAIN Defaults(platform)
      BY DEF Defaults
    <3>2. /\ Defaults(platform)["confirm"] \in ConfirmModes
          /\ Defaults(platform)["passphrase_fallback"] \in Fallbacks
          /\ Defaults(platform)["keys"] \in Seq(KeyConfigs)
      BY DEF Defaults, ConfirmModes, Fallbacks
    <3> QED
      BY <2>1, <3>1, <3>2 DEF Parsed, Parses
  <2>3. /\ config.confirm = parsed["confirm"]
        /\ config.passphrase_fallback = parsed["passphrase_fallback"]
        /\ config.keys = parsed["keys"]
    BY DEF Expand, Parsed, Defaults
  <2> HIDE DEF config
  <2> QED
    BY <2>1, <2>2, <2>3 DEF Valid, Accepted
<1> QED
  BY <1>1, <1>2

LEMMA AcceptedIsServed ==
    ASSUME NEW platform \in Platforms, NEW config, Accepted(platform, config),
           served = Served(platform, config)
    PROVE  ServedInv
<1>1. /\ served.confirmer = Confirmer(config)
      /\ served.prompter = Prompter(platform, config)
      /\ served.store = StoreOf(platform)
      /\ served.entries = Entries(config)
  BY DEF Served
<1>2. /\ Confirmer(config) \in {"none", "dialog", "terminal", "helper"}
      /\ config.confirm # "off" => Confirmer(config) # "none"
  BY DEF Accepted, Confirmer, ConfirmModes, HelperOf
<1>3. Prompter(platform, config) \in {"dialog", "terminal", "helper"}
  BY <1>2 DEF Prompter
<1>4. ASSUME NEW e \in Entries(config)
      PROVE  /\ e.fallback \in Fallbacks
             /\ UsesFallback(config, e.fallback)
             /\ e.confirm => config.confirm # "off"
  <2>1. CASE config.keys = <<>>
    <3>1. e = [confirm |-> config.confirm # "off", fallback |-> config.passphrase_fallback]
      BY <2>1 DEF Entries
    <3>2. e.confirm = (config.confirm # "off") /\ e.fallback = config.passphrase_fallback
      BY <3>1
    <3> QED
      BY <2>1, <3>2 DEF Accepted, UsesFallback
  <2>2. CASE config.keys # <<>>
    <3>1. PICK i \in DOMAIN config.keys :
             e = [confirm |-> ConfirmRequired(config, config.keys[i]),
                  fallback |-> FallbackOf(config, config.keys[i])]
      BY <2>2 DEF Entries
    <3>2. config.keys[i] \in KeyConfigs
      BY DEF Accepted
    <3> QED
      BY <3>1, <3>2 DEF UsesFallback, FallbackOf, ConfirmRequired, KeyConfigs, Accepted
  <2> QED
    BY <2>1, <2>2
<1>5. ASSUME NEW e \in Entries(config), e.fallback \in Stores
      PROVE  StoreOf(platform) = e.fallback
  BY <1>4, <1>5 DEF Accepted, StoreOf, Stores, Platforms
<1> QED
  BY <1>1, <1>2, <1>3, <1>4, <1>5 DEF ServedInv

LEMMA NoPlanIsOne == NoPlan \in Plans
BY DEF NoPlan, Plans, Texts, Says, Streams

LEMMA PassphrasesInit == Init => PassphrasesInv
<1> SUFFICES ASSUME Init PROVE PassphrasesInv
  OBVIOUS
<1>1. ServedInv
  <2>1. PICK platform \in Platforms, home \in Homes, file \in Files :
           /\ Load(platform, home, file) # Refused
           /\ served = Served(platform, Load(platform, home, file))
    BY DEF Init
  <2> QED
    BY <2>1, LoadAccepts, AcceptedIsServed
<1>2. PassphrasesTypeOK
  BY HelperAssumption, NoPlanIsOne DEF Init, PassphrasesTypeOK, DialogInit, DialogTypeOK, TerminalInit, TerminalTypeOK,
     HelperInit, HelperTypeOK, NoAnswer, Answers, Purposes, NoLine, Lines, Texts, Nothing, Streams,
     NoPlan, Plans, Steps, UsesStore
<1>3. TurnInv /\ TerminalInv
  BY DEF Init, DialogInit, TerminalInit, HelperInit, TurnInv, TerminalInv, NoLine, NoAnswer
<1>4. PlanInv /\ PipeInv
  BY HelperAssumption DEF Init, DialogInit, HelperInit, PlanInv, PipeInv, NoPlan, Nothing, Streams, Planned, Units
<1>5. StepInv
  BY DEF Init, StepInv, VaultDecides, NoAnswer
<1>6. AnswersAreFresh
  BY DEF Init, DialogInit, AnswersAreFresh, NoAnswer
<1> QED
  BY <1>1, <1>2, <1>3, <1>4, <1>5, <1>6 DEF PassphrasesInv

-----------------------------------------------------------------------------
(* The request's own steps, and the vault's and the store's.               *)

\* Between two exchanges, one may be opened for the step the request comes to.
OpensOne ==
    /\ purpose = "none"
    /\ UNCHANGED <<served, terminalVars, helperVars>>
    /\ \/ UNCHANGED dialogVars
       \/ /\ <<step', purpose'>> \in
                {<<"confirming", "confirm">>, <<"looking", "field">>, <<"asking", "secret">>}
          /\ answer' = NoAnswer
          /\ given' = "nothing"

LEMMA RequestOpens ==
    ASSUME PassphrasesInv, Request
    PROVE  OpensOne
<1> USE DEF Outside, Exchanged, OpensOne, OpenDialog
<1>0. step \notin {"confirming", "looking", "asking"} => purpose = "none"
  BY DEF PassphrasesInv, TurnInv
<1>1. CASE Begin
  BY <1>0, <1>1 DEF Begin
<1>2. CASE Confirmed
  BY <1>2 DEF Confirmed, Finish
<1>3. CASE Fetch
  BY <1>0, <1>3 DEF Fetch
<1>4. CASE Looked
  BY <1>4 DEF Looked, Resolve, Decrypt, Finish, Fallback, Ask, PassphrasesInv, PassphrasesTypeOK, ServedInv, Fallbacks, Stores
<1>5. CASE StoreAnswers
  BY <1>0, <1>5 DEF StoreAnswers, TrySaved, Finish, Ask
<1>6. CASE Asked
  BY <1>6 DEF Asked, UseTyped, Decrypt, Finish
<1>7. CASE Save
  BY <1>0, <1>7 DEF Save, Decrypt, Finish
<1> QED
  BY <1>1, <1>2, <1>3, <1>4, <1>5, <1>6, <1>7 DEF Request

\* An exchange that is opened finds nothing of another, and one that is not changes nothing.
LEMMA OpensKeeps ==
    ASSUME PassphrasesInv, OpensOne
    PROVE  /\ ServedInv' /\ TurnInv' /\ TerminalInv' /\ PlanInv' /\ PipeInv'
           /\ DialogTypeOK' /\ TerminalTypeOK' /\ HelperTypeOK' /\ AnswersAreFresh'
<1>1. call = "none" /\ child = "none" /\ tty = "closed" /\ plan = NoPlan /\ reading = {}
  BY DEF PassphrasesInv, TurnInv, PlanInv, PipeInv, OpensOne
<1>2. ServedInv' /\ TurnInv'
  BY <1>1 DEF PassphrasesInv, ServedInv, TurnInv, OpensOne, terminalVars, helperVars, dialogVars
<1>3. TerminalInv'
  BY <1>1 DEF PassphrasesInv, TerminalInv, OpensOne, terminalVars, dialogVars
<1>4. PlanInv'
  BY <1>1 DEF PassphrasesInv, PlanInv, OpensOne, helperVars, dialogVars, NoPlan
<1>5. PipeInv'
  BY <1>1 DEF PassphrasesInv, PipeInv, OpensOne, helperVars, dialogVars, Planned, Said, Limited
<1>6. DialogTypeOK' /\ AnswersAreFresh'
  BY DEF PassphrasesInv, PassphrasesTypeOK, DialogTypeOK, AnswersAreFresh, OpensOne, dialogVars, NoAnswer,
     Answers, Purposes, Texts
<1>7. TerminalTypeOK' /\ HelperTypeOK'
  BY DEF PassphrasesInv, PassphrasesTypeOK, TerminalTypeOK, HelperTypeOK, OpensOne, terminalVars, helperVars
<1> QED
  BY <1>2, <1>3, <1>4, <1>5, <1>6, <1>7

LEMMA RequestKeeps ==
    ASSUME PassphrasesInv, Request
    PROVE  PassphrasesInv'
<1>1. OpensOne
  BY RequestOpens
<1>2. StepInv' /\ entry' \in served'.entries /\ step' \in Steps
      /\ {version', copy'} \subseteq {"first", "second"}
      /\ field' \in {"empty", "first", "second", "typo"}
      /\ saved' \in {"none", "first", "second", "typo", "long"}
      /\ heard' \in Answers
      /\ outcome' \in {"none", "signed", "denied", "refused"}
  <2> USE DEF PassphrasesInv, PassphrasesTypeOK, StepInv, VaultDecides, Steps, Outside, Exchanged,
          Finish, Ask, Decrypt, Opens
  <2>1. CASE Begin
    BY <2>1 DEF Begin, NoAnswer, Answers, Texts
  <2>2. CASE Confirmed
    BY <2>2 DEF Confirmed
  <2>3. CASE Fetch
    BY <2>3 DEF Fetch
  <2>4. CASE Looked
    <3>1. answer \in Answers /\ (answer.how = "typed" /\ answer.text = "empty" => answer = Typed("empty"))
      BY DEF DialogTypeOK, Answers, Typed
    <3>2. CASE answer.how # "typed" \/ answer.text # "empty"
      BY <2>4, <3>1, <3>2 DEF Looked, Resolve
    <3>3. CASE answer.how = "typed" /\ answer.text = "empty"
      <4>1. heard' = Typed("empty") /\ Fallback /\ UNCHANGED <<served, version, field, saved, entry, copy>>
        BY <2>4, <3>1, <3>3 DEF Looked, Resolve
      <4>2. \/ Finish("refused")
            \/ Ask
            \/ step' = "storing" /\ UNCHANGED <<outcome, dialogVars>>
        BY <4>1 DEF Fallback, ServedInv, Fallbacks, Stores
      <4>3. step = "looking" /\ outcome = "none"
        BY <2>4 DEF Looked
      <4> QED
        BY <3>1, <3>3, <4>1, <4>2, <4>3 DEF Typed
    <3> QED
      BY <3>2, <3>3
  <2>5. CASE StoreAnswers
    BY <2>5 DEF StoreAnswers, TrySaved, Typed
  <2>6. CASE Asked
    BY <2>6 DEF Asked, UseTyped, dialogVars, Typed
  <2>7. CASE Save
    BY <2>7 DEF Save, Typed
  <2> QED
    BY <2>1, <2>2, <2>3, <2>4, <2>5, <2>6, <2>7 DEF Request
<1> QED
  BY <1>1, <1>2, OpensKeeps DEF PassphrasesInv, PassphrasesTypeOK

LEMMA OthersKeep ==
    ASSUME PassphrasesInv, Reencrypt \/ OtherSaves \/ UNCHANGED vars
    PROVE  PassphrasesInv'
<1>1. /\ UNCHANGED <<served, entry, step, copy, heard, outcome, terminalVars, helperVars, dialogVars>>
      /\ version' \in {"first", "second"}
      /\ field' \in {"empty", "first", "second", "typo"}
      /\ saved' \in {"none", "first", "second", "typo", "long"}
  BY DEF PassphrasesInv, PassphrasesTypeOK, Reencrypt, OtherSaves, Exchanged, vars, requestVars
<1>2. PassphrasesTypeOK'
  BY <1>1 DEF PassphrasesInv, PassphrasesTypeOK, DialogTypeOK, TerminalTypeOK, HelperTypeOK, dialogVars,
     terminalVars, helperVars
<1>3. ServedInv' /\ TurnInv' /\ TerminalInv' /\ StepInv' /\ AnswersAreFresh'
  BY <1>1 DEF PassphrasesInv, ServedInv, TurnInv, TerminalInv, StepInv, VaultDecides, AnswersAreFresh,
     Through, dialogVars, terminalVars, helperVars
<1>4. PlanInv' /\ PipeInv'
  BY <1>1 DEF PassphrasesInv, PlanInv, PipeInv, Planned, Said, Limited, Piped, dialogVars, helperVars
<1> QED
  BY <1>2, <1>3, <1>4 DEF PassphrasesInv

-----------------------------------------------------------------------------
(* An exchange ends.                                                       *)

NoSecretLeft ==
    /\ typing \in Lines \cup {NoLine} /\ ~typing.secret
    /\ queue \in Seq(Lines) /\ \A i \in 1 .. Len(queue) : ~queue[i].secret

\* However it ends, what it used is given back, and what it comes to is what was given.
Closes(with) ==
    /\ CloseDialog(with)
    /\ with \in Answers
    /\ with.how = "approved" => given = "yes"
    /\ with.how = "typed" => with.text = given
    /\ tty' = "closed" /\ mode' = "user" /\ NoSecretLeft'
    /\ <<call', child', plan', wrote', got', reading'>> =
          <<"none", "none", NoPlan, Nothing, Nothing, {}>>
    /\ UNCHANGED requestVars

LEMMA ClosesKeeps ==
    ASSUME PassphrasesInv, NEW with, Closes(with), step # "saving"
    PROVE  PassphrasesInv'
<1> USE DEF Closes, CloseDialog
<1>1. UNCHANGED <<served, entry, step, version, copy, field, saved, heard, outcome>>
  BY DEF requestVars
<1>2. PassphrasesTypeOK'
  BY <1>1, HelperAssumption, NoPlanIsOne DEF PassphrasesInv, PassphrasesTypeOK, DialogTypeOK, TerminalTypeOK,
     HelperTypeOK, NoSecretLeft, Nothing, Streams
<1>3. ServedInv' /\ StepInv' /\ AnswersAreFresh'
  BY <1>1 DEF PassphrasesInv, ServedInv, StepInv, VaultDecides, AnswersAreFresh
<1>4. TurnInv' /\ TerminalInv'
  BY DEF TurnInv, TerminalInv, NoSecretLeft
<1>5. PlanInv' /\ PipeInv'
  BY HelperAssumption DEF PlanInv, PipeInv, NoPlan, Nothing, Streams, Planned, Units
<1> QED
  BY <1>2, <1>3, <1>4, <1>5 DEF PassphrasesInv

\* A question nobody could be asked, or nobody answered in time, is neither approved nor typed.
LEMMA UnaskedIsNone ==
    ASSUME NEW why \in {"cancelled", "unavailable"}
    PROVE  Unasked(why) \in Answers /\ Unasked(why).how \notin {"approved", "typed"}
BY DEF Unasked, Came, Answers, Texts

-----------------------------------------------------------------------------
(* The terminal.                                                           *)

LEMMA EmptyQueue == <<>> \in Seq(Lines) /\ Len(<<>>) = 0
OBVIOUS

LEMMA TailOf ==
    ASSUME NEW q \in Seq(Lines), q # <<>>
    PROVE  /\ Tail(q) \in Seq(Lines) /\ Len(Tail(q)) = Len(q) - 1 /\ Len(q) \in Nat \ {0}
           /\ \A i \in 1 .. Len(Tail(q)) : Tail(q)[i] = q[i + 1]
           /\ Head(q) = q[1] /\ Head(q) \in Lines
OBVIOUS

\* A question is on the terminal only if no program is called for it.
LEMMA AtTerminalAlone ==
    ASSUME PassphrasesInv, tty # "closed" \/ AskTerminal
    PROVE  /\ Through = "terminal" /\ call = "none" /\ child = "none" /\ plan = NoPlan
           /\ wrote = Nothing /\ got = Nothing /\ reading = {}
<1>1. Through = "terminal"
  BY DEF PassphrasesInv, TurnInv, AskTerminal
<1>2. call = "none"
  BY <1>1 DEF PassphrasesInv, TurnInv, PassphrasesTypeOK, HelperTypeOK, Calls
<1> QED
  BY <1>1, <1>2 DEF PassphrasesInv, PlanInv, PipeInv

\* A step there that ends no exchange.
LEMMA TerminalStays ==
    ASSUME PassphrasesInv, UNCHANGED <<purpose, answer, requestVars, helperVars>>,
           TerminalInv', TerminalTypeOK', given' \in Texts \cup {"nothing"},
           given' = given \/ tty # "closed",
           tty' # "closed" => Through = "terminal" /\ purpose # "none" /\ call = "none",
           tty' = "closed" => tty = "closed"
    PROVE  PassphrasesInv'
<1>1. UNCHANGED <<served, entry, step, version, copy, field, saved, heard, outcome,
                  call, child, plan, wrote, got, reading>>
  BY DEF requestVars, helperVars
<1>2. PassphrasesTypeOK'
  BY <1>1 DEF PassphrasesInv, PassphrasesTypeOK, DialogTypeOK, HelperTypeOK
<1>3. ServedInv' /\ StepInv'
  BY <1>1 DEF PassphrasesInv, ServedInv, StepInv, VaultDecides
<1>4. TurnInv'
  BY <1>1 DEF PassphrasesInv, TurnInv, Through
<1>5. given' = given \/ (purpose # "none" /\ call = "none" /\ plan = NoPlan)
  BY AtTerminalAlone DEF PassphrasesInv, TurnInv
<1>6. AnswersAreFresh'
  BY <1>5 DEF PassphrasesInv, TurnInv, AnswersAreFresh, NoAnswer
<1>7. PlanInv'
  <2>1. CASE given' = given
    BY <1>1, <2>1 DEF PassphrasesInv, PlanInv
  <2>2. CASE plan = NoPlan
    <3>1. ~plan.ok /\ plan.says = "nothing" /\ plan.out = "empty" /\ plan.err = 0
      BY <2>2 DEF NoPlan
    <3> QED
      BY <1>1, <2>2, <3>1 DEF PassphrasesInv, PlanInv
  <2> QED
    BY <1>5, <2>1, <2>2
<1>8. PipeInv'
  BY <1>1 DEF PassphrasesInv, PipeInv, Planned, Said, Limited, Piped
<1> QED
  BY <1>2, <1>3, <1>4, <1>6, <1>7, <1>8 DEF PassphrasesInv

LEMMA OpenTerminalKeeps ==
    ASSUME PassphrasesInv, AskTerminal, OpenTerminal, UNCHANGED <<requestVars, helperVars>>
    PROVE  PassphrasesInv'
<1> USE DEF OpenTerminal
<1>1. Through = "terminal" /\ call = "none" /\ child = "none" /\ plan = NoPlan
      /\ wrote = Nothing /\ got = Nothing /\ reading = {}
  BY AtTerminalAlone
<1>2. NoSecretLeft /\ ~NoLine.secret
  BY DEF PassphrasesInv, TerminalInv, NoSecretLeft, PassphrasesTypeOK, TerminalTypeOK, NoLine
<1>3. CASE /\ tty' = "open" /\ DiscardPendingInput
           /\ mode' = ModeFor(purpose) /\ UNCHANGED dialogVars
  <2>1. queue' = <<>> /\ typing' = NoLine /\ UNCHANGED <<purpose, answer, given>> /\ given = "nothing"
    BY <1>1, <1>3 DEF dialogVars, DiscardPendingInput, PassphrasesInv, TurnInv
  <2>2. mode = "user" /\ mode' = IF purpose = "secret" THEN "hidden" ELSE "user"
    BY <1>3 DEF ModeFor, PassphrasesInv, TerminalInv, PassphrasesTypeOK, TerminalTypeOK
  <2>3. TerminalInv'
    BY <1>2, <1>3, <2>1, <2>2, EmptyQueue DEF TerminalInv
  <2>4. TerminalTypeOK'
    BY <1>3, <2>1, <2>2, EmptyQueue DEF TerminalTypeOK
  <2> QED
    BY <1>1, <1>3, <2>1, <2>3, <2>4, TerminalStays
<1>4. CASE UNCHANGED <<tty, mode>> /\ CloseDialog(Unasked("unavailable"))
           /\ (DiscardPendingInput \/ UNCHANGED <<queue, typing>>)
  <2>1. NoSecretLeft'
    <3>1. CASE DiscardPendingInput
      BY <3>1, EmptyQueue DEF DiscardPendingInput, NoSecretLeft, NoLine
    <3>2. CASE UNCHANGED <<queue, typing>>
      BY <1>2, <3>2 DEF NoSecretLeft
    <3> QED
      BY <1>4, <3>1, <3>2
  <2>2. mode = "user"
    BY DEF PassphrasesInv, TerminalInv, PassphrasesTypeOK, TerminalTypeOK
  <2>3. Closes(Unasked("unavailable"))
    BY <1>1, <1>4, <2>1, <2>2, UnaskedIsNone DEF Closes, helperVars
  <2>4. step # "saving"
    BY DEF PassphrasesInv, TurnInv
  <2> QED
    BY <2>3, <2>4, ClosesKeeps
<1> QED
  BY <1>3, <1>4

LEMMA ShowQuestionKeeps ==
    ASSUME PassphrasesInv, ShowQuestion, UNCHANGED <<requestVars, helperVars>>
    PROVE  PassphrasesInv'
<1>1. Through = "terminal" /\ call = "none" /\ purpose # "none"
  BY AtTerminalAlone DEF ShowQuestion, PassphrasesInv, TurnInv
<1>2. TerminalInv' /\ TerminalTypeOK' /\ UNCHANGED <<purpose, answer, given>> /\ tty' = "shown"
  BY DEF ShowQuestion, dialogVars, PassphrasesInv, TerminalInv, PassphrasesTypeOK, TerminalTypeOK
<1>3. given \in Texts \cup {"nothing"}
  BY DEF PassphrasesInv, PassphrasesTypeOK, DialogTypeOK
<1> QED
  BY <1>1, <1>2, <1>3, TerminalStays

LEMMA GiveUpOnTerminalKeeps ==
    ASSUME PassphrasesInv, GiveUpOnTerminal, UNCHANGED <<requestVars, helperVars>>
    PROVE  PassphrasesInv'
<1>1. /\ call = "none" /\ child = "none" /\ plan = NoPlan
      /\ wrote = Nothing /\ got = Nothing /\ reading = {}
      /\ step # "saving"
  BY AtTerminalAlone DEF GiveUpOnTerminal, PassphrasesInv, TurnInv
<1>2. PICK why \in {"cancelled", "unavailable"} : CloseDialog(Unasked(why))
  BY DEF GiveUpOnTerminal
<1>3. NoSecretLeft'
  <2>1. CASE mode = "hidden"
    BY <2>1, EmptyQueue DEF GiveUpOnTerminal, Restore, DiscardPendingInput, NoSecretLeft, NoLine
  <2>2. CASE mode # "hidden"
    BY <2>2 DEF GiveUpOnTerminal, Restore, NoSecretLeft, PassphrasesInv, TerminalInv, PassphrasesTypeOK,
       TerminalTypeOK
  <2> QED
    BY <2>1, <2>2
<1>4. Closes(Unasked(why))
  BY <1>1, <1>2, <1>3, UnaskedIsNone DEF Closes, GiveUpOnTerminal, Restore, helperVars
<1> QED
  BY <1>1, <1>4, ClosesKeeps

LEMMA TakeLineKeeps ==
    ASSUME PassphrasesInv, TakeLine, UNCHANGED <<requestVars, helperVars>>
    PROVE  PassphrasesInv'
<1> DEFINE line == Head(queue)
<1>1. /\ call = "none" /\ child = "none" /\ plan = NoPlan
      /\ wrote = Nothing /\ got = Nothing /\ reading = {}
      /\ Through = "terminal"
      /\ step # "saving"
  BY AtTerminalAlone DEF TakeLine, PassphrasesInv, TurnInv
<1>2. queue \in Seq(Lines) /\ queue # <<>> /\ given = line.text /\ line.text \in Texts
  BY TailOf DEF TakeLine, PassphrasesInv, TerminalInv, PassphrasesTypeOK, TerminalTypeOK, Lines
<1>3. CASE queue' = Tail(queue) /\ CloseDialog(LineAnswer(line.text)) /\ UNCHANGED typing
  <2>1. NoSecretLeft'
    <3>1. typing' \in Lines \cup {NoLine} /\ ~typing'.secret
      BY <1>2, <1>3 DEF PassphrasesInv, TerminalInv, PassphrasesTypeOK, TerminalTypeOK
    <3>2. queue' \in Seq(Lines) /\ \A i \in 1 .. Len(queue') : queue'[i] = queue[i + 1]
      BY <1>2, <1>3, TailOf
    <3>3. \A i \in 1 .. Len(queue') : i + 1 \in 1 .. Len(queue) /\ i + 1 # 1
      BY <1>2, <1>3, TailOf
    <3> QED
      BY <3>1, <3>2, <3>3 DEF NoSecretLeft, PassphrasesInv, TerminalInv
  <2>2. /\ LineAnswer(line.text) \in Answers
        /\ LineAnswer(line.text).how = "approved" => given = "yes"
        /\ LineAnswer(line.text).how = "typed" => LineAnswer(line.text).text = given
    BY <1>2 DEF LineAnswer, ConfirmLine, SecretLine, Came, Typed, Answers, Texts
  <2>3. Closes(LineAnswer(line.text))
    BY <1>1, <1>3, <2>1, <2>2 DEF Closes, TakeLine, helperVars
  <2> QED
    BY <1>1, <2>3, ClosesKeeps
<1>4. CASE DiscardPendingInput /\ CloseDialog(Came("unavailable"))
  <2>1. NoSecretLeft'
    BY <1>4, EmptyQueue DEF DiscardPendingInput, NoSecretLeft, NoLine
  <2>2. Closes(Came("unavailable"))
    BY <1>1, <1>4, <2>1 DEF Closes, TakeLine, helperVars, Came, Answers, Texts
  <2> QED
    BY <1>1, <2>2, ClosesKeeps
<1> QED
  BY <1>3, <1>4 DEF TakeLine

LEMMA TypeKeeps ==
    ASSUME PassphrasesInv, Type, UNCHANGED <<requestVars, helperVars>>
    PROVE  PassphrasesInv'
<1>1. PICK text \in Entered :
         typing' = [text |-> text, own |-> tty # "closed", secret |-> mode = "hidden" /\ queue = <<>>]
  BY DEF Type
<1>2. /\ typing' \in Lines /\ typing'.own = (tty # "closed")
      /\ typing'.secret = (mode = "hidden" /\ queue = <<>>)
  BY <1>1, TypedAssumption DEF Lines
<1>3. UNCHANGED <<tty, mode, queue, purpose, answer, given>>
  BY DEF Type, dialogVars
<1>4. TerminalInv' /\ TerminalTypeOK' /\ given \in Texts \cup {"nothing"}
  BY <1>2, <1>3 DEF PassphrasesInv, TerminalInv, PassphrasesTypeOK, TerminalTypeOK, DialogTypeOK
<1>5. tty # "closed" => Through = "terminal" /\ purpose # "none" /\ call = "none"
  BY AtTerminalAlone DEF PassphrasesInv, TurnInv
<1> QED
  BY <1>3, <1>4, <1>5, TerminalStays

LEMMA EnterKeeps ==
    ASSUME PassphrasesInv, Enter, UNCHANGED <<requestVars, helperVars>>
    PROVE  PassphrasesInv'
<1>1. typing \in Lines /\ queue \in Seq(Lines) /\ typing.text \in Texts
  BY DEF Enter, PassphrasesInv, PassphrasesTypeOK, TerminalTypeOK, Lines
<1>2. UNCHANGED <<tty, mode, purpose, answer>> /\ queue' = Append(queue, typing) /\ typing' = NoLine
  BY DEF Enter
<1>3. /\ queue' \in Seq(Lines) /\ queue' # <<>> /\ Len(queue') = Len(queue) + 1
      /\ \A i \in 1 .. Len(queue) : queue'[i] = queue[i]
      /\ queue'[Len(queue) + 1] = typing
      /\ Head(queue') = IF queue = <<>> THEN typing ELSE Head(queue)
      /\ Len(queue) \in Nat /\ (queue = <<>> => Len(queue) = 0)
  BY <1>1, <1>2
<1>4. /\ given' = given \/ tty # "closed"
      /\ given' \in Texts \cup {"nothing"}
  BY <1>1 DEF Enter, PassphrasesInv, PassphrasesTypeOK, DialogTypeOK
<1>5. tty # "closed" => given' = Head(queue').text
  <2>1. "nothing" \notin Texts
    BY DEF Texts
  <2>2. queue # <<>> => Head(queue) \in Lines
    BY <1>1
  <2> QED
    BY <1>1, <1>3, <2>1, <2>2 DEF Enter, PassphrasesInv, TerminalInv, Lines
<1>6. \A i \in 1 .. Len(queue') : queue'[i].secret => i = 1 /\ mode = "hidden"
  BY <1>3 DEF PassphrasesInv, TerminalInv
<1>7. TerminalInv' /\ TerminalTypeOK'
  BY <1>2, <1>3, <1>5, <1>6 DEF TerminalInv, TerminalTypeOK, PassphrasesInv, PassphrasesTypeOK, NoLine
<1>8. tty # "closed" => Through = "terminal" /\ purpose # "none" /\ call = "none"
  BY AtTerminalAlone DEF PassphrasesInv, TurnInv
<1> QED
  BY <1>2, <1>4, <1>7, <1>8, TerminalStays

LEMMA ReadElsewhereKeeps ==
    ASSUME PassphrasesInv, ReadElsewhere, UNCHANGED <<requestVars, helperVars>>
    PROVE  PassphrasesInv'
<1>1. UNCHANGED <<tty, mode, typing, purpose, answer, given>> /\ tty = "closed"
  BY DEF ReadElsewhere, dialogVars
<1>2. queue \in Seq(Lines) /\ queue # <<>> /\ mode # "hidden"
  BY DEF ReadElsewhere, PassphrasesInv, TerminalInv, PassphrasesTypeOK, TerminalTypeOK
<1>3. /\ queue' \in Seq(Lines)
      /\ \A i \in 1 .. Len(queue') : i + 1 \in 1 .. Len(queue) /\ queue'[i] = queue[i + 1]
  BY <1>2, TailOf DEF ReadElsewhere
<1>4. TerminalInv' /\ TerminalTypeOK' /\ given \in Texts \cup {"nothing"}
  BY <1>1, <1>2, <1>3 DEF PassphrasesInv, TerminalInv, PassphrasesTypeOK, TerminalTypeOK, DialogTypeOK
<1> QED
  BY <1>1, <1>4, TerminalStays

LEMMA TerminalsKeep ==
    ASSUME PassphrasesInv, Terminals
    PROVE  PassphrasesInv'
BY OpenTerminalKeeps, ShowQuestionKeeps, GiveUpOnTerminalKeeps, TakeLineKeeps, TypeKeeps, EnterKeeps,
   ReadElsewhereKeeps DEF Terminals, AskTerminal, Typing, AtTerminal, AtKeyboard

-----------------------------------------------------------------------------
(* A program.                                                              *)

\* While a program is called, the terminal is not asked, and its question is one of its kind's.
LEMMA AtProgramAlone ==
    ASSUME PassphrasesInv, call # "none" \/ Through \in Calls
    PROVE  /\ tty = "closed" /\ mode = "user" /\ Through \in Calls
           /\ purpose # "none" /\ answer = NoAnswer /\ step # "saving"
           /\ Through = "lpass" <=> purpose = "field"
           /\ NoSecretLeft
<1>1. Through \in Calls /\ Through # "terminal"
  BY DEF PassphrasesInv, TurnInv, PassphrasesTypeOK, HelperTypeOK, Calls
<1>2. tty = "closed" /\ purpose # "none"
  BY <1>1 DEF PassphrasesInv, TurnInv, Through, Calls
<1>3. mode = "user" /\ NoSecretLeft
  BY <1>2 DEF PassphrasesInv, TerminalInv, PassphrasesTypeOK, TerminalTypeOK, NoSecretLeft
<1>4. Through = "lpass" <=> purpose = "field"
  BY <1>1 DEF Through, PassphrasesInv, ServedInv, Calls
<1> QED
  BY <1>1, <1>2, <1>3, <1>4 DEF PassphrasesInv, TurnInv

\* A step of it that ends no exchange.
LEMMA ProgramStays ==
    ASSUME PassphrasesInv, UNCHANGED <<purpose, answer, requestVars, terminalVars>>,
           call # "none" \/ Through \in Calls, call' = Through,
           PlanInv', PipeInv', HelperTypeOK', given' \in Texts \cup {"nothing"}
    PROVE  PassphrasesInv'
<1>1. UNCHANGED <<served, entry, step, version, copy, field, saved, heard, outcome,
                  tty, mode, queue, typing>>
  BY DEF requestVars, terminalVars
<1>2. tty = "closed" /\ purpose # "none" /\ answer = NoAnswer /\ Through \in Calls
  BY AtProgramAlone
<1>3. PassphrasesTypeOK'
  BY <1>1 DEF PassphrasesInv, PassphrasesTypeOK, DialogTypeOK, TerminalTypeOK
<1>4. ServedInv' /\ StepInv'
  BY <1>1 DEF PassphrasesInv, ServedInv, StepInv, VaultDecides
<1>5. TurnInv'
  BY <1>1, <1>2 DEF PassphrasesInv, TurnInv, Through, Calls
<1>6. TerminalInv'
  BY <1>1, <1>2 DEF PassphrasesInv, TerminalInv
<1>7. AnswersAreFresh'
  BY <1>2 DEF AnswersAreFresh, NoAnswer
<1> QED
  BY <1>3, <1>4, <1>5, <1>6, <1>7 DEF PassphrasesInv

\* However a call ends, its program is gone with it.
LEMMA EndCallKeeps ==
    ASSUME PassphrasesInv, NEW with, EndCall(with), call # "none",
           UNCHANGED <<requestVars, terminalVars>>,
           with \in Answers, with.how = "approved" => given = "yes",
           with.how = "typed" => with.text = given
    PROVE  PassphrasesInv'
<1>1. Closes(with)
  <2>1. NoSecretLeft'
    BY AtProgramAlone DEF NoSecretLeft, terminalVars
  <2> QED
    BY <2>1, AtProgramAlone DEF Closes, EndCall, terminalVars
<1> QED
  BY <1>1, AtProgramAlone, ClosesKeeps

LEMMA SpawnKeeps ==
    ASSUME PassphrasesInv, CallProgram, UNCHANGED <<requestVars, terminalVars>>
    PROVE  PassphrasesInv'
<1>1. /\ Through \in Calls /\ call = "none" /\ child = "none" /\ plan = NoPlan
      /\ wrote = Nothing /\ got = Nothing /\ reading = {}
  BY DEF CallProgram, Spawn, PassphrasesInv, TurnInv, PlanInv, PipeInv
<1>2. CASE /\ call' = Through /\ child' = "asking" /\ reading' = Piped(Through)
           /\ UNCHANGED <<plan, wrote, got, dialogVars>>
  <2>1. UNCHANGED <<purpose, answer, given, plan, wrote, got>>
    BY <1>2 DEF dialogVars
  <2>2. PlanInv'
    BY <1>1, <1>2, <2>1 DEF PlanInv, NoPlan, Calls
  <2>3. Piped(Through) \subseteq Streams
    BY DEF Piped, Streams
  <2>4. PipeInv'
    BY <1>1, <1>2, <2>1, <2>3, HelperAssumption DEF PipeInv, NoPlan, Nothing, Streams, Planned, Units, Piped, Limited
  <2>5. HelperTypeOK' /\ given' \in Texts \cup {"nothing"}
    BY <1>1, <1>2, <2>1, <2>3 DEF PassphrasesInv, PassphrasesTypeOK, HelperTypeOK, DialogTypeOK, Calls
  <2> QED
    BY <1>1, <1>2, <2>1, <2>2, <2>4, <2>5, ProgramStays
<1>3. CASE CloseDialog(Unasked("unavailable")) /\ UNCHANGED helperVars
  <2>1. NoSecretLeft'
    BY <1>1, AtProgramAlone DEF NoSecretLeft, terminalVars
  <2>2. Closes(Unasked("unavailable"))
    BY <1>1, <1>3, <2>1, AtProgramAlone, UnaskedIsNone DEF Closes, terminalVars, helperVars
  <2> QED
    BY <1>1, <2>2, AtProgramAlone, ClosesKeeps
<1> QED
  BY <1>2, <1>3 DEF CallProgram, Spawn

\* What a plan comes to, whatever it is for.
FitsPurpose(p) ==
    /\ p \in Plans
    /\ purpose = "confirm" => p.out \in {"empty", "yes"} /\ p.err \in {0, 1}
    /\ p.says = "allow, gave up" => purpose = "confirm" /\ call = "dialog"
    /\ purpose = "confirm" /\ p.ok /\ p.says # "allow, gave up" => p.out = "yes"

\* A plan, by its fields: one of a program that fails, and of one that does not.
Fails(p, err, says) == p \in Plans /\ p.out = "empty" /\ p.err = err /\ ~p.ok /\ p.says = says
Succeeds(p, out, err, says) ==
    p \in Plans /\ p.out = out /\ p.err = err /\ p.ok /\ p.says = says

\* More than is read of it.
TooMuch == MaxErr + PipeSize + 1

LEMMA PlansRead ==
    /\ Fails(NoPlan, 0, "nothing")
    /\ \A says \in Says : Fails(Refusal(says), 1, says)
    /\ \A text \in Texts : \A says \in Says :
          Succeeds([NoPlan EXCEPT !.out = text, !.ok = TRUE, !.says = says], text, 0, says)
    /\ \A text \in Texts : Succeeds([NoPlan EXCEPT !.out = text, !.ok = TRUE], text, 0, "nothing")
    /\ \A text \in Texts : \A stream \in Streams :
          Succeeds(Spews(text, stream), text, TooMuch, "nothing")
<1> USE DEF Fails, Succeeds, NoPlan, Plans, Refusal, Texts, Says, Streams
<1>1. Fails(NoPlan, 0, "nothing")
  OBVIOUS
<1>2. ASSUME NEW says \in Says PROVE Fails(Refusal(says), 1, says)
  OBVIOUS
<1>3. ASSUME NEW text \in Texts, NEW says \in Says
      PROVE  Succeeds([NoPlan EXCEPT !.out = text, !.ok = TRUE, !.says = says], text, 0, says)
  OBVIOUS
<1>4. ASSUME NEW text \in Texts
      PROVE  Succeeds([NoPlan EXCEPT !.out = text, !.ok = TRUE], text, 0, "nothing")
  OBVIOUS
<1>5. ASSUME NEW text \in Texts, NEW stream \in Streams
      PROVE  Succeeds(Spews(text, stream), text, TooMuch, "nothing")
  BY DEF Spews, TooMuch
<1> HIDE DEF Fails, Succeeds
<1> QED
  BY <1>1, <1>2, <1>3, <1>4, <1>5

\* One that fails, or that a confirmation counts only if it says yes.
LEMMA ReadsFit ==
    ASSUME NEW p, NEW out, NEW err, NEW says, says # "allow, gave up"
    PROVE  /\ err \in {0, 1} /\ Fails(p, err, says) => FitsPurpose(p)
           /\ err \in {0, 1} /\ out = "yes" /\ Succeeds(p, out, err, says) => FitsPurpose(p)
           /\ purpose # "confirm" /\ Succeeds(p, out, err, says) => FitsPurpose(p)
BY DEF Fails, Succeeds, FitsPurpose

LEMMA GivingUpFits ==
    ASSUME purpose = "confirm", call = "dialog", NEW p, Succeeds(p, "empty", 0, "allow, gave up")
    PROVE  FitsPurpose(p)
BY DEF Succeeds, FitsPurpose

LEMMA ConfirmPlansFit ==
    ASSUME purpose = "confirm", NEW p \in ConfirmPlans
    PROVE  FitsPurpose(p)
<1> USE DEF Texts, Says
<1>1. CASE call = "dialog"
  <2>1. \/ Succeeds(p, "yes", 0, "allow")
        \/ Succeeds(p, "empty", 0, "allow, gave up")
        \/ \E says \in {"cancelled", "no session", "nothing"} : Fails(p, 1, says)
    BY <1>1, PlansRead DEF ConfirmPlans
  <2>2. Succeeds(p, "empty", 0, "allow, gave up") => FitsPurpose(p)
    BY <1>1, GivingUpFits
  <2> QED
    BY <2>1, <2>2, ReadsFit
<1>2. CASE call # "dialog"
  <2>1. Succeeds(p, "yes", 0, "nothing") \/ Fails(p, 0, "nothing")
    BY <1>2, PlansRead DEF ConfirmPlans
  <2> QED
    BY <2>1, ReadsFit
<1> QED
  BY <1>1, <1>2

LEMMA TextPlansFit ==
    ASSUME purpose # "confirm", NEW texts \in SUBSET Texts, NEW p \in TextPlans(texts)
    PROVE  FitsPurpose(p)
<1>1. CASE p \in {[NoPlan EXCEPT !.out = text, !.ok = TRUE] : text \in texts}
  <2>1. PICK text \in texts : p = [NoPlan EXCEPT !.out = text, !.ok = TRUE]
    BY <1>1
  <2> QED
    BY <2>1, PlansRead, ReadsFit
<1>2. CASE \E text \in texts : \E stream \in Streams : p = Spews(text, stream)
  <2>1. PICK text \in texts, stream \in Streams :
           p = Spews(text, stream)
    BY <1>2
  <2>2. Succeeds(p, text, TooMuch, "nothing")
    <3>1. \A t \in Texts : \A s \in Streams : Succeeds(Spews(t, s), t, TooMuch, "nothing")
      BY PlansRead
    <3>2. text \in Texts
      OBVIOUS
    <3> QED
      BY <2>1, <3>1, <3>2, Zenon
  <2> QED
    BY <2>2, ReadsFit
<1> QED
  BY <1>1, <1>2 DEF TextPlans

LEMMA OthersFit ==
    ASSUME purpose # "confirm"
    PROVE  /\ FitsPurpose(NoPlan)
           /\ \A says \in {"cancelled", "timed out", "no session", "nothing"} : FitsPurpose(Refusal(says))
<1>1. \A says \in Says \ {"allow, gave up"} : FitsPurpose(Refusal(says))
  BY PlansRead, ReadsFit
<1> QED
  BY <1>1, PlansRead, ReadsFit DEF Says

LEMMA OfferedPlansFit ==
    ASSUME PassphrasesInv, call # "none", NEW p \in OfferedPlans(field)
    PROVE  FitsPurpose(p)
<1>1. call \in Calls /\ purpose \in Purposes /\ (call = "lpass" <=> purpose = "field")
  BY AtProgramAlone DEF PassphrasesInv, TurnInv, PassphrasesTypeOK, DialogTypeOK, HelperTypeOK
<1>2. CASE purpose = "field"
  <2>1. {field} \in SUBSET Texts
    BY DEF PassphrasesInv, PassphrasesTypeOK, Texts
  <2>2. p \in TextPlans({field}) \cup {Refusal("nothing")}
    BY <1>2 DEF OfferedPlans
  <2> QED
    BY <1>2, <2>1, <2>2, TextPlansFit, OthersFit
<1>3. CASE purpose = "confirm"
  <2>1. p \in ConfirmPlans
    BY <1>1, <1>3 DEF OfferedPlans, HelperMode, Calls
  <2> QED
    BY <1>3, <2>1, ConfirmPlansFit
<1>4. CASE purpose = "secret"
  <2>1. p \in SecretPlans
    BY <1>1, <1>4 DEF OfferedPlans, HelperMode, Calls
  <2>2. Texts \in SUBSET Texts
    OBVIOUS
  <2> QED
    BY <1>4, <2>1, <2>2, TextPlansFit, OthersFit DEF SecretPlans
<1> QED
  BY <1>1, <1>2, <1>3, <1>4 DEF Purposes

\* A step of it that leaves what it will say and what was given as they are.
LEMMA PlanKept ==
    ASSUME PassphrasesInv, child # "none", UNCHANGED <<call, plan, purpose, answer, given>>,
           child' # "none", child' = "asking" => child = "asking"
    PROVE  /\ PlanInv' /\ call # "none" /\ call' = Through
           /\ given' \in Texts \cup {"nothing"}
<1>1. call # "none" /\ call = Through
  BY DEF PassphrasesInv, PlanInv, TurnInv
<1>2. PlanInv'
  BY <1>1 DEF PassphrasesInv, PlanInv
<1> QED
  BY <1>1, <1>2 DEF PassphrasesInv, PassphrasesTypeOK, DialogTypeOK

LEMMA PlannedIsNat ==
    ASSUME plan \in Plans
    PROVE  \A stream \in Streams : Planned(stream) \in Nat
BY HelperAssumption DEF Plans, NoPlan, Planned, Units, Streams

LEMMA AnswerHelperKeeps ==
    ASSUME PassphrasesInv, AnswerHelper(field), UNCHANGED <<requestVars, terminalVars>>
    PROVE  PassphrasesInv'
<1>1. /\ child = "asking" /\ call # "none" /\ call = Through
      /\ wrote = Nothing /\ got = Nothing
      /\ call \in Calls /\ given \in Texts \cup {"nothing"}
  BY DEF AnswerHelper, PassphrasesInv, PlanInv, PipeInv, TurnInv, PassphrasesTypeOK, HelperTypeOK, DialogTypeOK
<1>2. PICK p \in OfferedPlans(field) :
         /\ plan' = IF call = "helper" /\ HelperMode = "confirm" THEN [p EXCEPT !.out = "empty"] ELSE p
         /\ given' = IF p.ok /\ p.says # "allow, gave up" THEN p.out ELSE given
  BY DEF AnswerHelper
<1>3. child' = "writing" /\ UNCHANGED <<call, wrote, got, reading, purpose, answer>>
  BY DEF AnswerHelper
<1>4. FitsPurpose(p)
  BY <1>1, OfferedPlansFit
<1>5. p \in Plans
  BY <1>4 DEF FitsPurpose
<1>6. /\ plan' \in Plans /\ plan'.err = p.err /\ plan'.says = p.says /\ (plan'.ok <=> p.ok)
      /\ plan'.out \in {p.out, "empty"}
      /\ purpose # "confirm" => plan'.out = p.out
  <2>1. CASE call = "helper" /\ purpose = "confirm"
    BY <1>2, <1>5, <2>1 DEF HelperMode, Plans, Texts
  <2>2. CASE ~(call = "helper" /\ purpose = "confirm")
    BY <1>2, <1>5, <2>2 DEF HelperMode
  <2> QED
    BY <2>1, <2>2
<1>7. given' \in Texts \cup {"nothing"}
  BY <1>1, <1>2, <1>5 DEF Plans
<1>8. PlanInv'
  BY <1>1, <1>2, <1>3, <1>4, <1>6 DEF PlanInv, FitsPurpose
<1>9. PipeInv'
  <2>1. reading \subseteq Piped(call) /\ \A stream \in Piped(call) : stream \in reading
    BY <1>1, HelperAssumption DEF PassphrasesInv, PipeInv, Nothing, Streams
  <2>2. \A stream \in Streams : Planned(stream)' \in Nat
    BY <1>6, HelperAssumption DEF Plans, Planned, Units, Streams
  <2>3. \A stream \in Streams : got'[stream] = 0 /\ wrote'[stream] = 0
    BY <1>1, <1>3 DEF Nothing
  <2>4. Limited' /\ "err" \in reading' => got'["err"] < MaxErr
    BY <2>3, HelperAssumption DEF Streams
  <2> QED
    BY <1>1, <1>3, <2>1, <2>2, <2>3, <2>4 DEF PipeInv, Piped
<1>10. HelperTypeOK'
  BY <1>3, <1>6 DEF PassphrasesInv, PassphrasesTypeOK, HelperTypeOK
<1> QED
  BY <1>1, <1>3, <1>7, <1>8, <1>9, <1>10, ProgramStays

LEMMA WriteKeeps ==
    ASSUME PassphrasesInv, Write, UNCHANGED <<requestVars, terminalVars>>
    PROVE  PassphrasesInv'
<1>1. /\ child = "writing" /\ child' = "writing"
      /\ UNCHANGED <<call, plan, got, reading, purpose, answer, given>>
  BY DEF Write, dialogVars
<1>2. PICK stream \in Streams : wrote[stream] # Planned(stream) /\ wrote' = [wrote EXCEPT ![stream] = @ + 1]
  BY DEF Write, Saying, Said
<1>3. wrote \in [Streams -> Nat] /\ got \in [Streams -> Nat] /\ \A other \in Streams : Planned(other) \in Nat
  BY PlannedIsNat DEF PassphrasesInv, PassphrasesTypeOK, HelperTypeOK
<1>4. wrote' \in [Streams -> Nat]
  BY <1>2, <1>3
<1>5. \A other \in Streams : got'[other] <= wrote'[other] /\ wrote'[other] <= Planned(other)'
  BY <1>1, <1>2, <1>3 DEF PassphrasesInv, PipeInv, Planned
<1>6. PipeInv'
  BY <1>1, <1>5 DEF PassphrasesInv, PipeInv, Piped, Limited
<1>7. HelperTypeOK'
  BY <1>1, <1>4 DEF PassphrasesInv, PassphrasesTypeOK, HelperTypeOK
<1> QED
  BY <1>1, <1>6, <1>7, PlanKept, ProgramStays

LEMMA ExitKeeps ==
    ASSUME PassphrasesInv, Exit, UNCHANGED <<requestVars, terminalVars>>
    PROVE  PassphrasesInv'
<1>1. /\ child = "writing" /\ child' = "exited" /\ Saying = {}
      /\ UNCHANGED <<call, plan, wrote, got, reading, purpose, answer, given>>
  BY DEF Exit, dialogVars
<1>2. plan.first \in Streams
  BY DEF PassphrasesInv, PassphrasesTypeOK, HelperTypeOK, Plans, NoPlan, Streams
<1>3. \A stream \in Streams : Said(stream)
  BY <1>1, <1>2 DEF Saying
<1>4. PipeInv'
  BY <1>1, <1>3 DEF PassphrasesInv, PipeInv, Piped, Limited, Planned, Said
<1>5. HelperTypeOK'
  BY <1>1 DEF PassphrasesInv, PassphrasesTypeOK, HelperTypeOK
<1> QED
  BY <1>1, <1>4, <1>5, PlanKept, ProgramStays

LEMMA CrashKeeps ==
    ASSUME PassphrasesInv, Crash, UNCHANGED <<requestVars, terminalVars>>
    PROVE  PassphrasesInv'
<1>1. /\ child \in {"asking", "writing"} /\ child' = "killed"
      /\ UNCHANGED <<call, plan, wrote, got, reading, purpose, answer, given>>
  BY DEF Crash, dialogVars
<1>2. PipeInv'
  BY <1>1 DEF PassphrasesInv, PipeInv, Piped, Limited, Planned
<1>3. HelperTypeOK'
  BY <1>1 DEF PassphrasesInv, PassphrasesTypeOK, HelperTypeOK
<1> QED
  BY <1>1, <1>2, <1>3, PlanKept, ProgramStays

\* There is nothing to read, and no call to end, of a program that is not there.
LEMMA PipesAreCalls ==
    ASSUME PassphrasesInv, call # "none" \/ reading # {}
    PROVE  /\ call # "none" /\ child # "none" /\ call = Through /\ call \in Calls
           /\ purpose # "none" /\ reading \subseteq Streams
           /\ wrote \in [Streams -> Nat] /\ got \in [Streams -> Nat]
           /\ \A stream \in Streams : Planned(stream) \in Nat
BY PlannedIsNat DEF PassphrasesInv, PlanInv, PipeInv, TurnInv, PassphrasesTypeOK, HelperTypeOK

LEMMA ReadAnswerKeeps ==
    ASSUME PassphrasesInv, ReadAnswer, UNCHANGED <<requestVars, terminalVars>>
    PROVE  PassphrasesInv'
<1>1. "out" \in reading /\ wrote["out"] > got["out"]
  BY DEF ReadAnswer, ReadsFrom
<1>2. CASE EndCall(Came("toolong"))
  BY <1>1, <1>2, PipesAreCalls, EndCallKeeps DEF Came, Answers, Texts
<1>3. CASE /\ ~(Limited /\ got["out"] = MaxOut)
           /\ got' = [got EXCEPT !["out"] = @ + 1]
           /\ UNCHANGED <<call, child, plan, wrote, reading, dialogVars>>
  <2>1. UNCHANGED <<call, child, plan, wrote, reading, purpose, answer, given>>
    BY <1>3 DEF dialogVars
  <2>2. got' \in [Streams -> Nat] /\ got'["out"] = got["out"] + 1 /\ got'["err"] = got["err"]
    BY <1>1, <1>3, PipesAreCalls DEF Streams
  <2>3. got'["out"] <= MaxOut /\ got'["err"] <= MaxErr
    <3>1. CASE Limited
      BY <1>1, <1>3, <2>2, <3>1, PipesAreCalls, HelperAssumption DEF PassphrasesInv, PassphrasesTypeOK, HelperTypeOK, Streams
    <3>2. CASE ~Limited
      <4>1. plan.out \in {"empty", "yes"}
        BY <3>2 DEF Limited, PassphrasesInv, PlanInv
      <4>2. Planned("out") <= 2
        BY <4>1, HelperAssumption DEF Planned, Units
      <4> QED
        BY <1>1, <2>2, <4>2, PipesAreCalls, HelperAssumption DEF PassphrasesInv, PassphrasesTypeOK, HelperTypeOK, PipeInv, Streams
    <3> QED
      BY <3>1, <3>2
  <2>4. \A stream \in Streams : got'[stream] <= wrote'[stream]
    BY <1>1, <2>1, <2>2, PipesAreCalls DEF Streams, PassphrasesInv, PipeInv
  <2>5. child \notin {"none", "asking"}
    BY <1>1, PipesAreCalls DEF PassphrasesInv, PipeInv, Nothing, Streams
  <2>6. PipeInv'
    BY <1>1, <2>1, <2>2, <2>4, <2>5 DEF PassphrasesInv, PipeInv, Piped, Limited, Planned, Said, Streams
  <2>7. HelperTypeOK'
    BY <2>1, <2>2, <2>3 DEF PassphrasesInv, PassphrasesTypeOK, HelperTypeOK
  <2> QED
    BY <1>1, <2>1, <2>5, <2>6, <2>7, PlanKept, ProgramStays
<1> QED
  BY <1>2, <1>3 DEF ReadAnswer

LEMMA ReadDiagnosticsKeeps ==
    ASSUME PassphrasesInv, ReadDiagnostics, UNCHANGED <<requestVars, terminalVars>>
    PROVE  PassphrasesInv'
<1>1. /\ "err" \in reading /\ wrote["err"] > got["err"]
      /\ reading' = IF Limited /\ got["err"] + 1 = MaxErr THEN reading \ {"err"} ELSE reading
      /\ UNCHANGED <<call, child, plan, wrote, purpose, answer, given>>
  BY DEF ReadDiagnostics, ReadsFrom, dialogVars
<1>2. got' \in [Streams -> Nat] /\ got'["err"] = got["err"] + 1 /\ got'["out"] = got["out"]
  BY <1>1, PipesAreCalls DEF ReadDiagnostics, Streams
<1>3. got'["out"] <= MaxOut /\ got'["err"] <= MaxErr
  <2>1. CASE Limited
    BY <1>1, <1>2, <2>1, PipesAreCalls, HelperAssumption DEF PassphrasesInv, PassphrasesTypeOK, HelperTypeOK, PipeInv, Streams
  <2>2. CASE ~Limited
    <3>1. Planned("err") \in {0, 1}
      BY <2>2 DEF Limited, PassphrasesInv, PlanInv, Planned
    <3> QED
      BY <1>1, <1>2, <3>1, PipesAreCalls, HelperAssumption DEF PassphrasesInv, PassphrasesTypeOK, HelperTypeOK, PipeInv, Streams
  <2> QED
    BY <2>1, <2>2
<1>4. \A stream \in Streams : got'[stream] <= wrote'[stream]
  BY <1>1, <1>2, PipesAreCalls DEF Streams, PassphrasesInv, PipeInv
<1>5. child \notin {"none", "asking"}
  BY <1>1, PipesAreCalls DEF PassphrasesInv, PipeInv, Nothing, Streams
<1>6. Limited' /\ "err" \in reading' => got'["err"] < MaxErr
  BY <1>1, <1>2, <1>3, PipesAreCalls, HelperAssumption DEF Limited, Streams
<1>7. PipeInv'
  BY <1>1, <1>2, <1>4, <1>5, <1>6 DEF PassphrasesInv, PipeInv, Piped, Limited, Planned, Said, Streams
<1>8. HelperTypeOK'
  BY <1>1, <1>2, <1>3 DEF PassphrasesInv, PassphrasesTypeOK, HelperTypeOK
<1> QED
  BY <1>1, <1>5, <1>7, <1>8, PipesAreCalls, PlanKept, ProgramStays

LEMMA ReadEndKeeps ==
    ASSUME PassphrasesInv, ReadEnd, UNCHANGED <<requestVars, terminalVars>>
    PROVE  PassphrasesInv'
<1>1. PICK stream \in reading : wrote[stream] = got[stream] /\ reading' = reading \ {stream}
  BY DEF ReadEnd
<1>2. child \in {"exited", "killed"} /\ UNCHANGED <<call, child, plan, wrote, got, purpose, answer, given>>
  BY DEF ReadEnd, dialogVars
<1>3. PipeInv'
  BY <1>1, <1>2 DEF PassphrasesInv, PipeInv, Piped, Limited, Planned, Said
<1>4. HelperTypeOK'
  BY <1>1, <1>2 DEF PassphrasesInv, PassphrasesTypeOK, HelperTypeOK
<1> QED
  BY <1>1, <1>2, <1>3, <1>4, PlanKept, ProgramStays

\* The whole answer has been read of a program that has ended well.
LEMMA ReceivedWhole ==
    ASSUME PassphrasesInv, Success, reading = {}, purpose \in {"secret", "field"}, call \in Calls
    PROVE  Received = plan.out
<1>1. child = "exited" /\ "out" \in Piped(call)
  BY DEF Success, Piped, Streams
<1>2. got["out"] = wrote["out"] /\ wrote["out"] = Planned("out")
  BY <1>1 DEF PassphrasesInv, PipeInv, Said, Streams
<1> QED
  BY <1>2 DEF Planned, Received

LEMMA ReapKeeps ==
    ASSUME PassphrasesInv, Reap, UNCHANGED <<requestVars, terminalVars>>
    PROVE  PassphrasesInv'
<1> DEFINE with == IF purpose = "confirm" THEN ConfirmVerdict ELSE TextVerdict
<1>1. /\ call # "none" /\ reading = {} /\ EndCall(with) /\ purpose \in Purposes /\ call \in Calls
      /\ plan \in Plans
      /\ plan.ok /\ plan.says # "allow, gave up" =>
            given = IF purpose = "confirm" THEN "yes" ELSE plan.out
      /\ plan.says = "allow, gave up" => purpose = "confirm" /\ call = "dialog"
  BY PipesAreCalls DEF Reap, PassphrasesInv, PassphrasesTypeOK, DialogTypeOK, HelperTypeOK, PlanInv
<1>2. CASE purpose = "confirm"
  <2>1. with \in {Came("approved"), Came("denied")}
    BY <1>2 DEF ConfirmVerdict
  <2>2. with = Came("approved") => given = "yes"
    BY <1>1, <1>2 DEF ConfirmVerdict, DialogConfirms, HelperConfirms, Success, Came
  <2> QED
    BY <1>1, <2>1, <2>2, EndCallKeeps DEF Came, Answers, Texts
<1>3. CASE purpose # "confirm"
  <2>1. CASE Success
    <3>1. with = Typed(plan.out)
      BY <1>1, <1>3, <2>1, ReceivedWhole DEF TextVerdict, Purposes
    <3>2. given = plan.out /\ plan.out \in Texts
      BY <1>1, <1>3, <2>1 DEF Success, Plans, NoPlan, Texts
    <3> QED
      BY <1>1, <3>1, <3>2, EndCallKeeps DEF Typed, Answers
  <2>2. CASE ~Success
    BY <1>1, <1>3, <2>2, EndCallKeeps DEF TextVerdict, Came, Answers, Texts
  <2> QED
    BY <2>1, <2>2
<1> QED
  BY <1>2, <1>3

LEMMA GiveUpOnHelperKeeps ==
    ASSUME PassphrasesInv, GiveUpOnHelper, UNCHANGED <<requestVars, terminalVars>>
    PROVE  PassphrasesInv'
BY UnaskedIsNone, EndCallKeeps DEF GiveUpOnHelper

LEMMA ProgramsKeep ==
    ASSUME PassphrasesInv, Programs
    PROVE  PassphrasesInv'
BY SpawnKeeps, AnswerHelperKeeps, WriteKeeps, ExitKeeps, CrashKeeps, ReadAnswerKeeps,
   ReadDiagnosticsKeeps, ReadEndKeeps, ReapKeeps, GiveUpOnHelperKeeps DEF Programs, AtProgram, AtPipes

-----------------------------------------------------------------------------
(* The theorems.                                                           *)

LEMMA PassphrasesStep == PassphrasesInv /\ [Next]_vars => PassphrasesInv'
BY RequestKeeps, OthersKeep, TerminalsKeep, ProgramsKeep DEF Next

LEMMA PassphrasesInvariant == Spec => []PassphrasesInv
BY PassphrasesInit, PassphrasesStep, PTL DEF Spec

(***************************************************************************)
(* Every variable of a request and of its exchange keeps its type, however *)
(* large the pipes and the limits on what is read of them are.             *)
(***************************************************************************)
THEOREM PassphraseTypes == Spec => []PassphrasesTypeOK
<1>1. PassphrasesInv => PassphrasesTypeOK
  BY DEF PassphrasesInv
<1> QED
  BY <1>1, PassphrasesInvariant, PTL

(***************************************************************************)
(* An approval, a passphrase or a field is the whole of what was answered  *)
(* since its exchange began, which for a terminal is since the flush:      *)
(* neither a line typed before that, nor a cut, failed or expired program  *)
(* stands in for it (src/src/tty.rs, discard_pending_input;                *)
(* src/src/confirm/, src/src/passphrase/, src/src/lpass/cli.rs).           *)
(***************************************************************************)
THEOREM OnlyFreshAnswers == Spec => []AnswersAreFresh
<1>1. PassphrasesInv => AnswersAreFresh
  BY DEF PassphrasesInv
<1> QED
  BY <1>1, PassphrasesInvariant, PTL

(***************************************************************************)
(* However a question on the terminal ends, the terminal echoes again and  *)
(* nothing of a passphrase is left in it (TerminalMode, src/src/tty.rs).   *)
(***************************************************************************)
THEOREM TerminalWasGivenBack == Spec => []TerminalIsGivenBack
<1>1. PassphrasesInv => TerminalIsGivenBack
  <2> SUFFICES ASSUME PassphrasesInv PROVE TerminalIsGivenBack
    OBVIOUS
  <2>1. queue \in Seq(Lines) => DOMAIN queue = 1 .. Len(queue)
    OBVIOUS
  <2> QED
    BY <2>1 DEF PassphrasesInv, PassphrasesTypeOK, TerminalTypeOK, TerminalInv, TerminalIsGivenBack
<1> QED
  BY <1>1, PassphrasesInvariant, PTL

(***************************************************************************)
(* A request that is over, or waits only for the vault or the store, has   *)
(* nothing on screen and no program running (kill_on_drop, and the guard   *)
(* of src/src/passphrase/tty.rs).                                          *)
(***************************************************************************)
THEOREM NothingIsLeftUp == Spec => []NothingLeftUp
<1>1. PassphrasesInv => NothingLeftUp
  BY DEF PassphrasesInv, PassphrasesTypeOK, TerminalTypeOK, TurnInv, TerminalInv, PlanInv, NothingLeftUp
<1> QED
  BY <1>1, PassphrasesInvariant, PTL

(***************************************************************************)
(* A program that waits on a full pipe waits for a reader, whatever the    *)
(* sizes of the pipes and the order of the streams, unless all that is     *)
(* read of its diagnostics was (both streams at once, src/src/osascript.rs *)
(* and src/src/lpass/cli.rs).                                              *)
(***************************************************************************)
THEOREM FullPipesHaveReaders == Spec => []FullPipesAreRead
<1>1. PassphrasesInv => FullPipesAreRead
  <2> SUFFICES ASSUME PassphrasesInv, child = "writing",
                      NEW stream \in Saying, Full(stream)
               PROVE  ReadsFrom(stream) \/ got["err"] = MaxErr
    BY DEF FullPipesAreRead
  <2> QED
    BY DEF PassphrasesInv, PipeInv, Full, ReadsFrom
<1> QED
  BY <1>1, PassphrasesInvariant, PTL

(***************************************************************************)
(* A populated field decides, whoever edits the vault meanwhile (the head  *)
(* of src/src/passphrase.rs).                                              *)
(***************************************************************************)
THEOREM TheVaultDecides == Spec => []VaultDecides
<1>1. PassphrasesInv => VaultDecides
  BY DEF PassphrasesInv, StepInv
<1> QED
  BY <1>1, PassphrasesInvariant, PTL

(***************************************************************************)
(* Whatever config file is accepted, on any platform, what is built of it  *)
(* can serve every key it serves (validate, src/src/config.rs).            *)
(***************************************************************************)
THEOREM AnyConfigServes == Spec => []ConfigServes
<1>1. PassphrasesInv => ConfigServes
  BY DEF PassphrasesInv, PassphrasesTypeOK, ServedInv, ConfigServes
<1> QED
  BY <1>1, PassphrasesInvariant, PTL

(***************************************************************************)
(* The agent stores nothing but what opened the key it was asked for       *)
(* (unlock_from_store, src/src/passphrase.rs).                             *)
(***************************************************************************)
THEOREM TyposAreNotSaved == Spec => NoTypoIsSaved
<1>1. PassphrasesInv /\ [Next]_vars =>
         [(step = "saving" /\ step' = "idle" /\ saved' # saved) => saved' = copy]_vars
  <2> SUFFICES ASSUME PassphrasesInv, Next, step = "saving", step' = "idle", saved' # saved
               PROVE  saved' = copy
    BY DEF vars, requestVars
  <2>1. CASE Request
    BY <2>1 DEF Request, Begin, Confirmed, Fetch, Looked, StoreAnswers, Asked, Save, Outside,
       PassphrasesInv, StepInv
  <2>2. CASE Reencrypt \/ OtherSaves \/ Terminals \/ Programs
    BY <2>2 DEF Reencrypt, OtherSaves, Terminals, Programs, requestVars
  <2> QED
    BY <2>1, <2>2 DEF Next
<1> QED
  BY <1>1, PassphrasesInvariant, PTL DEF Spec, NoTypoIsSaved

(***************************************************************************)
(* A store never refuses a key: what it holds that opens nothing is asked  *)
(* for again, and what it does not take is used (unlock_from_store,        *)
(* src/src/passphrase.rs).                                                 *)
(***************************************************************************)
THEOREM StaleWasAskedAgain == Spec => StaleIsAskedAgain
<1>1. PassphrasesInv /\ [Next]_vars =>
         [(step \in {"storing", "saving"}) => outcome' # "refused"]_vars
  <2> SUFFICES ASSUME PassphrasesInv, Next, step \in {"storing", "saving"}
               PROVE  outcome' # "refused"
    OBVIOUS
  <2>0. outcome = "none"
    BY DEF PassphrasesInv, StepInv
  <2>1. CASE Request
    BY <2>0, <2>1 DEF Request, Begin, Confirmed, Fetch, Looked, StoreAnswers, TrySaved, Asked, Save, Outside,
       Decrypt, Opens, Finish, Ask, PassphrasesInv, StepInv
  <2>2. CASE Reencrypt \/ OtherSaves \/ Terminals \/ Programs
    BY <2>0, <2>2 DEF Reencrypt, OtherSaves, Terminals, Programs, requestVars
  <2> QED
    BY <2>1, <2>2 DEF Next
<1> QED
  BY <1>1, PassphrasesInvariant, PTL DEF Spec, StaleIsAskedAgain
=============================================================================
