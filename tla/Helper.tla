------------------------------- MODULE Helper -------------------------------
(***************************************************************************)
(* One call of a program that answers for the user or the vault:           *)
(* osascript and the askpass helper, to confirm (src/src/confirm/) and for *)
(* a passphrase (src/src/passphrase/), and lpass for a field               *)
(* (LpassCli::exec of src/src/lpass/cli.rs, one try of it: SigningAgent    *)
(* has the second).                                                        *)
(*                                                                         *)
(* A pipe holds PipeSize units, so a program that has more to say waits    *)
(* until somebody reads. It says all of one stream before the other, in an *)
(* order nobody can rely on.                                               *)
(***************************************************************************)
EXTENDS Dialog

CONSTANTS
    PipeSize,       \* units a pipe takes with nobody reading
    MaxOut,         \* units of an answer that are read at most
    MaxErr          \* units of diagnostics that are read at most

ASSUME HelperAssumption ==
    /\ {PipeSize, MaxErr} \subseteq Nat \ {0}
    /\ MaxOut \in Nat
    /\ MaxOut > 1

VARIABLES
    call,           \* the kind of program that is called, "none" between two calls
    child,          \* where the program stands
    plan,           \* what it will say
    wrote,          \* units written to each stream
    got,            \* units the agent has read of it
    reading         \* the streams not yet read to their end or limit

helperVars == <<call, child, plan, wrote, got, reading>>

Calls == {"dialog", "helper", "lpass"}
Streams == {"out", "err"}

\* What the diagnostics, or the record a dialog prints of itself, say.
Says == {"allow", "allow, gave up", "nothing", "cancelled", "timed out", "no session"}

Units(text) == CASE text = "empty" -> 0 [] text = "long" -> MaxOut + 1 [] OTHER -> 2

\* More is said on stderr than is read of it, and than a pipe takes.
Plans == [out : Texts, err : {0, 1, MaxErr + PipeSize + 1}, ok : BOOLEAN, says : Says,
          first : Streams]
NoPlan == [out |-> "empty", err |-> 0, ok |-> FALSE, says |-> "nothing", first |-> "out"]

Nothing == [stream \in Streams |-> 0]

HelperTypeOK ==
    /\ call \in Calls \cup {"none"}
    /\ child \in {"none", "asking", "writing", "exited", "killed"}
    /\ plan \in Plans
    /\ wrote \in [Streams -> Nat]
    /\ got \in [Streams -> Nat]
    /\ got["out"] <= MaxOut /\ got["err"] <= MaxErr
    /\ reading \subseteq Streams

HelperInit ==
    /\ call = "none"
    /\ child = "none"
    /\ plan = NoPlan
    /\ wrote = Nothing
    /\ got = Nothing
    /\ reading = {}

\* What a program is given a pipe for; the rest of what it says goes nowhere.
Piped(kind) ==
    CASE kind = "helper" /\ purpose = "confirm" -> {}
      [] kind = "helper" /\ purpose = "secret" -> {"out"}
      [] OTHER -> Streams

\* A variant that must fail: everything is collected, as a confirmation is.
Unlimited == FALSE

\* A confirmation is collected whole, a secret or a field only up to a limit.
Limited == purpose # "confirm"

\* A variant that must fail: one program is asked as the other, for a password.
HelperModeUnset == "password"

\* SSH_ASKPASS_PROMPT: set to confirm, or removed.
HelperMode == IF purpose = "confirm" THEN "confirm" ELSE "password"

Spawn(kind) ==
    /\ purpose # "none"
    /\ call = "none"
    /\ \/ /\ call' = kind
          /\ child' = "asking"
          /\ reading' = Piped(kind)
          /\ UNCHANGED <<plan, wrote, got, dialogVars>>
       \/ CloseDialog(Unasked("unavailable")) /\ UNCHANGED helperVars

-----------------------------------------------------------------------------
(* The program, and whoever answers it.                                    *)

Refusal(says) == [out |-> "empty", err |-> 1, ok |-> FALSE, says |-> says, first |-> "err"]

\* What a dialog or a helper that asks yes or no can come to.
ConfirmPlans ==
    IF call = "dialog"
    THEN {[NoPlan EXCEPT !.out = "yes", !.ok = TRUE, !.says = "allow"],
          [NoPlan EXCEPT !.out = "empty", !.ok = TRUE, !.says = "allow, gave up"]}
         \cup {Refusal(says) : says \in {"cancelled", "no session", "nothing"}}
    ELSE {[NoPlan EXCEPT !.out = "yes", !.ok = TRUE], NoPlan}

\* On the way to saying what was entered a program may spew diagnostics.
Spews(text, stream) ==
    [out |-> text, err |-> MaxErr + PipeSize + 1, ok |-> TRUE, says |-> "nothing", first |-> stream]

\* Something entered.
TextPlans(texts) ==
    {[NoPlan EXCEPT !.out = text, !.ok = TRUE] : text \in texts}
    \cup UNION {{Spews(text, stream) : text \in texts} : stream \in Streams}

\* osascript gives up by failing; a dismissed helper only fails.
SecretPlans ==
    TextPlans(Texts)
    \cup IF call = "dialog"
         THEN {Refusal(says) : says \in {"cancelled", "timed out", "no session", "nothing"}}
         ELSE {NoPlan}

\* A password prompt is answered "yes" by pressing OK, whatever is in it.
OfferedPlans(field) ==
    CASE purpose = "field" -> TextPlans({field}) \cup {Refusal("nothing")}
      [] purpose # "field" /\ call = "helper" /\ HelperMode = "password" -> SecretPlans
      [] purpose # "field" /\ call = "helper" /\ HelperMode = "confirm" -> ConfirmPlans
      [] purpose = "confirm" /\ call = "dialog" -> ConfirmPlans
      [] purpose = "secret" /\ call = "dialog" -> SecretPlans

\* In confirm mode a program prints nothing of it: only its exit counts.
AnswerHelper(field) ==
    /\ child = "asking"
    /\ \E p \in OfferedPlans(field) :
          /\ plan' = IF call = "helper" /\ HelperMode = "confirm"
                     THEN [p EXCEPT !.out = "empty"] ELSE p
          /\ given' = IF p.ok /\ p.says # "allow, gave up" THEN p.out ELSE given
    /\ child' = "writing"
    /\ UNCHANGED <<call, wrote, got, reading, purpose, answer>>

Planned(stream) == IF stream = "out" THEN Units(plan.out) ELSE plan.err

Said(stream) == wrote[stream] = Planned(stream)

\* The stream it is writing to, if there is anything left to say.
Saying == {stream \in Streams : ~Said(stream) /\ (stream = plan.first \/ Said(plan.first))}

Full(stream) == stream \in Piped(call) /\ wrote[stream] - got[stream] = PipeSize

Write ==
    /\ child = "writing"
    /\ \E stream \in Saying :
          /\ ~Full(stream)
          /\ wrote' = [wrote EXCEPT ![stream] = @ + 1]
    /\ UNCHANGED <<call, child, plan, got, reading, dialogVars>>

Exit ==
    /\ child = "writing"
    /\ Saying = {}
    /\ child' = "exited"
    /\ UNCHANGED <<call, plan, wrote, got, reading, dialogVars>>

\* It crashes, or somebody kills it, with half of it said.
Crash ==
    /\ child \in {"asking", "writing"}
    /\ child' = "killed"
    /\ UNCHANGED <<call, plan, wrote, got, reading, dialogVars>>

-----------------------------------------------------------------------------
(* The agent, reading both streams at once.                                *)

\* A variant that must fail: diagnostics are read once the answer has ended.
ReadsInTurn(stream) == stream \in reading /\ (stream = "err" => "out" \notin reading)

ReadsFrom(stream) == stream \in reading

\* A variant that must fail: a program that is still running when its call ends stays so.
EndCallLeaving(with) ==
    /\ call' = "none"
    /\ child' = IF child \in {"exited", "killed"} THEN "none" ELSE child
    /\ plan' = NoPlan
    /\ wrote' = Nothing
    /\ got' = Nothing
    /\ reading' = {}
    /\ CloseDialog(with)

\* kill_on_drop: whatever ends a call ends its program. Nothing of it is kept.
EndCall(with) ==
    /\ call' = "none"
    /\ child' = "none"
    /\ plan' = NoPlan
    /\ wrote' = Nothing
    /\ got' = Nothing
    /\ reading' = {}
    /\ CloseDialog(with)

ReadAnswer ==
    /\ ReadsFrom("out")
    /\ wrote["out"] > got["out"]
    /\ \/ /\ Limited /\ got["out"] = MaxOut
          /\ EndCall(Came("toolong"))
       \/ /\ ~(Limited /\ got["out"] = MaxOut)
          /\ got' = [got EXCEPT !["out"] = @ + 1]
          /\ UNCHANGED <<call, child, plan, wrote, reading, dialogVars>>

ReadDiagnostics ==
    /\ ReadsFrom("err")
    /\ wrote["err"] > got["err"]
    /\ got' = [got EXCEPT !["err"] = @ + 1]
    /\ reading' = IF Limited /\ got["err"] + 1 = MaxErr THEN reading \ {"err"} ELSE reading
    /\ UNCHANGED <<call, child, plan, wrote, dialogVars>>

\* A program that is gone has closed its streams.
ReadEnd ==
    /\ child \in {"exited", "killed"}
    /\ \E stream \in reading :
          /\ ReadsFrom(stream)
          /\ wrote[stream] = got[stream]
          /\ reading' = reading \ {stream}
    /\ UNCHANGED <<call, child, plan, wrote, got, dialogVars>>

Success == child = "exited" /\ plan.ok

\* A variant that must fail: an expired dialog names the default button it never got.
DialogConfirmsByButton == Success /\ plan.says \in {"allow", "allow, gave up"}

\* The button and the exit status say it together, of a dialog that has not given up.
DialogConfirms == Success /\ plan.says = "allow"

\* Of a helper there is nothing but the exit status.
HelperConfirms == Success

ConfirmVerdict ==
    IF IF call = "dialog" THEN DialogConfirms ELSE HelperConfirms
    THEN Came("approved") ELSE Came("denied")

\* A dialog that failed says why; -128 is the button as well as its giving up.
DialogDismissed == child = "exited" /\ plan.says \in {"cancelled", "timed out"}

\* A helper that was killed asked nobody anything; one that failed was dismissed.
HelperDismissed == child = "exited"

Dismissed ==
    CASE call = "helper" -> HelperDismissed
      [] call = "dialog" -> DialogDismissed
      [] OTHER -> FALSE

Received ==
    IF got["out"] = Units(plan.out) THEN plan.out
    ELSE IF got["out"] = 0 THEN "empty" ELSE "piece"

\* A variant that must fail: what was read counts, however the program ended.
TextVerdictUnchecked ==
    IF got["out"] = 0 THEN Came("cancelled") ELSE Typed(Received)

TextVerdict ==
    IF Success THEN Typed(Received)
    ELSE IF Dismissed THEN Came("cancelled") ELSE Came("unavailable")

Reap ==
    /\ call # "none"
    /\ child \in {"exited", "killed"}
    /\ reading = {}
    /\ EndCall(IF purpose = "confirm" THEN ConfirmVerdict ELSE TextVerdict)

\* A variant that must fail: the deadline is on the exit, not on the reading before it.
GiveUpOnExit ==
    /\ call # "none"
    /\ reading = {}
    /\ \E why \in {"cancelled", "unavailable"} : EndCall(Unasked(why))

\* The deadline, or a pipe that cannot be read.
GiveUpOnHelper ==
    /\ call # "none"
    /\ \E why \in {"cancelled", "unavailable"} : EndCall(Unasked(why))

AtProgram(field) == AnswerHelper(field) \/ Write \/ Exit \/ Crash
AtPipes == ReadAnswer \/ ReadDiagnostics \/ ReadEnd \/ Reap \/ GiveUpOnHelper

-----------------------------------------------------------------------------
(***************************************************************************)
(* A program that waits on a full pipe is waiting for a reader, not for    *)
(* the deadline that kills it: both streams are read at once ("a full      *)
(* stderr would otherwise wedge osascript before it closes stdout"). Only  *)
(* diagnostics past the limit are left unread.                             *)
(***************************************************************************)
FullPipesAreRead ==
    child = "writing" =>
        \A stream \in Saying :
            Full(stream) => ReadsFrom(stream) \/ got["err"] = MaxErr
=============================================================================
