------------------------------- MODULE Dialog -------------------------------
(***************************************************************************)
(* One exchange the agent waits for: a question put to the user, through a *)
(* terminal or a helper program, or a field asked of lpass. What Terminal  *)
(* and Helper share. There is one at a time: the questions because of the  *)
(* interaction gate (SigningAgent), the field because the request that     *)
(* wants it does nothing else.                                             *)
(***************************************************************************)
EXTENDS Integers, Sequences

VARIABLES
    purpose,        \* what is being asked, "none" between two exchanges
    answer,         \* what the last exchange came to; NoAnswer while it is open
    given           \* history: what the other side has answered since this exchange began

dialogVars == <<purpose, answer, given>>

Purposes == {"confirm", "secret", "field"}

\* A key opens with "first" or "second"; "typo" opens nothing; "long" is past every cap.
Texts == {"yes", "first", "second", "typo", "empty", "long"}

NoAnswer == [how |-> "none", text |-> "empty"]

\* Decision, PromptError, and the text where there is one; a "piece" is a cut one.
Answers == [how : {"none", "approved", "denied", "typed", "cancelled", "unavailable",
                   "toolong"},
            text : Texts \cup {"piece"}]

Came(how) == [how |-> how, text |-> "empty"]
Typed(text) == [how |-> "typed", text |-> text]

\* A question nobody can be asked: a confirmation fails closed, an entry says why.
Unasked(why) == IF purpose = "confirm" THEN Came("denied") ELSE Came(why)

DialogTypeOK ==
    /\ purpose \in Purposes \cup {"none"}
    /\ answer \in Answers
    /\ given \in Texts \cup {"nothing"}

DialogInit ==
    /\ purpose = "none"
    /\ answer = NoAnswer
    /\ given = "nothing"

OpenDialog(for) ==
    /\ purpose = "none"
    /\ purpose' = for
    /\ answer' = NoAnswer
    /\ given' = "nothing"

CloseDialog(with) ==
    /\ purpose' = "none"
    /\ answer' = with
    /\ UNCHANGED given

(***************************************************************************)
(* What an exchange gives is the whole of what was answered since it       *)
(* began: neither a line typed for an earlier question, nor a cut or       *)
(* failed helper, nor a dialog that gave up stands in for it (confirm/,    *)
(* passphrase/: "a stale `yes` left over from a prompt that timed out must *)
(* not approve this request", "an expired dialog must not count as         *)
(* approval"). On a terminal it begins at the flush. That is before the    *)
(* question can be read: a line typed in between, while the question is    *)
(* being written, is taken for its answer, and this does not exclude it.   *)
(***************************************************************************)
AnswersAreFresh ==
    /\ answer.how = "approved" => given = "yes"
    /\ answer.how = "typed" => answer.text = given
=============================================================================
