------------------------------ MODULE Terminal ------------------------------
(***************************************************************************)
(* A question on the controlling terminal: TtyConfirmer                    *)
(* (src/src/confirm/tty.rs), TtyPrompt (src/src/passphrase/tty.rs) and     *)
(* what both use of src/src/tty.rs.                                        *)
(*                                                                         *)
(* The terminal outlives every question: what is typed queues in it        *)
(* whether or not anyone asks, and what a question leaves behind is read   *)
(* by whoever comes next. A line is one entry, read at once; the code      *)
(* reads it byte by byte and drains one that is too long.                  *)
(***************************************************************************)
EXTENDS Dialog

CONSTANTS
    MaxTyped,       \* a bound on the lines that wait in the terminal
    Entered         \* what is typed there

ASSUME TypedAssumption == MaxTyped \in Nat /\ Entered \subseteq Texts

VARIABLES
    tty,            \* where the question stands on it
    mode,           \* the terminal's: as the user has it, or not echoing
    queue,          \* complete lines nobody has read
    typing          \* the line not yet completed

terminalVars == <<tty, mode, queue, typing>>

\* own: typed since the question that is open flushed the terminal, shown yet or not.
\* secret: typed unseen, for a passphrase entry that is not complete.
Lines == [text : Texts, own : BOOLEAN, secret : BOOLEAN]
NoLine == [text |-> "none", own |-> FALSE, secret |-> FALSE]

TerminalTypeOK ==
    /\ tty \in {"closed", "open", "shown"}
    /\ mode \in {"user", "hidden"}
    /\ queue \in Seq(Lines)
    /\ typing \in Lines \cup {NoLine}

TerminalInit ==
    /\ tty = "closed"
    /\ mode = "user"
    /\ queue = <<>>
    /\ typing = NoLine

Disowned(line) == [line EXCEPT !.own = FALSE]

\* A variant that must fail: what was typed before is left for the question to read.
KeepPendingInput ==
    /\ queue' = [i \in DOMAIN queue |-> Disowned(queue[i])]
    /\ typing' = Disowned(typing)

DiscardPendingInput == queue' = <<>> /\ typing' = NoLine

\* hide_input, for a secret alone; a confirmation is typed in sight.
ModeFor(asked) == IF asked = "secret" THEN "hidden" ELSE mode

(***************************************************************************)
(* open, the flush and the echo, with no await between them. A terminal    *)
(* that cannot be opened, or whose echo cannot be turned off after it was  *)
(* flushed, is none.                                                       *)
(***************************************************************************)
OpenTerminal ==
    /\ purpose # "none"
    /\ tty = "closed"
    /\ \/ /\ tty' = "open"
          /\ DiscardPendingInput
          /\ mode' = ModeFor(purpose)
          /\ UNCHANGED dialogVars
       \/ /\ CloseDialog(Unasked("unavailable"))
          /\ DiscardPendingInput \/ UNCHANGED <<queue, typing>>
          /\ UNCHANGED <<tty, mode>>

\* The question is written, which may wait for the terminal; what is typed meanwhile stays.
ShowQuestion ==
    /\ tty = "open"
    /\ tty' = "shown"
    /\ UNCHANGED <<mode, queue, typing, dialogVars>>

\* A variant that must fail: a guard that gives the echo back and lets the rest be.
RestoreOnly == mode' = "user" /\ UNCHANGED <<queue, typing>>

\* Drop of TerminalMode: what was typed of an entry that is given up is flushed.
Restore ==
    /\ mode' = "user"
    /\ IF mode = "hidden" THEN DiscardPendingInput ELSE UNCHANGED <<queue, typing>>

\* The deadline, or a terminal that hangs up.
GiveUpOnTerminal ==
    /\ tty # "closed"
    /\ tty' = "closed"
    /\ Restore
    /\ \E why \in {"cancelled", "unavailable"} : CloseDialog(Unasked(why))

\* One line is the whole answer: anything but a yes denies.
ConfirmLine(text) == IF text = "yes" THEN Came("approved") ELSE Came("denied")

SecretLine(text) == IF text = "long" THEN Came("toolong") ELSE Typed(text)

LineAnswer(text) == IF purpose = "confirm" THEN ConfirmLine(text) ELSE SecretLine(text)

\* A complete line; keep_queued_input leaves what was typed ahead to the next reader, if
\* the line feed that follows an unseen entry could be written.
TakeLine ==
    /\ tty = "shown"
    /\ queue # <<>>
    /\ tty' = "closed"
    /\ mode' = "user"
    /\ \/ /\ queue' = Tail(queue)
          /\ CloseDialog(LineAnswer(Head(queue).text))
          /\ UNCHANGED typing
       \/ /\ purpose = "secret"
          /\ DiscardPendingInput
          /\ CloseDialog(Came("unavailable"))

-----------------------------------------------------------------------------
(* The one at the keyboard, at any time, and whoever else reads there.     *)

Type ==
    /\ typing = NoLine
    /\ Len(queue) < MaxTyped
    /\ \E text \in Entered :
          typing' = [text |-> text, own |-> tty # "closed",
                     secret |-> mode = "hidden" /\ queue = <<>>]
    /\ UNCHANGED <<tty, mode, queue, dialogVars>>

Enter ==
    /\ typing # NoLine
    /\ queue' = Append(queue, typing)
    /\ typing' = NoLine
    /\ given' = IF typing.own /\ tty # "closed" /\ given = "nothing" THEN typing.text ELSE given
    /\ UNCHANGED <<tty, mode, purpose, answer>>

ReadElsewhere ==
    /\ tty = "closed"
    /\ queue # <<>>
    /\ queue' = Tail(queue)
    /\ UNCHANGED <<tty, mode, typing, dialogVars>>

AtTerminal == OpenTerminal \/ ShowQuestion \/ GiveUpOnTerminal \/ TakeLine
AtKeyboard == Type \/ Enter \/ ReadElsewhere

-----------------------------------------------------------------------------
(***************************************************************************)
(* However a question ends, the terminal echoes again, and nothing of a    *)
(* passphrase that was begun is left in it for the next reader, "usually   *)
(* the shell, which would echo the passphrase and run it as a command";    *)
(* and while one can be typed it is not echoed (TerminalMode).             *)
(***************************************************************************)
TerminalIsGivenBack ==
    /\ tty = "closed" => /\ mode = "user"
                         /\ ~typing.secret
                         /\ \A i \in DOMAIN queue : ~queue[i].secret
    /\ tty # "closed" /\ purpose = "secret" => mode = "hidden"
=============================================================================
