------------------------------ MODULE Commands ------------------------------
(***************************************************************************)
(* The commands that share a machine: agents that start and stop on one    *)
(* socket path (src/src/socket.rs, commands/start.rs), and                 *)
(* store-master-password, which checks a candidate against the vault       *)
(* before it keeps it (src/src/commands/master_password.rs, master.rs).    *)
(* Each is a process of its own, and each system call or lpass call of     *)
(* theirs is a step: between two of them anyone else may move, unless      *)
(* OneAtATime says that commands are run one after the other.              *)
(*                                                                         *)
(* A candidate is abstracted to whether it is the master password. What a  *)
(* start does before it binds touches nothing here.                        *)
(***************************************************************************)
EXTENDS Integers

CONSTANTS
    Processes,
    Nothing,        \* at the path: no file
    Stale,          \* at the path: the socket of a process that has gone
    OneAtATime      \* nobody begins a command, or opens the vault, during another's

ASSUME PathAssumption == Nothing # Stale /\ Nothing \notin Processes /\ Stale \notin Processes
ASSUME OverlapAssumption == OneAtATime \in BOOLEAN

VARIABLES
    path,           \* what is at the socket's path; a process, if its socket is
    pc,             \* the next step of each process
    shell,          \* an lpass agent a shell left running holds the key
    candidate,      \* the password being stored
    stored          \* what the biometric store holds

agentVars == <<path, pc>>
storeVars == <<shell, candidate, stored>>
vars == <<agentVars, storeVars>>

Candidates == {"right", "wrong"}
StartSteps == {"looking", "removing", "binding", "listening"}
StoreSteps == {"dropping", "checking", "asking", "trying", "keeping"}
Steps == {"idle", "serving", "unlinking"} \union StartSteps \union StoreSteps

TypeOK ==
    /\ path \in Processes \union {Nothing, Stale}
    /\ pc \in [Processes -> Steps]
    /\ shell \in BOOLEAN
    /\ candidate \in [Processes -> Candidates]
    /\ stored \in Candidates \union {"none"}

Init ==
    /\ path \in {Nothing, Stale}
    /\ pc = [p \in Processes |-> "idle"]
    /\ shell \in BOOLEAN
    /\ candidate = [p \in Processes |-> "wrong"]
    /\ stored \in {"none", "right"}

Idle(p) == pc[p] = "idle"
Settled(p) == pc[p] \in {"idle", "serving"}
MayBegin == OneAtATime => \A p \in Processes : Settled(p)

Goto(p, step) == pc' = [pc EXCEPT ![p] = step]
Begin(p, step) == Idle(p) /\ MayBegin /\ Goto(p, step) /\ UNCHANGED <<path, storeVars>>
At(p, step) == pc[p] = step

-----------------------------------------------------------------------------
(* An agent, from socket::bind to the guard's unlink.                      *)

\* A connection is refused: the process has gone, or does not listen (yet, or any more).
Deaf(where) == where = Stale \/ (where \in Processes /\ pc[where] # "serving")

\* A variant that must fail: any connection that fails proves nobody listens.
LookHastily(p) ==
    /\ At(p, "looking")
    /\ \/ path = Nothing /\ Goto(p, "binding")
       \/ path # Nothing /\ Goto(p, "removing")
       \/ Goto(p, "idle")
    /\ UNCHANGED <<path, storeVars>>

\* prepare_parent: a directory that cannot be made, or is not the user's alone.
UnfitDirectory(p) == Goto(p, "idle")

(***************************************************************************)
(* The directory, the file, and who answers there. The start is refused by *)
(* an agent that answers, by a connection that fails any other way than    *)
(* refused, and by a file that is no socket.                               *)
(***************************************************************************)
Look(p) ==
    /\ At(p, "looking")
    /\ \/ UnfitDirectory(p)
       \/ path = Nothing /\ Goto(p, "binding")
       \/ Deaf(path) /\ Goto(p, "removing")
       \/ path # Nothing /\ Goto(p, "idle")
    /\ UNCHANGED <<path, storeVars>>

\* Whatever is there by now; a start that finds nothing to remove fails.
Remove(p) ==
    /\ At(p, "removing")
    /\ path' = Nothing
    /\ Goto(p, IF path = Nothing THEN "idle" ELSE "binding")
    /\ UNCHANGED storeVars

\* UnixListener::bind takes two system calls, bind and listen.
BindPath(p) ==
    /\ At(p, "binding")
    /\ \/ /\ path = Nothing
          /\ path' = p
          /\ Goto(p, "listening")
       \/ Goto(p, "idle") /\ UNCHANGED path
    /\ UNCHANGED storeVars

\* The socket of a process that gives it up or dies stays where it is.
Abandoned(p) == IF path = p THEN Stale ELSE path

\* listen; a mode that cannot be set drops the listener, with no guard yet.
Listen(p) ==
    /\ At(p, "listening")
    /\ \/ Goto(p, "serving") /\ UNCHANGED path
       \/ Goto(p, "idle") /\ path' = Abandoned(p)
    /\ UNCHANGED storeVars

\* A signal ends listen and drops the listener; then the guard unlinks the path.
Stop(p) ==
    /\ At(p, "serving")
    /\ MayBegin
    /\ Goto(p, "unlinking")
    /\ UNCHANGED <<path, storeVars>>

Unlink(p) ==
    /\ At(p, "unlinking")
    /\ path' = Nothing
    /\ Goto(p, "idle")
    /\ UNCHANGED storeVars

\* Killed, at any step.
Die(p) ==
    /\ ~Idle(p)
    /\ Goto(p, "idle")
    /\ path' = Abandoned(p)
    /\ UNCHANGED storeVars

-----------------------------------------------------------------------------
(* store-master-password, once no agent answers: drop_shell_unlock, seed   *)
(* of the command, and seed of master.rs. Any step may fail, and end it.   *)

GiveUp(p) == pc[p] \in StoreSteps /\ Goto(p, "idle") /\ UNCHANGED <<path, storeVars>>

\* pkill; an agent that goes by another title is not found, and not missed.
DropShell(p) ==
    /\ At(p, "dropping")
    /\ shell' \in {FALSE, shell}
    /\ Goto(p, "checking")
    /\ UNCHANGED <<path, candidate, stored>>

\* A variant that must fail: the vault taken for locked once pkill has run.
CheckNothing(p) == At(p, "checking") /\ Goto(p, "asking") /\ UNCHANGED <<path, storeVars>>

\* "Seen to be locked, not assumed".
CheckLocked(p) ==
    /\ At(p, "checking")
    /\ ~shell
    /\ Goto(p, "asking")
    /\ UNCHANGED <<path, storeVars>>

Ask(p) ==
    /\ At(p, "asking")
    /\ \E typed \in Candidates : candidate' = [candidate EXCEPT ![p] = typed]
    /\ Goto(p, "trying")
    /\ UNCHANGED <<path, shell, stored>>

\* lpass ls, fed the candidate: it reads a shell's agent before it reads stdin.
Try(p) ==
    /\ At(p, "trying")
    /\ shell \/ candidate[p] = "right"
    /\ Goto(p, "keeping")
    /\ UNCHANGED <<path, storeVars>>

\* Sealed, then written whole or not at all.
Keep(p) ==
    /\ At(p, "keeping")
    /\ stored' = candidate[p]
    /\ Goto(p, "idle")
    /\ UNCHANGED <<path, shell, candidate>>

\* forget-master-password.
Forget ==
    /\ MayBegin
    /\ stored' = "none"
    /\ UNCHANGED <<agentVars, shell, candidate>>

-----------------------------------------------------------------------------
\* The user opens the vault in a shell; its agent runs out or is ended.
ShellTurns ==
    /\ shell' = ~shell
    /\ shell \/ MayBegin
    /\ UNCHANGED <<agentVars, candidate, stored>>

Agent(p) ==
    \/ Begin(p, "looking") \/ Look(p) \/ Remove(p) \/ BindPath(p) \/ Listen(p)
    \/ Stop(p) \/ Unlink(p)

\* The command refuses to run beside an agent that answers at the path; a connection that
\* fails, for any reason, is taken for no agent, so it may begin whatever is there.
Store(p) ==
    \/ Begin(p, "dropping") \/ DropShell(p) \/ CheckLocked(p) \/ Ask(p) \/ Try(p) \/ Keep(p)
    \/ GiveUp(p)

Next ==
    \/ \E p \in Processes : Agent(p) \/ Store(p) \/ Die(p)
    \/ Forget
    \/ ShellTurns

Spec == Init /\ [][Next]_vars

-----------------------------------------------------------------------------
(***************************************************************************)
(* An agent that serves is the one reached at the path, whatever starts    *)
(* were tried beside it and whoever died before ("a live socket at the     *)
(* path means another agent is running: refuse", socket.rs); so there is   *)
(* never a second one. It takes commands run one after the other: two      *)
(* starts at once can each remove what the other has just bound.           *)
(***************************************************************************)
Reachable == \A p \in Processes : pc[p] = "serving" => path = p

(***************************************************************************)
(* "Keep a master password, but only once it has been shown to open the    *)
(* vault" (master.rs, seed), "so a typo never becomes a stored credential" *)
(* (README.md): nothing but the master password is ever stored.            *)
(***************************************************************************)
StoredOpens == stored # "wrong"
=============================================================================
