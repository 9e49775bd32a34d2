# lastpass-ssh-agent in TLA+

A verification development of `lastpass-ssh-agent`, an SSH agent that keeps its
private keys in LastPass: it fetches a key through `lpass` for every signature,
asks the user to confirm, holds the master password between signatures, and
drops it when the screen locks or it has gone unused. The modules here are
translated from the Rust sources under `src/src/`; each definition's lines are
in `PROJECT.json`. TLC checks small instances, TLAPS proves the theorems for
every value of the constants.

The program runs on one thread (`main.rs` asks for tokio's `current_thread`
flavor). What stands between two awaits is therefore atomic, and what makes it
hard is what can happen *at* an await: any number of connections are served side
by side, a background scan runs beside them, the screen locks, the idle time
passes, and the vault's own state changes in other processes.

## The system

| Component | State | Operations | Talks to |
| --- | --- | --- | --- |
| Signing path (`agent.rs`) | per request: the entry, the answer, what was fetched | `sign`: check the session, approve, fetch, unlock the key, sign, settle | everything below |
| Interaction gate (`interaction.rs`) | one mutex, and per request whether it holds it | `enter`; let go when the request ends | signing path, passphrases |
| Approvals (`approvals.rs`) | two counters (locks, asks), a map from question to epoch | `remembered_in`, `remember_in`, `settle`, `bump`, `unlocked` | signing path, master password |
| Master password (`unlock.rs`) | what is held and from where, when it was used, whether the store was rejected | `password`, `rejected`, `forget`, `expire_if_idle`, `touch` | lpass client, screen watch, approvals |
| Its sources (`master.rs`, `enclave.rs`, `master/enclave.rs`, `files.rs`) | a file beside the socket, sealed to the Secure Enclave | `resolve`; `seed`, `store`, `forget` | the user, the Secure Enclave |
| Screen watch (`vaultlock.rs`) | the last reading, how many failed in a row | `watch` | platform, master password |
| lpass client (`lpass/`) | none but the clients' password source | `show_field`, `ls`, discovery; one child process a call | the `lpass` program |
| Identities (`keystore.rs`, `identities.rs`, `refresh.rs`) | the set served, the file beside the socket, one scan, when it last began | scan, load, refresh, remember, discard | lpass client, signing path |
| Start, `list` (`commands/`) | the config as it was read | start from the file or a scan, spawn the loops, stop | all of them |
| Passphrases (`passphrase.rs`, `keychain.rs`) | platform store of passphrases | `unlock`: the vault's field, a saved one, or the user; save what worked | lpass client, gate, prompts |
| Session bindings (`agent.rs`, `signing.rs`) | per connection: bound sessions and hosts | `session-bind`, checks before a signature | signing path |
| Prompts (`confirm/`, `passphrase/`, `tty.rs`) | the terminal's mode and its queue; a child process | a dialog, a helper or a line that is answered, dismissed or times out | the user |
| Socket (`socket.rs`) | the path | `bind`, the guard's unlink | start |
| Requester, hosts (`requester.rs`, `knownhosts.rs`, `text.rs`) | none; read processes and files while they change | what a prompt shows, and what an approval is keyed on | signing path |
| Configuration (`config.rs`) | none | load, expand, validate; build the prompts and the store | start |
| `doctor`, `env` | none | report | the user |

What makes each of them correct, and hard to test:

* **Gate**: while a request is in conversation with the user, no other is; and
  it never stays held. Broken by an early return, by letting go between two
  prompts, by taking it in another order than the password's lock.
* **Approvals**: a yes counts for its own request and, afterwards, for the same
  question until the vault locks. A lock can fall anywhere: while a prompt is
  up, between the answer and the signature, between an answer from memory and
  the end of the fetch, or *because* this very request found the vault locked.
* **Master password**: one prompt for all who wait; a refused password is
  dropped and its store not asked again; the screen's lock wins over an answer
  still being typed. The lock kept across the prompt is what everything waits
  for, and what is found under it may not be what one went in for.
* **Lifetimes**: idle time and screen are both sampled, so a password outlives
  either by a bounded time, and readings can fail.
* **Identities**: the set is never ambiguous and never shrinks because the vault
  was unavailable; a change reaches the agent in the end; a file found wrong is
  not trusted again. Three writers (start, refresh, `list`) and one deleter, in
  two processes, work from readings of different ages.
* **Passphrases, master password store**: only what has worked is saved; a store
  is never a reason to refuse a key, nor a failed read a reason to call it empty;
  a process that dies while it writes leaves the old contents.
* **Prompts**: an answer is whole and was given since its question began;
  nothing stays on screen, in the terminal or running afterwards. A line typed
  for an earlier question, a dialog that expired and a program that was killed
  all look like answers.
* **Questions**: what is remembered was approved under the same words, and the
  hosts named are those the connection is bound to and known_hosts recorded,
  although all of it changes while a request waits for its turn.
* **Session bindings**: a signature is given only for the session the connection
  was bound to.
* **Configuration**: a file that is accepted can be served.
* **Socket**: a live agent is not cut off by another's start or stop.

## The modules

| Module | What it models |
| --- | --- |
| `Approvals` | `LockEpoch` and `Approvals`, as state and as operators on it |
| `Unlock` | `Unlock`, extends `Approvals`: what is held, its lock, its store |
| `SigningAgent` | the signing path, extends `Unlock`: any number of requests, the gate, every `lpass` call, the scan, the screen, the idle time |
| `ApprovalPolicy` | abstract: what a yes is worth, without epochs, counters, gates or calls |
| `SigningAgentInvariant` | the inductive invariant of `SigningAgent` |
| `MCSigningAgent` | instances of `SigningAgent` |
| `SigningAgentTurnProofs`, `SigningAgentPolicyProofs` | proofs about `SigningAgent` |
| `PasswordLifetime` | the master password in discrete time: idle clock and screen watch |
| `PasswordLifetimeProofs` | its two bounds, proved |
| `Identities`, `MCIdentities` | the served set, the file, the scans; and instances |
| `Roster` | abstract: what a set of identities may come from, without stages, configs, requests or the hour |
| `IdentitiesProofs` | the types and the safety properties of `Identities`, proved, and that it implements `Roster` |
| `SessionBind` | the hosts a connection is bound to, and what it may have signed |
| `SessionBindProofs` | its three invariants, proved |
| `Questions`, `MCQuestions` | extends `SessionBind`: what a prompt says of whom, on which yes it is spared, while processes and files change |
| `QuestionsProofs` | its properties, proved, and that it implements `SessionBind` |
| `Commands` | processes that share a machine: starts and stops on one socket path, the storing of the master password |
| `Enclave`, `MCCommands` | extends `Commands`: the file the master password is stored in, written and read step by step |
| `CommandsProofs` | the invariants of both, and that `Enclave` implements `Commands` |
| `Config` | what a config file comes to: operators only |
| `Dialog` | one exchange with the user or a program: what `Terminal` and `Helper` share |
| `Terminal` | a question on the terminal, and everybody who types and reads there |
| `Helper` | a call of a program that answers: osascript, askpass, `lpass` |
| `Passphrases`, `MCPassphrases` | extends the four: a request that confirms, and gets its key's passphrase, under a config |
| `PassphrasesProofs` | their invariants and what a step may save, proved |

### SigningAgent

One value of `pc[r]` per await a request can stand at; the list is in the
module's head. A handler's action does all the code does up to the next await:
`Confirm` reads the epoch after the answer, `Sign` and `Fail` contain `settle`,
the release of the gate and of every local, and the start of a scan. `held` and
`asker` are `Unlock`'s mutex and its contents: only `password` keeps it across an
await, so the lock is held exactly by a request at the master password prompt,
and any other operation is a single action that needs `LockFree`.

A password is abstracted to whether it opens the vault and where it came from.
An `lpass` call may find the vault open, locked, or refuse what it was fed,
according to what it was fed and to whether a shell has left an agent running
(`shell`, which turns at any time); it may also fail whatever it finds, as a
timeout does. A question is a model value, and *any* question each time it is
built, because the requester may have changed. Which outcome `sign_with` has
(no such item, another key, empty, malformed) is a choice.

Left out here: time (a held password may be idle at any moment), sessions, the
content of the keys, the identities and their file. `PasswordLifetime` and
`Identities` put back the parts their properties need.

### PasswordLifetime

`Tick` passes a unit of time, and only when neither loop has a look due that it
could take: the loops' own work costs no time, a prompt may hold them up for
`PromptTime`. Ages stop counting at `MaxAge`, past which no comparison looks; so
the state space is finite with no bound on time. One request at the asking
client stands for all: the gate lets only one there. The variables under
"History" are not in the code; the properties are about them.

### Identities

One step per answer of `lpass`. The vault may change between any two steps of a
scan, and so may the config, the set served and the file. An item holds a key,
is an SSH Key note without a usable one, or is absent. `answering` is whether
`lpass` answers; while it does not, any call may be found locked or time out,
which a strict scan (`load_complete`) and a lenient one (`load`) take
differently. A refresh is a scan of process "agent" while it is up. `list` is
the other process. Stopping covers a crash, since the file is staged and
renamed. A signature is one step from fetch to outcome: the passphrase prompt in
between is `SigningAgent`'s.

`Roster` is what this comes to once stages, pins, requests and the hour are taken
away: readings that take keys one item at a time from a vault that changes, an
offer, a file, and the four ways the two are replaced. A scan maps to a reading
that is after what its pins want, has got what the scan has, and was denied what
was not usable at some time since it began (`denied`, which is history).

### SessionBind, Questions

A connection is served one message at a time, so one message is one step, the
whole of `handle_extension` or of the check in `sign`. A refused message changes
nothing and is left out. A host key is a plain key or a certificate: the code
compares bindings by the bytes sent and verifies with the key inside, and
`KeyOf` keeps the two apart. `proved` is what hosts have signed in key exchanges
anywhere, so that a valid signature for any session may come from anyone.
`accepted` and `signed` are history: what the client was told, and one signature
of the connection, any one, with the hop that was newest when it was issued. One
is enough, as the property is about each by itself.

In `Questions` a request that is confirmed takes several steps: `Arrive` checks
it, `ReadFile` reads one known_hosts file, `Named` builds the context and looks
at the memory, `Enter` takes the gate, looks the requester up again (not the
hosts) and looks at the memory again, `Approve`, `Deny`, and `Finish`, which
fetches, signs and remembers. Processes (`tree`) and files change at any time.
A text is a sequence of `Glyphs`, with those that are escaped standing for
themselves, so that the joining of a question's parts, the name of a bundle in a
path and the cutting of what is shown are done as the code does them, and the
proofs can speak of any text. `TextAssumption` says what the code prints without
escaping (a uid's digits, a fingerprint's base64) and that a line of known_hosts
has no empty field. A look at the processes is one step, as
the code looks at them without an await; that they change *during* it is left
out. When approvals are forgotten is `SigningAgent`'s; here it may be at any
time. That the hosts' names were looked up before the wait for the gate, and may
be old when the prompt goes up, is as the code has it, and no property speaks
against it. `named` and `revoked` are history: what one and the same file has
recorded ever since the request came. `NamesAsRecorded` is stated of each file,
since a revocation that is moved, during a lookup, to a file it has read already
is missed; nothing in the repository says otherwise.

### Commands

Each system call and each `lpass` call of a process is a step. The path holds
nothing, the socket of a process, or one left behind. `bind` looks, removes,
binds and listens; the guard unlinks after the listener is dropped; any process
may be killed between any two. `store-master-password` drops a shell's unlock,
sees the vault locked, asks, tries and keeps, and any step may end it. A
candidate is right or wrong. Its check for a running agent keeps nothing out of
the model, since the code takes every failed connection for no agent. Left out:
what a start does before it binds but for the directory's check, and its prompts.
`OneAtATime` says that
nobody begins a command, or opens the vault, during another's; without it both
properties fail (see below).

### Enclave

`Commands` keeps a password in one step. `Enclave` has the steps: seal, open the
staging file, write, rename; a process that dies in between leaves its staging
file. A reader loads a copy, and asks for the fingerprint after that, so the copy
may be old when it is opened. What the shim comes back with depends on whether
the fingerprints are those the key was made for, and is not known to fail at one
stage only; `Stages` takes what `enclave.rs` says of them: what it calls past
saving (a key that cannot be restored, contents that are malformed or do not
decrypt) is never the answer for a whole file under its own fingerprints. That
is the Mac's to keep, and assumed, as is that what was altered does not decrypt.
The master password is not changed at LastPass; a damaged file, and one another
program has sealed, come about between commands (`Spoil`), like the command that
forgets. `unpad` looks at a block's size and at its length only: a block of
another shape is taken for an empty store, and one laid out as `pad` does it is
supplied, whoever sealed it ("foreign"). `SuppliesWhatWasSealed` says both; the
comment on `unwrapped`, that it must be "a block this wrote", says more than the
code can tell. What becomes of a password that opens nothing is `SigningAgent`'s.

### Passphrases, Terminal, Helper, Config

`Passphrases` serves one request at a time: there is one conversation at a time
(`OneConversation`), and a request that waits for `lpass` alone shares nothing
with the others. A passphrase is one of two that a key is encrypted under, one
that opens nothing, empty, or longer than what is read. The agent is built from
any config file that `Load` accepts, which decides whether a confirmation and an
entry go through the terminal, the dialog or the helper.

The terminal outlives every question. Lines are typed and completed at any time,
and read by whoever asks or by somebody else; `own` says that a line was begun
since the question that is open flushed the terminal ("open"), whether or not it
has been written yet ("shown"). A complete line is read at once. A program has two
pipes that hold `PipeSize`, writes one stream first, and may say more than is
read; the agent reads both in steps, and may give up at each. `given` is history:
what the other side has answered since the exchange began. The stores answer
at once or never: no deadline is set on their dialogs.

## The runs

Every pass run is exhaustive for its constants. Each module's type invariant is
checked beside these.

| Run | Constants | Shows |
| --- | --- | --- |
| `passwords` | 2 requests, keys that are confirmed and encrypted or neither, Touch ID, idle time, 1 screen lock | `IInv`, `OneConversation`, `AskIsOwn`, `RejectedStoreIsNotHeld`; `PolicySpec`: every step is a step of `ApprovalPolicy` |
| `progress` | 2 requests, confirmed encrypted keys, 1 screen lock, fairness | `EveryRequestEnds`, `LockedScreenDrops` |
| `ask_window` | 2 requests | violates `ApprovalsEndAtTheAsk` |
| `store_given_up` | 2 requests, Touch ID | violates `OnlyABadStoreIsGivenUp` |
| `lifetime` | idle time 3, poll 2, prompt 1 | `IdleBound`, `LockBound` |
| `busy_hour` | the same, no watch | violates `BusyHourNeverAsks` |
| `identities` | 2 items, 2 keys, pinned or discovered, 1 edit, 2 starts or lists, fairness | `Unambiguous`, `NothingLost`, `Refreshed`; `RosterSpec`: every step is a step of `Roster` |
| `discard` | the same, discovered, 3 starts or lists, no fairness | violates `DiscardHolds` |
| `questions` | 1 bound and 1 local connection, a plain key and 2 certificates over another, 3 sessions, 2 bindings, 4 process trees, 2 files with 4 contents, 2 changes, 1 yes | `ChainSound`, `AcceptedIsBound`, `SignedWhereBound`, `RememberedAsShown`, `HostsAreBound`, `NamesAsRecorded`, `NotAskedTwice`; `BindsAsSpecified`: every step is one of `SessionBind` |
| `commands` | 3 processes, one command at a time, 1 change of fingerprints | `Reachable`, `StoredOpens`, `KeptIsWhole`, `EmptyIsPastSaving`, `SuppliesWhatWasSealed`; `KeptInOneStep`: every step is one of `Commands` |
| `store_race` | 3 processes, commands side by side | violates `StoredOpens` |
| `prompts` | 10 config files on 3 platforms, with a home directory or without, 2 lines typed ahead, pipes of 1 unit, fairness | `AnswersAreFresh`, `TerminalIsGivenBack`, `NothingLeftUp`, `FullPipesAreRead`, `VaultDecides`, `ConfigServes`, `NoTypoIsSaved`, `StaleIsAskedAgain`, `EndsOrWaitsForTheStore` |

Why the bounds are enough. Two requests in `passwords` are the least for what
goes wrong between two: one asks or brings a refused password, the other is
answered from memory or waits; and with keys that are confirmed, encrypted or
neither, and Touch ID, each of them is met by every kind of the other. A third
would only be one more of either, and the proofs are for any number. One screen
lock is no loss, since the idle time and the refusals drop the password, and
count as locks, without any bound. For the liveness properties' circles two
requests are the least: two resources, two holders. An idle time of 3 with a
poll of 2 puts the deadline between two looks. Two items are the least for a
duplicate and for a set that shrinks; one edit of the vault beside a config that
changes is enough to make every reading stale, and a second would only undo or
follow it. Three processes are an agent that serves, a start beside it and a
command that stores; one change of the fingerprints makes every key made before
it useless, and there is nothing more a second could do to it.

In `questions`, two bindings are a first hop and a newest, and meet the limit
with a session to spare; the proofs are for any limit. The process trees are
chosen to be mistaken for one another: two processes named like one, a loop, a
bundle, a control character, one that cannot be read. One change can fall before
each of the two lookups of a request. `MCNext` leaves out what only multiplies
histories: bindings come before the first approval, the world changes for whole
connections, and two clients ask only where no host is bound, which is where
their questions can be the same.

In `prompts`, two lines are one that was typed too early and one that answers; a
pipe of one unit blocks at the second, diagnostics of three units overrun pipe
and limit, and an answer can be whole, cut or too long. The config files reach
each way to ask, each fallback, and the refusals that depend on what keys
override, an unknown setting, and settings that bear on none of this. Each value
that a vault, a store or the user may give is there: right, wrong, of an older
copy, empty, too long, unreadable.

Deadlock is disabled where a run really may stop: in `SigningAgent`'s every
request may have ended and the bounds be used up, in `questions` likewise, and
in `prompts` a request may wait for a store for ever.

Fairness (`FairSpec`). In `SigningAgent`, every prompt times out
(`confirm_timeout_secs`) and every `lpass` call is killed after 30 s: weak
fairness of a request's own steps. The gate and the password's lock are tokio
mutexes, which serve waiters in order: strong fairness of the steps that wait
for one, as they are enabled again and again while others pass it on. The user,
the shell, the screen and the idle time are not fair. In `Identities`, weak
fairness of the agent's scan, whose calls end, and of the hour; signatures are a
premise of the property, not a fairness. In `Passphrases`, weak fairness of the
agent's own steps, of a question on the terminal and of a call, which have
deadlines; nothing is assumed of the user, of a program, or of a store.
`SigningAgent` takes a request at its passphrase to end by itself, which is so
for every fallback but a store with a locked collection: what is shown there of
that one wait is `EndsOrWaitsForTheStore`.

## What the checks show to be wrong

* `ask_window`. The README says approvals end when a request finds the vault
  locked. They end when that request *settles*: after the prompt, the fetch and
  perhaps a passphrase prompt. Meanwhile another request is answered from
  memory, finds the password just typed, and signs. (With the vault open in a
  shell the README excuses it; the run shows it without one.)
* `store_given_up`. `rejected` blames what it finds in the lock. A mistyped
  password refused twice, by a scan and by a request, with the Touch ID store's
  good answer in between, makes the agent give up the store until it restarts,
  and warn that the stored password no longer opens the vault.
* `busy_hour`. The idle time is documented as counted from the last signature,
  but only the asking client renews it, and signatures do not reach for that one
  while the password is held. So it counts from when the password was last
  asked for, and a busy hour does ask.
* `discard`. A signature that finds the vault contradicting the file discards
  it, but a scan already past that item writes it again; the next start then
  serves the stale key, and finds out only at a signature or a refresh.
* `store_race`. `store-master-password` sees the vault locked *before* its
  prompt and tries the answer after it. A vault opened in a shell meanwhile
  accepts any candidate, so a typo does become a stored credential.

`Reachable` has no such run, because nothing in the repository promises it of
starts that overlap; without `OneAtATime` it fails too: of two starts that both
find a stale socket, one removes what the other has just bound, and a guard
unlinks the path whoever's it has become.

A line typed at a terminal prompt counts from the flush on, and the question is
written after that, at an await: a `yes` entered in between approves what nobody
has read yet (`confirm/tty.rs` 77-84, and `passphrase/tty.rs` 170-181 alike),
although `tty.rs` speaks of dropping "anything typed before the prompt was shown".
`AnswersAreFresh` is what holds, and says nothing of that moment: with `own` set
only when the question is shown, TLC finds the approval in seven states.

Two more limits of the screen watch are by its design, and the reason
`LockBound` is stated for a screen that a reading has found open: a lock is a
change between two readings, so a screen that opens and locks again between
them, or while `forget` waits behind a password prompt, or while readings fail
after a locked one, keeps what was typed in that moment.

## What is proved

About `SigningAgent`, for any sets of requests and questions, any kinds of key,
any settings and any number of screen locks, from the assumptions the modules
name (`NoQuestion` is no question, `NoRequest` no request, settings are of their
types):

1. `TypeCorrect`: `Spec => []TypeOK`.
2. `TurnsKept`, from `TurnInv`: `TypeOK`, `GateInv`, `LockInv`, `AskInv`. None of
   the three is inductive alone: that the counter of asks is one's own
   (`AskInv`) needs the asker to hold the gate (`GateInv`), which needs the one
   at the prompt to be where the lock says (`LockInv`). From it
   `OnlyOneConversation`, `AsksAreOwn`, `RejectedStoreStaysOut`.
3. `Invariant`: `Spec => []IInv`, with `MemoryInv` (nothing filed or answered
   belongs to an epoch still to come; an answer from memory keeps its entry for as
   long as its epoch lasts) and `OutcomeInv`. The entry could be dropped only
   by a newer epoch, which voids the answer.
4. `ImplementsPolicy`: `Spec => PolicySpec`. The mapping reads the policy's grants
   off the entries of the current epoch, and the yes of a request off its answer
   if that is of this epoch. One lemma per way a request ends (`RefusalMaps`,
   `SignMaps`), split by whether settling bumps the epoch (`EpochEnds`) or
   leaves it (`EpochStays`); `AskInv` is what makes the request that bumps the
   one the policy has as asking.

About `PasswordLifetime`, for any idle time, poll and prompt time:
`HeldNoLongerThanIdle` and `LockedScreenShutsInTime`, from `LifetimeInv`, whose
parts bound an age and the time left to the look that ends it together.

About `SessionBind`, for any connections, host keys, sessions and limit:
`ChainIsSound`, `AcceptedStands` and `SignedForTheNewestHost`. Each follows from
its own statement about one connection (`ChainOf`, `SignedOn`), kept across
`Append`: a binding that is appended was compared with the whole chain, and its
predecessor forwards; `AcceptedStands` needs it that a replay is answered with
success only for a binding that is still there.

About `Questions`, for any clients, hosts, keys, process trees, files, limits,
and any texts:

* `QuestionsTypeCorrect`, `AsksAsBound` (it implements `SessionBind`, so the
  three invariants above hold of a connection with questions too),
  `ShownHostsAreBound` and `AskedOnce`, from `AskInv`: `Shaped` (a request that is
  served has all its fields), `FitsStill` (what was checked on arrival still
  fits, since nothing else is served on its connection), `GateHeld` (whoever
  prompts or has a yes not yet settled holds the gate) and `HostsAreBound`.
  `FitsStill` is what makes the signature, issued long after its check, a step
  of `SessionBind`; `GateHeld` is why a question cannot be answered twice.
* `MemoryAnswersAsShown`, from `KeptInv`: what is remembered is the question of a
  context the user approved (`MemoryKept`), and a request that memory answers has
  that question. So it rests on `QuestionsApart`: two contexts with one question
  look the same. A question is seven texts joined by newlines, of which two are
  lists joined by `US`, and a hop's is three texts joined by `RS`; `EscapeOf` has
  none of the three among its values (`PrintableIsNoControl`), and texts joined
  by what none of them holds come apart in one way only (`JoinedOnce`). Lists need
  one thing more, that no element is empty, or a list of none would join to the
  same text as one of nothing (`ListsJoinedOnce`): a process that cannot be read
  ends the chain of origin (`OriginNamed`), and a hop begins with its fingerprint.
* `HostsNamedAsRecorded`, from `HistoryKept`: what a file has recorded since the
  request came is in the file still, and in the index once the file was read.
  Reading a file keeps the names and revocations there are (`AddFileRecords`).

`Joined`, `AddFile` and `Origin` are recursive functions, and the library's
induction theorem is out of the provers' reach, as it takes a predicate for its
parameter. `Induction` states it of a set instead, and is proved from the
pigeonhole principle: if 0 is in the set, and every successor of a member, but k
is not, then the function that leaves members as they are and moves the others
down by one is one-to-one from 0..k into 0..k-1. `Recursion` and `Agreement`,
that a recursive definition has a function and only one, follow from it.

About `Passphrases`, for any config files, any sizes of pipes and limits, any
lines typed ahead and whatever others do to vault and store: `PassphraseTypes`,
`OnlyFreshAnswers`, `TerminalWasGivenBack`, `NothingIsLeftUp`,
`FullPipesHaveReaders`, `TheVaultDecides`, `AnyConfigServes`, `TyposAreNotSaved`
and `StaleWasAskedAgain`, all from `PassphrasesInv`. A verdict is given at the end
of an exchange, from what was read; that it is what was given takes the whole of
its course. `PlanInv` ties what a program will say to what was given, `PipeInv`
what was read to what it will say (a stream that is read no more was read to its
end, unless it is diagnostics over the limit), `TerminalInv` the line on the
terminal to the question that discarded what was there before; `TurnInv` keeps
one exchange at a time, of the kind the request's step calls for, so that none
finds what another has left. `ServedInv` is what an accepted config has been
checked for, and `StepInv` what the request knows of the vault's field.
`FilesAssumption` says of the files that they parse, or are missing or
unreadable, as whatever else there is is refused.

About `Commands`, for any set of processes, from `OneAtATime`: `ServesAtThePath`
and `OnlyTheMasterPassword`, from `CommandInv`: `OneBusy` (at most one process is
in the middle of a command), `PathInv` (while one is about to remove or bind,
nobody serves there) and `StoreInv` (from the check on, the vault stays locked,
and what is kept has opened it). The first is what carries the others across
the steps of everyone else.

About `Enclave`, for any set of processes and of fingerprints, and however
commands overlap: `EnclaveTypeCorrect`, `KeepsInOneStep` (it implements
`Commands`), `WholeWhenKept` and `SaysEmptyOfTheLost`, from `FileInv`: a process
that is to rename has written the whole of its staging file, whatever it found
there (`StagingInv`), every copy was made for fingerprints no newer than the
enrolled, and only a block laid out as `pad` does it was ever supplied
(`ReadInv`). `SuppliesOnlyTheSealed` needs `OneAtATime`, since it rests on
`OnlyTheMasterPassword`, carried over by the refinement, and on `CopiesInv`: no
copy that was read has another password kept in it than that.

About `Identities`, for any items, keys, pins, edits and starts:
`ServesUnambiguously` and `NothingIsLost`, from `IdentitiesInv`, whose `ScanInv`
says of a scan, stage by stage, that what it has left out is what the vault
denied or what it still has to look at, and that what it has is without
duplicates. `IdentityTypes` from `OfferInv`: beside the types, a scan has got
none of what it has still to read (`Sound`), and an agent that is not up offers
nothing and serves no request. From both invariants `OffersWhatWasRead`
(`Spec => RosterSpec`): an answer of `lpass` is a key taken, a reading given up, or
a stutter (`AnswerReads`), and each way a scan ends is one of `Roster`'s. A set
is read in the order of its items, so that the next one exists is a fact about
numbers, `LeastExists`, from the pigeonhole principle like `Induction`.

Only model-checked: liveness (`EveryRequestEnds`, `LockedScreenDrops`,
`Refreshed`, `EndsOrWaitsForTheStore`), which the prover does not reach, and the
five runs that find a violation.

## What is not modelled

The parsing of `lpass`'s output, of a known_hosts line, of SSH's wire format and
of TOML (each has each outcome that the code tells apart); cryptography; how a
platform tells a process's path, its parent and the screen's state; the pinning
and wiping of memory; the stores' protocols (the Keychain's calls, D-Bus);
prompts of separate processes, which are not related by anything in the code;
command-line parsing, error texts, `doctor`, `env`, packaging, the build. These
keep no state, or their state is another system's. The identities file is written
whole or not at all (`Enclave` has the steps of `write_private`, which both
files share); a file edited by hand or by another version reads as absent or is
refused, which is a start from the vault. A file of identities that cannot be
removed is left out: it is only logged, and `discard` is about the removal that
works. A prompt that is suspended (Ctrl-Z) runs no cleanup and leaves the echo off,
as the repository's README says; `TerminalIsGivenBack` is about prompts that end.
And `kill_on_drop` reaches the program the agent started: `NothingLeftUp` is about
that one, not about a dialog that a helper script has put up in turn.

## Plan

Done: the signing path against `ApprovalPolicy`, lifetimes, identities, session
bindings and questions, commands and the enclave's file, prompts and
passphrases, identities against `Roster`; proofs of every invariant and action
property of the passing runs but the ones "Only model-checked" names. Left:

1. `SigningAgent`'s requests with the store's dialog as a step without a
   deadline, to say of the others which of them still end.
