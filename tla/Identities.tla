----------------------------- MODULE Identities -----------------------------
(***************************************************************************)
(* What the agent advertises: the set it serves, the file it writes for    *)
(* the next start, and the scans of the vault that replace them. Two       *)
(* processes scan: the agent (at a first start, then to refresh) and the   *)
(* `list` command, which writes the same file beside a running agent.      *)
(*                                                                         *)
(* Translated from src/src/refresh.rs, keystore.rs, identities.rs,         *)
(* commands/start.rs, commands/list.rs and commands/mod.rs, with           *)
(* discover_ssh_key_items of src/src/lpass/mod.rs and the identity side of *)
(* sign in src/src/agent.rs. One step per answer of lpass: between two of  *)
(* them the vault, the file and the config may have changed. A scan that   *)
(* is bound to fail ends with the answer that dooms it.                    *)
(***************************************************************************)
EXTENDS Integers, Functions

CONSTANTS
    Items,          \* the vault's items: numbers, in the order a scan reads them
    Keys,           \* public keys
    Absent,         \* of an item that is not in the vault
    Unusable,       \* of an SSH Key note whose public key is empty, malformed or unsupported
    None,           \* no file, no scan, no request
    Pins,           \* what [[keys]] may pin: sets of items, {} to discover
    MaxEdits,       \* a bound on the changes to the vault and the config
    MaxRuns         \* a bound on the starts and on the runs of `list`

ASSUME IdentitiesAssumption ==
    /\ Items \subseteq Nat
    /\ Absent \notin Keys /\ Unusable \notin Keys \union {Absent} /\ None \notin Keys
    /\ Pins \subseteq SUBSET Items
    /\ MaxEdits \in Nat
    /\ MaxRuns \in Nat

Scanners == {"agent", "list"}
Identity == UNION {[S -> Keys] : S \in SUBSET Items}
Nothing == [i \in {} |-> None]
Scans == [pins : SUBSET Items, stage : {"listing", "probing", "reading"}, todo : SUBSET Items,
          found : SUBSET Items, got : Identity]

ASSUME NoneAssumption ==
    None \notin Scans \union [after : SUBSET Items, got : Identity, denied : SUBSET Items]

VARIABLES
    vault,          \* what each item holds
    answering,      \* lpass answers; otherwise it is locked, or times out
    pinned,         \* the config file
    phase,          \* the agent: down, scanning for its first set, or up
    config,         \* the pins the agent read when it started
    served,         \* Served
    file,           \* agent.sock.identities, or None
    scan,           \* each process's scan, or None
    due,            \* an hour has passed since Refresher.last
    request,        \* the entry of a signature request in flight, or None
    edits,
    runs,
    denied,         \* history: items that were not usable at some time of the scan
    refuted         \* history: what a signature found to be no longer so

desk == <<vault, answering, pinned, edits>>
agent == <<phase, config, served>>
vars == <<desk, agent, file, scan, due, request, runs, denied, refuted>>

\* A variant that must fail: whatever a note holds is taken for a key.
UsableOrNot(i) == vault[i] # Absent

Usable(i) == vault[i] \in Keys
Wanted(pins) == IF pins = {} THEN Items ELSE pins
First(S) == CHOOSE i \in S : \A j \in S : i <= j
Distinct(f) == \A i, j \in DOMAIN f : f[i] = f[j] => i = j

-----------------------------------------------------------------------------
(* A scan: effective_keys, then inspect_keys as load or load_complete has  *)
(* it.                                                                     *)

\* Pinned keys are read at once; with none the vault is listed and probed first.
NewScan(pins) ==
    [pins |-> pins, stage |-> IF pins = {} THEN "listing" ELSE "reading",
     todo |-> pins, found |-> pins, got |-> Nothing]

Begin(s, pins) ==
    /\ scan' = [scan EXCEPT ![s] = NewScan(pins)]
    /\ denied' = [denied EXCEPT ![s] = {i \in Items : ~Usable(i)}]

\* is_verdict: what the vault says of an item is final, if it is not that it is shut.
Verdict(i) == ~Usable(i)

\* A variant that must fail: a refresh skips what the vault could not answer.
Lenient(s) == FALSE

\* A refresh is strict: load_complete. A first start and `list` are not: load.
Strict(s) == s = "agent" /\ phase = "up"

\* A scan that cannot go on: a first start exits with it, a refresh changes nothing.
GiveUp(s) ==
    /\ scan' = [scan EXCEPT ![s] = None]
    /\ phase' = IF s = "agent" /\ phase = "scanning" THEN "down" ELSE phase

Continue(s, step) == scan' = [scan EXCEPT ![s] = step] /\ UNCHANGED phase

\* `lpass ls`.
List(s) ==
    /\ scan[s] # None /\ scan[s].stage = "listing"
    /\ LET present == {i \in Items : vault[i] # Absent}
       IN  \/ /\ present # {}
              /\ Continue(s, [scan[s] EXCEPT !.stage = "probing", !.todo = present])
           \/ (present = {} \/ ~answering) /\ GiveUp(s)

\* One NoteType probe, in any order. An item gone since is no SSH key.
Probe(s, i) ==
    /\ scan[s] # None /\ scan[s].stage = "probing" /\ i \in scan[s].todo
    /\ LET todo == scan[s].todo \ {i}
           found == IF vault[i] = Absent THEN scan[s].found ELSE scan[s].found \union {i}
       IN  \/ /\ todo # {}
              /\ Continue(s, [scan[s] EXCEPT !.todo = todo, !.found = found])
           \/ /\ todo = {} /\ found # {}
              /\ Continue(s, [scan[s] EXCEPT !.stage = "reading", !.todo = found,
                                             !.found = found])
           \/ (todo \union found = {} \/ ~answering) /\ GiveUp(s)

\* A variant that must fail: one public key in two items is served for both.
UniqueOrNot(i, got) == TRUE

Unique(i, got) == vault[i] \notin Range(got)

\* One public key. The vault's verdict on an item is skipped; so is a timeout, unless
\* the scan is strict; a shut vault, and one key in two items, end the scan.
Read(s) ==
    /\ scan[s] # None /\ scan[s].stage = "reading" /\ scan[s].todo # {}
    /\ LET i == First(scan[s].todo)
           rest == [scan[s] EXCEPT !.todo = @ \ {i}]
       IN  \/ /\ Usable(i) /\ Unique(i, rest.got)
              /\ Continue(s, [rest EXCEPT !.got = [j \in DOMAIN @ \union {i} |->
                                                    IF j = i THEN vault[i] ELSE @[j]]])
           \/ Verdict(i) /\ Continue(s, rest)
           \/ Usable(i) /\ ~Unique(i, rest.got) /\ GiveUp(s)
           \/ ~answering /\ (GiveUp(s) \/ (~Strict(s) /\ Continue(s, rest)))

Answer(s) ==
    /\ List(s) \/ Read(s) \/ \E i \in Items : Probe(s, i)
    /\ UNCHANGED <<desk, config, served, file, due, request, runs, denied, refuted>>

Done(s) == scan[s] # None /\ scan[s].stage = "reading" /\ scan[s].todo = {}

FindNothing(s) ==
    /\ Done(s)
    /\ scan[s].got = Nothing
    /\ GiveUp(s)
    /\ UNCHANGED <<desk, config, served, file, due, request, runs, denied, refuted>>

\* save_best_effort: whole or not at all, and nobody is stopped by a file not written.
Remember(set) == file' \in {set, file}

\* A variant that must fail: what is served is written down, whatever was skipped.
RememberAnyway(s) == Remember(scan[s].got)

\* remember_if_complete: only a set nothing was skipped from.
RememberIfComplete(s) ==
    IF DOMAIN scan[s].got = scan[s].found THEN Remember(scan[s].got) ELSE UNCHANGED file

\* A variant that must fail: the file is rewritten, and the set served is not.
RefreshFileOnly ==
    /\ phase = "up" /\ Done("agent") /\ scan["agent"].got # Nothing
    /\ file' = scan["agent"].got
    /\ scan' = [scan EXCEPT !["agent"] = None]
    /\ UNCHANGED <<desk, agent, due, request, runs, denied, refuted>>

\* A refresh: the verdicts were skipped, everything else is there.
Refresh ==
    /\ phase = "up" /\ Done("agent") /\ scan["agent"].got # Nothing
    /\ served' = scan["agent"].got
    /\ Remember(scan["agent"].got)
    /\ scan' = [scan EXCEPT !["agent"] = None]
    /\ UNCHANGED <<desk, phase, config, due, request, runs, denied, refuted>>

EndList ==
    /\ Done("list") /\ scan["list"].got # Nothing
    /\ RememberIfComplete("list")
    /\ scan' = [scan EXCEPT !["list"] = None]
    /\ UNCHANGED <<desk, agent, due, request, runs, denied, refuted>>

-----------------------------------------------------------------------------
(* Starts and stops.                                                       *)

\* identities::load: a file that will not decode is no file.
Remembered == file # None

\* from_remembered serves only if the file yields every key wanted, each once.
FileServes(pins) ==
    /\ Remembered
    /\ LET wanted == IF pins = {} THEN DOMAIN file ELSE pins
       IN  wanted # {} /\ wanted \subseteq DOMAIN file /\ Distinct(Restrict(file, wanted))

StartFromFile ==
    /\ phase = "down" /\ runs < MaxRuns
    /\ FileServes(pinned)
    /\ phase' = "up"
    /\ config' = pinned
    /\ served' = IF pinned = {} THEN file ELSE Restrict(file, pinned)
    /\ Begin("agent", pinned)       \* at_startup
    /\ due' = TRUE
    /\ runs' = runs + 1
    /\ UNCHANGED <<desk, file, request, refuted>>

StartScanning ==
    /\ phase = "down" /\ runs < MaxRuns
    /\ ~FileServes(pinned)
    /\ phase' = "scanning"
    /\ config' = pinned
    /\ Begin("agent", pinned)
    /\ runs' = runs + 1
    /\ UNCHANGED <<desk, served, file, due, request, refuted>>

\* The scan is served and written down, and the refresh of at_startup begins.
FinishStart ==
    /\ phase = "scanning" /\ Done("agent") /\ scan["agent"].got # Nothing
    /\ phase' = "up"
    /\ served' = scan["agent"].got
    /\ RememberIfComplete("agent")
    /\ Begin("agent", config)
    /\ due' = TRUE
    /\ UNCHANGED <<desk, config, request, runs, refuted>>

\* Stopped or killed, at any point. The file is replaced whole or not at all.
Stop ==
    /\ phase # "down"
    /\ phase' = "down"
    /\ served' = Nothing
    /\ scan' = [scan EXCEPT !["agent"] = None]
    /\ request' = None
    /\ due' = FALSE
    /\ UNCHANGED <<desk, config, file, runs, denied, refuted>>

BeginList ==
    /\ scan["list"] = None /\ runs < MaxRuns
    /\ Begin("list", pinned)
    /\ runs' = runs + 1
    /\ UNCHANGED <<desk, agent, file, due, request, refuted>>

-----------------------------------------------------------------------------
(* Signatures.                                                             *)

\* The request works from the entry it found, whatever is served later.
Ask(i) ==
    /\ phase = "up" /\ request = None
    /\ i \in DOMAIN served
    /\ request' = [item |-> i, key |-> served[i]]
    /\ UNCHANGED <<desk, agent, file, scan, due, runs, denied, refuted>>

\* after_signature: one attempt an hour, and none spent while a scan runs.
AfterSignature ==
    IF scan["agent"] # None \/ ~due
    THEN UNCHANGED <<scan, denied, due>>
    ELSE Begin("agent", config) /\ due' = FALSE

Sign ==
    /\ request # None
    /\ vault[request.item] = request.key
    /\ request' = None
    /\ AfterSignature
    /\ UNCHANGED <<desk, agent, file, runs, refuted>>

\* identities::remove. Left out: a file that cannot be removed, which is only logged.
Discard == file' = None

\* discard_remembered: the item holds another key, or is gone.
Contradict ==
    /\ request # None
    /\ vault[request.item] \notin {request.key, Unusable}
    /\ request' = None
    /\ Discard
    /\ refuted' = refuted \union {<<request.item, request.key>>}
    /\ UNCHANGED <<desk, agent, scan, due, runs, denied>>

\* Refused, or the vault gave no verdict.
Fail ==
    /\ request # None
    /\ request' = None
    /\ UNCHANGED <<desk, agent, file, scan, due, runs, denied, refuted>>

-----------------------------------------------------------------------------
(* The user, and the hour.                                                 *)

Edit(i, what) ==
    /\ edits < MaxEdits /\ vault[i] # what
    /\ vault' = [vault EXCEPT ![i] = what]
    /\ denied' = [s \in Scanners |-> IF what \in Keys THEN denied[s] ELSE denied[s] \union {i}]
    /\ refuted' = refuted \ {<<i, what>>}
    /\ edits' = edits + 1
    /\ UNCHANGED <<answering, pinned, agent, file, scan, due, request, runs>>

EditConfig ==
    /\ edits < MaxEdits
    /\ \E pins \in Pins \ {pinned} : pinned' = pins
    /\ edits' = edits + 1
    /\ UNCHANGED <<vault, answering, agent, file, scan, due, request, runs, denied, refuted>>

TurnVault ==
    /\ answering' = ~answering
    /\ UNCHANGED <<vault, pinned, edits, agent, file, scan, due, request, runs, denied, refuted>>

HourPasses ==
    /\ phase = "up" /\ ~due
    /\ due' = TRUE
    /\ UNCHANGED <<desk, agent, file, scan, request, runs, denied, refuted>>

Init ==
    /\ vault \in [Items -> Keys \union {Absent, Unusable}]
    /\ answering = TRUE
    /\ pinned \in Pins
    /\ phase = "down" /\ config = {} /\ served = Nothing
    /\ file = None
    /\ scan = [s \in Scanners |-> None]
    /\ due = FALSE /\ request = None
    /\ edits = 0 /\ runs = 0
    /\ denied = [s \in Scanners |-> {}] /\ refuted = {}

Next ==
    \/ \E s \in Scanners : Answer(s) \/ FindNothing(s)
    \/ Refresh \/ EndList
    \/ StartFromFile \/ StartScanning \/ FinishStart \/ Stop \/ BeginList
    \/ \E i \in Items : Ask(i)
    \/ Sign \/ Contradict \/ Fail
    \/ \E i \in Items, what \in Keys \union {Absent, Unusable} : Edit(i, what)
    \/ EditConfig \/ TurnVault \/ HourPasses

Spec == Init /\ [][Next]_vars

-----------------------------------------------------------------------------
(* Properties.                                                             *)

(***************************************************************************)
(* Every variable keeps to its type.                                       *)
(***************************************************************************)
TypeOK ==
    /\ vault \in [Items -> Keys \union {Absent, Unusable}]
    /\ answering \in BOOLEAN /\ due \in BOOLEAN
    /\ pinned \in Pins /\ config \in Pins \union {{}}
    /\ phase \in {"down", "scanning", "up"}
    /\ served \in Identity
    /\ file \in Identity \union {None}
    /\ scan \in [Scanners -> Scans \union {None}]
    /\ request \in [item : Items, key : Keys] \union {None}
    /\ edits \in 0..MaxEdits /\ runs \in 0..MaxRuns
    /\ denied \in [Scanners -> SUBSET Items]
    /\ refuted \subseteq Items \X Keys

(***************************************************************************)
(* An agent that is up serves something, and one public key never stands   *)
(* for two items (keystore::unique, load and from_remembered): whichever   *)
(* of scan, refresh and file the set came from.                            *)
(***************************************************************************)
Unambiguous == phase = "up" => served # Nothing /\ Distinct(served)

\* The set holds all that scan s was after, but for what the vault denied meanwhile.
HoldsAll(set, s) == Wanted(scan[s].pins) \ denied[s] \subseteq DOMAIN set

(***************************************************************************)
(* "It is written only from a set the agent is actually serving, never     *)
(* from a scan that failed, so a vault that would not open cannot shrink   *)
(* what the next start offers" (src/src/identities.rs): a scan writes the  *)
(* file only with every key it was after that was usable all along, and a  *)
(* refresh replaces what is served only with such a set.                   *)
(***************************************************************************)
NothingLost ==
    [][/\ file' # file /\ file' # None =>
              \E s \in Scanners : scan[s] # None /\ file' = scan[s].got /\ HoldsAll(file', s)
       /\ phase = "up" /\ phase' = "up" /\ served' # served => HoldsAll(served', "agent")]_vars

(***************************************************************************)
(* Without its stages, a scan is a reading that takes keys from the vault  *)
(* item by item, and the set served and the file are only ever what one    *)
(* such reading got, or what an earlier one left in the file: never put    *)
(* together from two, and replaced by none that is not whole (refresh.rs,  *)
(* keystore.rs, identities.rs; Roster says what that means).               *)
(***************************************************************************)
Reading(s) ==
    IF scan[s] = None THEN None
    ELSE [after |-> Wanted(scan[s].pins), got |-> scan[s].got, denied |-> denied[s]]

Abstract == INSTANCE Roster WITH
    Agent <- "agent",
    held <- [i \in Items |-> IF Usable(i) THEN vault[i] ELSE None],
    offered <- served,
    reading <- [s \in Scanners |-> Reading(s)]

RosterSpec == Abstract!Spec

(***************************************************************************)
(* "A signature that finds the vault contradicting the file - a key        *)
(* rotated inside its item, or the item gone - discards it, and the next   *)
(* start reads the vault again" (README.md, Starting without the vault):   *)
(* no start serves from the file a key a signature found no longer so.     *)
(***************************************************************************)
DiscardHolds ==
    [][phase = "down" /\ phase' = "up" =>
           \A i \in DOMAIN served' : <<i, served'[i]>> \notin refuted]_vars

\* The agent's scans go on, and an hour passes.
FairSpec ==
    /\ Spec
    /\ WF_vars(Answer("agent")) /\ WF_vars(FindNothing("agent")) /\ WF_vars(Refresh)
    /\ WF_vars(HourPasses)

(***************************************************************************)
(* "a key added to the vault appears on the first signature that falls     *)
(* outside that hour, without a restart" (README.md): an agent that stays  *)
(* up, keeps signing and is answered comes to serve what the vault holds,  *)
(* if that can be served.                                                  *)
(***************************************************************************)
Held == [i \in {j \in Wanted(config) : Usable(j)} |-> vault[i]]

Refreshed ==
    /\ <>[](phase = "up" /\ answering /\ Held # Nothing /\ Distinct(Held))
    /\ []<><<Sign>>_vars
    => <>[](served = Held)
=============================================================================
