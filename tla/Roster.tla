------------------------------- MODULE Roster -------------------------------
(***************************************************************************)
(* What a set of identities may come from, without the steps of a scan,    *)
(* configs, requests or the hour: the specification that Identities        *)
(* implements.                                                             *)
(*                                                                         *)
(*   - A reading takes keys from the vault, one item at a time, while the  *)
(*     vault changes, and never one key from two items.                    *)
(*   - An agent that offers nothing yet may offer what a reading got, or   *)
(*     what the file yields.                                               *)
(*   - What is offered is replaced, and the file written, only by a whole  *)
(*     reading: one that has every key it was after that was there all     *)
(*     along.                                                              *)
(*   - A reading that is given up leaves both as they are.                 *)
(***************************************************************************)
EXTENDS Functions

CONSTANTS
    Items, Keys,
    Scanners,       \* who reads: the agent, and whoever only writes the file
    Agent,
    None            \* no key, no file, no reading

VARIABLES
    held,           \* the key each item of the vault holds, or None
    offered,        \* the set the agent offers: a function from items to keys
    file,           \* the set it starts from next time, or None
    reading         \* per scanner, what it is after, has got, and was denied

vars == <<held, offered, file, reading>>

Nothing == [i \in {} |-> None]
Distinct(set) == \A i, j \in DOMAIN set : set[i] = set[j] => i = j

Reading(wanted, set, gone) == [after |-> wanted, got |-> set, denied |-> gone]

NewReading(after) == Reading(after, Nothing, {i \in Items : held[i] = None})

\* All that was there ever since the reading began has been read.
Whole(s) == reading[s].after \ reading[s].denied \subseteq DOMAIN reading[s].got

Init ==
    /\ held \in [Items -> Keys \union {None}]
    /\ offered = Nothing
    /\ file = None
    /\ reading = [s \in Scanners |-> None]

-----------------------------------------------------------------------------
Begin(s) ==
    /\ reading[s] = None
    /\ \E after \in SUBSET Items : reading' = [reading EXCEPT ![s] = NewReading(after)]
    /\ UNCHANGED <<held, offered, file>>

Take(s, i) ==
    /\ reading[s] # None
    /\ LET got == reading[s].got
           more == [j \in DOMAIN got \union {i} |-> IF j = i THEN held[i] ELSE got[j]]
       IN  /\ i \notin DOMAIN got
           /\ held[i] # None /\ held[i] \notin Range(got)
           /\ reading' = [reading EXCEPT ![s] =
                    Reading(reading[s].after, more, reading[s].denied)]
    /\ UNCHANGED <<held, offered, file>>

GiveUp(s) ==
    /\ reading[s] # None
    /\ reading' = [reading EXCEPT ![s] = None]
    /\ UNCHANGED <<held, offered, file>>

\* The file may not be written, and never is from part of a vault.
Keep(s) == file' = file \/ (Whole(s) /\ file' = reading[s].got)

\* A first set, whole or not; another reading begins at once.
Offer ==
    /\ offered = Nothing
    /\ reading[Agent] # None /\ reading[Agent].got # Nothing
    /\ offered' = reading[Agent].got
    /\ Keep(Agent)
    /\ \E after \in SUBSET Items : reading' = [reading EXCEPT ![Agent] = NewReading(after)]
    /\ UNCHANGED held

Replace ==
    /\ offered # Nothing
    /\ reading[Agent] # None /\ reading[Agent].got # Nothing
    /\ Whole(Agent)
    /\ offered' = reading[Agent].got
    /\ Keep(Agent)
    /\ reading' = [reading EXCEPT ![Agent] = None]
    /\ UNCHANGED held

\* The others only write the file.
Write(s) ==
    /\ s # Agent
    /\ reading[s] # None /\ reading[s].got # Nothing
    /\ Keep(s)
    /\ reading' = [reading EXCEPT ![s] = None]
    /\ UNCHANGED <<held, offered>>

\* All that is wanted of the file, without a look at the vault; a reading begins beside it.
OfferFile ==
    /\ offered = Nothing /\ reading[Agent] = None
    /\ file # None
    /\ \E wanted \in (SUBSET (DOMAIN file)) \ {{}} :
          /\ Distinct(Restrict(file, wanted))
          /\ offered' = Restrict(file, wanted)
    /\ \E after \in SUBSET Items : reading' = [reading EXCEPT ![Agent] = NewReading(after)]
    /\ UNCHANGED <<held, file>>

Discard == file' = None /\ UNCHANGED <<held, offered, reading>>

Stop ==
    /\ offered' = Nothing
    /\ reading' = [reading EXCEPT ![Agent] = None]
    /\ UNCHANGED <<held, file>>

Edit(i, what) ==
    /\ held' = [held EXCEPT ![i] = what]
    /\ reading' = [s \in Scanners |->
            IF reading[s] = None \/ what # None THEN reading[s]
            ELSE Reading(reading[s].after, reading[s].got, reading[s].denied \union {i})]
    /\ UNCHANGED <<offered, file>>

\* What a scan lists and probes, who asks and what is configured is none of this.
Rest == UNCHANGED vars

Next ==
    \/ Rest
    \/ \E s \in Scanners : Begin(s) \/ GiveUp(s) \/ Write(s) \/ \E i \in Items : Take(s, i)
    \/ Offer \/ Replace \/ OfferFile \/ Discard \/ Stop
    \/ \E i \in Items, what \in Keys \union {None} : Edit(i, what)

Spec == Init /\ [][Next]_vars
=============================================================================
