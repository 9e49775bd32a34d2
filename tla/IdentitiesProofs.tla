-------------------------- MODULE IdentitiesProofs ---------------------------
(***************************************************************************)
(* Proofs about Identities, for any vault, config, number of edits and of  *)
(* starts. What a scan has left out by now is what the vault denied, or    *)
(* what it still has to look at: that is the invariant, stage by stage.    *)
(* Then types, and that a scan, whatever its stage, is a reading of Roster *)
(* that has got what the scan has.                                         *)
(***************************************************************************)
EXTENDS Identities, FiniteSetTheorems, TLAPS

ScanFields == {"pins", "stage", "todo", "found", "got"}

\* Nothing a strict scan was after is lost but by the vault's verdict.
ScanInv(s) ==
    scan[s] # None =>
        /\ DOMAIN scan[s] = ScanFields
        /\ scan[s].pins \subseteq Items /\ scan[s].todo \subseteq Items
        /\ Distinct(scan[s].got)
        /\ \A i \in Items : ~Usable(i) => i \in denied[s]
        /\ scan[s].stage \in {"listing", "probing"} => scan[s].pins = {}
        /\ scan[s].stage = "probing" =>
              Items \ denied[s] \subseteq scan[s].todo \union scan[s].found
        /\ scan[s].stage = "reading" =>
              /\ Wanted(scan[s].pins) \ denied[s] \subseteq scan[s].found
              /\ Strict(s) =>
                    scan[s].found \ denied[s] \subseteq scan[s].todo \union DOMAIN scan[s].got
        /\ scan[s].found \subseteq Items

IdentitiesInv ==
    /\ DOMAIN vault = Items /\ DOMAIN scan = Scanners /\ DOMAIN denied = Scanners
    /\ pinned \subseteq Items /\ config \subseteq Items
    /\ \A s \in Scanners : ScanInv(s)
    /\ Unambiguous

LEMMA IdentitiesInit == Init => IdentitiesInv
BY IdentitiesAssumption DEF Init, IdentitiesInv, ScanInv, Unambiguous

-----------------------------------------------------------------------------
(* A scan begins, goes on, and ends.                                       *)

LEMMA BeginKeeps ==
    ASSUME IdentitiesInv, NEW s \in Scanners, NEW pins \in SUBSET Items, Begin(s, pins),
           UNCHANGED vault, s = "agent" \/ UNCHANGED phase
    PROVE  \A t \in Scanners : ScanInv(t)'
<1> USE DEF IdentitiesInv, Begin
<1>1. scan'[s] = NewScan(pins) /\ denied'[s] = {i \in Items : ~Usable(i)}
  OBVIOUS
<1>2. \A t \in Scanners \ {s} : scan'[t] = scan[t] /\ denied'[t] = denied[t]
  OBVIOUS
<1>3. ScanInv(s)'
  BY <1>1 DEF ScanInv, NewScan, ScanFields, Distinct, Nothing, Wanted, Usable, Strict
<1>4. ASSUME NEW t \in Scanners \ {s} PROVE ScanInv(t)'
  BY <1>2, <1>4 DEF ScanInv, Usable, Wanted, Strict, Scanners
<1> QED
  BY <1>3, <1>4

\* One scan goes on, as long as what it becomes is sound.
LEMMA ContinueKeeps ==
    ASSUME IdentitiesInv, NEW s \in Scanners, NEW step, Continue(s, step),
           UNCHANGED <<vault, denied>>, step # None => ScanInv(s)'
    PROVE  \A t \in Scanners : ScanInv(t)'
<1>1. \A t \in Scanners \ {s} : scan'[t] = scan[t]
  BY DEF IdentitiesInv, Continue
<1>2. scan'[s] = step
  BY DEF IdentitiesInv, Continue
<1> QED
  BY <1>1, <1>2 DEF IdentitiesInv, Continue, ScanInv, Usable, Wanted, Strict

LEMMA GiveUpKeeps ==
    ASSUME IdentitiesInv, NEW s \in Scanners, GiveUp(s), UNCHANGED <<vault, denied>>
    PROVE  \A t \in Scanners : ScanInv(t)'
<1>1. scan'[s] = None /\ \A t \in Scanners \ {s} : scan'[t] = scan[t]
  BY DEF IdentitiesInv, GiveUp
<1>2. phase' = phase \/ (s = "agent" /\ phase' = "down")
  BY DEF GiveUp
<1> QED
  BY <1>1, <1>2 DEF IdentitiesInv, ScanInv, Usable, Wanted, Strict

\* The vault is listed: what is not there is denied.
LEMMA ListKeeps ==
    ASSUME IdentitiesInv, NEW s \in Scanners, List(s), UNCHANGED <<vault, denied>>
    PROVE  \A t \in Scanners : ScanInv(t)'
<1> DEFINE present == {i \in Items : vault[i] # Absent}
           step == [scan[s] EXCEPT !.stage = "probing", !.todo = present]
<1>1. CASE GiveUp(s)
  BY <1>1, GiveUpKeeps
<1>2. CASE Continue(s, step)
  <2>1. DOMAIN scan[s] = ScanFields /\ scan[s].pins = {}
    BY DEF List, IdentitiesInv, ScanInv
  <2>2. \A i \in Items : i \notin present => i \in denied[s]
    BY IdentitiesAssumption DEF List, IdentitiesInv, ScanInv, Usable
  <2>3. scan'[s] = step /\ denied'[s] = denied[s] /\ UNCHANGED <<vault, phase>>
    BY <1>2 DEF Continue, IdentitiesInv
  <2>4. /\ DOMAIN step = ScanFields /\ step.stage = "probing" /\ step.todo = present
        /\ step.pins = {} /\ step.found = scan[s].found /\ step.got = scan[s].got
    BY <2>1 DEF ScanFields
  <2> HIDE DEF step
  <2>5. ScanInv(s)'
    BY <2>2, <2>3, <2>4 DEF List, IdentitiesInv, ScanInv, Usable
  <2> QED
    BY <1>2, <2>5, ContinueKeeps
<1> QED
  BY <1>1, <1>2 DEF List

\* An item is probed: one that is gone is denied.
LEMMA ProbeKeeps ==
    ASSUME IdentitiesInv, NEW s \in Scanners, NEW i \in Items, Probe(s, i),
           UNCHANGED <<vault, denied>>
    PROVE  \A t \in Scanners : ScanInv(t)'
<1> DEFINE todo == scan[s].todo \ {i}
           found == IF vault[i] = Absent THEN scan[s].found ELSE scan[s].found \union {i}
           on == [scan[s] EXCEPT !.todo = todo, !.found = found]
           end == [scan[s] EXCEPT !.stage = "reading", !.todo = found, !.found = found]
<1>1. /\ DOMAIN scan[s] = ScanFields /\ scan[s].pins = {} /\ scan[s].stage = "probing"
      /\ scan[s] # None
    BY DEF Probe, IdentitiesInv, ScanInv
<1>2. Items \ denied[s] \subseteq todo \union found /\ found \subseteq Items /\ todo \subseteq Items
  <2>1. vault[i] = Absent => i \in denied[s]
    BY <1>1, IdentitiesAssumption DEF IdentitiesInv, ScanInv, Usable
  <2> QED
    BY <1>1, <2>1 DEF IdentitiesInv, ScanInv
<1>3. CASE GiveUp(s)
  BY <1>3, GiveUpKeeps
<1>4. CASE Continue(s, on)
  <2>1. scan'[s] = on /\ denied'[s] = denied[s] /\ UNCHANGED <<vault, phase>>
    BY <1>4 DEF Continue, IdentitiesInv
  <2>2. /\ DOMAIN on = ScanFields /\ on.stage = "probing" /\ on.todo = todo
        /\ on.pins = {} /\ on.found = found /\ on.got = scan[s].got
    BY <1>1 DEF ScanFields
  <2> HIDE DEF on, todo, found
  <2>3. ScanInv(s)'
    BY <1>1, <1>2, <2>1, <2>2 DEF IdentitiesInv, ScanInv, Usable
  <2> QED
    BY <1>4, <2>3, ContinueKeeps
<1>5. CASE todo = {} /\ Continue(s, end)
  <2>1. scan'[s] = end /\ denied'[s] = denied[s] /\ UNCHANGED <<vault, phase>>
    BY <1>5 DEF Continue, IdentitiesInv
  <2>2. /\ DOMAIN end = ScanFields /\ end.stage = "reading" /\ end.todo = found
        /\ end.pins = {} /\ end.found = found /\ end.got = scan[s].got
    BY <1>1 DEF ScanFields
  <2> HIDE DEF end, todo, found
  <2>3. ScanInv(s)'
    BY <1>1, <1>2, <1>5, <2>1, <2>2 DEF IdentitiesInv, ScanInv, Usable, Wanted
  <2> QED
    BY <1>5, <2>3, ContinueKeeps
<1> QED
  BY <1>3, <1>4, <1>5 DEF Probe

\* An item is read: one that is skipped by a strict scan is denied.
LEMMA ReadKeeps ==
    ASSUME IdentitiesInv, NEW s \in Scanners, Read(s), UNCHANGED <<vault, denied>>
    PROVE  \A t \in Scanners : ScanInv(t)'
<1> DEFINE i == First(scan[s].todo)
           rest == [scan[s] EXCEPT !.todo = @ \ {i}]
           got == [j \in DOMAIN rest.got \union {i} |-> IF j = i THEN vault[i] ELSE rest.got[j]]
           more == [rest EXCEPT !.got = got]
<1>1. /\ DOMAIN scan[s] = ScanFields /\ scan[s].stage = "reading" /\ scan[s] # None
    BY DEF Read, IdentitiesInv, ScanInv
<1>2. /\ DOMAIN rest = ScanFields /\ rest.stage = "reading" /\ rest.todo = scan[s].todo \ {i}
      /\ rest.pins = scan[s].pins /\ rest.found = scan[s].found /\ rest.got = scan[s].got
  BY <1>1 DEF ScanFields
<1>3. CASE GiveUp(s)
  BY <1>3, GiveUpKeeps
<1>4. CASE Unique(i, rest.got) /\ Continue(s, more)
  <2>1. scan'[s] = more /\ denied'[s] = denied[s] /\ UNCHANGED <<vault, phase>>
    BY <1>4 DEF Continue, IdentitiesInv
  <2>2. /\ DOMAIN more = ScanFields /\ more.stage = "reading" /\ more.todo = scan[s].todo \ {i}
        /\ more.pins = scan[s].pins /\ more.found = scan[s].found /\ more.got = got
    BY <1>2 DEF ScanFields
  <2>3. DOMAIN got = DOMAIN scan[s].got \union {i}
    BY <1>2
  <2>4. Distinct(scan[s].got)
    BY <1>1 DEF IdentitiesInv, ScanInv
  <2>5. Distinct(got)
    BY <1>2, <1>4, <2>4 DEF Distinct, Unique, Range
  <2> HIDE DEF more, got, i, rest
  <2>6. ScanInv(s)'
    BY <1>1, <2>1, <2>2, <2>3, <2>5 DEF IdentitiesInv, ScanInv, Usable, Wanted, Strict
  <2> QED
    BY <1>4, <2>6, ContinueKeeps
<1>5. CASE ~(Usable(i) /\ Strict(s)) /\ Continue(s, rest)
  <2>1. scan'[s] = rest /\ denied'[s] = denied[s] /\ UNCHANGED <<vault, phase>>
    BY <1>5 DEF Continue, IdentitiesInv
  <2>2. Strict(s) /\ i \in scan[s].todo => i \in denied[s]
    BY <1>1, <1>5 DEF IdentitiesInv, ScanInv
  <2> HIDE DEF rest, i
  <2>3. ScanInv(s)'
    BY <1>1, <1>2, <2>1, <2>2 DEF IdentitiesInv, ScanInv, Usable, Wanted, Strict
  <2> QED
    BY <1>5, <2>3, ContinueKeeps
<1> QED
  BY <1>3, <1>4, <1>5 DEF Read, Verdict

-----------------------------------------------------------------------------
(* The invariant.                                                          *)

LEMMA AnswerKeeps ==
    ASSUME IdentitiesInv, NEW s \in Scanners, Answer(s) \/ FindNothing(s)
    PROVE  IdentitiesInv'
<1> USE DEF Answer, FindNothing, desk
<1>1. UNCHANGED <<vault, pinned, config, served, denied>>
  OBVIOUS
<1>2. DOMAIN scan' = Scanners /\ phase' \in {phase, "down"}
  BY DEF IdentitiesInv, List, Read, Probe, Continue, GiveUp
<1>3. \A t \in Scanners : ScanInv(t)'
  BY <1>1, ListKeeps, ProbeKeeps, ReadKeeps, GiveUpKeeps
<1> QED
  BY <1>1, <1>2, <1>3 DEF IdentitiesInv, Unambiguous

\* What a set found by a scan becomes when it is served or written down.
LEMMA EndKeeps ==
    ASSUME IdentitiesInv, NEW s \in Scanners, scan' = [scan EXCEPT ![s] = None],
           UNCHANGED <<vault, pinned, config, denied>>, phase' \in {phase, "down"},
           Unambiguous', s = "agent" \/ UNCHANGED phase
    PROVE  IdentitiesInv'
<1>1. scan'[s] = None /\ \A t \in Scanners \ {s} : scan'[t] = scan[t]
  BY DEF IdentitiesInv
<1> QED
  BY <1>1 DEF IdentitiesInv, ScanInv, Usable, Wanted, Strict

LEMMA StartKeeps ==
    ASSUME IdentitiesInv, StartFromFile \/ StartScanning \/ FinishStart \/ BeginList
    PROVE  IdentitiesInv'
<1>1. CASE StartFromFile
  <2>1. DOMAIN scan' = Scanners /\ DOMAIN denied' = Scanners
    BY <1>1 DEF StartFromFile, Begin, IdentitiesInv
  <2>2. \A t \in Scanners : ScanInv(t)'
    BY <1>1, BeginKeeps DEF StartFromFile, IdentitiesInv, desk, Scanners
  <2>3. Unambiguous'
    <3>1. CASE pinned = {}
      <4>1. served' = file /\ DOMAIN file # {} /\ Distinct(Restrict(file, DOMAIN file))
        BY <1>1, <3>1 DEF StartFromFile, FileServes
      <4>2. Distinct(file)
        BY <4>1 DEF Distinct, Restrict
      <4> QED
        BY <4>1, <4>2 DEF Unambiguous, Nothing
    <3>2. CASE pinned # {}
      <4>1. served' = Restrict(file, pinned) /\ Distinct(Restrict(file, pinned))
        BY <1>1, <3>2 DEF StartFromFile, FileServes
      <4>2. DOMAIN Restrict(file, pinned) # {}
        BY <3>2 DEF Restrict
      <4> QED
        BY <4>1, <4>2 DEF Unambiguous, Nothing
    <3> QED
      BY <3>1, <3>2
  <2> QED
    BY <1>1, <2>1, <2>2, <2>3 DEF StartFromFile, IdentitiesInv, desk
<1>2. CASE StartScanning
  <2>1. DOMAIN scan' = Scanners /\ DOMAIN denied' = Scanners
    BY <1>2 DEF StartScanning, Begin, IdentitiesInv
  <2>2. \A t \in Scanners : ScanInv(t)'
    BY <1>2, BeginKeeps DEF StartScanning, IdentitiesInv, desk, Scanners
  <2> QED
    BY <1>2, <2>1, <2>2 DEF StartScanning, IdentitiesInv, Unambiguous, desk
<1>3. CASE FinishStart
  <2>1. DOMAIN scan' = Scanners /\ DOMAIN denied' = Scanners
    BY <1>3 DEF FinishStart, Begin, IdentitiesInv
  <2>2. \A t \in Scanners : ScanInv(t)'
    BY <1>3, BeginKeeps DEF FinishStart, IdentitiesInv, desk, Scanners
  <2>3. Unambiguous'
    BY <1>3 DEF FinishStart, Done, Unambiguous, IdentitiesInv, ScanInv, Scanners
  <2> QED
    BY <1>3, <2>1, <2>2, <2>3 DEF FinishStart, IdentitiesInv, desk
<1>4. CASE BeginList
  <2>1. DOMAIN scan' = Scanners /\ DOMAIN denied' = Scanners
    BY <1>4 DEF BeginList, Begin, IdentitiesInv
  <2>2. \A t \in Scanners : ScanInv(t)'
    BY <1>4, BeginKeeps DEF BeginList, IdentitiesInv, desk, agent, Scanners
  <2> QED
    BY <1>4, <2>1, <2>2 DEF BeginList, IdentitiesInv, Unambiguous, desk, agent
<1> QED
  BY <1>1, <1>2, <1>3, <1>4

LEMMA SignKeeps == ASSUME IdentitiesInv, Sign PROVE IdentitiesInv'
<1> USE DEF Sign, AfterSignature, desk, agent
<1>1. CASE UNCHANGED <<scan, denied>>
  BY <1>1 DEF IdentitiesInv, ScanInv, Usable, Wanted, Strict, Unambiguous
<1>2. CASE Begin("agent", config)
  <2>1. DOMAIN scan' = Scanners /\ DOMAIN denied' = Scanners
    BY <1>2 DEF Begin, IdentitiesInv
  <2>2. \A t \in Scanners : ScanInv(t)'
    BY <1>2, BeginKeeps DEF IdentitiesInv, Scanners
  <2> QED
    BY <2>1, <2>2 DEF IdentitiesInv, Unambiguous
<1> QED
  BY <1>1, <1>2

\* An item that is not usable any more is one the vault denies to every scan under way.
LEMMA EditKeeps ==
    ASSUME IdentitiesInv, NEW i \in Items, NEW what \in Keys \union {Absent, Unusable},
           Edit(i, what)
    PROVE  IdentitiesInv'
<1> USE DEF Edit, IdentitiesInv, agent
<1>1. vault' = [vault EXCEPT ![i] = what] /\ DOMAIN vault' = Items
  OBVIOUS
<1>2. DOMAIN denied' = Scanners
      /\ \A s \in Scanners : denied'[s] = IF what \in Keys THEN denied[s] ELSE denied[s] \union {i}
  OBVIOUS
<1>3. ASSUME NEW s \in Scanners, scan[s] # None, NEW j \in Items, ~Usable(j)'
      PROVE  j \in denied'[s]
  <2>1. CASE j = i
    BY <1>1, <1>2, <1>3, <2>1 DEF Usable
  <2>2. CASE j # i
    <3>1. ~Usable(j)
      BY <1>1, <1>3, <2>2 DEF Usable
    <3> QED
      BY <1>2, <1>3, <3>1 DEF ScanInv
  <2> QED
    BY <2>1, <2>2
<1>4. ASSUME NEW s \in Scanners PROVE ScanInv(s)'
  BY <1>2, <1>3, <1>4 DEF ScanInv, Wanted, Strict
<1> QED
  BY <1>1, <1>2, <1>4 DEF Unambiguous

LEMMA IdentitiesStep == IdentitiesInv /\ [Next]_vars => IdentitiesInv'
<1> SUFFICES ASSUME IdentitiesInv, [Next]_vars PROVE IdentitiesInv'
  OBVIOUS
<1>1. ASSUME NEW s \in Scanners, Answer(s) \/ FindNothing(s) PROVE IdentitiesInv'
  BY <1>1, AnswerKeeps
<1>2. CASE Refresh
  <2>1. Unambiguous'
    BY <1>2 DEF Refresh, Done, Unambiguous, IdentitiesInv, ScanInv, Scanners
  <2> QED
    BY <1>2, <2>1, EndKeeps DEF Refresh, desk, Scanners
<1>3. CASE EndList
  <2>1. Unambiguous'
    BY <1>3 DEF EndList, Unambiguous, IdentitiesInv, agent
  <2> QED
    BY <1>3, <2>1, EndKeeps DEF EndList, desk, agent, Scanners
<1>4. CASE StartFromFile \/ StartScanning \/ FinishStart \/ BeginList
  BY <1>4, StartKeeps
<1>5. CASE Stop
  <2>1. Unambiguous'
    BY <1>5 DEF Stop, Unambiguous
  <2> QED
    BY <1>5, <2>1, EndKeeps DEF Stop, desk, Scanners
<1>6. CASE Sign
  BY <1>6, SignKeeps
<1>7. CASE Contradict \/ Fail \/ TurnVault \/ HourPasses \/ \E i \in Items : Ask(i)
  BY <1>7
     DEF Contradict, Fail, TurnVault, HourPasses, Ask, desk, agent,
         IdentitiesInv, ScanInv, Usable, Wanted, Strict, Unambiguous
<1>8. ASSUME NEW i \in Items, NEW what \in Keys \union {Absent, Unusable}, Edit(i, what)
      PROVE  IdentitiesInv'
  BY <1>8, EditKeeps
<1>9. CASE EditConfig
  BY <1>9, IdentitiesAssumption
     DEF EditConfig, agent, IdentitiesInv, ScanInv, Usable, Wanted, Strict, Unambiguous
<1>10. CASE UNCHANGED vars
  BY <1>10
     DEF vars, desk, agent, IdentitiesInv, ScanInv, Usable, Wanted, Strict, Unambiguous
<1> QED
  BY <1>1, <1>2, <1>3, <1>4, <1>5, <1>6, <1>7, <1>8, <1>9, <1>10 DEF Next

LEMMA IdentitiesKeepInv == Spec => []IdentitiesInv
BY IdentitiesInit, IdentitiesStep, PTL DEF Spec

(***************************************************************************)
(* Whichever of scan, refresh and file the set served came from, it is not *)
(* empty and no public key stands for two items (keystore.rs, unique,      *)
(* load_complete and from_remembered).                                     *)
(***************************************************************************)
THEOREM ServesUnambiguously == Spec => []Unambiguous
<1>1. IdentitiesInv => Unambiguous
  BY DEF IdentitiesInv
<1> QED
  BY IdentitiesKeepInv, <1>1, PTL

\* A set that nothing was skipped from holds all that its scan was after.
LEMMA CompleteHoldsAll ==
    ASSUME IdentitiesInv, NEW s \in Scanners, Done(s),
           DOMAIN scan[s].got = scan[s].found \/ Strict(s)
    PROVE  HoldsAll(scan[s].got, s)
BY DEF IdentitiesInv, ScanInv, Done, HoldsAll

(***************************************************************************)
(* However often the vault shuts, is edited or times out in the middle of  *)
(* a scan, neither the file nor the set served loses a key that was usable *)
(* all along (refresh.rs, refresh_now; commands/mod.rs,                    *)
(* remember_if_complete).                                                  *)
(***************************************************************************)
THEOREM NothingIsLost == Spec => NothingLost
<1> DEFINE Safe ==
        /\ file' # file /\ file' # None =>
               \E s \in Scanners : scan[s] # None /\ file' = scan[s].got /\ HoldsAll(file', s)
        /\ phase = "up" /\ phase' = "up" /\ served' # served => HoldsAll(served', "agent")
<1>1. ASSUME IdentitiesInv, Next PROVE Safe
  <2>1. CASE Refresh
    <3>1. HoldsAll(scan["agent"].got, "agent")
      BY <1>1, <2>1, CompleteHoldsAll DEF Refresh, Strict, Scanners
    <3> QED
      BY <2>1, <3>1 DEF Refresh, Done, Remember, Scanners
  <2>2. CASE EndList
    <3>1. file' # file => HoldsAll(scan["list"].got, "list") /\ file' = scan["list"].got
      BY <1>1, <2>2, CompleteHoldsAll DEF EndList, RememberIfComplete, Remember, Scanners
    <3> QED
      BY <2>2, <3>1 DEF EndList, Done, Scanners, agent
  <2>3. CASE FinishStart
    <3>1. file' # file => HoldsAll(scan["agent"].got, "agent") /\ file' = scan["agent"].got
      BY <1>1, <2>3, CompleteHoldsAll DEF FinishStart, RememberIfComplete, Remember, Scanners
    <3> QED
      BY <2>3, <3>1 DEF FinishStart, Done, Scanners
  <2>4. ASSUME UNCHANGED <<file, served>> PROVE Safe
    BY <2>4
  <2>5. CASE StartFromFile \/ Stop \/ Contradict
    <3>1. file' \in {file, None} /\ (phase = "up" /\ phase' = "up" => served' = served)
      BY <2>5 DEF StartFromFile, Stop, Contradict, Discard, agent
    <3> QED
      BY <3>1
  <2>6. CASE StartScanning \/ BeginList \/ Fail \/ EditConfig \/ TurnVault \/ HourPasses
             \/ Sign
    <3>1. UNCHANGED <<file, served>>
      BY <2>6
         DEF StartScanning, BeginList, Fail, EditConfig, TurnVault, HourPasses, Sign, agent
    <3> QED
      BY <2>4, <3>1
  <2>7. ASSUME NEW s \in Scanners, Answer(s) \/ FindNothing(s) PROVE Safe
    BY <2>4, <2>7 DEF Answer, FindNothing
  <2>8. ASSUME NEW i \in Items, Ask(i) PROVE Safe
    BY <2>4, <2>8 DEF Ask, agent
  <2>9. ASSUME NEW i \in Items, NEW what \in Keys \union {Absent, Unusable}, Edit(i, what)
        PROVE Safe
    BY <2>4, <2>9 DEF Edit, agent
  <2> QED
    BY <1>1, <2>1, <2>2, <2>3, <2>5, <2>6, <2>7, <2>8, <2>9 DEF Next
<1>2. IdentitiesInv /\ [Next]_vars => [Safe]_vars
  BY <1>1
<1> QED
  BY <1>2, IdentitiesKeepInv, PTL DEF Spec, NothingLost

-----------------------------------------------------------------------------
(* The types, and what an agent offers that is not up.                     *)

\* A scan that has not begun, or has its type and has got none of what it is still to read.
Sound(step) ==
    \/ step = None
    \/ /\ step \in Scans
       /\ IF step.stage = "reading" THEN step.todo \intersect DOMAIN step.got = {}
          ELSE step.got = Nothing

ScansSound ==
    /\ scan \in [Scanners -> Scans \union {None}]
    /\ \A s \in Scanners : Sound(scan[s])
    /\ phase = "down" => scan["agent"] = None

OfferInv == TypeOK /\ ScansSound /\ (phase # "up" => served = Nothing /\ request = None)

LEMMA NothingIsIdentity == Nothing \in Identity /\ DOMAIN Nothing = {}
<1>1. Nothing \in [{} -> Keys]
  BY DEF Nothing
<1> QED
  BY <1>1 DEF Identity

LEMMA IdentityIsFunction ==
    ASSUME NEW set \in Identity
    PROVE  /\ DOMAIN set \subseteq Items
           /\ set = [i \in DOMAIN set |-> set[i]]
           /\ \A i \in DOMAIN set : set[i] \in Keys
           /\ \A some \in SUBSET DOMAIN set : Restrict(set, some) \in Identity
<1>1. PICK S \in SUBSET Items : set \in [S -> Keys]
  BY DEF Identity
<1>2. \A some \in SUBSET DOMAIN set : Restrict(set, some) \in [some -> Keys]
  BY <1>1 DEF Restrict
<1> QED
  BY <1>1, <1>2 DEF Identity

LEMMA OfferInit == Init => OfferInv
<1> SUFFICES ASSUME Init PROVE OfferInv
  OBVIOUS
<1>1. /\ scan \in [Scanners -> Scans \union {None}] /\ denied \in [Scanners -> SUBSET Items]
      /\ \A s \in Scanners : scan[s] = None
  BY DEF Init
<1>2. /\ vault \in [Items -> Keys \union {Absent, Unusable}]
      /\ answering \in BOOLEAN /\ due \in BOOLEAN /\ pinned \in Pins
      /\ config = {} /\ phase = "down" /\ request = None /\ refuted = {}
      /\ served = Nothing /\ file = None /\ edits = 0 /\ runs = 0
  BY DEF Init
<1>3. edits \in 0..MaxEdits /\ runs \in 0..MaxRuns
  BY <1>2, IdentitiesAssumption
<1>4. TypeOK
  BY <1>1, <1>2, <1>3, NothingIsIdentity DEF TypeOK
<1> QED
  BY <1>1, <1>2, <1>4 DEF OfferInv, ScansSound, Sound, Scanners

LEMMA NewScanSound ==
    ASSUME NEW pins \in SUBSET Items
    PROVE  NewScan(pins) \in Scans /\ NewScan(pins) # None /\ Sound(NewScan(pins))
<1>1. NewScan(pins) \in Scans
  BY NothingIsIdentity DEF NewScan, Scans
<1> QED
  BY <1>1, NothingIsIdentity, NoneAssumption DEF Sound, NewScan

\* One scan changes, to one that is sound.
LEMMA SoundKept ==
    ASSUME OfferInv, NEW s \in Scanners, NEW step, Sound(step),
           scan' = [scan EXCEPT ![s] = step], s = "agent" \/ UNCHANGED phase,
           s = "agent" /\ phase' = "down" => step = None
    PROVE  ScansSound'
BY DEF OfferInv, ScansSound, TypeOK, Sound, Scanners

\* What an answer of lpass makes of a scan: one that has ended, got as much, or one key more.
MoreOf(got, i) == [j \in DOMAIN got \union {i} |-> IF j = i THEN vault[i] ELSE got[j]]

Advances(s, step) ==
    /\ step # None
    /\ Sound(step)
    /\ step.pins = scan[s].pins
    /\ \/ step.got = scan[s].got
       \/ \E i \in Items :
             /\ Usable(i) /\ i \notin DOMAIN scan[s].got /\ vault[i] \notin Range(scan[s].got)
             /\ step.got = MoreOf(scan[s].got, i)

LEMMA ListAdvances ==
    ASSUME OfferInv, NEW s \in Scanners, List(s)
    PROVE  GiveUp(s) \/ \E step : Continue(s, step) /\ Advances(s, step)
<1> DEFINE present == {i \in Items : vault[i] # Absent}
           step == [scan[s] EXCEPT !.stage = "probing", !.todo = present]
<1>1. scan[s] # None /\ scan[s] \in Scans /\ scan[s].got = Nothing
  BY DEF List, OfferInv, ScansSound, Sound
<1>2. /\ step \in Scans /\ step.stage = "probing"
      /\ step.pins = scan[s].pins /\ step.got = scan[s].got
  BY <1>1 DEF Scans
<1>3. Advances(s, step)
  <2> HIDE DEF step
  <2> QED
    BY <1>1, <1>2, NoneAssumption DEF Advances, Sound
<1> QED
  BY <1>3 DEF List

LEMMA ProbeAdvances ==
    ASSUME OfferInv, NEW s \in Scanners, NEW i \in Items, Probe(s, i)
    PROVE  GiveUp(s) \/ \E step : Continue(s, step) /\ Advances(s, step)
<1> DEFINE todo == scan[s].todo \ {i}
           found == IF vault[i] = Absent THEN scan[s].found ELSE scan[s].found \union {i}
           on == [scan[s] EXCEPT !.todo = todo, !.found = found]
           end == [scan[s] EXCEPT !.stage = "reading", !.todo = found, !.found = found]
<1>1. /\ scan[s] # None /\ scan[s] \in Scans /\ scan[s].stage = "probing"
      /\ scan[s].got = Nothing
  BY DEF Probe, OfferInv, ScansSound, Sound
<1>2. todo \in SUBSET Items /\ found \in SUBSET Items
  BY <1>1 DEF Scans
<1>3. Advances(s, on)
  <2>1. /\ on \in Scans /\ on.stage = "probing"
        /\ on.pins = scan[s].pins /\ on.got = scan[s].got
    <3> HIDE DEF todo, found
    <3> QED
      BY <1>1, <1>2 DEF Scans
  <2> HIDE DEF on
  <2> QED
    BY <1>1, <2>1, NoneAssumption DEF Advances, Sound
<1>4. Advances(s, end)
  <2>1. /\ end \in Scans /\ end.stage = "reading"
        /\ end.pins = scan[s].pins /\ end.got = scan[s].got
    <3> HIDE DEF todo, found
    <3> QED
      BY <1>1, <1>2 DEF Scans
  <2> HIDE DEF end
  <2> QED
    BY <1>1, <2>1, NoneAssumption, NothingIsIdentity DEF Advances, Sound
<1> QED
  BY <1>3, <1>4 DEF Probe

\* A set of numbers has a least one: otherwise, to move those down by one that have a number
\* of the set below or at them would be one-to-one, from 0 .. n to 0 .. n - 1.
LEMMA LeastExists ==
    ASSUME NEW S \in SUBSET Nat, NEW n \in S
    PROVE  \E i \in S : \A j \in S : i <= j
<1>1. SUFFICES ASSUME \A i \in S : \E j \in S : j < i PROVE FALSE
  OBVIOUS
<1> DEFINE Reached(x) == \E i \in S : i <= x
           f == [x \in 0 .. n |-> IF Reached(x) THEN x - 1 ELSE x]
<1>2. ~Reached(0) /\ n > 0 /\ Reached(n) /\ n \in Nat
  BY <1>1
<1>3. f \in [0 .. n -> 0 .. n - 1]
  <2>1. ASSUME NEW x \in 0 .. n PROVE (IF Reached(x) THEN x - 1 ELSE x) \in 0 .. n - 1
    <3> HIDE DEF Reached
    <3> QED
      BY <1>2, x = 0 \/ x = n \/ x \in 1 .. n - 1
  <2> QED
    BY <2>1
<1>4. \A x, y \in 0 .. n : x # y => f[x] # f[y]
  <2>1. ASSUME NEW x \in 0 .. n, NEW y \in 0 .. n, ~Reached(x), Reached(y), x = y - 1
        PROVE  FALSE
    <3>1. PICK i \in S : i <= y
      BY <2>1
    <3>2. PICK j \in S : j < i
      BY <1>1
    <3> QED
      BY <2>1, <3>1, <3>2
  <2> HIDE DEF Reached
  <2> QED
    BY <1>2, <2>1
<1>5. /\ IsFiniteSet(0 .. n) /\ IsFiniteSet(0 .. n - 1)
      /\ Cardinality(0 .. n) = n + 1 /\ Cardinality(0 .. n - 1) = n
  BY <1>2, FS_Interval
<1> HIDE DEF f
<1>6. Cardinality(0 .. n - 1) < Cardinality(0 .. n)
  BY <1>2, <1>5
<1> QED
  BY <1>2, <1>3, <1>4, <1>5, <1>6, FS_PigeonHole

LEMMA ReadAdvances ==
    ASSUME OfferInv, NEW s \in Scanners, Read(s)
    PROVE  GiveUp(s) \/ \E step : Continue(s, step) /\ Advances(s, step)
<1> DEFINE i == First(scan[s].todo)
           rest == [scan[s] EXCEPT !.todo = @ \ {i}]
           more == [rest EXCEPT !.got = MoreOf(rest.got, i)]
<1>1. /\ scan[s] # None /\ scan[s] \in Scans /\ scan[s].stage = "reading"
      /\ scan[s].todo # {} /\ scan[s].todo \subseteq Items
      /\ scan[s].todo \intersect DOMAIN scan[s].got = {}
      /\ scan[s].got \in Identity
  BY DEF Read, OfferInv, ScansSound, Sound, Scans
<1>2. /\ rest \in Scans /\ rest.stage = "reading" /\ rest.todo = scan[s].todo \ {i}
      /\ rest.pins = scan[s].pins /\ rest.got = scan[s].got
  BY <1>1 DEF Scans
<1>3. Advances(s, rest)
  <2> HIDE DEF rest, i
  <2> QED
    BY <1>1, <1>2, NoneAssumption DEF Advances, Sound
<1>4. ASSUME Usable(i), Unique(i, rest.got), Continue(s, more)
      PROVE  Advances(s, more)
  <2>1. i \in scan[s].todo
    <3>1. scan[s].todo \in SUBSET Nat
      BY <1>1, IdentitiesAssumption
    <3>2. \E x \in scan[s].todo : \A y \in scan[s].todo : x <= y
      BY <1>1, <3>1, LeastExists
    <3> QED
      BY <3>2 DEF First
  <2>2. i \in Items /\ i \notin DOMAIN scan[s].got /\ vault[i] \in Keys
    BY <1>1, <1>4, <2>1 DEF Usable
  <2>3. /\ MoreOf(rest.got, i) \in Identity
        /\ DOMAIN MoreOf(rest.got, i) = DOMAIN scan[s].got \union {i}
    <3>1. rest.got \in Identity
      BY <1>1, <1>2
    <3> HIDE DEF rest, i
    <3>2. MoreOf(rest.got, i) \in [DOMAIN rest.got \union {i} -> Keys]
      BY <1>2, <2>2, <3>1, IdentityIsFunction DEF MoreOf
    <3> QED
      BY <1>2, <2>2, <3>1, <3>2, IdentityIsFunction DEF Identity
  <2>4. /\ more \in Scans /\ more.stage = "reading" /\ more.todo = scan[s].todo \ {i}
        /\ more.pins = scan[s].pins /\ more.got = MoreOf(scan[s].got, i)
    <3> HIDE DEF rest, i
    <3> QED
      BY <1>2, <2>3 DEF Scans
  <2>5. Unique(i, scan[s].got)
    BY <1>2, <1>4
  <2> HIDE DEF more, rest, i
  <2> QED
    BY <1>1, <1>2, <1>4, <2>2, <2>3, <2>4, <2>5, NoneAssumption DEF Advances, Sound, Unique
<1> QED
  BY <1>3, <1>4 DEF Read, MoreOf
\* Whatever lpass answers, a scan goes on or is over.
LEMMA AnswerAdvances ==
    ASSUME OfferInv, NEW s \in Scanners, Answer(s) \/ FindNothing(s)
    PROVE  GiveUp(s) \/ \E step : Continue(s, step) /\ Advances(s, step)
BY ListAdvances, ProbeAdvances, ReadAdvances DEF Answer, FindNothing

LEMMA AnswerOffers ==
    ASSUME OfferInv, NEW s \in Scanners, Answer(s) \/ FindNothing(s)
    PROVE  OfferInv'
<1>1. UNCHANGED <<desk, config, served, file, due, request, runs, denied, refuted>>
  BY DEF Answer, FindNothing
<1>2. scan[s] # None
  BY DEF Answer, FindNothing, List, Probe, Read, Done
<1>3. CASE GiveUp(s)
  <2>1. Sound(None) /\ scan' = [scan EXCEPT ![s] = None]
    BY <1>3 DEF Sound, GiveUp
  <2>2. /\ phase' \in {"down", "scanning", "up"}
        /\ phase' = "down" => s = "agent" \/ phase = "down"
        /\ phase' # "up" => phase # "up"
        /\ s = "agent" \/ UNCHANGED phase
    BY <1>3 DEF GiveUp, OfferInv, TypeOK
  <2>3. ScansSound'
    BY <2>1, <2>2, SoundKept
  <2> QED
    BY <1>1, <2>2, <2>3 DEF OfferInv, ScansSound, TypeOK, desk
<1>4. ASSUME NEW step, Continue(s, step), Advances(s, step) PROVE OfferInv'
  <2>1. Sound(step) /\ scan' = [scan EXCEPT ![s] = step] /\ phase' = phase
    BY <1>4 DEF Advances, Continue
  <2>2. s = "agent" => phase # "down"
    BY <1>2 DEF OfferInv, ScansSound
  <2>3. ScansSound'
    BY <2>1, <2>2, SoundKept
  <2> QED
    BY <1>1, <2>1, <2>3 DEF OfferInv, ScansSound, TypeOK, desk
<1> QED
  BY <1>3, <1>4, AnswerAdvances
LEMMA BeginOffers ==
    ASSUME OfferInv, NEW s \in Scanners, NEW pins \in SUBSET Items, Begin(s, pins),
           phase' = "up" \/ phase' = "scanning" \/ (s = "list" /\ phase' = phase)
    PROVE  ScansSound' /\ denied' \in [Scanners -> SUBSET Items]
<1>1. scan' = [scan EXCEPT ![s] = NewScan(pins)] /\ Sound(NewScan(pins))
      /\ NewScan(pins) \in Scans
  BY NewScanSound DEF Begin
<1>2. denied' \in [Scanners -> SUBSET Items]
  BY DEF Begin, OfferInv, TypeOK
<1> QED
  BY <1>1, <1>2 DEF OfferInv, ScansSound, Scanners

LEMMA PinsAreItems ==
    ASSUME TypeOK
    PROVE  pinned \in SUBSET Items /\ config \in SUBSET Items /\ pinned \in Pins
BY IdentitiesAssumption DEF TypeOK

\* A scan ends, and what it got is an identity.
LEMMA EndOffers ==
    ASSUME OfferInv, NEW s \in Scanners, scan' = [scan EXCEPT ![s] = None],
           phase' = phase \/ (s = "agent" /\ phase' = "down")
    PROVE  ScansSound'
<1>1. Sound(None)
  BY DEF Sound
<1> QED
  BY <1>1, SoundKept DEF OfferInv, TypeOK, ScansSound, Scanners

LEMMA GotIsIdentity ==
    ASSUME OfferInv, NEW s \in Scanners, Done(s)
    PROVE  scan[s].got \in Identity
BY DEF OfferInv, TypeOK, Done, Scans

LEMMA StartOffers ==
    ASSUME OfferInv, StartFromFile \/ StartScanning \/ FinishStart \/ BeginList
    PROVE  OfferInv'
<1>1. CASE StartFromFile
  <2>1. ScansSound' /\ denied' \in [Scanners -> SUBSET Items]
    BY <1>1, BeginOffers, PinsAreItems DEF StartFromFile, OfferInv, Scanners
  <2>2. served' \in Identity
    <3>1. file \in Identity
      BY <1>1 DEF StartFromFile, FileServes, Remembered, OfferInv, TypeOK
    <3> QED
      BY <1>1, <3>1, IdentityIsFunction DEF StartFromFile, FileServes
  <2>3. runs' \in 0..MaxRuns
    BY <1>1, IdentitiesAssumption DEF StartFromFile, OfferInv, TypeOK
  <2> QED
    BY <1>1, <2>1, <2>2, <2>3 DEF StartFromFile, OfferInv, ScansSound, TypeOK, desk
<1>2. CASE StartScanning
  <2>1. ScansSound' /\ denied' \in [Scanners -> SUBSET Items]
    BY <1>2, BeginOffers, PinsAreItems DEF StartScanning, OfferInv, Scanners
  <2>2. runs' \in 0..MaxRuns
    BY <1>2, IdentitiesAssumption DEF StartScanning, OfferInv, TypeOK
  <2> QED
    BY <1>2, <2>1, <2>2 DEF StartScanning, OfferInv, ScansSound, TypeOK, desk
<1>3. CASE FinishStart
  <2>1. ScansSound' /\ denied' \in [Scanners -> SUBSET Items]
    BY <1>3, BeginOffers, PinsAreItems DEF FinishStart, OfferInv, Scanners
  <2>2. served' \in Identity /\ file' \in Identity \union {None}
    BY <1>3, GotIsIdentity
       DEF FinishStart, RememberIfComplete, Remember, OfferInv, TypeOK, Scanners
  <2> QED
    BY <1>3, <2>1, <2>2 DEF FinishStart, OfferInv, ScansSound, TypeOK, desk
<1>4. CASE BeginList
  <2>1. ScansSound' /\ denied' \in [Scanners -> SUBSET Items]
    BY <1>4, BeginOffers, PinsAreItems DEF BeginList, OfferInv, Scanners, agent
  <2>2. runs' \in 0..MaxRuns
    BY <1>4, IdentitiesAssumption DEF BeginList, OfferInv, TypeOK
  <2> QED
    BY <1>4, <2>1, <2>2 DEF BeginList, OfferInv, ScansSound, TypeOK, desk, agent
<1> QED
  BY <1>1, <1>2, <1>3, <1>4

LEMMA OfferStep == OfferInv /\ [Next]_vars => OfferInv'
<1> SUFFICES ASSUME OfferInv, [Next]_vars PROVE OfferInv'
  OBVIOUS
<1>1. ASSUME NEW s \in Scanners, Answer(s) \/ FindNothing(s) PROVE OfferInv'
  BY <1>1, AnswerOffers
<1>2. CASE Refresh
  <2>1. ScansSound'
    BY <1>2, EndOffers DEF Refresh, Scanners
  <2>2. served' \in Identity /\ file' \in Identity \union {None}
    BY <1>2, GotIsIdentity DEF Refresh, Remember, OfferInv, TypeOK, Scanners
  <2> QED
    BY <1>2, <2>1, <2>2 DEF Refresh, OfferInv, ScansSound, TypeOK, desk
<1>3. CASE EndList
  <2>1. ScansSound'
    BY <1>3, EndOffers DEF EndList, Scanners, agent
  <2>2. file' \in Identity \union {None}
    BY <1>3, GotIsIdentity
       DEF EndList, RememberIfComplete, Remember, OfferInv, TypeOK, Scanners
  <2> QED
    BY <1>3, <2>1, <2>2 DEF EndList, OfferInv, ScansSound, TypeOK, desk, agent
<1>4. CASE StartFromFile \/ StartScanning \/ FinishStart \/ BeginList
  BY <1>4, StartOffers
<1>5. CASE Stop
  <2>1. ScansSound'
    BY <1>5, EndOffers DEF Stop, Scanners
  <2> QED
    BY <1>5, <2>1, NothingIsIdentity DEF Stop, OfferInv, ScansSound, TypeOK, desk
<1>6. CASE Sign
  <2>1. CASE Begin("agent", config)
    <3>1. phase = "up"
      BY <1>6 DEF Sign, OfferInv
    <3>2. ScansSound' /\ denied' \in [Scanners -> SUBSET Items]
      BY <1>6, <2>1, <3>1, BeginOffers, PinsAreItems DEF Sign, OfferInv, Scanners, agent
    <3> QED
      BY <1>6, <3>2 DEF Sign, AfterSignature, OfferInv, ScansSound, TypeOK, desk, agent
  <2>2. CASE UNCHANGED <<scan, denied>>
    BY <1>6, <2>2 DEF Sign, AfterSignature, OfferInv, ScansSound, Sound, TypeOK, desk, agent
  <2> QED
    BY <1>6, <2>1, <2>2 DEF Sign, AfterSignature
<1>7. CASE Contradict
  <2>1. refuted' \subseteq Items \X Keys
    BY <1>7 DEF Contradict, OfferInv, TypeOK
  <2> QED
    BY <1>7, <2>1 DEF Contradict, Discard, OfferInv, ScansSound, Sound, TypeOK, desk, agent
<1>8. CASE Fail \/ TurnVault \/ HourPasses
  BY <1>8 DEF Fail, TurnVault, HourPasses, OfferInv, ScansSound, Sound, TypeOK, desk, agent
<1>9. ASSUME NEW i \in Items, Ask(i) PROVE OfferInv'
  <2>1. request' \in [item : Items, key : Keys]
    BY <1>9, IdentityIsFunction DEF Ask, OfferInv, TypeOK
  <2> QED
    BY <1>9, <2>1 DEF Ask, OfferInv, ScansSound, Sound, TypeOK, desk, agent
<1>10. ASSUME NEW i \in Items, NEW what \in Keys \union {Absent, Unusable}, Edit(i, what)
       PROVE  OfferInv'
  <2>1. edits' \in 0..MaxEdits
    BY <1>10, IdentitiesAssumption DEF Edit, OfferInv, TypeOK
  <2>2. /\ vault' \in [Items -> Keys \union {Absent, Unusable}]
        /\ denied' \in [Scanners -> SUBSET Items]
        /\ refuted' \subseteq Items \X Keys
    BY <1>10 DEF Edit, OfferInv, TypeOK
  <2> QED
    BY <1>10, <2>1, <2>2 DEF Edit, OfferInv, ScansSound, Sound, TypeOK, agent
<1>11. CASE EditConfig
  <2>1. edits' \in 0..MaxEdits
    BY <1>11, IdentitiesAssumption DEF EditConfig, OfferInv, TypeOK
  <2> QED
    BY <1>11, <2>1 DEF EditConfig, OfferInv, ScansSound, Sound, TypeOK, agent
<1>12. CASE UNCHANGED vars
  BY <1>12 DEF vars, OfferInv, ScansSound, Sound, TypeOK, desk, agent
<1> QED
  BY <1>1, <1>2, <1>3, <1>4, <1>5, <1>6, <1>7, <1>8, <1>9, <1>10, <1>11, <1>12 DEF Next

-----------------------------------------------------------------------------
(* Roster: every step of Identities is one of its steps, or none.          *)

\* Its state: the keys of the vault, and the readings.
VaultKeys == [i \in Items |-> IF Usable(i) THEN vault[i] ELSE None]
Readings == [s \in Scanners |-> Reading(s)]

LEMMA UsableKey ==
    ASSUME NEW i \in Items
    PROVE  VaultKeys[i] = None <=> ~Usable(i)
BY IdentitiesAssumption DEF VaultKeys, Usable

LEMMA ReadingOf ==
    ASSUME IdentitiesInv, OfferInv, NEW s \in Scanners
    PROVE  /\ scan[s] = None <=> Reading(s) = None
           /\ scan[s] # None =>
                 /\ Reading(s).after = Wanted(scan[s].pins)
                 /\ Reading(s).got = scan[s].got
                 /\ Reading(s).denied = denied[s]
                 /\ Wanted(scan[s].pins) \in SUBSET Items
<1>1. ASSUME scan[s] # None
      PROVE  Reading(s) \in [after : SUBSET Items, got : Identity, denied : SUBSET Items]
  BY <1>1 DEF OfferInv, ScansSound, Sound, Scans, TypeOK, Reading, Wanted
<1>2. scan[s] # None => Reading(s) # None
  BY <1>1, NoneAssumption
<1>3. scan[s] # None => Wanted(scan[s].pins) \in SUBSET Items
  BY DEF OfferInv, ScansSound, Sound, Scans, Wanted
<1> QED
  BY <1>2, <1>3 DEF Reading

\* The readings of the others stay.
LEMMA OneReading ==
    ASSUME NEW s \in Scanners, \A t \in Scanners \ {s} : Reading(t)' = Reading(t)
    PROVE  Readings' = [Readings EXCEPT ![s] = Reading(s)']
BY DEF Readings

LEMMA OthersRead ==
    ASSUME NEW s \in Scanners, DOMAIN scan = Scanners, NEW step, scan' = [scan EXCEPT ![s] = step],
           \A t \in Scanners \ {s} : denied'[t] = denied[t]
    PROVE  \A t \in Scanners \ {s} : Reading(t)' = Reading(t)
BY DEF Reading, Wanted

LEMMA SameKeys ==
    ASSUME UNCHANGED vault PROVE UNCHANGED VaultKeys
BY DEF VaultKeys, Usable

LEMMA AnswerReads ==
    ASSUME IdentitiesInv, OfferInv, NEW s \in Scanners, Answer(s) \/ FindNothing(s)
    PROVE  Abstract!Next \/ UNCHANGED Abstract!vars
<1>1. UNCHANGED <<vault, served, file, denied>> /\ scan[s] # None /\ DOMAIN scan = Scanners
  BY DEF Answer, FindNothing, List, Probe, Read, Done, desk, IdentitiesInv
<1>2. CASE GiveUp(s)
  <2>1. scan' = [scan EXCEPT ![s] = None]
    BY <1>2 DEF GiveUp
  <2>2. Reading(s)' = None
    BY <1>1, <2>1 DEF Reading
  <2>3. Readings' = [Readings EXCEPT ![s] = None]
    BY <1>1, <2>1, <2>2, OthersRead, OneReading
  <2>4. Reading(s) # None
    BY <1>1, ReadingOf
  <2>5. Abstract!GiveUp(s)
    BY <1>1, <2>3, <2>4, SameKeys DEF Abstract!GiveUp, Readings, VaultKeys
  <2> QED
    BY <2>5 DEF Abstract!Next
<1>3. ASSUME NEW step, Continue(s, step), Advances(s, step)
      PROVE  Abstract!Next \/ UNCHANGED Abstract!vars
  <2>1. scan' = [scan EXCEPT ![s] = step] /\ scan'[s] = step
    BY <1>1, <1>3 DEF Continue
  <2>2. Reading(s)' = [after |-> Wanted(scan[s].pins), got |-> step.got, denied |-> denied[s]]
    BY <1>1, <1>3, <2>1 DEF Reading, Advances, Wanted
  <2>3. Readings' = [Readings EXCEPT ![s] = Reading(s)']
    BY <1>1, <2>1, OthersRead, OneReading
  <2>4. CASE step.got = scan[s].got
    <3>1. Reading(s)' = Reading(s)
      BY <1>1, <2>2, <2>4 DEF Reading
    <3>2. UNCHANGED Readings
      BY <2>3, <3>1 DEF Readings
    <3> QED
      BY <1>1, <3>2, SameKeys DEF Abstract!vars, Readings, VaultKeys
  <2>5. ASSUME NEW i \in Items, Usable(i), i \notin DOMAIN scan[s].got,
               vault[i] \notin Range(scan[s].got), step.got = MoreOf(scan[s].got, i)
        PROVE  Abstract!Take(s, i)
    <3>1. /\ Reading(s) # None /\ Reading(s).after = Wanted(scan[s].pins)
          /\ Reading(s).got = scan[s].got /\ Reading(s).denied = denied[s]
      BY <1>1, ReadingOf
    <3>2. vault[i] # None
      BY <2>5, IdentitiesAssumption DEF Usable
    <3>3. step.got = [j \in DOMAIN scan[s].got \union {i} |->
                         IF j = i THEN vault[i] ELSE scan[s].got[j]]
      BY <2>5 DEF MoreOf
    <3>4. Reading(s)' = Abstract!Reading(Reading(s).after, step.got, Reading(s).denied)
      BY <2>2, <3>1 DEF Abstract!Reading
    <3>5. vault[i] \notin Abstract!Range(scan[s].got)
      BY <2>5 DEF Range, Abstract!Range
    <3> DEFINE more == [j \in DOMAIN Readings[s].got \union {i} |->
                           IF j = i THEN VaultKeys[i] ELSE Readings[s].got[j]]
    <3>6. Readings[s] = Reading(s) /\ VaultKeys[i] = vault[i] /\ UNCHANGED VaultKeys
      BY <1>1, <2>5, SameKeys DEF Readings, VaultKeys
    <3>7. more = step.got
      BY <3>1, <3>3, <3>6
    <3>8. Readings' = [Readings EXCEPT ![s] =
                Abstract!Reading(Readings[s].after, more, Readings[s].denied)]
      BY <2>3, <3>4, <3>6, <3>7
    <3>9. /\ Readings[s] # None /\ i \notin DOMAIN Readings[s].got
          /\ VaultKeys[i] # None /\ VaultKeys[i] \notin Abstract!Range(Readings[s].got)
      BY <2>5, <3>1, <3>2, <3>5, <3>6
    <3> QED
      BY <1>1, <3>6, <3>8, <3>9 DEF Abstract!Take, Readings, VaultKeys
  <2> QED
    BY <1>3, <2>4, <2>5 DEF Advances, Abstract!Next
<1> QED
  BY <1>2, <1>3, AnswerAdvances

LEMMA BeginReads ==
    ASSUME IdentitiesInv, OfferInv, NEW s \in Scanners, NEW pins \in SUBSET Items, Begin(s, pins),
           UNCHANGED vault
    PROVE  /\ UNCHANGED VaultKeys
           /\ Wanted(pins) \in SUBSET Items
           /\ Readings' = [Readings EXCEPT ![s] = Abstract!NewReading(Wanted(pins))]
<1>1. /\ DOMAIN scan = Scanners /\ scan' = [scan EXCEPT ![s] = NewScan(pins)]
      /\ denied' = [denied EXCEPT ![s] = {i \in Items : ~Usable(i)}]
      /\ DOMAIN denied = Scanners
  BY DEF Begin, IdentitiesInv
<1>2. /\ scan'[s] = NewScan(pins) /\ NewScan(pins) # None
      /\ NewScan(pins).pins = pins /\ NewScan(pins).got = Nothing
  BY <1>1, NewScanSound DEF NewScan
<1>3. {i \in Items : ~Usable(i)} = {i \in Items : VaultKeys[i] = None}
  BY UsableKey
<1>4. Reading(s)' = [after |-> Wanted(pins), got |-> Nothing,
                     denied |-> {i \in Items : VaultKeys[i] = None}]
  BY <1>1, <1>2, <1>3 DEF Reading, Wanted
<1>5. Reading(s)' = Abstract!NewReading(Wanted(pins))
  BY <1>4 DEF Abstract!NewReading, Abstract!Reading, Abstract!Nothing, Nothing, VaultKeys
<1>6. \A t \in Scanners \ {s} : Reading(t)' = Reading(t)
  BY <1>1, OthersRead
<1> QED
  BY <1>5, <1>6, OneReading, SameKeys DEF Wanted

LEMMA EndReads ==
    ASSUME IdentitiesInv, NEW s \in Scanners, scan' = [scan EXCEPT ![s] = None],
           UNCHANGED <<vault, denied>>
    PROVE  UNCHANGED VaultKeys /\ Readings' = [Readings EXCEPT ![s] = None]
<1>1. DOMAIN scan = Scanners
  BY DEF IdentitiesInv
<1>2. Reading(s)' = None
  BY <1>1 DEF Reading
<1>3. \A t \in Scanners \ {s} : Reading(t)' = Reading(t)
  BY <1>1, OthersRead
<1> QED
  BY <1>2, <1>3, OneReading, SameKeys

\* What has been read, as Roster has it.
LEMMA ReadSoFar ==
    ASSUME IdentitiesInv, OfferInv, NEW s \in Scanners, scan[s] # None
    PROVE  /\ Readings[s] # None /\ Readings[s].got = scan[s].got
           /\ Abstract!Whole(s) <=> HoldsAll(scan[s].got, s)
<1>1. /\ Readings[s] = Reading(s) /\ Reading(s) # None
      /\ Reading(s).after = Wanted(scan[s].pins)
      /\ Reading(s).got = scan[s].got /\ Reading(s).denied = denied[s]
  BY ReadingOf DEF Readings
<1>2. Abstract!Whole(s) <=> Readings[s].after \ Readings[s].denied \subseteq DOMAIN Readings[s].got
  BY DEF Abstract!Whole, Readings
<1> QED
  BY <1>1, <1>2 DEF HoldsAll

LEMMA NothingIsNothing == Abstract!Nothing = Nothing
BY DEF Abstract!Nothing, Nothing

\* The file is written by whoever remembers what was complete.
LEMMA KeepsWhole ==
    ASSUME IdentitiesInv, OfferInv, NEW s \in Scanners, Done(s),
           RememberIfComplete(s) \/ (Strict(s) /\ Remember(scan[s].got))
    PROVE  Abstract!Keep(s)
<1>1. Readings[s].got = scan[s].got /\ (Abstract!Whole(s) <=> HoldsAll(scan[s].got, s))
  BY ReadSoFar DEF Done
<1>2. file' = file \/ (HoldsAll(scan[s].got, s) /\ file' = scan[s].got)
  BY CompleteHoldsAll DEF RememberIfComplete, Remember
<1> QED
  BY <1>1, <1>2 DEF Abstract!Keep, Readings

LEMMA RefreshMaps == ASSUME IdentitiesInv, OfferInv, Refresh PROVE Abstract!Replace
<1>1. /\ "agent" \in Scanners /\ Done("agent") /\ Strict("agent") /\ scan["agent"] # None
      /\ served # Nothing /\ scan["agent"].got # Nothing
  BY DEF Refresh, Done, Strict, Scanners, IdentitiesInv, Unambiguous
<1>2. Abstract!Whole("agent") /\ Abstract!Keep("agent")
  BY <1>1, ReadSoFar, CompleteHoldsAll, KeepsWhole DEF Refresh
<1>3. UNCHANGED VaultKeys /\ Readings' = [Readings EXCEPT !["agent"] = None]
  BY <1>1, EndReads DEF Refresh, desk
<1>4. Readings["agent"] # None /\ Readings["agent"].got = scan["agent"].got
  BY <1>1, ReadSoFar
<1> QED
  BY <1>1, <1>2, <1>3, <1>4, NothingIsNothing DEF Refresh, Abstract!Replace, Readings, VaultKeys

LEMMA EndListMaps == ASSUME IdentitiesInv, OfferInv, EndList PROVE Abstract!Write("list")
<1>1. /\ "list" \in Scanners /\ Done("list") /\ scan["list"] # None
      /\ scan["list"].got # Nothing
  BY DEF EndList, Done, Scanners
<1>2. Abstract!Keep("list")
  BY <1>1, KeepsWhole DEF EndList
<1>3. UNCHANGED VaultKeys /\ Readings' = [Readings EXCEPT !["list"] = None]
  BY <1>1, EndReads DEF EndList, desk
<1>4. Readings["list"] # None /\ Readings["list"].got = scan["list"].got
  BY <1>1, ReadSoFar
<1> QED
  BY <1>1, <1>2, <1>3, <1>4, NothingIsNothing
     DEF EndList, agent, Abstract!Write, Readings, VaultKeys

LEMMA FinishStartMaps == ASSUME IdentitiesInv, OfferInv, FinishStart PROVE Abstract!Offer
<1>1. /\ "agent" \in Scanners /\ Done("agent") /\ scan["agent"] # None
      /\ served = Nothing /\ scan["agent"].got # Nothing /\ config \in SUBSET Items
  BY PinsAreItems DEF FinishStart, Done, Scanners, OfferInv
<1>2. Abstract!Keep("agent")
  BY <1>1, KeepsWhole DEF FinishStart
<1>3. /\ UNCHANGED VaultKeys /\ Wanted(config) \in SUBSET Items
      /\ Readings' = [Readings EXCEPT !["agent"] = Abstract!NewReading(Wanted(config))]
  BY <1>1, BeginReads DEF FinishStart, desk
<1>4. Readings["agent"] # None /\ Readings["agent"].got = scan["agent"].got
  BY <1>1, ReadSoFar
<1> QED
  BY <1>1, <1>2, <1>3, <1>4, NothingIsNothing DEF FinishStart, Abstract!Offer, Readings, VaultKeys

LEMMA StartFromFileMaps ==
    ASSUME IdentitiesInv, OfferInv, StartFromFile PROVE Abstract!OfferFile
<1> DEFINE wanted == IF pinned = {} THEN DOMAIN file ELSE pinned
<1>1. /\ "agent" \in Scanners /\ scan["agent"] = None /\ served = Nothing
      /\ file # None /\ file \in Identity /\ pinned \in SUBSET Items
  BY PinsAreItems
     DEF StartFromFile, FileServes, Remembered, Scanners, OfferInv, ScansSound, TypeOK
<1>2. /\ wanted \in (SUBSET (DOMAIN file)) \ {{}}
      /\ Distinct(Restrict(file, wanted)) /\ served' = Restrict(file, wanted)
  <2>1. wanted # {} /\ wanted \subseteq DOMAIN file /\ Distinct(Restrict(file, wanted))
    BY DEF StartFromFile, FileServes
  <2>2. file = Restrict(file, DOMAIN file)
    BY <1>1, IdentityIsFunction DEF Restrict
  <2> QED
    BY <2>1, <2>2 DEF StartFromFile
<1>3. /\ UNCHANGED VaultKeys /\ Wanted(pinned) \in SUBSET Items
      /\ Readings' = [Readings EXCEPT !["agent"] = Abstract!NewReading(Wanted(pinned))]
  BY <1>1, BeginReads DEF StartFromFile, desk
<1>4. Readings["agent"] = None
  BY <1>1 DEF Readings, Reading
<1>5. /\ Abstract!Distinct(Abstract!Restrict(file, wanted))
      /\ served' = Abstract!Restrict(file, wanted)
  BY <1>2 DEF Abstract!Distinct, Abstract!Restrict, Distinct, Restrict
<1> HIDE DEF wanted
<1> QED
  BY <1>1, <1>2, <1>3, <1>4, <1>5, NothingIsNothing
     DEF StartFromFile, Abstract!OfferFile, Readings, VaultKeys

LEMMA BeginMaps ==
    ASSUME IdentitiesInv, OfferInv, NEW s \in Scanners, NEW pins \in SUBSET Items, Begin(s, pins),
           scan[s] = None, UNCHANGED <<vault, served, file>>
    PROVE  Abstract!Begin(s)
<1>1. /\ UNCHANGED VaultKeys /\ Wanted(pins) \in SUBSET Items
      /\ Readings' = [Readings EXCEPT ![s] = Abstract!NewReading(Wanted(pins))]
  BY BeginReads
<1>2. Readings[s] = None
  BY DEF Readings, Reading
<1> QED
  BY <1>1, <1>2 DEF Abstract!Begin, Readings, VaultKeys

LEMMA StopMaps == ASSUME IdentitiesInv, Stop PROVE Abstract!Stop
<1>1. UNCHANGED VaultKeys /\ Readings' = [Readings EXCEPT !["agent"] = None]
  BY EndReads DEF Stop, desk, Scanners
<1> QED
  BY <1>1, NothingIsNothing DEF Stop, Abstract!Stop, Readings, VaultKeys

\* A change of the vault is seen by every reading.
LEMMA EditMaps ==
    ASSUME IdentitiesInv, OfferInv, NEW i \in Items, NEW what \in Keys \union {Absent, Unusable},
           Edit(i, what)
    PROVE  \E key \in Keys \union {None} : Abstract!Edit(i, key)
<1> DEFINE key == IF what \in Keys THEN what ELSE None
<1>1. /\ vault' = [vault EXCEPT ![i] = what] /\ DOMAIN vault = Items
      /\ denied' = [s \in Scanners |-> IF what \in Keys THEN denied[s] ELSE denied[s] \union {i}]
      /\ UNCHANGED <<served, file, scan>>
  BY DEF Edit, IdentitiesInv, agent
<1>2. VaultKeys' = [VaultKeys EXCEPT ![i] = key]
  BY <1>1 DEF VaultKeys, Usable
<1>3. ASSUME NEW s \in Scanners
      PROVE  Reading(s)' = IF Readings[s] = None \/ key # None THEN Readings[s]
                           ELSE Abstract!Reading(Readings[s].after, Readings[s].got,
                                                 Readings[s].denied \union {i})
  <2>1. Readings[s] = Reading(s) /\ (key = None <=> what \notin Keys)
    BY IdentitiesAssumption DEF Readings
  <2>2. CASE scan[s] = None
    BY <1>1, <2>1, <2>2 DEF Reading
  <2>3. CASE scan[s] # None
    <3>1. /\ Reading(s) # None /\ Reading(s).after = Wanted(scan[s].pins)
          /\ Reading(s).got = scan[s].got /\ Reading(s).denied = denied[s]
      BY <2>3, ReadingOf
    <3>2. Reading(s)' = [after |-> Wanted(scan[s].pins), got |-> scan[s].got,
                         denied |-> IF what \in Keys THEN denied[s] ELSE denied[s] \union {i}]
      BY <1>1, <2>3 DEF Reading, Wanted
    <3>3. CASE what \in Keys
      BY <2>1, <2>3, <3>2, <3>3 DEF Reading
    <3>4. CASE what \notin Keys
      BY <2>1, <3>1, <3>2, <3>4 DEF Abstract!Reading
    <3> QED
      BY <3>3, <3>4
  <2> QED
    BY <2>2, <2>3
<1>4. key \in Keys \union {None}
  OBVIOUS
<1> HIDE DEF key
<1>5. Abstract!Edit(i, key)
  BY <1>1, <1>2, <1>3 DEF Abstract!Edit, Readings, VaultKeys
<1> QED
  BY <1>4, <1>5

LEMMA RosterStep ==
    ASSUME IdentitiesInv, OfferInv, [Next]_vars
    PROVE  Abstract!Next \/ UNCHANGED Abstract!vars
<1>1. ASSUME NEW s \in Scanners, Answer(s) \/ FindNothing(s)
      PROVE  Abstract!Next \/ UNCHANGED Abstract!vars
  BY <1>1, AnswerReads
<1>2. CASE Refresh
  BY <1>2, RefreshMaps DEF Abstract!Next
<1>3. CASE EndList
  BY <1>3, EndListMaps DEF Abstract!Next, Scanners
<1>4. CASE StartFromFile
  BY <1>4, StartFromFileMaps DEF Abstract!Next
<1>5. CASE StartScanning
  <2>1. Abstract!Begin("agent")
    BY <1>5, BeginMaps, PinsAreItems DEF StartScanning, desk, Scanners, OfferInv, ScansSound
  <2> QED
    BY <2>1 DEF Abstract!Next, Scanners
<1>6. CASE FinishStart
  BY <1>6, FinishStartMaps DEF Abstract!Next
<1>7. CASE Stop
  BY <1>7, StopMaps DEF Abstract!Next
<1>8. CASE BeginList
  <2>1. Abstract!Begin("list")
    BY <1>8, BeginMaps, PinsAreItems DEF BeginList, desk, agent, Scanners, OfferInv
  <2> QED
    BY <2>1 DEF Abstract!Next, Scanners
<1>9. ASSUME UNCHANGED <<vault, served, file, scan, denied>>
      PROVE  UNCHANGED Abstract!vars
  <2>1. UNCHANGED VaultKeys
    BY <1>9, SameKeys
  <2>2. UNCHANGED Readings
    BY <1>9 DEF Readings, Reading, Wanted
  <2> QED
    BY <1>9, <2>1, <2>2 DEF Abstract!vars, Readings, VaultKeys
<1>10. CASE Sign
  <2>1. CASE scan["agent"] = None /\ Begin("agent", config)
    <3>1. Abstract!Begin("agent")
      BY <1>10, <2>1, BeginMaps, PinsAreItems DEF Sign, desk, agent, Scanners, OfferInv
    <3> QED
      BY <3>1 DEF Abstract!Next, Scanners
  <2>2. CASE UNCHANGED <<scan, denied>>
    BY <1>9, <1>10, <2>2 DEF Sign, desk, agent
  <2> QED
    BY <1>10, <2>1, <2>2 DEF Sign, AfterSignature
<1>11. CASE Contradict
  <2>1. UNCHANGED VaultKeys
    BY <1>11, SameKeys DEF Contradict, desk
  <2>2. UNCHANGED Readings
    BY <1>11 DEF Contradict, Readings, Reading, Wanted
  <2>3. Abstract!Discard
    BY <1>11, <2>1, <2>2
       DEF Contradict, Discard, agent, Abstract!Discard, Readings, VaultKeys
  <2> QED
    BY <2>3 DEF Abstract!Next
<1>12. CASE Fail \/ EditConfig \/ TurnVault \/ HourPasses \/ UNCHANGED vars
            \/ \E i \in Items : Ask(i)
  BY <1>9, <1>12 DEF Fail, EditConfig, TurnVault, HourPasses, Ask, vars, desk, agent
<1>13. ASSUME NEW i \in Items, NEW what \in Keys \union {Absent, Unusable}, Edit(i, what)
       PROVE  Abstract!Next
  BY <1>13, EditMaps DEF Abstract!Next
<1> QED
  BY <1>1, <1>2, <1>3, <1>4, <1>5, <1>6, <1>7, <1>8, <1>10, <1>11, <1>12, <1>13 DEF Next

LEMMA RosterInit == ASSUME Init PROVE Abstract!Init
<1>1. VaultKeys \in [Items -> Keys \union {None}]
  BY DEF VaultKeys, Usable
<1>2. Readings = [s \in Scanners |-> None]
  BY DEF Init, Readings, Reading
<1> QED
  BY <1>1, <1>2, NothingIsNothing DEF Init, Abstract!Init, Readings, VaultKeys

LEMMA OfferKeeps == Spec => []OfferInv
BY OfferInit, OfferStep, PTL DEF Spec

(***************************************************************************)
(* Everything in the set served, in the file and in what the scans have    *)
(* got keeps its type: no item without a usable key is ever among them     *)
(* (keystore.rs, inspect_key).                                             *)
(***************************************************************************)
THEOREM IdentityTypes == Spec => []TypeOK
<1>1. OfferInv => TypeOK
  BY DEF OfferInv
<1> QED
  BY OfferKeeps, <1>1, PTL

(***************************************************************************)
(* What is served, and what the file holds, is what one reading of the     *)
(* vault got, however the vault, the config, the agent's scans and list    *)
(* come to overlap, and nothing is replaced by a reading that is not whole *)
(* (refresh.rs, commands/start.rs, commands/list.rs).                      *)
(***************************************************************************)
THEOREM OffersWhatWasRead == Spec => RosterSpec
<1>1. IdentitiesInv /\ OfferInv /\ [Next]_vars => [Abstract!Next]_(Abstract!vars)
  BY RosterStep
<1> QED
  BY <1>1, RosterInit, IdentitiesKeepInv, OfferKeeps, PTL DEF Spec, RosterSpec, Abstract!Spec
=============================================================================
