--------------------------- MODULE QuestionsProofs ---------------------------
(***************************************************************************)
(* Proofs about Questions, for any number of connections, hosts, processes *)
(* and files, and whatever text they are made of. First what needs no text *)
(* looked into: that SessionBind is implemented, and a prompt's hosts and  *)
(* the gate. Then texts: Joined, AddFile and Origin are defined by         *)
(* recursion, so induction over the numbers is proved first, from the      *)
(* pigeonhole principle; that joined texts come apart in one way only, and *)
(* what an index holds once a file is read, follow. Last the two           *)
(* properties that rest on them.                                           *)
(***************************************************************************)
EXTENDS Questions, SessionBindProofs, FiniteSetTheorems

Fields == {"step", "key", "what", "index", "at", "ctx", "question", "from", "named", "revoked"}

\* A request that is served is a record with all of its fields.
Shaped == DOMAIN req = Clients /\ \A c \in Clients :
    req[c].step # "idle" => DOMAIN req[c] = Fields

\* What is asked to be signed fits the connection, as long as the request is served.
FitsStill == \A c \in Connections :
    req[c].step # "idle" => req[c].what \in Userauth \cup {Other} /\ Fits(c, req[c].what)

\* Whoever is at the prompt, or has a yes not yet settled, has the gate.
GateHeld == \A c \in Clients :
    \/ req[c].step = "prompting"
    \/ req[c].step = "signing" /\ req[c].from = "user"
    => gate = c

AskInv == Shaped /\ FitsStill /\ GateHeld /\ HostsAreBound

-----------------------------------------------------------------------------
(* What each step does to the requests.                                    *)

\* The steps between a request's arrival and its end, and where each leads.
Moves(c) ==
    /\ req[c].step # "idle"
    /\ DOMAIN req' = Clients
    /\ \A d \in Clients \ {c} : req'[d] = req[d]
    /\ DOMAIN req'[c] = Fields
    /\ req'[c].what = req[c].what /\ req'[c].key = req[c].key
    /\ req'[c].step # "idle"

LEMMA AskedMoves ==
    ASSUME Shaped, NEW c \in Clients, NEW ctx, NEW question,
           NEW otherwise \in {"waiting", "prompting"},
           req[c].step # "idle", Asked(c, ctx, question, otherwise)
    PROVE  /\ Moves(c)
           /\ req'[c].ctx = ctx /\ req'[c].question = question
           /\ \/ question \in remembered /\ req'[c].step = "signing" /\ req'[c].from = "memory"
              \/ question \notin remembered /\ req'[c].step = otherwise
BY DEF Asked, Moves, Shaped, Fields

LEMMA ServeMoves ==
    ASSUME Shaped, NEW c \in Clients,
           ReadFile(c) \/ Named(c) \/ Enter(c) \/ Approve(c)
    PROVE  Moves(c) /\ UNCHANGED vars
<1>1. CASE ReadFile(c)
  BY <1>1 DEF ReadFile, Moves, Shaped, Fields
<1>2. CASE Named(c)
  BY <1>2, AskedMoves DEF Named
<1>3. CASE Enter(c)
  BY <1>3, AskedMoves DEF Enter
<1>4. CASE Approve(c)
  BY <1>4 DEF Approve, Moves, Shaped, Fields
<1> QED
  BY <1>1, <1>2, <1>3, <1>4

\* What a step makes of the request of client d.
Untouched(d) ==
    /\ req'[d].step = req[d].step
    /\ req[d].step # "idle" =>
          /\ DOMAIN req'[d] = DOMAIN req[d]
          /\ req'[d].key = req[d].key /\ req'[d].what = req[d].what
          /\ req'[d].index = req[d].index /\ req'[d].at = req[d].at
          /\ req'[d].ctx = req[d].ctx /\ req'[d].question = req[d].question
          /\ req'[d].from = req[d].from

\* A message on a connection, when no request is served on it.
Message(c) ==
    \/ \E bind \in Binding : BindHost(c, bind)
    \/ \E what \in Userauth \cup {Other} : SignUnasked(c, what)

LEMMA MessageLeaves ==
    ASSUME Shaped, TypeOK, NEW c \in Connections, Message(c)
    PROVE  /\ UNCHANGED askVars
           /\ req[c].step = "idle"
           /\ \A d \in Connections \ {c} : bindings'[d] = bindings[d]
BY DEF Message, BindHost, SignUnasked, Bind, Sign, TypeOK

LEMMA ReturnLeaves ==
    ASSUME Shaped, TypeOK, NEW c \in Clients, Return(c)
    PROVE  /\ UNCHANGED <<req, gate>>
           /\ req[c].step = "idle"
           /\ \A d \in Connections \ {c} : bindings'[d] = bindings[d]
BY DEF Return, Reconnect, TypeOK, vars

LEMMA ArriveStarts ==
    ASSUME Shaped, NEW c \in Clients, NEW key, NEW what, Arrive(c, key, what)
    PROVE  /\ UNCHANGED <<vars, gate>>
           /\ DOMAIN req' = Clients
           /\ \A d \in Clients \ {c} : req'[d] = req[d]
           /\ DOMAIN req'[c] = Fields
           /\ req'[c].step = "naming" /\ req'[c].what = what
           /\ c \in Connections => Fits(c, what)
BY DEF Arrive, Shaped, Fields

LEMMA EndForgets ==
    ASSUME Shaped, NEW c \in Clients, End(c)
    PROVE  /\ DOMAIN req' = Clients
           /\ \A d \in Clients \ {c} : req'[d] = req[d]
           /\ req'[c].step = "idle"
           /\ \A d \in Clients \ {c} : gate = d => gate' = d
BY DEF End, LetGo, Shaped, NoRequest

LEMMA WorldLeaves ==
    ASSUME Shaped, World
    PROVE  /\ UNCHANGED <<vars, gate>>
           /\ DOMAIN req' = Clients
           /\ \A d \in Clients : Untouched(d)
<1>1. CASE TurnTree \/ ForgetApprovals
  BY <1>1 DEF TurnTree, ForgetApprovals, Untouched, Shaped
<1>2. CASE EditFile
  BY <1>2 DEF EditFile, Untouched, Shaped, Fields
<1> QED
  BY <1>1, <1>2 DEF World

\* Every step of AskNext is one of these.
LEMMA StepsOf ==
    ASSUME AskNext
    PROVE  \/ \E c \in Connections : Message(c)
           \/ \E c \in Clients, key \in Keys, what \in Userauth \cup {Other} :
                  Arrive(c, key, what)
           \/ \E c \in Clients : ReadFile(c) \/ Named(c) \/ Enter(c) \/ Approve(c)
           \/ \E c \in Clients : Deny(c) \/ Finish(c)
           \/ \E c \in Clients : Return(c)
           \/ \E key \in PlainKeys, session \in Sessions : ProveHost(key, session)
           \/ World
BY DEF AskNext, Message, Serve, Clients

-----------------------------------------------------------------------------
(* The requests keep to what they were checked against.                    *)

\* A connection's hosts stay as they are while a request is served on it.
LEMMA BusyChainStays ==
    ASSUME Shaped, TypeOK, [AskNext]_allVars, NEW c \in Connections, req[c].step # "idle"
    PROVE  bindings'[c] = bindings[c]
<1>1. CASE UNCHANGED allVars
  BY <1>1 DEF allVars, vars
<1>2. ASSUME UNCHANGED bindings PROVE bindings'[c] = bindings[c]
  BY <1>2
<1>3. ASSUME NEW d \in Clients, Deny(d) \/ Finish(d) PROVE UNCHANGED bindings
  BY <1>3 DEF Deny, Finish, Issue, vars
<1>4. ASSUME NEW key \in PlainKeys, NEW session \in Sessions, ProveHost(key, session)
      PROVE  UNCHANGED bindings
  BY <1>4 DEF ProveHost, Prove
<1>5. CASE AskNext
  BY <1>2, <1>3, <1>4, <1>5, StepsOf, MessageLeaves, ReturnLeaves, ArriveStarts, ServeMoves,
     WorldLeaves DEF vars
<1> QED
  BY <1>1, <1>5

LEMMA ShapedStep == Shaped /\ TypeOK /\ [AskNext]_allVars => Shaped'
<1> SUFFICES ASSUME Shaped, TypeOK, [AskNext]_allVars PROVE Shaped'
  OBVIOUS
<1>1. ASSUME UNCHANGED req PROVE Shaped'
  BY <1>1 DEF Shaped
<1>2. ASSUME NEW c \in Connections, Message(c) PROVE Shaped'
  BY <1>1, <1>2, MessageLeaves DEF askVars
<1>3. ASSUME NEW c \in Clients, NEW key \in Keys, NEW what \in Userauth \cup {Other},
             Arrive(c, key, what)
      PROVE  Shaped'
  BY <1>3, ArriveStarts DEF Shaped
<1>4. ASSUME NEW c \in Clients, ReadFile(c) \/ Named(c) \/ Enter(c) \/ Approve(c)
      PROVE  Shaped'
  BY <1>4, ServeMoves DEF Shaped, Moves
<1>5. ASSUME NEW c \in Clients, Deny(c) \/ Finish(c) PROVE Shaped'
  BY <1>5, EndForgets DEF Shaped, Deny, Finish
<1>6. ASSUME NEW c \in Clients, Return(c) PROVE Shaped'
  BY <1>1, <1>6, ReturnLeaves
<1>7. ASSUME NEW key \in PlainKeys, NEW session \in Sessions, ProveHost(key, session)
      PROVE  Shaped'
  BY <1>1, <1>7 DEF ProveHost, askVars
<1>8. CASE World
  BY <1>8, WorldLeaves DEF Shaped, Untouched
<1>9. CASE UNCHANGED allVars
  BY <1>1, <1>9 DEF allVars, askVars
<1> QED
  BY <1>2, <1>3, <1>4, <1>5, <1>6, <1>7, <1>8, <1>9, StepsOf

\* A request that is served after a step has just arrived, or was served for the same data.
LEMMA SameData ==
    ASSUME Shaped, TypeOK, [AskNext]_allVars, NEW c \in Clients, req'[c].step # "idle"
    PROVE  \/ \E key \in Keys, what \in Userauth \cup {Other} : Arrive(c, key, what)
           \/ req[c].step # "idle" /\ req'[c].what = req[c].what
<1> DEFINE Same == req[c].step # "idle" /\ req'[c].what = req[c].what
           New == \E key \in Keys, what \in Userauth \cup {Other} : Arrive(c, key, what)
<1>1. ASSUME UNCHANGED req PROVE Same
  BY <1>1
<1>2. ASSUME NEW d \in Connections, Message(d) PROVE Same
  BY <1>1, <1>2, MessageLeaves DEF askVars
<1>3. ASSUME NEW d \in Clients, NEW key \in Keys, NEW what \in Userauth \cup {Other},
             Arrive(d, key, what)
      PROVE  New \/ Same
  BY <1>3, ArriveStarts
<1>4. ASSUME NEW d \in Clients, ReadFile(d) \/ Named(d) \/ Enter(d) \/ Approve(d)
      PROVE  Same
  BY <1>4, ServeMoves DEF Moves
<1>5. ASSUME NEW d \in Clients, Deny(d) \/ Finish(d) PROVE Same
  BY <1>5, EndForgets DEF Deny, Finish
<1>6. ASSUME NEW d \in Clients, Return(d) PROVE Same
  BY <1>1, <1>6, ReturnLeaves
<1>7. ASSUME NEW key \in PlainKeys, NEW session \in Sessions, ProveHost(key, session)
      PROVE  Same
  BY <1>1, <1>7 DEF ProveHost, askVars
<1>8. CASE World
  BY <1>8, WorldLeaves DEF Untouched
<1>9. CASE UNCHANGED allVars
  BY <1>1, <1>9 DEF allVars, askVars
<1> QED
  BY <1>2, <1>3, <1>4, <1>5, <1>6, <1>7, <1>8, <1>9, StepsOf

LEMMA FitsStep == Shaped /\ TypeOK /\ FitsStill /\ [AskNext]_allVars => FitsStill'
<1> SUFFICES ASSUME Shaped, TypeOK, FitsStill, [AskNext]_allVars,
                    NEW c \in Connections, req'[c].step # "idle"
             PROVE  req'[c].what \in Userauth \cup {Other} /\ Fits(c, req[c].what)'
  BY DEF FitsStill
<1>1. c \in Clients
  BY DEF Clients
<1> DEFINE FitsNow == /\ bindings'[c] = bindings[c]
                      /\ req'[c].what \in Userauth \cup {Other}
                      /\ Fits(c, req'[c].what)
<1>2. FitsNow
  <2>1. ASSUME NEW key \in Keys, NEW what \in Userauth \cup {Other}, Arrive(c, key, what)
        PROVE  FitsNow
    BY <1>1, <2>1, ArriveStarts DEF vars
  <2>2. ASSUME req[c].step # "idle", req'[c].what = req[c].what PROVE FitsNow
    BY <2>2, BusyChainStays DEF FitsStill
  <2> QED
    BY <1>1, <2>1, <2>2, SameData
<1> QED
  BY <1>2 DEF Fits, IsBound, Newest

LEMMA GateStep == Shaped /\ TypeOK /\ GateHeld /\ [AskNext]_allVars => GateHeld'
<1> SUFFICES ASSUME Shaped, TypeOK, GateHeld, [AskNext]_allVars PROVE GateHeld'
  OBVIOUS
<1>1. ASSUME UNCHANGED <<req, gate>> PROVE GateHeld'
  BY <1>1 DEF GateHeld
<1>2. ASSUME NEW c \in Connections, Message(c) PROVE GateHeld'
  BY <1>1, <1>2, MessageLeaves DEF askVars
<1>3. ASSUME NEW c \in Clients, NEW key \in Keys, NEW what \in Userauth \cup {Other},
             Arrive(c, key, what)
      PROVE  GateHeld'
  BY <1>3, ArriveStarts DEF GateHeld
<1>4. ASSUME NEW c \in Clients, ReadFile(c) PROVE GateHeld'
  BY <1>4 DEF ReadFile, GateHeld, Shaped, Fields
<1>5. ASSUME NEW c \in Clients, Named(c) PROVE GateHeld'
  <2>1. PICK ctx : Asked(c, ctx, Question(ctx), "waiting")
    BY <1>5 DEF Named
  <2>2. req[c].step # "idle" /\ gate' = gate
    BY <1>5 DEF Named
  <2> QED
    BY <2>1, <2>2, AskedMoves DEF GateHeld, Moves
<1>6. ASSUME NEW c \in Clients, Enter(c) PROVE GateHeld'
  <2>1. gate = Nobody /\ gate' = c /\ Moves(c)
    BY <1>6, AskedMoves DEF Enter
  <2> QED
    BY <2>1, ClientAssumption DEF GateHeld, Moves
<1>7. ASSUME NEW c \in Clients, Approve(c) PROVE GateHeld'
  BY <1>7, ServeMoves DEF Approve, GateHeld, Moves
<1>8. ASSUME NEW c \in Clients, Deny(c) \/ Finish(c) PROVE GateHeld'
  BY <1>8, EndForgets DEF GateHeld, Deny, Finish
<1>9. ASSUME NEW c \in Clients, Return(c) PROVE GateHeld'
  BY <1>1, <1>9, ReturnLeaves
<1>10. ASSUME NEW key \in PlainKeys, NEW session \in Sessions, ProveHost(key, session)
       PROVE  GateHeld'
  BY <1>1, <1>10 DEF ProveHost, askVars
<1>11. CASE World
  BY <1>11, WorldLeaves DEF GateHeld, Untouched
<1>12. CASE UNCHANGED allVars
  BY <1>1, <1>12 DEF allVars, askVars
<1> QED
  BY <1>2, <1>3, <1>4, <1>5, <1>6, <1>7, <1>8, <1>9, <1>10, <1>11, <1>12, StepsOf

-----------------------------------------------------------------------------
(* The hosts of a context.                                                 *)

\* The hops of a context are those of the chain.
HopsOf(hops, c) ==
    /\ Len(hops) = Len(Chain(c))
    /\ \A i \in DOMAIN hops :
          /\ hops[i].fingerprint = KeyOf[Chain(c)[i].host_key]
          /\ hops[i].is_forwarding = Chain(c)[i].is_forwarding

LEMMA NamedHopsAreBound ==
    ASSUME TypeOK, NEW c \in Clients, NEW index
    PROVE  HopsOf(NamedHops(c, index), c)
<1>1. Chain(c) \in Seq(Binding)
  BY DEF Chain, TypeOK
<1>2. DOMAIN Chain(c) = 1 .. Len(Chain(c)) /\ Len(Chain(c)) \in Nat
  BY <1>1, LenProperties
<1>3. Len(NamedHops(c, index)) = Len(Chain(c))
  BY <1>2 DEF NamedHops
<1> QED
  BY <1>3 DEF NamedHops, HopsOf

LEMMA HostsStep == Shaped /\ TypeOK /\ HostsAreBound /\ [AskNext]_allVars => HostsAreBound'
<1> SUFFICES ASSUME Shaped, TypeOK, HostsAreBound, [AskNext]_allVars,
                    NEW c \in Clients, req'[c].step \notin {"idle", "naming"}
             PROVE  HopsOf(req[c].ctx.hops, c)'
  BY DEF HostsAreBound, HopsOf
<1>1. req[c].step # "idle"
  BY SameData, ArriveStarts
<1>2. Chain(c)' = Chain(c)
  BY <1>1, BusyChainStays DEF Chain
<1> SUFFICES HopsOf(req'[c].ctx.hops, c)
  BY <1>2 DEF HopsOf
<1>3. ASSUME req[c].step # "naming", req'[c].ctx.hops = req[c].ctx.hops
      PROVE  HopsOf(req'[c].ctx.hops, c)
  BY <1>1, <1>3 DEF HostsAreBound, HopsOf
<1>4. ASSUME req'[c] = req[c] PROVE HopsOf(req'[c].ctx.hops, c)
  BY <1>3, <1>4
<1>5. ASSUME NEW d \in Connections, Message(d) PROVE req'[c] = req[c]
  BY <1>5, MessageLeaves DEF askVars
<1>6. ASSUME NEW d \in Clients, NEW key \in Keys, NEW what \in Userauth \cup {Other},
             Arrive(d, key, what)
      PROVE  req'[c] = req[c]
  BY <1>6, ArriveStarts
<1>7. ASSUME NEW d \in Clients, ReadFile(d) \/ Named(d) \/ Enter(d) \/ Approve(d)
      PROVE  HopsOf(req'[c].ctx.hops, c)
  <2>1. CASE d # c
    BY <1>4, <1>7, <2>1, ServeMoves DEF Moves
  <2>2. CASE ReadFile(c)
    <3>1. req'[c].step = "naming"
      BY <2>2 DEF ReadFile, Shaped, Fields
    <3> QED
      BY <3>1
  <2>3. CASE Named(c)
    <3>1. PICK index : LET ctx == ContextOf(req[c].key, peer[c], NamedHops(c, index))
                       IN  Asked(c, ctx, Question(ctx), "waiting")
      BY <2>3 DEF Named
    <3>2. req'[c].ctx = ContextOf(req[c].key, peer[c], NamedHops(c, index))
      BY <1>1, <3>1, AskedMoves
    <3>3. req'[c].ctx.hops = NamedHops(c, index)
      BY <3>2 DEF ContextOf
    <3> QED
      BY <3>3, NamedHopsAreBound
  <2>4. CASE Enter(c)
    <3>1. req'[c].ctx = ContextOf(req[c].key, peer[c], req[c].ctx.hops)
      BY <1>1, <2>4, AskedMoves DEF Enter
    <3>2. req'[c].ctx.hops = req[c].ctx.hops
      BY <3>1 DEF ContextOf
    <3> QED
      BY <1>3, <2>4, <3>2 DEF Enter
  <2>5. CASE Approve(c)
    BY <1>3, <2>5 DEF Approve, Shaped, Fields
  <2> QED
    BY <1>7, <2>1, <2>2, <2>3, <2>4, <2>5
<1>8. ASSUME NEW d \in Clients, Deny(d) \/ Finish(d) PROVE req'[c] = req[c]
  BY <1>8, EndForgets DEF Deny, Finish
<1>9. ASSUME NEW d \in Clients, Return(d) PROVE req'[c] = req[c]
  BY <1>9, ReturnLeaves
<1>10. ASSUME NEW key \in PlainKeys, NEW session \in Sessions, ProveHost(key, session)
       PROVE  req'[c] = req[c]
  BY <1>10 DEF ProveHost, askVars
<1>11. CASE World
  BY <1>1, <1>3, <1>11, WorldLeaves DEF Untouched
<1>12. CASE UNCHANGED allVars
  BY <1>4, <1>12 DEF allVars, askVars
<1> QED
  BY <1>4, <1>5, <1>6, <1>7, <1>8, <1>9, <1>10, <1>11, <1>12, StepsOf

-----------------------------------------------------------------------------
(* The connection underneath, and the theorems.                            *)

\* A step is one of SessionBind, or none of its variables change.
LEMMA AskStep == FitsStill /\ [AskNext]_allVars => [Next]_vars
<1> SUFFICES ASSUME FitsStill, [AskNext]_allVars PROVE [Next]_vars
  OBVIOUS
<1>1. ASSUME NEW c \in Connections, Message(c) PROVE Next
  BY <1>1 DEF Message, BindHost, SignUnasked, Next
<1>2. ASSUME NEW c \in Clients,
             ReadFile(c) \/ Named(c) \/ Enter(c) \/ Approve(c) \/ Deny(c)
      PROVE  UNCHANGED vars
  BY <1>2 DEF ReadFile, Named, Enter, Approve, Deny
<1>3. ASSUME NEW c \in Clients, NEW key \in Keys, NEW what \in Userauth \cup {Other},
             Arrive(c, key, what)
      PROVE  UNCHANGED vars
  BY <1>3 DEF Arrive
<1>4. ASSUME NEW c \in Clients, Finish(c) PROVE [Next]_vars
  <2>1. CASE UNCHANGED vars
    BY <2>1
  <2>2. CASE Issue(c)
    <3>1. c \in Connections /\ req[c].step # "idle"
      BY <1>4, <2>2 DEF Finish, Issue
    <3>2. Sign(c, req[c].what) /\ req[c].what \in Userauth \cup {Other}
      BY <2>2, <3>1 DEF Issue, Sign, FitsStill
    <3> QED
      BY <3>1, <3>2 DEF Next
  <2> QED
    BY <1>4, <2>1, <2>2 DEF Finish
<1>5. ASSUME NEW c \in Clients, Return(c) PROVE [Next]_vars
  BY <1>5 DEF Return, Next
<1>6. ASSUME NEW key \in PlainKeys, NEW session \in Sessions, ProveHost(key, session)
      PROVE  Next
  BY <1>6 DEF ProveHost, Next
<1>7. CASE World
  BY <1>7 DEF World, TurnTree, EditFile, ForgetApprovals
<1>8. CASE UNCHANGED allVars
  BY <1>8 DEF allVars
<1> QED
  BY <1>1, <1>2, <1>3, <1>4, <1>5, <1>6, <1>7, <1>8, StepsOf

-----------------------------------------------------------------------------
(* The types.                                                              *)

\* The requests of all clients, after a step that changes one of them at most.
StepsTyped == \A c \in Clients : req[c].step \in Steps

LEMMA StepsTypedStep == Shaped /\ TypeOK /\ StepsTyped /\ [AskNext]_allVars => StepsTyped'
<1> SUFFICES ASSUME Shaped, TypeOK, StepsTyped, [AskNext]_allVars PROVE StepsTyped'
  OBVIOUS
<1> USE DEF StepsTyped, Steps
<1>1. ASSUME UNCHANGED req PROVE StepsTyped'
  BY <1>1
<1>2. ASSUME NEW c \in Connections, Message(c) PROVE StepsTyped'
  BY <1>1, <1>2, MessageLeaves DEF askVars
<1>3. ASSUME NEW c \in Clients, NEW key \in Keys, NEW what \in Userauth \cup {Other},
             Arrive(c, key, what)
      PROVE  StepsTyped'
  BY <1>3, ArriveStarts
<1>4. ASSUME NEW c \in Clients, ReadFile(c) \/ Approve(c) PROVE StepsTyped'
  BY <1>4 DEF ReadFile, Approve, Shaped, Fields
<1>5. ASSUME NEW c \in Clients, NEW ctx, NEW question, NEW otherwise \in {"waiting", "prompting"},
             req[c].step # "idle", Asked(c, ctx, question, otherwise)
      PROVE  StepsTyped'
  BY <1>5, AskedMoves DEF Moves
<1>6. ASSUME NEW c \in Clients, Named(c) \/ Enter(c) PROVE StepsTyped'
  BY <1>5, <1>6 DEF Named, Enter
<1>7. ASSUME NEW c \in Clients, Deny(c) \/ Finish(c) PROVE StepsTyped'
  BY <1>7, EndForgets DEF Deny, Finish
<1>8. ASSUME NEW c \in Clients, Return(c) PROVE StepsTyped'
  BY <1>1, <1>8, ReturnLeaves
<1>9. ASSUME NEW key \in PlainKeys, NEW session \in Sessions, ProveHost(key, session)
      PROVE  StepsTyped'
  BY <1>1, <1>9 DEF ProveHost, askVars
<1>10. CASE World
  BY <1>10, WorldLeaves DEF Untouched
<1>11. CASE UNCHANGED allVars
  BY <1>1, <1>11 DEF allVars, askVars
<1> QED
  BY <1>2, <1>3, <1>4, <1>6, <1>7, <1>8, <1>9, <1>10, <1>11, StepsOf

LEMMA QuestionsTypeStep ==
    Shaped /\ TypeOK /\ QuestionsTypeOK /\ [AskNext]_allVars => QuestionsTypeOK'
<1> SUFFICES ASSUME Shaped, TypeOK, QuestionsTypeOK, [AskNext]_allVars PROVE QuestionsTypeOK'
  OBVIOUS
<1>1. StepsTyped'
  BY StepsTypedStep DEF StepsTyped, QuestionsTypeOK
<1> DEFINE Others == /\ tree' \in Trees
                     /\ files' \in [1 .. NumFiles -> Contents]
                     /\ peer' \in [Clients -> Peers \cup {NoPeer}]
                     /\ gate' \in Clients \cup {Nobody}
                     /\ NoQuestion \notin remembered'
                     /\ changes' \in 0 .. MaxChanges
<1> SUFFICES Others
  BY <1>1 DEF StepsTyped, QuestionsTypeOK
<1>2. ASSUME UNCHANGED <<tree, files, peer, remembered, changes>>, gate' \in Clients \cup {Nobody, gate}
      PROVE  Others
  BY <1>2 DEF QuestionsTypeOK
<1>3. ASSUME NEW c \in Connections, Message(c) PROVE Others
  BY <1>2, <1>3, MessageLeaves DEF askVars
<1>4. ASSUME NEW c \in Clients, NEW key \in Keys, NEW what \in Userauth \cup {Other},
             Arrive(c, key, what)
      PROVE  Others
  BY <1>2, <1>4 DEF Arrive
<1>5. ASSUME NEW c \in Clients, ReadFile(c) \/ Named(c) \/ Enter(c) \/ Approve(c) PROVE Others
  BY <1>2, <1>5 DEF ReadFile, Named, Enter, Approve
<1>6. ASSUME NEW c \in Clients, Deny(c) PROVE Others
  BY <1>2, <1>6 DEF Deny, End, LetGo
<1>7. ASSUME NEW c \in Clients, Finish(c) PROVE Others
  BY <1>7 DEF Finish, End, LetGo, Remember, QuestionsTypeOK
<1>8. ASSUME NEW c \in Clients, Return(c) PROVE Others
  <2>1. peer' \in [Clients -> Peers \cup {NoPeer}]
    BY <1>8 DEF Return, QuestionsTypeOK
  <2> QED
    BY <1>8, <2>1 DEF Return, QuestionsTypeOK
<1>9. ASSUME NEW key \in PlainKeys, NEW session \in Sessions, ProveHost(key, session)
      PROVE  Others
  BY <1>2, <1>9 DEF ProveHost, askVars
<1>10. ASSUME Change PROVE changes' \in 0 .. MaxChanges
  BY <1>10, BoundsAssumption DEF Change, QuestionsTypeOK
<1>11. CASE World
  <2>1. CASE TurnTree
    BY <1>10, <2>1 DEF TurnTree, QuestionsTypeOK
  <2>2. CASE EditFile
    <3>1. files' \in [1 .. NumFiles -> Contents]
      BY <2>2 DEF EditFile, QuestionsTypeOK
    <3> QED
      BY <1>10, <2>2, <3>1 DEF EditFile, QuestionsTypeOK
  <2>3. CASE ForgetApprovals
    BY <2>3 DEF ForgetApprovals, QuestionsTypeOK
  <2> QED
    BY <1>11, <2>1, <2>2, <2>3 DEF World
<1>12. CASE UNCHANGED allVars
  BY <1>2, <1>12 DEF allVars, askVars
<1> QED
  BY <1>3, <1>4, <1>5, <1>6, <1>7, <1>8, <1>9, <1>11, <1>12, StepsOf

\* The invariant; the types of the chains are SessionBind's.
LEMMA AskKeepsInv == AskSpec => [](TypeOK /\ AskInv)
<1>1. AskInit => TypeOK /\ AskInv
  BY DEF AskInit, Init, TypeOK, AskInv, Shaped, FitsStill, GateHeld, HostsAreBound, NoRequest,
         Clients
<1>2. TypeOK /\ AskInv /\ [AskNext]_allVars => (TypeOK /\ AskInv)'
  <2>1. TypeOK /\ [Next]_vars => TypeOK'
    BY TypeStep
  <2> QED
    BY <2>1, AskStep, ShapedStep, FitsStep, GateStep, HostsStep DEF AskInv
<1> QED
  BY <1>1, <1>2, PTL DEF AskSpec

(***************************************************************************)
(* What a request, the gate and the store of approvals are is what their   *)
(* type says: no unknown requester's question is remembered among them.    *)
(***************************************************************************)
THEOREM QuestionsTypeCorrect == AskSpec => []QuestionsTypeOK
<1>1. AskInit => QuestionsTypeOK
  BY BoundsAssumption DEF AskInit, QuestionsTypeOK, NoRequest, Steps
<1>2. AskInv => Shaped
  BY DEF AskInv
<1> QED
  BY <1>1, <1>2, QuestionsTypeStep, AskKeepsInv, PTL DEF AskSpec

(***************************************************************************)
(* With its questions, a connection does what SessionBind says: nothing is *)
(* bound or asked of it between what a request was checked against and its *)
(* signature (agent.rs, handle and sign).                                  *)
(***************************************************************************)
THEOREM AsksAsBound == AskSpec => BindsAsSpecified
<1>1. AskInit => Init
  BY DEF AskInit
<1>2. AskInv => FitsStill
  BY DEF AskInv
<1> QED
  BY <1>1, <1>2, AskStep, AskKeepsInv, PTL DEF AskSpec, BindsAsSpecified, Spec

(***************************************************************************)
(* The hosts of a prompt, and the forwarding it warns of, are those bound  *)
(* when the signature is issued, however long the user took (approval_for, *)
(* named_bindings).                                                        *)
(***************************************************************************)
THEOREM ShownHostsAreBound == AskSpec => []HostsAreBound
<1>1. AskInv => HostsAreBound
  BY DEF AskInv
<1> QED
  BY <1>1, AskKeepsInv, PTL

(***************************************************************************)
(* No prompt goes up for a question that a remembered yes answers, nor for *)
(* one the user has just said yes to (approval_for, under the gate).       *)
(***************************************************************************)
THEOREM AskedOnce == AskSpec => NotAskedTwice
<1> DEFINE Once(c) == /\ req'[c].question \notin remembered
                      /\ \A other \in Clients \ {c} :
                            req[other].step = "signing" /\ req[other].from = "user"
                                => req[other].question # req'[c].question
<1>1. ASSUME Shaped, GateHeld, AskNext, NEW c \in Clients,
             req[c].step # "prompting", req'[c].step = "prompting"
      PROVE  Once(c)
  <2>1. Enter(c)
    <3>1. ASSUME NEW d \in Connections, Message(d) PROVE FALSE
      BY <1>1, <3>1 DEF Message, BindHost, SignUnasked, askVars
    <3>2. ASSUME NEW d \in Clients, NEW key \in Keys, NEW what \in Userauth \cup {Other},
                 Arrive(d, key, what)
          PROVE  FALSE
      BY <1>1, <3>2, ArriveStarts
    <3>3. ASSUME NEW d \in Clients, d # c, Moves(d) PROVE FALSE
      BY <1>1, <3>3 DEF Moves
    <3>4. ASSUME ReadFile(c) \/ Approve(c) PROVE FALSE
      BY <1>1, <3>4 DEF ReadFile, Approve, Shaped, Fields
    <3>5. ASSUME Named(c) PROVE FALSE
      <4>1. PICK ctx : Asked(c, ctx, Question(ctx), "waiting")
        BY <3>5 DEF Named
      <4>2. req[c].step # "idle"
        BY <3>5 DEF Named
      <4> QED
        BY <1>1, <4>1, <4>2, AskedMoves
    <3>6. ASSUME NEW d \in Clients, Deny(d) \/ Finish(d) PROVE FALSE
      BY <1>1, <3>6, EndForgets DEF Deny, Finish
    <3>7. ASSUME NEW d \in Clients, Return(d) PROVE FALSE
      BY <1>1, <3>7 DEF Return
    <3>8. ASSUME NEW key \in PlainKeys, NEW session \in Sessions, ProveHost(key, session)
          PROVE  FALSE
      BY <1>1, <3>8 DEF ProveHost, askVars
    <3>9. ASSUME World PROVE FALSE
      BY <1>1, <3>9, WorldLeaves DEF Untouched
    <3> QED
      BY <1>1, <3>1, <3>2, <3>3, <3>4, <3>5, <3>6, <3>7, <3>8, <3>9, StepsOf, ServeMoves
  <2>2. gate = Nobody /\ req'[c].question \notin remembered
    BY <1>1, <2>1, AskedMoves DEF Enter
  <2> QED
    BY <1>1, <2>2, ClientAssumption DEF GateHeld
<1>2. AskInv /\ [AskNext]_allVars =>
          [\A c \in Clients :
              (req[c].step # "prompting" /\ req'[c].step = "prompting") => Once(c)]_allVars
  BY <1>1 DEF AskInv
<1> QED
  BY <1>2, AskKeepsInv, PTL DEF AskSpec, NotAskedTwice

-----------------------------------------------------------------------------
(* Induction, and functions defined by recursion.                          *)

\* What holds of 0, and of n + 1 if it does of n, holds of every natural number: an f that
\* moves the numbers outside down by one is one-to-one, until there are none.
LEMMA Induction ==
    ASSUME NEW S, 0 \in S, \A n \in Nat : n \in S => n + 1 \in S
    PROVE  Nat \subseteq S
<1>1. SUFFICES ASSUME NEW k \in Nat, k \notin S PROVE FALSE
  OBVIOUS
<1> DEFINE f == [x \in 0 .. k |-> IF x \in S THEN x ELSE x - 1]
<1>2. k > 0
  BY <1>1
<1>3. f \in [0 .. k -> 0 .. k - 1]
  BY <1>1, <1>2
<1>4. \A x, y \in 0 .. k : x # y => f[x] # f[y]
  <2> SUFFICES ASSUME NEW x \in 0 .. k, NEW y \in 0 .. k,
                      x # y, x \in S, y \notin S, x = y - 1
               PROVE  FALSE
    OBVIOUS
  <2> QED
    OBVIOUS
<1>5. /\ IsFiniteSet(0 .. k) /\ IsFiniteSet(0 .. k - 1)
      /\ Cardinality(0 .. k) = k + 1 /\ Cardinality(0 .. k - 1) = k
  BY <1>2, FS_Interval
<1> HIDE DEF f
<1>6. Cardinality(0 .. k - 1) < Cardinality(0 .. k)
  BY <1>5
<1> QED
  BY <1>2, <1>3, <1>4, <1>5, <1>6, FS_PigeonHole

\* A function from 0 .. N to S that starts at s0 and goes on by the steps F.
Follows(g, N, S, s0, F) ==
    /\ g \in [0 .. N -> S]
    /\ g[0] = s0
    /\ \A n \in 1 .. N : g[n] = F[n][g[n - 1]]

LEMMA Recursion ==
    ASSUME NEW N \in Nat, NEW S, NEW s0 \in S, NEW F \in [1 .. N -> [S -> S]]
    PROVE  \E g : Follows(g, N, S, s0, F)
<1> DEFINE Reached == {n \in Nat : n <= N => \E g : Follows(g, n, S, s0, F)}
<1>1. 0 \in Reached
  <2> DEFINE g == [k \in 0 .. 0 |-> s0]
  <2>1. g \in [0 .. 0 -> S] /\ g[0] = s0 /\ 1 .. 0 = {}
    OBVIOUS
  <2>2. Follows(g, 0, S, s0, F)
    BY <2>1 DEF Follows
  <2> QED
    BY <2>2
<1>2. ASSUME NEW n \in Nat, n \in Reached PROVE n + 1 \in Reached
  <2> SUFFICES ASSUME n + 1 <= N PROVE \E h : Follows(h, n + 1, S, s0, F)
    OBVIOUS
  <2>1. PICK g : Follows(g, n, S, s0, F)
    BY <1>2
  <2> DEFINE next == F[n + 1][g[n]]
             h == [k \in 0 .. n + 1 |-> IF k = n + 1 THEN next ELSE g[k]]
  <2>2. next \in S
    <3>1. n + 1 \in 1 .. N /\ g[n] \in S
      BY <2>1 DEF Follows
    <3> QED
      BY <3>1
  <2>3. \A k \in 1 .. n : g[k] = F[k][g[k - 1]]
    BY <2>1 DEF Follows
  <2> HIDE DEF next
  <2>4. h \in [0 .. n + 1 -> S] /\ h[0] = s0
    BY <2>1, <2>2 DEF Follows
  <2>5. \A k \in 0 .. n : h[k] = g[k]
    OBVIOUS
  <2>6. h[n + 1] = next
    OBVIOUS
  <2> HIDE DEF h
  <2>7. ASSUME NEW k \in 1 .. n + 1 PROVE h[k] = F[k][h[k - 1]]
    <3>1. CASE k = n + 1
      BY <2>5, <2>6, <3>1 DEF next
    <3>2. CASE k \in 1 .. n
      <4>1. h[k] = g[k] /\ h[k - 1] = g[k - 1]
        BY <2>5, <3>2
      <4> QED
        BY <2>3, <3>2, <4>1
    <3> QED
      BY <3>1, <3>2
  <2>8. Follows(h, n + 1, S, s0, F)
    BY <2>4, <2>7 DEF Follows
  <2> QED
    BY <2>8
<1>3. Nat \subseteq Reached
  <2> HIDE DEF Reached
  <2> QED
    BY <1>1, <1>2, Induction
<1> QED
  BY <1>3

\* Two functions that start alike and go on alike are alike.
GoOnAlike(g, h, N) ==
    /\ g[0] = h[0]
    /\ \A n \in 1 .. N : g[n - 1] = h[n - 1] => g[n] = h[n]

LEMMA Agreement ==
    ASSUME NEW N \in Nat, NEW g, NEW h, GoOnAlike(g, h, N)
    PROVE  \A n \in 0 .. N : g[n] = h[n]
<1> DEFINE Alike == {n \in Nat : n <= N => g[n] = h[n]}
<1>1. 0 \in Alike
  BY DEF GoOnAlike
<1>2. ASSUME NEW n \in Nat, n \in Alike PROVE n + 1 \in Alike
  <2> SUFFICES ASSUME n + 1 <= N PROVE g[n + 1] = h[n + 1]
    OBVIOUS
  <2>1. g[n] = h[n] /\ n + 1 \in 1 .. N /\ (n + 1) - 1 = n
    BY <1>2
  <2> QED
    BY <2>1 DEF GoOnAlike
<1>3. Nat \subseteq Alike
  <2> HIDE DEF Alike
  <2> QED
    BY <1>1, <1>2, Induction
<1> QED
  BY <1>3

-----------------------------------------------------------------------------
(* Texts joined by a separator.                                            *)

\* What Joined builds, from one text to the next.
Joining(join, texts, separator, S) ==
    /\ join \in [0 .. Len(texts) -> Seq(S)]
    /\ Joined(texts, separator) = join[Len(texts)]
    /\ join[0] = <<>>
    /\ \A n \in 1 .. Len(texts) :
          join[n] = IF n = 1 THEN texts[1] ELSE join[n - 1] \o <<separator>> \o texts[n]

LEMMA JoinedIsJoining ==
    ASSUME NEW S, NEW texts \in Seq(Seq(S)), NEW separator \in S
    PROVE  \E join : Joining(join, texts, separator, S)
<1> DEFINE N == Len(texts)
           All == Seq(S)
           After(n, text) == IF n = 1 THEN texts[1] ELSE text \o <<separator>> \o texts[n]
           F == [n \in 1 .. N |-> [text \in All |-> After(n, text)]]
           Defines(g) == g = [n \in 0 .. N |->
                IF n = 0 THEN <<>>
                ELSE IF n = 1 THEN texts[1] ELSE g[n - 1] \o <<separator>> \o texts[n]]
           join == CHOOSE g : Defines(g)
<1>1. N \in Nat /\ \A n \in 1 .. N : texts[n] \in All /\ n \in 0 .. N /\ n # 0 /\ n - 1 \in 0 .. N
  OBVIOUS
<1>2. F \in [1 .. N -> [All -> All]]
  <2>1. ASSUME NEW n \in 1 .. N, NEW text \in All PROVE After(n, text) \in All
    BY <1>1
  <2> QED
    BY <2>1
<1>3. <<>> \in All
  OBVIOUS
<1>4. PICK h : Follows(h, N, All, <<>>, F)
  <2> HIDE DEF F, N, All
  <2> QED
    BY <1>1, <1>2, <1>3, Recursion
<1> HIDE DEF All
<1>5. ASSUME NEW n \in 1 .. N PROVE h[n] = After(n, h[n - 1])
  BY <1>1, <1>4 DEF Follows
<1>6. h \in [0 .. N -> All] /\ h[0] = <<>>
  BY <1>4 DEF Follows
<1> HIDE DEF F, N
<1>7. Defines(h)
  <2>1. h = [n \in 0 .. N |-> h[n]]
    BY <1>6
  <2>2. \A n \in 0 .. N : n = 0 \/ n \in 1 .. N
    BY <1>1
  <2> QED
    BY <1>5, <1>6, <2>1, <2>2
<1>8. Defines(join)
  <2> HIDE DEF Defines
  <2> QED
    BY <1>7
<1>9. Joined(texts, separator) = join[N]
  BY Zenon DEF Joined, N
<1> HIDE DEF join
<1>10. join = [n \in 0 .. N |-> join[n]] /\ join[0] = <<>>
  BY <1>1, <1>8
<1>11. \A n \in 1 .. N : join[n] = After(n, join[n - 1])
  BY <1>1, <1>8
<1> HIDE DEF After
<1>12. \A n \in 0 .. N : join[n] = h[n]
  <2>1. \A n \in 1 .. N : join[n - 1] = h[n - 1] => join[n] = h[n]
    BY <1>5, <1>11
  <2>2. N \in Nat
    BY <1>1
  <2>3. GoOnAlike(join, h, N)
    BY <1>6, <1>10, <2>1 DEF GoOnAlike
  <2> QED
    BY <2>2, <2>3, Agreement
<1>13. join \in [0 .. N -> All]
  BY <1>6, <1>10, <1>12
<1> QED
  BY <1>9, <1>10, <1>11, <1>13 DEF Joining, After, N, All

\* Where a separator is for the last time, a text comes apart in one way only.
LEMMA ComesApart ==
    ASSUME NEW S, NEW sep \in S, NEW a \in Seq(S), NEW b \in Seq(S),
           NEW x \in Seq(S \ {sep}), NEW y \in Seq(S \ {sep}),
           a \o <<sep>> \o x = b \o <<sep>> \o y
    PROVE  a = b /\ x = y
<1> DEFINE left == a \o <<sep>> \o x
           right == b \o <<sep>> \o y
<1>1. x \in Seq(S) /\ y \in Seq(S) /\ <<sep>> \in Seq(S)
  OBVIOUS
<1>2. ASSUME NEW s \in Seq(S), NEW t \in Seq(S)
      PROVE  LET all == s \o <<sep>> \o t
             IN  /\ Len(all) = Len(s) + 1 + Len(t)
                 /\ all[Len(s) + 1] = sep
                 /\ \A i \in 1 .. Len(s) : all[i] = s[i]
                 /\ \A i \in 1 .. Len(t) : all[Len(s) + 1 + i] = t[i]
  <2> DEFINE first == s \o <<sep>>
  <2>1. first \in Seq(S) /\ Len(first) = Len(s) + 1 /\ first[Len(s) + 1] = sep
    OBVIOUS
  <2>2. \A i \in 1 .. Len(s) : first[i] = s[i]
    OBVIOUS
  <2> HIDE DEF first
  <2> DEFINE all == first \o t
  <2>3. /\ Len(s) \in Nat /\ Len(t) \in Nat /\ Len(all) = Len(s) + 1 + Len(t)
        /\ \A i \in 1 .. Len(s) + 1 + Len(t) :
              all[i] = IF i <= Len(s) + 1 THEN first[i] ELSE t[i - (Len(s) + 1)]
    <3>1. /\ Len(all) = Len(first) + Len(t)
          /\ \A i \in 1 .. Len(first) + Len(t) :
                all[i] = IF i <= Len(first) THEN first[i] ELSE t[i - Len(first)]
      BY <2>1, ConcatProperties
    <3> QED
      BY <2>1, <3>1
  <2> HIDE DEF all
  <2>4. ASSUME NEW i \in 1 .. Len(t) PROVE all[Len(s) + 1 + i] = t[i]
    <3> DEFINE k == Len(s) + 1 + i
    <3>1. /\ k \in 1 .. Len(s) + 1 + Len(t) /\ ~(k <= Len(s) + 1)
          /\ k - (Len(s) + 1) = i
      BY <2>3
    <3> HIDE DEF k
    <3>2. all[k] = t[i]
      BY <2>3, <3>1
    <3> QED
      BY <3>2 DEF k
  <2>5. /\ all[Len(s) + 1] = first[Len(s) + 1]
        /\ \A i \in 1 .. Len(s) : all[i] = first[i]
    BY <2>3
  <2> QED
    BY <2>1, <2>2, <2>3, <2>4, <2>5 DEF first, all
<1>3. /\ Len(left) = Len(a) + 1 + Len(x) /\ left[Len(a) + 1] = sep
      /\ \A i \in 1 .. Len(a) : left[i] = a[i]
      /\ \A i \in 1 .. Len(x) : left[Len(a) + 1 + i] = x[i]
  BY <1>1, <1>2
<1>4. /\ Len(right) = Len(b) + 1 + Len(y) /\ right[Len(b) + 1] = sep
      /\ \A i \in 1 .. Len(b) : right[i] = b[i]
      /\ \A i \in 1 .. Len(y) : right[Len(b) + 1 + i] = y[i]
  BY <1>1, <1>2
<1>5. left = right
  OBVIOUS
<1> HIDE DEF left, right
<1>6. Len(a) \in Nat /\ Len(b) \in Nat /\ Len(x) \in Nat /\ Len(y) \in Nat
  OBVIOUS
<1>7. \A i \in 1 .. Len(x) : x[i] # sep
  OBVIOUS
<1>8. \A i \in 1 .. Len(y) : y[i] # sep
  OBVIOUS
<1>9. ~ Len(a) < Len(b)
  <2> SUFFICES ASSUME Len(a) < Len(b) PROVE FALSE
    OBVIOUS
  <2> DEFINE i == Len(b) - Len(a)
  <2>1. i \in 1 .. Len(x) /\ Len(a) + 1 + i = Len(b) + 1
    BY <1>3, <1>4, <1>5, <1>6
  <2>2. left[Len(b) + 1] = x[i]
    BY <1>3, <2>1
  <2> HIDE DEF i
  <2> QED
    BY <1>4, <1>5, <1>7, <2>1, <2>2
<1>10. ~ Len(b) < Len(a)
  <2> SUFFICES ASSUME Len(b) < Len(a) PROVE FALSE
    OBVIOUS
  <2> DEFINE i == Len(a) - Len(b)
  <2>1. i \in 1 .. Len(y) /\ Len(b) + 1 + i = Len(a) + 1
    BY <1>3, <1>4, <1>5, <1>6
  <2>2. right[Len(a) + 1] = y[i]
    BY <1>4, <2>1
  <2> HIDE DEF i
  <2> QED
    BY <1>3, <1>5, <1>8, <2>1, <2>2
<1>11. Len(a) = Len(b) /\ Len(x) = Len(y)
  BY <1>3, <1>4, <1>5, <1>6, <1>9, <1>10
<1>12. \A i \in 1 .. Len(a) : a[i] = b[i]
  BY <1>3, <1>4, <1>5, <1>11
<1>13. \A i \in 1 .. Len(x) : x[i] = y[i]
  BY <1>3, <1>4, <1>5, <1>11
<1>14. a = b
  BY <1>11, <1>12
<1> QED
  BY <1>11, <1>13, <1>14

\* A separator is in what it separates.
LEMMA SeparatorShows ==
    ASSUME NEW S, NEW sep \in S, NEW a \in Seq(S), NEW x \in Seq(S), NEW y \in Seq(S \ {sep})
    PROVE  a \o <<sep>> \o x # y
<1> DEFINE first == a \o <<sep>>
<1>1. first \in Seq(S) /\ Len(first) = Len(a) + 1 /\ first[Len(a) + 1] = sep
  OBVIOUS
<1> HIDE DEF first
<1>2. (first \o x)[Len(a) + 1] = sep /\ Len(a) + 1 \in 1 .. Len(first \o x)
  BY <1>1
<1>3. \A i \in 1 .. Len(y) : y[i] # sep
  OBVIOUS
<1> QED
  BY <1>2, <1>3 DEF first

\* Lists of texts without the separator that are joined to one text are one list, unless
\* one of them is empty.
LEMMA JoinedOnce ==
    ASSUME NEW S, NEW sep \in S,
           NEW a \in Seq(Seq(S \ {sep})), NEW b \in Seq(Seq(S \ {sep})),
           a # <<>>, b # <<>>, Joined(a, sep) = Joined(b, sep)
    PROVE  a = b
<1> DEFINE Plain == Seq(S \ {sep})
<1>1. /\ a \in Seq(Seq(S)) /\ b \in Seq(Seq(S)) /\ Len(a) \in Nat \ {0} /\ Len(b) \in Nat \ {0}
      /\ \A i \in 1 .. Len(a) : a[i] \in Plain
      /\ \A i \in 1 .. Len(b) : b[i] \in Plain
  OBVIOUS
<1>2. PICK ja : Joining(ja, a, sep, S)
  BY <1>1, JoinedIsJoining
<1>3. PICK jb : Joining(jb, b, sep, S)
  BY <1>1, JoinedIsJoining
<1> DEFINE N == Len(a)
           M == Len(b)
<1>4. /\ N \in Nat \ {0} /\ M \in Nat \ {0}
      /\ ja \in [0 .. N -> Seq(S)] /\ jb \in [0 .. M -> Seq(S)] /\ ja[N] = jb[M]
      /\ \A i \in 1 .. N : ja[i] = IF i = 1 THEN a[1] ELSE ja[i - 1] \o <<sep>> \o a[i]
      /\ \A i \in 1 .. M : jb[i] = IF i = 1 THEN b[1] ELSE jb[i - 1] \o <<sep>> \o b[i]
  BY <1>1, <1>2, <1>3 DEF Joining
<1> HIDE DEF Plain, N, M
<1>5. /\ \A i \in 1 .. N : i - 1 \in 0 .. N /\ i \in 0 .. N /\ i \in Nat
      /\ \A i \in 1 .. M : i - 1 \in 0 .. M /\ i \in 0 .. M /\ i \in Nat
  BY <1>4
<1>6. /\ ja[1] = a[1]
      /\ \A i \in 1 .. N : /\ ja[i - 1] \in Seq(S) /\ ja[i] \in Seq(S) /\ a[i] \in Plain
                           /\ i # 1 => ja[i] = ja[i - 1] \o <<sep>> \o a[i]
  <2>1. 1 \in 1 .. N /\ \A i \in 1 .. N : a[i] \in Plain
    BY <1>1, <1>4 DEF N
  <2> QED
    BY <1>4, <1>5, <2>1
<1>7. /\ jb[1] = b[1]
      /\ \A i \in 1 .. M : /\ jb[i - 1] \in Seq(S) /\ jb[i] \in Seq(S) /\ b[i] \in Plain
                           /\ i # 1 => jb[i] = jb[i - 1] \o <<sep>> \o b[i]
  <2>1. 1 \in 1 .. M /\ \A i \in 1 .. M : b[i] \in Plain
    BY <1>1, <1>4 DEF M
  <2> QED
    BY <1>4, <1>5, <2>1
<1>8. \A x \in Plain : x \in Seq(S)
  BY DEF Plain
<1> DEFINE Same(n) == \A m \in 1 .. M : ja[n] = jb[m] => n = m /\ \A i \in 1 .. n : a[i] = b[i]
           Alike == {n \in Nat : n + 1 <= N => Same(n + 1)}
<1>9. 0 \in Alike
  <2> SUFFICES ASSUME NEW m \in 1 .. M, ja[1] = jb[m] PROVE m = 1 /\ a[1] = b[1]
    OBVIOUS
  <2>1. 1 \in 1 .. N
    BY <1>4
  <2>2. ASSUME m # 1 PROVE FALSE
    <3>1. a[1] = jb[m - 1] \o <<sep>> \o b[m]
      BY <1>6, <1>7, <2>2
    <3>2. jb[m - 1] \in Seq(S) /\ b[m] \in Seq(S) /\ a[1] \in Plain
      BY <1>6, <1>7, <1>8, <2>1
    <3> QED
      BY <3>1, <3>2, SeparatorShows DEF Plain
  <2> QED
    BY <1>6, <1>7, <2>2
<1>10. ASSUME NEW n \in Nat, n \in Alike PROVE n + 1 \in Alike
  <2> DEFINE k == n + 1
             l == k + 1
  <2> SUFFICES ASSUME l <= N, NEW m \in 1 .. M, ja[l] = jb[m]
               PROVE  l = m /\ \A i \in 1 .. l : a[i] = b[i]
    OBVIOUS
  <2>1. l \in 1 .. N /\ l # 1 /\ k \in 1 .. N /\ l - 1 = k
    BY <1>4
  <2>2. Same(k)
    BY <1>10, <2>1
  <2> HIDE DEF k
  <2>3. ja[l] = ja[k] \o <<sep>> \o a[l] /\ ja[k] \in Seq(S) /\ a[l] \in Plain
    BY <1>6, <2>1
  <2> HIDE DEF l
  <2>4. m # 1
    <3> SUFFICES ASSUME m = 1 PROVE FALSE
      OBVIOUS
    <3>1. jb[m] \in Plain /\ a[l] \in Seq(S)
      BY <1>7, <1>8, <2>3
    <3> QED
      BY <2>3, <3>1, SeparatorShows DEF Plain
  <2>5. jb[m] = jb[m - 1] \o <<sep>> \o b[m] /\ jb[m - 1] \in Seq(S) /\ b[m] \in Plain
    BY <1>7, <2>4
  <2>6. ja[k] = jb[m - 1] /\ a[l] = b[m]
    <3> DEFINE before == jb[m - 1]
               left == ja[k]
    <3>1. /\ left \in Seq(S) /\ before \in Seq(S)
          /\ a[l] \in Seq(S \ {sep}) /\ b[m] \in Seq(S \ {sep})
          /\ left \o <<sep>> \o a[l] = before \o <<sep>> \o b[m]
      BY <2>3, <2>5 DEF Plain
    <3> HIDE DEF before, left
    <3>2. left = before /\ a[l] = b[m]
      BY <3>1, ComesApart
    <3> QED
      BY <3>2 DEF before, left
  <2>7. m - 1 \in 1 .. M
    BY <1>4, <2>4
  <2>8. k = m - 1 /\ \A i \in 1 .. k : a[i] = b[i]
    BY <2>2, <2>6, <2>7
  <2>9. l = m /\ \A i \in 1 .. l : i \in 1 .. k \/ i = l
    BY <1>4, <2>1, <2>8
  <2> QED
    BY <2>6, <2>8, <2>9
<1>11. Nat \subseteq Alike
  <2> HIDE DEF Alike
  <2> QED
    BY <1>9, <1>10, Induction
<1>12. Same(N)
  <2>1. N - 1 \in Nat /\ (N - 1) + 1 = N /\ N <= N
    BY <1>4
  <2>2. N - 1 \in Alike
    BY <1>11, <2>1
  <2> HIDE DEF Same
  <2>3. Same((N - 1) + 1)
    BY <2>1, <2>2
  <2> QED
    BY <2>1, <2>3
<1>13. N = M /\ \A i \in 1 .. N : a[i] = b[i]
  BY <1>4, <1>12
<1> QED
  <2>1. a \in Seq(Plain) /\ b \in Seq(Plain)
    BY DEF Plain
  <2> QED
    BY <1>13, <2>1, SeqEqual DEF N, M

-----------------------------------------------------------------------------
(* What is made of text.                                                   *)

\* What can be in a text once it is escaped; nothing that separates can.
Printable == {EscapeOf(glyph) : glyph \in Glyphs}
Controls == {"\n", "RS", "US"}
Printed == Seq(Printable)

LEMMA PrintableIsNoControl == Printable \cap Controls = {}
<1> SUFFICES ASSUME NEW glyph \in Glyphs PROVE EscapeOf(glyph) \notin Controls
  BY DEF Printable
<1> QED
  BY DEF EscapeOf, Controls

LEMMA EscapedIsPrinted ==
    ASSUME NEW text \in Text
    PROVE  Escaped(text) \in Printed /\ Len(Escaped(text)) = Len(text)
<1>1. Len(text) \in Nat /\ DOMAIN text = 1 .. Len(text)
  BY DEF Text
<1>2. \A i \in 1 .. Len(text) : EscapeOf(text[i]) \in Printable
  BY DEF Text, Printable
<1>3. Escaped(text) \in [1 .. Len(text) -> Printable]
  BY <1>1, <1>2 DEF Escaped
<1> HIDE DEF Printable
<1> QED
  BY <1>1, <1>3 DEF Printed

\* Fingerprints and uids print as they are.
LEMMA PrintedAsTheyAre ==
    /\ \A key \in PlainKeys : key \in Printable /\ <<key>> \in Text /\ Escaped(<<key>>) = <<key>>
    /\ \A client \in Peers : client.uid \in Printable
<1>1. \A printed \in PlainKeys \cup {client.uid : client \in Peers} :
          printed \in Glyphs /\ printed \in Printable /\ EscapeOf(printed) = printed
  BY TextAssumption DEF Printable
<1>2. ASSUME NEW key \in PlainKeys
      PROVE  <<key>> \in Text /\ Escaped(<<key>>) = <<key>>
  <2>1. key \in Glyphs /\ EscapeOf(key) = key
    BY <1>1
  <2>2. Escaped(<<key>>) = [i \in 1 .. 1 |-> key]
    BY <2>1 DEF Escaped
  <2> QED
    BY <2>1, <2>2 DEF Text
<1> QED
  BY <1>1, <1>2

\* What is joined is made of what its texts and the separator are.
LEMMA JoinedIsText ==
    ASSUME NEW S, NEW texts \in Seq(Seq(S)), NEW separator \in S
    PROVE  Joined(texts, separator) \in Seq(S)
<1>1. PICK join : Joining(join, texts, separator, S)
  BY JoinedIsJoining
<1> QED
  BY <1>1 DEF Joining

\* Nothing is joined to nothing, and only to that, where there are no empty texts.
LEMMA JoinedToNothing ==
    ASSUME NEW S, NEW texts \in Seq(Seq(S) \ {<<>>}), NEW separator \in S
    PROVE  Joined(texts, separator) = <<>> <=> texts = <<>>
<1> DEFINE N == Len(texts)
<1>1. /\ texts \in Seq(Seq(S)) /\ N \in Nat /\ (N = 0 <=> texts = <<>>)
      /\ \A i \in 1 .. N : texts[i] \in Seq(S) /\ texts[i] # <<>>
  OBVIOUS
<1>2. PICK join : Joining(join, texts, separator, S)
  BY <1>1, JoinedIsJoining
<1> HIDE DEF N
<1>3. CASE N = 0
  BY <1>1, <1>2, <1>3 DEF Joining, N
<1>4. CASE N = 1
  <2>1. Joined(texts, separator) = texts[1]
    BY <1>1, <1>2, <1>4 DEF Joining, N
  <2> QED
    BY <1>1, <1>4, <2>1
<1>5. CASE N > 1
  <2> DEFINE before == join[N - 1]
             last == texts[N]
  <2>1. /\ before \in Seq(S) /\ last \in Seq(S)
        /\ Joined(texts, separator) = before \o <<separator>> \o last
    <3>1. N \in 1 .. N /\ N - 1 \in 0 .. N /\ N # 1
      BY <1>1, <1>5
    <3>2. /\ join \in [0 .. N -> Seq(S)] /\ Joined(texts, separator) = join[N]
          /\ \A n \in 1 .. N :
                join[n] = IF n = 1 THEN texts[1] ELSE join[n - 1] \o <<separator>> \o texts[n]
      BY <1>2 DEF Joining, N
    <3> QED
      BY <1>1, <3>1, <3>2
  <2> HIDE DEF before, last
  <2>2. before \o <<separator>> \o last # <<>>
    BY <2>1, SeparatorShows
  <2> QED
    BY <1>1, <1>5, <2>1, <2>2
<1> QED
  BY <1>1, <1>3, <1>4, <1>5

\* Lists of texts that are not empty are one list if they are joined to one text.
LEMMA ListsJoinedOnce ==
    ASSUME NEW S, NEW sep \in S,
           NEW a \in Seq(Seq(S \ {sep}) \ {<<>>}), NEW b \in Seq(Seq(S \ {sep}) \ {<<>>}),
           Joined(a, sep) = Joined(b, sep)
    PROVE  a = b
<1>1. /\ a \in Seq(Seq(S \ {sep})) /\ b \in Seq(Seq(S \ {sep}))
      /\ a \in Seq(Seq(S) \ {<<>>}) /\ b \in Seq(Seq(S) \ {<<>>})
  <2>1. \A x \in Seq(S \ {sep}) : x \in Seq(S)
    OBVIOUS
  <2> DEFINE Plain == Seq(S \ {sep})
             All == Seq(S)
  <2> HIDE DEF Plain, All
  <2>2. \A x \in Seq(Plain \ {<<>>}) : x \in Seq(Plain)
    OBVIOUS
  <2>3. \A x \in Seq(Plain \ {<<>>}) : x \in Seq(All \ {<<>>})
    BY <2>1 DEF Plain, All
  <2> QED
    BY <2>2, <2>3 DEF Plain, All
<1>2. Joined(a, sep) = <<>> <=> a = <<>>
  BY <1>1, JoinedToNothing
<1>3. Joined(b, sep) = <<>> <=> b = <<>>
  BY <1>1, JoinedToNothing
<1>4. CASE a = <<>> \/ b = <<>>
  BY <1>2, <1>3, <1>4
<1>5. CASE a # <<>> /\ b # <<>>
  BY <1>1, <1>5, JoinedOnce
<1> QED
  BY <1>4, <1>5

-----------------------------------------------------------------------------
(* What is read of the world: the processes above a requester, and the     *)
(* names of the hosts.                                                     *)

\* A process above the requester, named for its path.
Ancestors == {[name |-> DisplayName(path), path |-> path] : path \in Printed \ {<<>>}}

LEMMA PathsPrinted ==
    ASSUME tree \in Trees, NEW pid
    PROVE  Escaped(PathOf(pid)) \in Printed /\ (Escaped(PathOf(pid)) = <<>> <=> PathOf(pid) = <<>>)
<1>1. PathOf(pid) \in Text
  <2>1. pid \in DOMAIN tree => tree[pid].path \in Text
    BY TextAssumption
  <2>2. <<>> \in Text
    BY DEF Text
  <2> QED
    BY <2>1, <2>2 DEF PathOf
<1>2. /\ Escaped(PathOf(pid)) \in Printed
      /\ Len(Escaped(PathOf(pid))) = Len(PathOf(pid))
  BY <1>1, EscapedIsPrinted
<1> QED
  BY <1>1, <1>2 DEF Printed, Text

LEMMA OriginNamed ==
    ASSUME tree \in Trees, NEW pid
    PROVE  Origin(pid) \in Seq(Ancestors)
<1> DEFINE N == MaxOriginDepth
           Pids == {pid, 0} \cup {ParentOf(p) : p \in DOMAIN tree}
           S == [at : Pids, names : Seq(Ancestors)]
           start == [at |-> pid, names |-> <<>>]
           Up(next) == [name |-> DisplayName(Escaped(PathOf(next))),
                        path |-> Escaped(PathOf(next))]
           Next1(was) ==
              LET next == ParentOf(was.at)
                  path == Escaped(PathOf(next))
                  up == [name |-> DisplayName(path), path |-> path]
              IN  IF next <= 1 \/ path = <<>> THEN [was EXCEPT !.at = 0]
                  ELSE [at |-> next,
                        names |-> IF was.names # <<>> /\ Last(was.names).path = up.path
                                  THEN was.names ELSE Append(was.names, up)]
           F == [n \in 1 .. N |-> [was \in S |-> Next1(was)]]
           Defines(g) == g = [n \in 0 .. N |->
                IF n = 0 THEN [at |-> pid, names |-> <<>>]
                ELSE LET was == g[n - 1]
                         next == ParentOf(was.at)
                         path == Escaped(PathOf(next))
                         up == [name |-> DisplayName(path), path |-> path]
                     IN  IF next <= 1 \/ path = <<>> THEN [was EXCEPT !.at = 0]
                         ELSE [at |-> next,
                               names |-> IF was.names # <<>> /\ Last(was.names).path = up.path
                                         THEN was.names ELSE Append(was.names, up)]]
           walk == CHOOSE g : Defines(g)
<1>1. N \in Nat /\ \A n \in 1 .. N : n \in 0 .. N /\ n # 0 /\ n - 1 \in 0 .. N
  BY BoundsAssumption
<1>2. start \in S
  OBVIOUS
<1>3. \A p : ParentOf(p) \in Pids
  BY DEF ParentOf
<1>4. ASSUME NEW was \in S PROVE Next1(was) \in S
  <2> DEFINE next == ParentOf(was.at)
             path == Escaped(PathOf(next))
  <2>1. path \in Printed /\ next \in Pids
    BY <1>3, PathsPrinted
  <2>2. CASE next <= 1 \/ path = <<>>
    <3>1. [was EXCEPT !.at = 0] \in S
      OBVIOUS
    <3> QED
      BY <2>2, <3>1
  <2>3. CASE ~(next <= 1 \/ path = <<>>)
    <3>1. Up(next) \in Ancestors
      BY <2>1, <2>3 DEF Ancestors
    <3> HIDE DEF Ancestors
    <3>2. was.names \in Seq(Ancestors) /\ Append(was.names, Up(next)) \in Seq(Ancestors)
      BY <3>1
    <3> HIDE DEF Pids
    <3>3. \A names \in Seq(Ancestors) : [at |-> next, names |-> names] \in S
      BY <2>1
    <3> QED
      BY <2>3, <3>2, <3>3
  <2> QED
    BY <2>2, <2>3
<1> HIDE DEF Next1, S, start
<1>5. F \in [1 .. N -> [S -> S]]
  BY <1>4
<1>6. PICK h : Follows(h, N, S, start, F)
  <2> HIDE DEF F, N
  <2> QED
    BY <1>1, <1>2, <1>5, Recursion
<1>7. ASSUME NEW n \in 1 .. N PROVE h[n] = Next1(h[n - 1])
  BY <1>1, <1>6 DEF Follows
<1>8. h \in [0 .. N -> S] /\ h[0] = start
  BY <1>6 DEF Follows
<1> HIDE DEF F, N
<1>9. Defines(h)
  <2>1. h = [n \in 0 .. N |-> h[n]]
    BY <1>8
  <2>2. \A n \in 0 .. N : n = 0 \/ n \in 1 .. N
    BY <1>1
  <2>3. h = [n \in 0 .. N |-> IF n = 0 THEN start ELSE Next1(h[n - 1])]
    BY <1>7, <1>8, <2>1, <2>2
  <2> QED
    BY <2>3, Zenon DEF Next1, start
<1>10. Defines(walk)
  <2> HIDE DEF Defines
  <2> QED
    BY <1>9
<1>11. Origin(pid) = walk[N].names
  BY Zenon DEF Origin, N
<1> HIDE DEF walk
<1>12. walk = [n \in 0 .. N |-> IF n = 0 THEN start ELSE Next1(walk[n - 1])]
  BY <1>10, Zenon DEF Next1, start
<1> HIDE DEF Defines
<1>13. walk[0] = start /\ \A n \in 1 .. N : walk[n] = Next1(walk[n - 1])
  BY <1>1, <1>12
<1>14. \A n \in 0 .. N : walk[n] = h[n]
  <2>1. \A n \in 1 .. N : walk[n - 1] = h[n - 1] => walk[n] = h[n]
    BY <1>7, <1>13
  <2>2. N \in Nat
    BY <1>1
  <2>3. GoOnAlike(walk, h, N)
    BY <1>8, <1>13, <2>1 DEF GoOnAlike
  <2> QED
    BY <2>2, <2>3, Agreement
<1>15. walk[N] \in S
  BY <1>1, <1>8, <1>14
<1> QED
  BY <1>11, <1>15 DEF S

\* What names_for knows: the names of keys, and which are revoked.
Hosts == Text \ {<<>>}
Indexes == [names : [PlainKeys -> Seq(Hosts)], revoked : SUBSET PlainKeys]

HasName(index, key, hosts) == hosts \in ToSet(index.names[key])

LEMMA AddLineRecords ==
    ASSUME NEW index \in Indexes, NEW line \in Lines
    PROVE  /\ AddLine(index, line) \in Indexes
           /\ Names(line) => HasName(AddLine(index, line), line.key, line.hosts)
           /\ Revokes(line) => line.key \in AddLine(index, line).revoked
           /\ \A key \in PlainKeys : \A hosts :
                 HasName(index, key, hosts) => HasName(AddLine(index, line), key, hosts)
           /\ index.revoked \subseteq AddLine(index, line).revoked
<1> DEFINE new == AddLine(index, line)
           grown == [index.names EXCEPT ![line.key] = Append(@, line.hosts)]
<1>1. /\ index.names \in [PlainKeys -> Seq(Hosts)] /\ index.revoked \in SUBSET PlainKeys
  BY DEF Indexes
<1>2. Names(line) => line.key \in PlainKeys /\ line.hosts \in Hosts
  BY TextAssumption DEF Names, Hosts
<1> HIDE DEF Hosts
<1>3. new.revoked = IF Revokes(line) THEN index.revoked \cup {line.key} ELSE index.revoked
  BY DEF AddLine
<1>4. new.revoked \in SUBSET PlainKeys
  BY <1>1, <1>3 DEF Revokes
<1>5. new.names = IF Names(line) /\ ~Contains(index.names[line.key], line.hosts) THEN grown
                  ELSE index.names
  BY DEF AddLine
<1>6. new = [names |-> new.names, revoked |-> new.revoked]
  BY DEF AddLine
<1> HIDE DEF new
<1>7. CASE Names(line) /\ ~Contains(index.names[line.key], line.hosts)
  <2>1. new.names = grown
    BY <1>5, <1>7
  <2>2. grown \in [PlainKeys -> Seq(Hosts)]
    BY <1>1, <1>2, <1>7
  <2>3. ASSUME NEW key \in PlainKeys
        PROVE  grown[key] = IF key = line.key THEN Append(index.names[key], line.hosts)
                            ELSE index.names[key]
    BY <1>1
  <2>4. ASSUME NEW s \in Seq(Hosts), NEW e \in Hosts
        PROVE  ToSet(Append(s, e)) = ToSet(s) \cup {e}
    <3>1. Len(Append(s, e)) = Len(s) + 1 /\ Append(s, e) \in Seq(Hosts) /\ Len(s) \in Nat
      OBVIOUS
    <3>2. \A i \in 1 .. Len(s) : Append(s, e)[i] = s[i]
      OBVIOUS
    <3>3. Append(s, e)[Len(s) + 1] = e
      OBVIOUS
    <3>4. DOMAIN s = 1 .. Len(s) /\ DOMAIN Append(s, e) = 1 .. Len(s) + 1
      BY <3>1
    <3>5. \A i \in 1 .. Len(s) + 1 : i \in 1 .. Len(s) \/ i = Len(s) + 1
      BY <3>1
    <3>6. \A i \in 1 .. Len(s) : i \in 1 .. Len(s) + 1
      BY <3>1
    <3>7. Len(s) + 1 \in 1 .. Len(s) + 1
      BY <3>1
    <3> QED
      BY <3>2, <3>3, <3>4, <3>5, <3>6, <3>7 DEF ToSet
  <2> HIDE DEF grown
  <2>5. ASSUME NEW key \in PlainKeys
        PROVE  ToSet(grown[key]) = IF key = line.key THEN ToSet(index.names[key]) \cup {line.hosts}
                                   ELSE ToSet(index.names[key])
    <3>1. index.names[key] \in Seq(Hosts)
      BY <1>1
    <3> QED
      BY <1>2, <1>7, <2>3, <2>4, <3>1
  <2>6. new \in Indexes
    BY <1>4, <1>6, <2>1, <2>2 DEF Indexes
  <2> QED
    BY <1>2, <1>3, <1>7, <2>1, <2>5, <2>6 DEF HasName, new
<1>8. CASE ~(Names(line) /\ ~Contains(index.names[line.key], line.hosts))
  <2>1. new.names = index.names
    BY <1>5, <1>8
  <2>2. new \in Indexes
    BY <1>1, <1>4, <1>6, <2>1 DEF Indexes
  <2>3. Names(line) => HasName(index, line.key, line.hosts)
    BY <1>1, <1>2, <1>8 DEF Contains, HasName, ToSet
  <2> QED
    BY <1>3, <2>1, <2>2, <2>3 DEF HasName, new
<1> QED
  BY <1>7, <1>8

\* A file that has been read leaves all it says, and takes nothing away.
LEMMA AddFileRecords ==
    ASSUME NEW index \in Indexes, NEW contents \in Contents
    PROVE  LET new == AddFile(index, contents)
               lines == IF contents = NoFile THEN {} ELSE ToSet(contents)
           IN  /\ new \in Indexes
               /\ \A line \in lines : Names(line) => HasName(new, line.key, line.hosts)
               /\ \A line \in lines : Revokes(line) => line.key \in new.revoked
               /\ \A key \in PlainKeys : \A hosts :
                     HasName(index, key, hosts) => HasName(new, key, hosts)
               /\ index.revoked \subseteq new.revoked
<1>1. CASE contents = NoFile
  BY <1>1 DEF AddFile
<1>2. CASE contents # NoFile
  <2> DEFINE N == Len(contents)
             F == [n \in 1 .. N |-> [i \in Indexes |-> AddLine(i, contents[n])]]
             Defines(g) == g = [n \in 0 .. N |->
                              IF n = 0 THEN index ELSE AddLine(g[n - 1], contents[n])]
             added == CHOOSE g : Defines(g)
  <2>1. contents \in Seq(Lines)
    BY <1>2, TextAssumption
  <2>2. /\ N \in Nat /\ DOMAIN contents = 1 .. N
        /\ \A n \in 1 .. N : /\ contents[n] \in Lines
                             /\ n \in 0 .. N /\ n # 0 /\ n - 1 \in 0 .. N
    BY <2>1
  <2>3. F \in [1 .. N -> [Indexes -> Indexes]]
    BY <2>2, AddLineRecords
  <2>4. PICK h : Follows(h, N, Indexes, index, F)
    <3> HIDE DEF F, N
    <3> QED
      BY <2>2, <2>3, Recursion
  <2>5. ASSUME NEW n \in 1 .. N PROVE h[n] = AddLine(h[n - 1], contents[n])
    BY <2>2, <2>4 DEF Follows
  <2>6. h \in [0 .. N -> Indexes] /\ h[0] = index
    BY <2>4 DEF Follows
  <2> HIDE DEF F, N
  <2>7. Defines(h)
    <3>1. h = [n \in 0 .. N |-> h[n]]
      BY <2>6
    <3>2. \A n \in 0 .. N : n = 0 \/ n \in 1 .. N
      BY <2>2
    <3> QED
      BY <2>5, <2>6, <3>1, <3>2
  <2>8. Defines(added)
    <3> HIDE DEF Defines
    <3> QED
      BY <2>7
  <2>9. AddFile(index, contents) = added[N]
    BY <1>2, Zenon DEF AddFile, N
  <2> HIDE DEF added
  <2>10. added[0] = index /\ \A n \in 1 .. N : added[n] = AddLine(added[n - 1], contents[n])
    BY <2>2, <2>8
  <2>11. \A n \in 0 .. N : added[n] = h[n]
    <3>1. \A n \in 1 .. N : added[n - 1] = h[n - 1] => added[n] = h[n]
      BY <2>5, <2>10
    <3>2. N \in Nat
      BY <2>2
    <3>3. GoOnAlike(added, h, N)
      BY <2>6, <2>10, <3>1 DEF GoOnAlike
    <3> QED
      BY <3>2, <3>3, Agreement
  <2> DEFINE Recorded(n) ==
                /\ \A i \in 1 .. n :
                      Names(contents[i]) => HasName(h[n], contents[i].key, contents[i].hosts)
                /\ \A i \in 1 .. n : Revokes(contents[i]) => contents[i].key \in h[n].revoked
                /\ \A key \in PlainKeys : \A hosts :
                      HasName(index, key, hosts) => HasName(h[n], key, hosts)
                /\ index.revoked \subseteq h[n].revoked
             Read == {n \in Nat : n <= N => Recorded(n)}
  <2>12. 0 \in Read
    BY <2>6
  <2>13. ASSUME NEW n \in Nat, n \in Read PROVE n + 1 \in Read
    <3> DEFINE m == n + 1
    <3> SUFFICES ASSUME m <= N PROVE Recorded(m)
      OBVIOUS
    <3>1. m \in 1 .. N /\ m - 1 = n /\ n \in 0 .. N /\ \A i \in 1 .. m : i \in 1 .. n \/ i = m
      BY <2>2
    <3>2. Recorded(n) /\ h[n] \in Indexes /\ contents[m] \in Lines
      BY <2>2, <2>6, <2>13, <3>1
    <3>3. h[m] = AddLine(h[n], contents[m])
      BY <2>5, <3>1
    <3> HIDE DEF m
    <3>4. /\ Names(contents[m]) => HasName(h[m], contents[m].key, contents[m].hosts)
          /\ Revokes(contents[m]) => contents[m].key \in h[m].revoked
          /\ \A key \in PlainKeys : \A hosts :
                HasName(h[n], key, hosts) => HasName(h[m], key, hosts)
          /\ h[n].revoked \subseteq h[m].revoked
      BY <3>2, <3>3, AddLineRecords
    <3>5. \A i \in 1 .. n : Names(contents[i]) => contents[i].key \in PlainKeys
      BY DEF Names
    <3> QED
      BY <3>1, <3>2, <3>4, <3>5
  <2>14. Nat \subseteq Read
    <3> HIDE DEF Read
    <3> QED
      BY <2>12, <2>13, Induction
  <2>15. Recorded(N)
    BY <2>2, <2>14
  <2>16. AddFile(index, contents) = h[N] /\ h[N] \in Indexes
    BY <2>2, <2>6, <2>9, <2>11
  <2> QED
    BY <1>2, <2>2, <2>15, <2>16 DEF ToSet
<1> QED
  BY <1>1, <1>2

-----------------------------------------------------------------------------
(* The contexts a request can have, and what their questions tell apart.   *)

Hops == [fingerprint : PlainKeys, names : Seq(Hosts), is_forwarding : BOOLEAN]

Contexts == [key : Keys, peer : Peers \cup {NoPeer}, hops : Seq(Hops), process : Printed,
             origin : Seq(Ancestors)]

LEMMA NamedHopsTyped ==
    ASSUME TypeOK, NEW c \in Clients, NEW index \in Indexes
    PROVE  NamedHops(c, index) \in Seq(Hops)
<1> DEFINE N == Len(Chain(c))
<1>1. Chain(c) \in Seq(Binding)
  BY DEF Chain, TypeOK
<1>2. N \in Nat /\ DOMAIN Chain(c) = 1 .. N /\ \A i \in 1 .. N : Chain(c)[i] \in Binding
  BY <1>1
<1> HIDE DEF N
<1>3. ASSUME NEW i \in 1 .. N
      PROVE  LET key == KeyOf[Chain(c)[i].host_key]
             IN  [fingerprint |-> key, names |-> NameFor(index, key),
                  is_forwarding |-> Chain(c)[i].is_forwarding] \in Hops
  <2> DEFINE key == KeyOf[Chain(c)[i].host_key]
  <2>1. key \in PlainKeys /\ Chain(c)[i].is_forwarding \in BOOLEAN
    BY <1>2, HostAssumption DEF Binding
  <2> HIDE DEF key
  <2>2. index.names[key] \in Seq(Hosts) /\ <<>> \in Seq(Hosts)
    BY <2>1 DEF Indexes
  <2> HIDE DEF Hosts
  <2>3. NameFor(index, key) \in Seq(Hosts)
    BY <2>2 DEF NameFor
  <2> QED
    BY <2>1, <2>3 DEF Hops, key
<1>4. NamedHops(c, index) \in [1 .. N -> Hops]
  BY <1>2, <1>3 DEF NamedHops
<1> QED
  BY <1>2, <1>4

LEMMA ContextTyped ==
    ASSUME tree \in Trees, NEW key \in Keys, NEW client \in Peers \cup {NoPeer},
           NEW hops \in Seq(Hops)
    PROVE  /\ ContextOf(key, client, hops) \in Contexts
           /\ ContextOf(key, client, hops).hops = hops
<1> DEFINE pid == IF client = NoPeer THEN NoPid ELSE client.pid
           path == IF pid = NoPid THEN <<>> ELSE PathOf(pid)
           origin == IF path = <<>> THEN <<>> ELSE Origin(pid)
<1>1. Escaped(path) \in Printed
  <2>1. Escaped(PathOf(pid)) \in Printed
    BY PathsPrinted
  <2>2. Escaped(<<>>) \in Printed
    <3>1. <<>> \in Text
      BY DEF Text
    <3> QED
      BY <3>1, EscapedIsPrinted
  <2>3. path = <<>> \/ path = PathOf(pid)
    OBVIOUS
  <2> HIDE DEF path, pid
  <2> QED
    BY <2>1, <2>2, <2>3
<1>2. origin \in Seq(Ancestors)
  <2>1. Origin(pid) \in Seq(Ancestors)
    BY OriginNamed
  <2> QED
    BY <2>1
<1>3. ContextOf(key, client, hops) =
          [key |-> key, peer |-> client, hops |-> hops, process |-> Escaped(path),
           origin |-> origin]
  BY Zenon DEF ContextOf
<1> HIDE DEF path, origin
<1> QED
  BY <1>1, <1>2, <1>3 DEF Contexts

\* The text of a hop, without what separates hops and pieces.
Everything == Printable \cup Controls \cup {"forwarding"}

LEMMA PrintedIsPlain ==
    /\ \A text \in Printed : /\ text \in Seq(Everything)
                             /\ \A control \in Controls : text \in Seq(Everything \ {control})
                             /\ text \in Seq((Everything \ {"\n"}) \ {"US"})
    /\ <<"forwarding">> \in Seq((Everything \ {"\n"}) \ {"US"})
    /\ \A control \in Controls : <<"forwarding">> \in Seq(Everything \ {control})
    /\ <<"RS">> \in Seq((Everything \ {"\n"}) \ {"US"})
<1>1. \A glyph \in Printable : glyph \in Everything /\ glyph \notin Controls
  BY PrintableIsNoControl DEF Everything
<1>2. "forwarding" \in Everything /\ "forwarding" \notin Controls
  BY DEF Everything, Controls
<1>3. "RS" \in Everything
  BY DEF Everything, Controls
<1>4. "\n" \in Controls /\ "US" \in Controls /\ "RS" \notin {"\n", "US"}
  BY DEF Controls
<1> HIDE DEF Printable, Everything, Controls
<1>5. ASSUME NEW text \in Printed
      PROVE  /\ text \in Seq(Everything)
             /\ \A control \in Controls : text \in Seq(Everything \ {control})
             /\ text \in Seq((Everything \ {"\n"}) \ {"US"})
  BY <1>1, <1>4 DEF Printed
<1> QED
  BY <1>2, <1>3, <1>4, <1>5

LEMMA HostNamePrinted ==
    ASSUME NEW hop \in Hops
    PROVE  /\ HostName(hop) \in Text /\ Escaped(HostName(hop)) \in Printed
           /\ Escaped(HostName(hop)) = <<>> <=> hop.names = <<>>
<1>1. hop.names \in Seq(Seq(Glyphs) \ {<<>>}) /\ ", " \in Glyphs
  BY TextAssumption DEF Hops, Hosts, Text
<1>2. hop.names \in Seq(Seq(Glyphs))
  <2> DEFINE S == Seq(Glyphs)
  <2> HIDE DEF S
  <2>1. \A names \in Seq(S \ {<<>>}) : names \in Seq(S)
    OBVIOUS
  <2> QED
    BY <1>1, <2>1 DEF S
<1>3. HostName(hop) \in Text
  BY <1>1, <1>2, JoinedIsText DEF HostName, Text
<1>4. HostName(hop) = <<>> <=> hop.names = <<>>
  BY <1>1, JoinedToNothing DEF HostName
<1>5. Escaped(HostName(hop)) \in Printed /\ Len(Escaped(HostName(hop))) = Len(HostName(hop))
  BY <1>3, EscapedIsPrinted
<1>6. Escaped(HostName(hop)) = <<>> <=> HostName(hop) = <<>>
  <2> DEFINE name == HostName(hop)
             escaped == Escaped(HostName(hop))
  <2>1. name \in Text /\ escaped \in Printed /\ Len(escaped) = Len(name)
    BY <1>3, <1>5
  <2> HIDE DEF name, escaped
  <2>2. escaped = <<>> <=> name = <<>>
    BY <2>1 DEF Printed, Text
  <2> QED
    BY <2>2 DEF name, escaped
<1> QED
  BY <1>3, <1>4, <1>5, <1>6

\* A hop's text tells its key, its names as they are shown, and whether it is forwarded to.
LEMMA HopsApart ==
    ASSUME NEW g \in Hops, NEW h \in Hops
    PROVE  /\ HopText(g) \in Seq((Everything \ {"\n"}) \ {"US"}) /\ HopText(g) # <<>>
           /\ HopText(g) = HopText(h) =>
                 /\ g.fingerprint = h.fingerprint
                 /\ Escaped(HostName(g)) = Escaped(HostName(h))
                 /\ g.is_forwarding <=> h.is_forwarding
<1> DEFINE Plain == Seq((Everything \ {"\n"}) \ {"US"})
           Apart == Seq(Everything \ {"RS"})
           All == Seq(Everything)
           Key(hop) == <<hop.fingerprint>>
           Name(hop) == Escaped(HostName(hop))
           Mark(hop) == IF hop.is_forwarding THEN <<"forwarding">> ELSE <<>>
<1>1. "RS" \in Everything /\ "RS" \in Controls
  BY DEF Everything, Controls
<1>2. ASSUME NEW hop \in Hops
      PROVE  /\ Key(hop) \in Plain /\ Key(hop) \in Apart /\ Key(hop) \in All
             /\ Name(hop) \in Plain /\ Name(hop) \in Apart /\ Name(hop) \in All
             /\ Mark(hop) \in Plain /\ Mark(hop) \in Apart /\ Mark(hop) \in All
             /\ HopText(hop) = Key(hop) \o <<"RS">> \o Name(hop) \o <<"RS">> \o Mark(hop)
  <2>1. hop.fingerprint \in PlainKeys
    BY DEF Hops
  <2>2. Key(hop) \in Printed /\ Escaped(Key(hop)) = Key(hop)
    BY <2>1, PrintedAsTheyAre, EscapedIsPrinted
  <2>3. Name(hop) \in Printed
    BY HostNamePrinted
  <2>4. <<"forwarding">> \in Plain /\ <<"forwarding">> \in Apart /\ <<>> \in Plain /\ <<>> \in Apart
    BY <1>1, PrintedIsPlain
  <2>5. \A text \in Printed : text \in Plain /\ text \in Apart
    BY <1>1, PrintedIsPlain
  <2>6. \A text \in Apart : text \in All
    OBVIOUS
  <2>7. HopText(hop) = Key(hop) \o <<"RS">> \o Name(hop) \o <<"RS">> \o Mark(hop)
    BY <2>2 DEF HopText
  <2> HIDE DEF Plain, Apart, All, Key, Name
  <2>8. Mark(hop) \in Plain /\ Mark(hop) \in Apart
    BY <2>4
  <2> HIDE DEF Mark
  <2> QED
    BY <2>2, <2>3, <2>5, <2>6, <2>7, <2>8
<1>3. <<"RS">> \in Plain
  BY PrintedIsPlain
<1> HIDE DEF Key, Name
<1>4. HopText(g) \in Plain
  <2>1. \A s, t \in Plain : s \o t \in Plain
    OBVIOUS
  <2> HIDE DEF Plain, Mark
  <2> QED
    BY <1>2, <1>3, <2>1
<1>5. HopText(g) # <<>>
  <2> DEFINE before == Key(g) \o <<"RS">> \o Name(g)
  <2>1. \A s, t \in All : s \o t \in All
    OBVIOUS
  <2>2. <<"RS">> \in All /\ <<>> \in Apart
    BY <1>1
  <2> HIDE DEF Mark
  <2>3. before \in All /\ Mark(g) \in All
    BY <1>2, <2>1, <2>2
  <2>4. HopText(g) = before \o <<"RS">> \o Mark(g)
    BY <1>2
  <2> HIDE DEF before
  <2> QED
    BY <1>1, <2>2, <2>3, <2>4, SeparatorShows
<1> DEFINE Between(a, x) == a \o <<"RS">> \o x
<1>6. \A a, b \in All, x, y \in Apart : Between(a, x) = Between(b, y) => a = b /\ x = y
  BY <1>1, ComesApart
<1>7. ASSUME HopText(g) = HopText(h)
      PROVE  Key(g) = Key(h) /\ Name(g) = Name(h) /\ Mark(g) = Mark(h)
  <2> DEFINE Before(hop) == Key(hop) \o <<"RS">> \o Name(hop)
  <2> HIDE DEF Mark
  <2>1. \A s, t \in All : s \o t \in All
    OBVIOUS
  <2>2. <<"RS">> \in All
    BY <1>1
  <2>3. Before(g) \in All /\ Before(h) \in All
    BY <1>2, <2>1, <2>2
  <2>4. Between(Before(g), Mark(g)) = Between(Before(h), Mark(h))
    BY <1>2, <1>7
  <2>5. Mark(g) \in Apart /\ Mark(h) \in Apart
    BY <1>2
  <2> HIDE DEF Before
  <2>6. Before(g) = Before(h) /\ Mark(g) = Mark(h)
    <3> HIDE DEF All, Apart, Between
    <3> QED
      BY <1>6, <2>3, <2>4, <2>5
  <2>7. Key(g) = Key(h) /\ Name(g) = Name(h)
    <3>1. Between(Key(g), Name(g)) = Between(Key(h), Name(h))
      BY <2>6 DEF Before
    <3>2. Key(g) \in All /\ Key(h) \in All /\ Name(g) \in Apart /\ Name(h) \in Apart
      BY <1>2
    <3> HIDE DEF All, Apart, Between
    <3> QED
      BY <1>6, <3>1, <3>2
  <2> QED
    BY <2>6, <2>7
<1>8. Key(g) = Key(h) => g.fingerprint = h.fingerprint
  BY DEF Key
<1>9. Mark(g) = Mark(h) => (g.is_forwarding <=> h.is_forwarding)
  OBVIOUS
<1> QED
  BY <1>4, <1>5, <1>7, <1>8, <1>9 DEF Name

\* The pieces of a question.
OriginPaths(ctx) == [i \in DOMAIN ctx.origin |-> ctx.origin[i].path]
HopTexts(ctx) == [i \in DOMAIN ctx.hops |-> HopText(ctx.hops[i])]

Pieces(ctx) ==
    <<Escaped(ctx.key.item), Escaped(ctx.key.fingerprint), Escaped(ctx.key.name), ctx.process,
      <<ctx.peer.uid>>, Joined(OriginPaths(ctx), "US"), Joined(HopTexts(ctx), "US")>>

LEMMA PiecesPlain ==
    ASSUME NEW ctx \in Contexts, Known(ctx)
    PROVE  /\ Pieces(ctx) \in Seq(Seq(Everything \ {"\n"}))
           /\ OriginPaths(ctx) \in Seq(Seq((Everything \ {"\n"}) \ {"US"}) \ {<<>>})
           /\ HopTexts(ctx) \in Seq(Seq((Everything \ {"\n"}) \ {"US"}) \ {<<>>})
           /\ Question(ctx) = Joined(Pieces(ctx), "\n") \o <<"\n">>
<1> DEFINE Plain == Seq((Everything \ {"\n"}) \ {"US"})
           Line == Seq(Everything \ {"\n"})
<1>1. \A text \in Printed : text \in Plain /\ text \in Line
  BY PrintedIsPlain DEF Controls
<1>2. ctx.key \in [item : Text, fingerprint : Text, name : Text]
  BY TextAssumption DEF Contexts
<1>3. /\ Escaped(ctx.key.item) \in Printed /\ Escaped(ctx.key.fingerprint) \in Printed
      /\ Escaped(ctx.key.name) \in Printed
  BY <1>2, EscapedIsPrinted
<1>4. ctx.process \in Printed /\ <<ctx.peer.uid>> \in Printed
  <2>1. ctx.peer \in Peers
    BY DEF Contexts, Known
  <2>2. ctx.peer.uid \in Printable
    BY <2>1, PrintedAsTheyAre
  <2> QED
    BY <2>2 DEF Contexts, Printed
<1>5. OriginPaths(ctx) \in Seq(Plain \ {<<>>})
  <2> DEFINE N == Len(ctx.origin)
  <2>1. ctx.origin \in Seq(Ancestors)
    BY DEF Contexts
  <2>2. N \in Nat /\ DOMAIN ctx.origin = 1 .. N /\ \A i \in 1 .. N : ctx.origin[i] \in Ancestors
    BY <2>1
  <2>3. \A a \in Ancestors : a.path \in Printed /\ a.path # <<>>
    BY DEF Ancestors
  <2> HIDE DEF N, Plain
  <2>4. OriginPaths(ctx) \in [1 .. N -> Plain \ {<<>>}]
    BY <1>1, <2>2, <2>3 DEF OriginPaths
  <2> QED
    BY <2>2, <2>4
<1>6. HopTexts(ctx) \in Seq(Plain \ {<<>>})
  <2> DEFINE N == Len(ctx.hops)
  <2>1. ctx.hops \in Seq(Hops)
    BY DEF Contexts
  <2>2. N \in Nat /\ DOMAIN ctx.hops = 1 .. N /\ \A i \in 1 .. N : ctx.hops[i] \in Hops
    BY <2>1
  <2>3. \A hop \in Hops : HopText(hop) \in Plain \ {<<>>}
    BY HopsApart
  <2> HIDE DEF N, Plain
  <2>4. HopTexts(ctx) \in [1 .. N -> Plain \ {<<>>}]
    BY <2>2, <2>3 DEF HopTexts
  <2> QED
    BY <2>2, <2>4
<1>7. Joined(OriginPaths(ctx), "US") \in Line /\ Joined(HopTexts(ctx), "US") \in Line
  <2> DEFINE S == Everything \ {"\n"}
  <2>1. "US" \in S
    BY DEF Everything, Controls
  <2>2. \A text \in Plain : text \in Seq(S)
    OBVIOUS
  <2> HIDE DEF Plain
  <2>3. OriginPaths(ctx) \in Seq(Seq(S)) /\ HopTexts(ctx) \in Seq(Seq(S))
    BY <1>5, <1>6, <2>2
  <2> HIDE DEF S
  <2>4. Joined(OriginPaths(ctx), "US") \in Seq(S) /\ Joined(HopTexts(ctx), "US") \in Seq(S)
    BY <2>1, <2>3, JoinedIsText
  <2> QED
    BY <2>4 DEF S
<1>8. Pieces(ctx) \in Seq(Line)
  <2> HIDE DEF Line
  <2> QED
    BY <1>1, <1>3, <1>4, <1>7 DEF Pieces
<1>9. Question(ctx) = Joined(Pieces(ctx), "\n") \o <<"\n">>
  BY DEF Question, Pieces, OriginPaths, HopTexts, Separator
<1> QED
  BY <1>5, <1>6, <1>8, <1>9

(***************************************************************************)
(* Requesters that can be told from others have one question only if they  *)
(* are shown alike, in every word and every path and key behind one.       *)
(***************************************************************************)
LEMMA QuestionsApart ==
    ASSUME NEW c \in Contexts, NEW d \in Contexts, Known(c), Known(d), Question(c) = Question(d)
    PROVE  Shown(c) = Shown(d)
<1> DEFINE S == Everything \ {"\n"}
<1>1. "\n" \in Everything /\ "US" \in S
  BY DEF Everything, Controls
<1>2. Pieces(c) = Pieces(d)
  <2> DEFINE left == Joined(Pieces(c), "\n")
             right == Joined(Pieces(d), "\n")
  <2>1. /\ Pieces(c) \in Seq(Seq(S)) /\ Pieces(d) \in Seq(Seq(S))
        /\ left \o <<"\n">> = right \o <<"\n">>
    BY PiecesPlain
  <2>2. Pieces(c) \in Seq(Seq(Everything)) /\ Pieces(d) \in Seq(Seq(Everything))
    <3>1. \A text \in Seq(S) : text \in Seq(Everything)
      OBVIOUS
    <3> HIDE DEF S
    <3> QED
      BY <2>1, <3>1
  <2>3. left \in Seq(Everything) /\ right \in Seq(Everything)
    BY <1>1, <2>2, JoinedIsText
  <2> HIDE DEF left, right
  <2>4. \A s \in Seq(Everything) : s \o <<"\n">> \o <<>> = s \o <<"\n">>
    BY <1>1
  <2>5. left = right
    <3>1. <<>> \in Seq(Everything \ {"\n"})
      OBVIOUS
    <3>2. left \o <<"\n">> \o <<>> = right \o <<"\n">> \o <<>>
      BY <2>1, <2>3, <2>4
    <3> QED
      BY <1>1, <2>3, <3>1, <3>2, ComesApart
  <2>6. Pieces(c) # <<>> /\ Pieces(d) # <<>>
    BY DEF Pieces
  <2> QED
    BY <1>1, <2>1, <2>5, <2>6, JoinedOnce DEF left, right
<1>3. /\ Escaped(c.key.item) = Escaped(d.key.item)
      /\ Escaped(c.key.fingerprint) = Escaped(d.key.fingerprint)
      /\ Escaped(c.key.name) = Escaped(d.key.name)
      /\ c.process = d.process /\ c.peer.uid = d.peer.uid
      /\ Joined(OriginPaths(c), "US") = Joined(OriginPaths(d), "US")
      /\ Joined(HopTexts(c), "US") = Joined(HopTexts(d), "US")
  BY <1>2 DEF Pieces
<1>4. OriginPaths(c) = OriginPaths(d) /\ HopTexts(c) = HopTexts(d)
  <2>1. /\ OriginPaths(c) \in Seq(Seq(S \ {"US"}) \ {<<>>})
        /\ OriginPaths(d) \in Seq(Seq(S \ {"US"}) \ {<<>>})
        /\ HopTexts(c) \in Seq(Seq(S \ {"US"}) \ {<<>>})
        /\ HopTexts(d) \in Seq(Seq(S \ {"US"}) \ {<<>>})
    BY PiecesPlain
  <2> HIDE DEF S
  <2> QED
    BY <1>1, <1>3, <2>1, ListsJoinedOnce
<1>5. /\ DOMAIN c.origin = DOMAIN d.origin
      /\ \A i \in DOMAIN c.origin : c.origin[i].path = d.origin[i].path
                                    /\ c.origin[i].name = d.origin[i].name
  <2>1. /\ DOMAIN c.origin = DOMAIN d.origin
        /\ \A i \in DOMAIN c.origin : c.origin[i].path = d.origin[i].path
    BY <1>4 DEF OriginPaths
  <2>2. \A a \in Ancestors : a.name = DisplayName(a.path)
    BY DEF Ancestors
  <2>3. \A i \in DOMAIN c.origin : c.origin[i] \in Ancestors /\ d.origin[i] \in Ancestors
    BY <2>1 DEF Contexts
  <2> QED
    BY <2>1, <2>2, <2>3
<1>6. /\ DOMAIN c.hops = DOMAIN d.hops
      /\ \A i \in DOMAIN c.hops : HopText(c.hops[i]) = HopText(d.hops[i])
  BY <1>4 DEF HopTexts
<1>7. \A i \in DOMAIN c.hops : c.hops[i] \in Hops /\ d.hops[i] \in Hops
  BY <1>6 DEF Contexts
<1>8. ASSUME NEW i \in DOMAIN c.hops
      PROVE  /\ c.hops[i].fingerprint = d.hops[i].fingerprint
             /\ Escaped(HostName(c.hops[i])) = Escaped(HostName(d.hops[i]))
             /\ c.hops[i].is_forwarding <=> d.hops[i].is_forwarding
             /\ c.hops[i].names = <<>> <=> d.hops[i].names = <<>>
  BY <1>6, <1>7, HopsApart, HostNamePrinted
<1>9. Words(c) = Words(d)
  <2>1. ASSUME NEW s, NEW t, Escaped(s) = Escaped(t) PROVE Bounded(s) = Bounded(t)
    BY <2>1 DEF Bounded
  <2> DEFINE HostShown(hop) == Bounded(IF hop.names = <<>> THEN <<hop.fingerprint>>
                                       ELSE HostName(hop))
             Session(ctx) == [i \in DOMAIN ctx.hops |->
                                [host |-> HostShown(ctx.hops[i]),
                                 onward |-> ctx.hops[i].is_forwarding]]
             From(ctx) == [i \in DOMAIN ctx.origin |-> ctx.origin[i].name]
             Warned(ctx) == \E i \in DOMAIN ctx.hops : ctx.hops[i].is_forwarding
             Asker(ctx) == CASE ctx.peer = NoPeer -> <<"unknown">>
                             [] ctx.peer # NoPeer /\ Known(ctx) ->
                                    ctx.process \o <<"uid", ctx.peer.uid>>
                             [] ctx.peer # NoPeer /\ ~Known(ctx) ->
                                    (IF ctx.peer.pid = NoPid THEN <<>> ELSE <<"unknown process">>)
                                        \o <<"uid", ctx.peer.uid>>
  <2>2. ASSUME NEW ctx
        PROVE  Words(ctx) =
                  [key |-> Bounded(ctx.key.name),
                   fingerprint |-> Escaped(ctx.key.fingerprint), item |-> Escaped(ctx.key.item),
                   requester |-> Asker(ctx), started_from |-> Joined(From(ctx), "->"),
                   warned |-> Warned(ctx), session |-> Session(ctx)]
    BY Zenon DEF Words
  <2>3. Asker(c) = Asker(d)
    <3>1. ASSUME NEW ctx, Known(ctx) PROVE Asker(ctx) = ctx.process \o <<"uid", ctx.peer.uid>>
      BY <3>1 DEF Known
    <3> QED
      BY <1>3, <3>1
  <2>4. From(c) = From(d)
    BY <1>5
  <2>5. Warned(c) = Warned(d)
    <3>1. Warned(c) <=> Warned(d)
      BY <1>6, <1>8
    <3> QED
      BY <3>1
  <2>6. Session(c) = Session(d)
    <3>1. ASSUME NEW i \in DOMAIN c.hops
          PROVE  /\ HostShown(c.hops[i]) = HostShown(d.hops[i])
                 /\ c.hops[i].is_forwarding = d.hops[i].is_forwarding
      <4>1. c.hops[i].is_forwarding \in BOOLEAN /\ d.hops[i].is_forwarding \in BOOLEAN
        BY <1>7 DEF Hops
      <4>2. HostShown(c.hops[i]) = HostShown(d.hops[i])
        BY <1>8, <2>1
      <4> QED
        BY <1>8, <4>1, <4>2
    <3> HIDE DEF HostShown
    <3> QED
      BY <1>6, <3>1
  <2>7. Bounded(c.key.name) = Bounded(d.key.name)
    BY <1>3, <2>1
  <2> HIDE DEF Asker, From, Warned, Session
  <2> QED
    BY <1>3, <2>2, <2>3, <2>4, <2>5, <2>6, <2>7
<1> QED
  BY <1>5, <1>6, <1>8, <1>9 DEF Shown

-----------------------------------------------------------------------------
(* What was remembered was shown.                                          *)

\* A request has its key, an index while it is named, and then its context and question.
Served(c) ==
    /\ req[c].key \in Keys
    /\ req[c].step = "naming" => req[c].index \in Indexes /\ req[c].at \in 1 .. NumFiles + 1
    /\ req[c].step \in {"waiting", "prompting", "signing"} =>
          req[c].ctx \in Contexts /\ req[c].question = Question(req[c].ctx)

\* What the user has said yes to was on screen, and so was what memory answers.
Answered(c) ==
    req[c].step = "signing" =>
        /\ req[c].from = "user" => Shown(req[c].ctx) \in approved
        /\ req[c].from = "memory" => Known(req[c].ctx) /\ Shown(req[c].ctx) \in approved

RequestsKept == \A c \in Clients : req[c].step # "idle" => Served(c) /\ Answered(c)

\* A question that is remembered is one that was asked in words the user approved.
MemoryKept ==
    \A question \in remembered : \E ctx \in Contexts :
        Known(ctx) /\ Question(ctx) = question /\ Shown(ctx) \in approved

KeptInv == (TypeOK /\ AskInv) /\ QuestionsTypeOK /\ RequestsKept /\ MemoryKept

LEMMA NoIndexIsIndex == NoIndex \in Indexes
<1>1. <<>> \in Seq(Hosts)
  OBVIOUS
<1> HIDE DEF Hosts
<1> QED
  BY <1>1 DEF NoIndex, Indexes

LEMMA IndexGrows ==
    ASSUME KeptInv, NEW c \in Clients, ReadFile(c)
    PROVE  /\ req[c].index \in Indexes
           /\ req[c].at \in 1 .. NumFiles /\ files[req[c].at] \in Contents
           /\ req'[c].index = AddFile(req[c].index, files[req[c].at])
           /\ req'[c].at = req[c].at + 1
           /\ req'[c].step = "naming"
           /\ req'[c].named = req[c].named /\ req'[c].revoked = req[c].revoked
           /\ UNCHANGED files
<1>1. req[c].step = "naming" /\ Served(c) /\ Shaped
  BY DEF KeptInv, AskInv, RequestsKept, ReadFile
<1>2. req[c].at \in 1 .. NumFiles
  BY <1>1, BoundsAssumption DEF ReadFile, Served
<1>3. files[req[c].at] \in Contents
  BY <1>2 DEF KeptInv, AskInv, QuestionsTypeOK
<1>4. /\ req'[c].index = AddFile(req[c].index, files[req[c].at])
      /\ req'[c].at = req[c].at + 1 /\ req'[c].step = "naming"
      /\ req'[c].named = req[c].named /\ req'[c].revoked = req[c].revoked
  BY <1>1 DEF ReadFile, Shaped, Fields
<1> QED
  BY <1>1, <1>2, <1>3, <1>4 DEF Served, ReadFile

LEMMA ContextMade ==
    ASSUME KeptInv, NEW c \in Clients, Named(c) \/ Enter(c)
    PROVE  \E ctx \in Contexts : \E otherwise \in {"waiting", "prompting"} :
              Asked(c, ctx, Question(ctx), otherwise)
<1>1. req[c].step # "idle" /\ Served(c)
  BY DEF KeptInv, AskInv, RequestsKept, Named, Enter
<1>2. /\ tree \in Trees /\ peer[c] \in Peers \cup {NoPeer} /\ req[c].key \in Keys
  BY <1>1 DEF KeptInv, AskInv, QuestionsTypeOK, Served
<1>3. CASE Named(c)
  <2>1. PICK index \in {NoIndex, req[c].index} :
            LET ctx == ContextOf(req[c].key, peer[c], NamedHops(c, index))
            IN  Asked(c, ctx, Question(ctx), "waiting")
    BY <1>3 DEF Named
  <2>2. index \in Indexes
    BY <1>1, <1>3, NoIndexIsIndex DEF Named, Served
  <2>3. NamedHops(c, index) \in Seq(Hops)
    BY <2>2, NamedHopsTyped DEF KeptInv, AskInv
  <2>4. ContextOf(req[c].key, peer[c], NamedHops(c, index)) \in Contexts
    BY <1>2, <2>3, ContextTyped
  <2> QED
    BY <2>1, <2>4
<1>4. CASE Enter(c)
  <2>1. req[c].ctx \in Contexts
    BY <1>1, <1>4 DEF Enter, Served
  <2>2. req[c].ctx.hops \in Seq(Hops)
    BY <2>1 DEF Contexts
  <2>3. ContextOf(req[c].key, peer[c], req[c].ctx.hops) \in Contexts
    BY <1>2, <2>2, ContextTyped
  <2> QED
    BY <1>4, <2>3 DEF Enter
<1> QED
  BY <1>3, <1>4

\* A request whose context was made is served, and memory answers it for what was shown.
LEMMA AskedKept ==
    ASSUME KeptInv, NEW c \in Clients, Named(c) \/ Enter(c)
    PROVE  Served(c)' /\ Answered(c)'
<1>1. PICK ctx \in Contexts, otherwise \in {"waiting", "prompting"} :
          Asked(c, ctx, Question(ctx), otherwise)
  BY ContextMade
<1>2. req[c].step # "idle" /\ Served(c) /\ Shaped /\ approved' = approved
  BY DEF KeptInv, AskInv, RequestsKept, Named, Enter
<1>3. /\ Moves(c) /\ req'[c].ctx = ctx /\ req'[c].question = Question(ctx)
      /\ \/ /\ Question(ctx) \in remembered
            /\ req'[c].step = "signing" /\ req'[c].from = "memory"
         \/ req'[c].step = otherwise
  BY <1>1, <1>2, AskedMoves
<1>4. Served(c)'
  BY <1>2, <1>3 DEF Served, Moves
<1>5. ASSUME Question(ctx) \in remembered PROVE Known(ctx) /\ Shown(ctx) \in approved
  <2>1. Known(ctx)
    BY <1>5 DEF KeptInv, AskInv, QuestionsTypeOK, Question
  <2>2. PICK was \in Contexts :
            Known(was) /\ Question(was) = Question(ctx) /\ Shown(was) \in approved
    BY <1>5 DEF KeptInv, AskInv, MemoryKept
  <2>3. Shown(was) = Shown(ctx)
    BY <2>1, <2>2, QuestionsApart
  <2> QED
    BY <2>1, <2>2, <2>3
<1>6. Answered(c)'
  BY <1>2, <1>3, <1>5 DEF Answered
<1> QED
  BY <1>4, <1>6

LEMMA RequestsKeptStep == KeptInv /\ [AskNext]_allVars => RequestsKept'
<1> SUFFICES ASSUME KeptInv, [AskNext]_allVars, NEW c \in Clients, req'[c].step # "idle"
             PROVE  Served(c)' /\ Answered(c)'
  BY DEF RequestsKept
<1>1. Shaped /\ TypeOK /\ (req[c].step # "idle" => Served(c) /\ Answered(c))
  BY DEF KeptInv, AskInv, RequestsKept
<1>2. ASSUME req'[c] = req[c], approved \subseteq approved' PROVE Served(c)' /\ Answered(c)'
  BY <1>1, <1>2 DEF Served, Answered
<1>3. ASSUME NEW d \in Connections, Message(d) PROVE Served(c)' /\ Answered(c)'
  BY <1>1, <1>2, <1>3, MessageLeaves DEF askVars
<1>4. ASSUME NEW d \in Clients, NEW key \in Keys, NEW what \in Userauth \cup {Other},
             Arrive(d, key, what)
      PROVE  Served(c)' /\ Answered(c)'
  <2>1. CASE d # c
    BY <1>1, <1>2, <1>4, <2>1, ArriveStarts DEF Arrive
  <2>2. CASE d = c
    <3>1. req'[c].step = "naming" /\ req'[c].key = key /\ req'[c].index = NoIndex
          /\ req'[c].at = 1
      BY <1>1, <1>4, <2>2 DEF Arrive, Shaped
    <3> QED
      BY <3>1, NoIndexIsIndex, BoundsAssumption DEF Served, Answered
  <2> QED
    BY <2>1, <2>2
<1>5. ASSUME NEW d \in Clients, ReadFile(d) \/ Named(d) \/ Enter(d) \/ Approve(d)
      PROVE  Served(c)' /\ Answered(c)'
  <2>1. approved \subseteq approved'
    BY <1>5 DEF ReadFile, Named, Enter, Approve
  <2>2. CASE d # c
    BY <1>1, <1>2, <1>5, <2>1, <2>2, ServeMoves DEF Moves
  <2>3. CASE ReadFile(c)
    <3>1. /\ AddFile(req[c].index, files[req[c].at]) \in Indexes
          /\ req[c].at + 1 \in 1 .. NumFiles + 1
      BY <2>3, IndexGrows, AddFileRecords, BoundsAssumption
    <3> QED
      BY <1>1, <2>3, <3>1, IndexGrows, ServeMoves DEF Served, Answered, Moves, ReadFile
  <2>4. CASE Named(c) \/ Enter(c)
    BY <2>4, AskedKept
  <2>5. CASE Approve(c)
    <3>1. /\ req[c].step = "prompting" /\ Moves(c) /\ req'[c].step = "signing"
          /\ req'[c].from = "user" /\ req'[c].ctx = req[c].ctx
          /\ req'[c].question = req[c].question /\ Shown(req[c].ctx) \in approved'
      BY <1>1, <2>5, ServeMoves DEF Approve, Shaped, Fields
    <3> QED
      BY <1>1, <3>1 DEF Served, Answered, Moves
  <2> QED
    BY <1>5, <2>2, <2>3, <2>4, <2>5
<1>6. ASSUME NEW d \in Clients, Deny(d) \/ Finish(d) PROVE Served(c)' /\ Answered(c)'
  BY <1>1, <1>2, <1>6, EndForgets DEF Deny, Finish
<1>7. ASSUME NEW d \in Clients, Return(d) PROVE Served(c)' /\ Answered(c)'
  BY <1>1, <1>2, <1>7, ReturnLeaves DEF Return
<1>8. ASSUME NEW key \in PlainKeys, NEW session \in Sessions, ProveHost(key, session)
      PROVE  Served(c)' /\ Answered(c)'
  BY <1>2, <1>8 DEF ProveHost, askVars
<1>9. CASE World
  <2>1. approved' = approved
    BY <1>9 DEF World, TurnTree, EditFile, ForgetApprovals
  <2> QED
    BY <1>1, <1>9, <2>1, WorldLeaves DEF Untouched, Served, Answered
<1>10. CASE UNCHANGED allVars
  BY <1>2, <1>10 DEF allVars, askVars
<1> QED
  BY <1>3, <1>4, <1>5, <1>6, <1>7, <1>8, <1>9, <1>10, StepsOf

LEMMA MemoryKeptStep == KeptInv /\ [AskNext]_allVars => MemoryKept'
<1> SUFFICES ASSUME KeptInv, [AskNext]_allVars PROVE MemoryKept'
  OBVIOUS
<1>1. ASSUME approved \subseteq approved', remembered' \subseteq remembered PROVE MemoryKept'
  BY <1>1 DEF KeptInv, AskInv, MemoryKept
<1>2. ASSUME NEW c \in Connections, Message(c) PROVE MemoryKept'
  BY <1>1, <1>2, MessageLeaves DEF askVars, KeptInv, AskInv
<1>3. ASSUME NEW c \in Clients, NEW key \in Keys, NEW what \in Userauth \cup {Other},
             Arrive(c, key, what)
      PROVE  MemoryKept'
  BY <1>1, <1>3 DEF Arrive
<1>4. ASSUME NEW c \in Clients, ReadFile(c) \/ Named(c) \/ Enter(c) \/ Approve(c) \/ Deny(c)
      PROVE  MemoryKept'
  BY <1>1, <1>4 DEF ReadFile, Named, Enter, Approve, Deny
<1>5. ASSUME NEW c \in Clients, Finish(c) PROVE MemoryKept'
  <2>1. approved' = approved
    BY <1>5 DEF Finish
  <2>2. CASE UNCHANGED remembered
    BY <1>1, <2>1, <2>2
  <2>3. CASE /\ req[c].from = "user" /\ req[c].question # NoQuestion
             /\ remembered' = remembered \cup {req[c].question}
    <3>1. req[c].step = "signing" /\ Served(c) /\ Answered(c)
      BY <1>5 DEF Finish, KeptInv, RequestsKept
    <3> DEFINE ctx == req[c].ctx
    <3>2. ctx \in Contexts /\ req[c].question = Question(ctx) /\ Shown(ctx) \in approved
      BY <2>3, <3>1 DEF Served, Answered
    <3>3. Known(ctx)
      BY <2>3, <3>2 DEF Question
    <3> HIDE DEF ctx
    <3> QED
      BY <2>1, <2>3, <3>2, <3>3 DEF KeptInv, AskInv, MemoryKept
  <2> QED
    BY <1>5, <2>2, <2>3 DEF Finish, Remember
<1>6. ASSUME NEW c \in Clients, Return(c) PROVE MemoryKept'
  BY <1>1, <1>6 DEF Return
<1>7. ASSUME NEW key \in PlainKeys, NEW session \in Sessions, ProveHost(key, session)
      PROVE  MemoryKept'
  BY <1>1, <1>7 DEF ProveHost, askVars
<1>8. CASE World
  BY <1>1, <1>8 DEF World, TurnTree, EditFile, ForgetApprovals
<1>9. CASE UNCHANGED allVars
  BY <1>1, <1>9 DEF allVars, askVars
<1> QED
  BY <1>2, <1>3, <1>4, <1>5, <1>6, <1>7, <1>8, <1>9, StepsOf

LEMMA AskKeepsMemory == AskSpec => []KeptInv
<1>1. AskInit => RequestsKept /\ MemoryKept
  BY DEF AskInit, RequestsKept, MemoryKept, NoRequest
<1>2. KeptInv /\ [AskNext]_allVars => (RequestsKept /\ MemoryKept)'
  BY RequestsKeptStep, MemoryKeptStep
<1>3. KeptInv <=> (TypeOK /\ AskInv) /\ QuestionsTypeOK /\ RequestsKept /\ MemoryKept
  BY DEF KeptInv
<1> QED
  BY <1>1, <1>2, <1>3, AskKeepsInv, QuestionsTypeCorrect, PTL DEF AskSpec

(***************************************************************************)
(* What is answered from memory was approved under the same words, of the  *)
(* same executables above the requester and of the same hosts, whatever    *)
(* names, paths and hosts are made of (approval_question, approval_for).   *)
(***************************************************************************)
THEOREM MemoryAnswersAsShown == AskSpec => []RememberedAsShown
<1>1. KeptInv => RememberedAsShown
  BY DEF KeptInv, AskInv, RequestsKept, Answered, RememberedAsShown
<1> QED
  BY <1>1, AskKeepsMemory, PTL

-----------------------------------------------------------------------------
(* What the files recorded all the while is in the names.                  *)

Recorded(f, key, hosts) ==
    \E line \in LinesOf(f) : Names(line) /\ line.key = key /\ line.hosts = hosts
MarkedRevoked(f, key) == \E line \in LinesOf(f) : Revokes(line) /\ line.key = key

LEMMA RecordedNow ==
    /\ \A entry \in NamedNow : /\ entry[1] \in 1 .. NumFiles /\ entry[2] \in PlainKeys
                               /\ Recorded(entry[1], entry[2], entry[3])
    /\ \A entry \in RevokedNow : /\ entry[1] \in 1 .. NumFiles
                                 /\ MarkedRevoked(entry[1], entry[2])
BY DEF NamedNow, RevokedNow, Recorded, MarkedRevoked, Names

\* What a file has recorded since the request came is there still, and in the index once the
\* file has been read.
HistoryKept ==
    \A c \in Clients : req[c].step = "naming" =>
        /\ req[c].named \subseteq NamedNow /\ req[c].revoked \subseteq RevokedNow
        /\ \A entry \in req[c].named :
              entry[1] < req[c].at => HasName(req[c].index, entry[2], entry[3])
        /\ \A entry \in req[c].revoked : entry[1] < req[c].at => entry[2] \in req[c].index.revoked

LEMMA FileRead ==
    ASSUME KeptInv, HistoryKept, NEW c \in Clients, ReadFile(c)
    PROVE  /\ \A entry \in req'[c].named :
                 entry[1] < req'[c].at => HasName(req'[c].index, entry[2], entry[3])
           /\ \A entry \in req'[c].revoked :
                 entry[1] < req'[c].at => entry[2] \in req'[c].index.revoked
<1> DEFINE at == req[c].at
           index == req[c].index
           new == req'[c].index
<1>1. /\ index \in Indexes /\ at \in 1 .. NumFiles /\ files[at] \in Contents
      /\ new = AddFile(index, files[at]) /\ req'[c].at = at + 1
      /\ req'[c].named = req[c].named /\ req'[c].revoked = req[c].revoked
  BY IndexGrows
<1>2. /\ req[c].named \subseteq NamedNow /\ req[c].revoked \subseteq RevokedNow
      /\ \A entry \in req[c].named : entry[1] < at => HasName(index, entry[2], entry[3])
      /\ \A entry \in req[c].revoked : entry[1] < at => entry[2] \in index.revoked
  BY DEF ReadFile, HistoryKept
<1> HIDE DEF at, index, new
<1>3. /\ \A line \in LinesOf(at) : Names(line) => HasName(new, line.key, line.hosts)
      /\ \A line \in LinesOf(at) : Revokes(line) => line.key \in new.revoked
      /\ \A key \in PlainKeys : \A hosts : HasName(index, key, hosts) => HasName(new, key, hosts)
      /\ index.revoked \subseteq new.revoked
  BY <1>1, AddFileRecords DEF LinesOf
<1>4. ASSUME NEW entry \in req[c].named, entry[1] < at + 1
      PROVE  HasName(new, entry[2], entry[3])
  <2>1. entry[1] \in 1 .. NumFiles /\ entry[2] \in PlainKeys /\ Recorded(entry[1], entry[2], entry[3])
    BY <1>2, RecordedNow
  <2>2. entry[1] < at \/ entry[1] = at
    BY <1>1, <1>4, <2>1, BoundsAssumption
  <2> QED
    BY <1>2, <1>3, <2>1, <2>2 DEF Recorded
<1>5. ASSUME NEW entry \in req[c].revoked, entry[1] < at + 1
      PROVE  entry[2] \in new.revoked
  <2>1. entry[1] \in 1 .. NumFiles /\ MarkedRevoked(entry[1], entry[2])
    BY <1>2, RecordedNow
  <2>2. entry[1] < at \/ entry[1] = at
    BY <1>1, <1>5, <2>1, BoundsAssumption
  <2> QED
    BY <1>2, <1>3, <2>1, <2>2 DEF MarkedRevoked
<1> QED
  BY <1>1, <1>4, <1>5 DEF at, index, new

LEMMA HistoryKeptStep == KeptInv /\ HistoryKept /\ [AskNext]_allVars => HistoryKept'
<1> DEFINE Kept(c) ==
              /\ req'[c].named \subseteq NamedNow' /\ req'[c].revoked \subseteq RevokedNow'
              /\ \A entry \in req'[c].named :
                    entry[1] < req'[c].at => HasName(req'[c].index, entry[2], entry[3])
              /\ \A entry \in req'[c].revoked :
                    entry[1] < req'[c].at => entry[2] \in req'[c].index.revoked
<1> SUFFICES ASSUME KeptInv, HistoryKept, [AskNext]_allVars,
                    NEW c \in Clients, req'[c].step = "naming"
             PROVE  Kept(c)
  BY DEF HistoryKept, HasName
<1>1. Shaped /\ TypeOK
  BY DEF KeptInv, AskInv
<1>2. ASSUME UNCHANGED files PROVE NamedNow' = NamedNow /\ RevokedNow' = RevokedNow
  BY <1>2 DEF NamedNow, RevokedNow, LinesOf
<1>3. ASSUME req'[c] = req[c], UNCHANGED files PROVE Kept(c)
  BY <1>2, <1>3 DEF HistoryKept
<1>4. ASSUME NEW d \in Connections, Message(d) PROVE Kept(c)
  BY <1>1, <1>3, <1>4, MessageLeaves DEF askVars
<1>5. ASSUME NEW d \in Clients, NEW key \in Keys, NEW what \in Userauth \cup {Other},
             Arrive(d, key, what)
      PROVE  Kept(c)
  <2>1. CASE d # c
    BY <1>1, <1>3, <1>5, <2>1, ArriveStarts DEF Arrive
  <2>2. CASE d = c
    <3>1. /\ req'[c].named = NamedNow /\ req'[c].revoked = RevokedNow /\ req'[c].at = 1
          /\ UNCHANGED files
      BY <1>1, <1>5, <2>2 DEF Arrive, Shaped
    <3>2. /\ \A entry \in NamedNow : ~(entry[1] < 1)
          /\ \A entry \in RevokedNow : ~(entry[1] < 1)
      BY RecordedNow, BoundsAssumption
    <3> QED
      BY <1>2, <3>1, <3>2
  <2> QED
    BY <2>1, <2>2
<1>6. ASSUME NEW d \in Clients, ReadFile(d) \/ Named(d) \/ Enter(d) \/ Approve(d) PROVE Kept(c)
  <2>1. UNCHANGED files
    BY <1>6 DEF ReadFile, Named, Enter, Approve
  <2>2. CASE d # c
    BY <1>1, <1>3, <1>6, <2>1, <2>2, ServeMoves DEF Moves
  <2>3. CASE ReadFile(c)
    <3>1. req'[c].named \subseteq NamedNow /\ req'[c].revoked \subseteq RevokedNow
      BY <2>3, IndexGrows DEF HistoryKept, ReadFile
    <3> QED
      BY <1>2, <2>1, <2>3, <3>1, FileRead
  <2>4. CASE Named(c) \/ Enter(c)
    <3>1. PICK ctx \in Contexts, otherwise \in {"waiting", "prompting"} :
              Asked(c, ctx, Question(ctx), otherwise)
      BY <2>4, ContextMade
    <3>2. req[c].step # "idle"
      BY <2>4 DEF Named, Enter
    <3> QED
      BY <1>1, <3>1, <3>2, AskedMoves
  <2>5. CASE Approve(c)
    BY <1>1, <2>5 DEF Approve, Shaped, Fields
  <2> QED
    BY <1>6, <2>2, <2>3, <2>4, <2>5
<1>7. ASSUME NEW d \in Clients, Deny(d) \/ Finish(d) PROVE Kept(c)
  BY <1>1, <1>3, <1>7, EndForgets DEF Deny, Finish
<1>8. ASSUME NEW d \in Clients, Return(d) PROVE Kept(c)
  BY <1>1, <1>3, <1>8, ReturnLeaves DEF Return
<1>9. ASSUME NEW key \in PlainKeys, NEW session \in Sessions, ProveHost(key, session)
      PROVE  Kept(c)
  BY <1>3, <1>9 DEF ProveHost, askVars
<1>10. CASE TurnTree \/ ForgetApprovals
  BY <1>3, <1>10 DEF TurnTree, ForgetApprovals
<1>11. CASE EditFile
  <2>1. /\ req[c].step = "naming"
        /\ req'[c].named = req[c].named \cap NamedNow'
        /\ req'[c].revoked = req[c].revoked \cap RevokedNow'
        /\ req'[c].at = req[c].at /\ req'[c].index = req[c].index
    BY <1>1, <1>11 DEF EditFile, Shaped, Fields
  <2> QED
    BY <2>1 DEF HistoryKept
<1>12. CASE UNCHANGED allVars
  BY <1>3, <1>12 DEF allVars, askVars
<1> QED
  BY <1>4, <1>5, <1>6, <1>7, <1>8, <1>9, <1>10, <1>11, <1>12, StepsOf DEF World

\* Only a lookup that is over, or given up, ends the naming of a request.
LEMMA NamingEnds ==
    ASSUME KeptInv, [AskNext]_allVars, NEW c \in Clients,
           req[c].step = "naming", req'[c].step # "naming"
    PROVE  Named(c)
<1>1. Shaped /\ TypeOK
  BY DEF KeptInv, AskInv
<1>2. ASSUME NEW d \in Connections, Message(d) PROVE FALSE
  BY <1>1, <1>2, MessageLeaves DEF askVars
<1>3. ASSUME NEW d \in Clients, NEW key \in Keys, NEW what \in Userauth \cup {Other},
             Arrive(d, key, what)
      PROVE  FALSE
  BY <1>1, <1>3, ArriveStarts DEF Arrive
<1>4. ASSUME NEW d \in Clients, ReadFile(d) \/ Named(d) \/ Enter(d) \/ Approve(d)
      PROVE  Named(c)
  <2>1. d = c
    BY <1>1, <1>4, ServeMoves DEF Moves
  <2>2. ~ReadFile(c)
    BY IndexGrows
  <2> QED
    BY <1>4, <2>1, <2>2 DEF Enter, Approve
<1>5. ASSUME NEW d \in Clients, Deny(d) \/ Finish(d) PROVE FALSE
  BY <1>1, <1>5, EndForgets DEF Deny, Finish
<1>6. ASSUME NEW d \in Clients, Return(d) PROVE FALSE
  BY <1>1, <1>6, ReturnLeaves
<1>7. ASSUME NEW key \in PlainKeys, NEW session \in Sessions, ProveHost(key, session)
      PROVE  FALSE
  BY <1>7 DEF ProveHost, askVars
<1>8. ASSUME World PROVE FALSE
  BY <1>1, <1>8, WorldLeaves DEF Untouched
<1>9. ASSUME UNCHANGED allVars PROVE FALSE
  BY <1>9 DEF allVars, askVars
<1> QED
  BY <1>2, <1>3, <1>4, <1>5, <1>6, <1>7, <1>8, <1>9, StepsOf

(***************************************************************************)
(* A key that a file revoked all the while has no name, and a key with a   *)
(* name has every name that a file had for it all the while, however many  *)
(* files there are, in whatever order they are read and edited             *)
(* (index_files, Index::name_for).                                         *)
(***************************************************************************)
THEOREM HostsNamedAsRecorded == AskSpec => NamesAsRecorded
<1> DEFINE AsRecorded(c) ==
              \A i \in DOMAIN req'[c].ctx.hops :
                LET hop == req'[c].ctx.hops[i]
                IN  /\ \A entry \in req[c].revoked :
                          entry[2] = hop.fingerprint => hop.names = <<>>
                    /\ \A entry \in req[c].named :
                          entry[2] = hop.fingerprint /\ hop.names # <<>>
                              => entry[3] \in ToSet(hop.names)
<1>1. ASSUME KeptInv, HistoryKept, [AskNext]_allVars, NEW c \in Clients,
             req[c].step = "naming", req'[c].step # "naming"
      PROVE  AsRecorded(c)
  <2>1. Named(c)
    BY <1>1, NamingEnds
  <2>2. PICK index \in {NoIndex, req[c].index} :
            /\ index = req[c].index => Chain(c) = <<>> \/ req[c].at > NumFiles
            /\ LET ctx == ContextOf(req[c].key, peer[c], NamedHops(c, index))
               IN  Asked(c, ctx, Question(ctx), "waiting")
    BY <2>1 DEF Named
  <2>3. req'[c].ctx = ContextOf(req[c].key, peer[c], NamedHops(c, index))
    BY <1>1, <2>2, AskedMoves DEF KeptInv, AskInv
  <2>4. req'[c].ctx.hops = NamedHops(c, index)
    BY <2>3 DEF ContextOf
  <2> SUFFICES ASSUME NEW i \in DOMAIN Chain(c)
               PROVE  LET key == KeyOf[Chain(c)[i].host_key]
                      IN  /\ \A entry \in req[c].revoked :
                                entry[2] = key => NameFor(index, key) = <<>>
                          /\ \A entry \in req[c].named :
                                entry[2] = key /\ NameFor(index, key) # <<>>
                                    => entry[3] \in ToSet(NameFor(index, key))
    BY <2>4 DEF NamedHops
  <2> DEFINE key == KeyOf[Chain(c)[i].host_key]
  <2>5. key \in PlainKeys
    <3>1. Chain(c) \in Seq(Binding)
      BY <1>1 DEF KeptInv, Chain, TypeOK
    <3>2. Chain(c)[i] \in Binding
      BY <3>1
    <3> QED
      BY <3>2, HostAssumption DEF Binding
  <2> HIDE DEF key
  <2>6. CASE index = NoIndex
    BY <2>5, <2>6 DEF NameFor, NoIndex, key
  <2>7. CASE index = req[c].index
    <3>1. req[c].at > NumFiles
      <4>1. Chain(c) # <<>>
        OBVIOUS
      <4> QED
        BY <2>2, <2>7, <4>1
    <3>2. Served(c)
      BY <1>1 DEF KeptInv, RequestsKept
    <3>3. /\ \A entry \in req[c].named : entry[1] < req[c].at
          /\ \A entry \in req[c].revoked : entry[1] < req[c].at
      BY <1>1, <3>1, <3>2, RecordedNow, BoundsAssumption DEF HistoryKept, Served
    <3>4. /\ \A entry \in req[c].named : HasName(index, entry[2], entry[3])
          /\ \A entry \in req[c].revoked : entry[2] \in index.revoked
      BY <1>1, <2>7, <3>3 DEF HistoryKept
    <3> QED
      BY <3>4 DEF NameFor, HasName, key
  <2> QED
    BY <2>6, <2>7
<1>2. KeptInv /\ HistoryKept /\ [AskNext]_allVars =>
          [\A c \in Clients :
              (req[c].step = "naming" /\ req'[c].step # "naming") => AsRecorded(c)]_allVars
  BY <1>1
<1>3. AskInit => HistoryKept
  BY DEF AskInit, HistoryKept, NoRequest
<1> QED
  BY <1>2, <1>3, HistoryKeptStep, AskKeepsMemory, PTL DEF AskSpec, NamesAsRecorded
=============================================================================
