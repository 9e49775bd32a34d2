-------------------------- MODULE SessionBindProofs --------------------------
(***************************************************************************)
(* SessionBind's invariants, for every number of connections, hosts,       *)
(* sessions and bindings. A chain changes only by a hop at its end, so     *)
(* each invariant is shown across Append; SignedWhereBound says where a    *)
(* signature was given, and that place is never written again.             *)
(***************************************************************************)
EXTENDS SessionBind, SequenceTheorems, TLAPS

\* Everything the state has is of its type.
LEMMA TypeStep == TypeOK /\ [Next]_vars => TypeOK'
<1> SUFFICES ASSUME TypeOK, [Next]_vars PROVE TypeOK'
  OBVIOUS
<1> USE DEF TypeOK
<1>1. ASSUME NEW c \in Connections, NEW bind \in Binding, Bind(c, bind) PROVE TypeOK'
  <2>1. bindings[c] \in Seq(Binding)
    OBVIOUS
  <2>2. Append(bindings[c], bind) \in Seq(Binding)
    BY <2>1, AppendProperties
  <2>3. bindings' \in [Connections -> Seq(Binding)]
    BY <1>1, <2>2 DEF Bind
  <2>4. HopOf(bind) \in Hop
    BY DEF Binding, HopOf, Hop
  <2>5. accepted' \in [Connections -> SUBSET Hop]
    BY <1>1, <2>4 DEF Bind
  <2> QED
    BY <1>1, <2>3, <2>5 DEF Bind
<1>2. ASSUME NEW c \in Connections, NEW what \in Userauth \union {Other}, Sign(c, what)
      PROVE TypeOK'
  <2>1. Len(bindings[c]) \in Nat
    BY LenProperties
  <2>2. [what |-> what, hop |-> Len(bindings[c])] \in Signatures
    BY <2>1 DEF Signatures
  <2> QED
    BY <1>2, <2>2 DEF Sign
<1>3. ASSUME NEW c \in Connections, Reconnect(c) PROVE TypeOK'
  BY <1>3 DEF Reconnect
<1>4. ASSUME NEW key \in PlainKeys, NEW session \in Sessions, Prove(key, session)
      PROVE TypeOK'
  BY <1>4 DEF Prove
<1>5. CASE UNCHANGED vars
  BY <1>5 DEF vars
<1> QED
  BY <1>1, <1>2, <1>3, <1>4, <1>5 DEF Next

LEMMA TypeCorrect == Spec => []TypeOK
<1>1. Init => TypeOK
  BY DEF Init, TypeOK
<1> QED
  BY <1>1, TypeStep, PTL DEF Spec

-----------------------------------------------------------------------------
(* A connection's step leaves its chain, adds to its end, or clears it.    *)

\* What Bind does to the chain of the connection it comes on.
LEMMA BindAppends ==
    ASSUME TypeOK, NEW c \in Connections, NEW bind \in Binding, Bind(c, bind)
    PROVE  /\ \A d \in Connections \ {c} : bindings'[d] = bindings[d]
           /\ \/ bindings'[c] = bindings[c]
              \/ /\ bindings'[c] = Append(bindings[c], bind)
                 /\ Len(bindings[c]) < MaxBindings
                 /\ ~Conflicts(c, bind)
           /\ Verified(bind)
           /\ ~AtDestination(c)
           /\ proved' = proved
BY LenProperties, LimitAssumption DEF Bind, TypeOK, Full

\* A chain is sound: one connection's part of ChainSound.
ChainOf(c) ==
    /\ Len(bindings[c]) <= MaxBindings
    /\ \A i \in DOMAIN bindings[c] :
          /\ Verified(bindings[c][i])
          /\ i < Len(bindings[c]) => bindings[c][i].is_forwarding
          /\ \A j \in DOMAIN bindings[c] :
                bindings[c][i].session_id = bindings[c][j].session_id => i = j

\* A hop at the end keeps a chain sound.
LEMMA ChainGrows ==
    ASSUME TypeOK, NEW c \in Connections, NEW bind \in Binding, ChainOf(c),
           bindings'[c] = Append(bindings[c], bind), Len(bindings[c]) < MaxBindings,
           ~Conflicts(c, bind), Verified(bind), ~AtDestination(c), proved' = proved
    PROVE  ChainOf(c)'
<1> DEFINE old == bindings[c]
           new == Append(old, bind)
<1>1. old \in Seq(Binding) /\ new \in Seq(Binding)
  BY AppendProperties DEF TypeOK
<1>2. /\ Len(new) = Len(old) + 1
      /\ Len(old) \in Nat
      /\ DOMAIN old = 1..Len(old)
      /\ DOMAIN new = 1..Len(old) + 1
      /\ \A i \in 1..Len(old) : new[i] = old[i]
      /\ new[Len(old) + 1] = bind
  BY <1>1, AppendProperties, LenProperties
<1>3. Len(new) <= MaxBindings
  BY <1>2, LimitAssumption
<1>4. \A i \in 1..Len(old) : old[i].is_forwarding
  <2> SUFFICES ASSUME NEW i \in 1..Len(old) PROVE old[i].is_forwarding
    OBVIOUS
  <2>1. CASE i < Len(old)
    BY <2>1, <1>2 DEF ChainOf
  <2>2. CASE i = Len(old)
    <3>1. old # <<>>
      BY <1>2, <2>2
    <3> QED
      BY <2>2, <3>1 DEF AtDestination, IsBound, Newest
  <2> QED
    BY <2>1, <2>2, <1>2
<1>5. \A i \in 1..Len(old) : old[i].session_id # bind.session_id
  BY <1>2 DEF Conflicts, Bound
<1> HIDE DEF old, new
<1>6. ASSUME NEW i \in DOMAIN new
      PROVE  /\ <<KeyOf[new[i].host_key], new[i].session_id>> \in proved
             /\ i < Len(new) => new[i].is_forwarding
             /\ \A j \in DOMAIN new : new[i].session_id = new[j].session_id => i = j
  <2>1. <<KeyOf[new[i].host_key], new[i].session_id>> \in proved
    BY <1>2, <1>6 DEF ChainOf, Verified, old
  <2>2. i < Len(new) => new[i].is_forwarding
    BY <1>2, <1>4, <1>6
  <2>3. ASSUME NEW j \in DOMAIN new, new[i].session_id = new[j].session_id PROVE i = j
    <3>1. CASE i \in 1..Len(old) /\ j \in 1..Len(old)
      BY <1>2, <2>3, <3>1 DEF ChainOf, old
    <3>2. CASE i = Len(old) + 1 \/ j = Len(old) + 1
      BY <1>2, <1>5, <2>3, <1>6, <3>2
    <3> QED
      BY <1>2, <1>6, <2>3, <3>1, <3>2
  <2> QED
    BY <2>1, <2>2, <2>3
<1>7. bindings'[c] = new
  BY DEF new, old
<1> QED
  BY <1>3, <1>6, <1>7 DEF ChainOf, Verified

\* An empty chain is sound.
LEMMA EmptyChain ==
    ASSUME NEW c \in Connections, bindings'[c] = <<>> PROVE ChainOf(c)'
BY LimitAssumption DEF ChainOf

\* A chain that stays is still sound, whatever else hosts come to sign.
LEMMA ChainStays ==
    ASSUME NEW c \in Connections, ChainOf(c), bindings'[c] = bindings[c],
           proved \subseteq proved'
    PROVE  ChainOf(c)'
BY DEF ChainOf, Verified

(***************************************************************************)
(* The chain of every connection is sound, however many hosts there are    *)
(* and whatever they sign (handle_extension).                              *)
(***************************************************************************)
THEOREM ChainIsSound == Spec => []ChainSound
<1>0. ChainSound <=> \A c \in Connections : ChainOf(c)
  BY DEF ChainSound, ChainOf
<1>1. Init => ChainSound
  <2> SUFFICES ASSUME Init, NEW c \in Connections PROVE ChainOf(c)
    BY <1>0
  <2>1. bindings[c] = <<>>
    BY DEF Init
  <2> QED
    BY <2>1, LimitAssumption DEF ChainOf
<1>2. TypeOK /\ ChainSound /\ [Next]_vars => ChainSound'
  <2> SUFFICES ASSUME TypeOK, \A c \in Connections : ChainOf(c), [Next]_vars,
                      NEW d \in Connections
               PROVE  ChainOf(d)'
    BY <1>0 DEF ChainSound, ChainOf
  <2>1. ASSUME NEW c \in Connections, NEW bind \in Binding, Bind(c, bind) PROVE ChainOf(d)'
    <3>1. CASE bindings'[d] = bindings[d]
      BY <2>1, <3>1, BindAppends, ChainStays
    <3>2. CASE d = c /\ bindings'[c] = Append(bindings[c], bind) /\ ~Conflicts(c, bind)
               /\ Len(bindings[c]) < MaxBindings
      BY <2>1, <3>2, BindAppends, ChainGrows
    <3> QED
      BY <2>1, <3>1, <3>2, BindAppends
  <2>2. ASSUME NEW c \in Connections, NEW what \in Userauth \union {Other}, Sign(c, what)
        PROVE ChainOf(d)'
    BY <2>2, ChainStays DEF Sign
  <2>3. ASSUME NEW c \in Connections, Reconnect(c) PROVE ChainOf(d)'
    <3>1. bindings'[d] = IF d = c THEN <<>> ELSE bindings[d]
      BY <2>3 DEF Reconnect, TypeOK
    <3> QED
      BY <2>3, <3>1, EmptyChain, ChainStays DEF Reconnect
  <2>4. ASSUME NEW key \in PlainKeys, NEW session \in Sessions, Prove(key, session)
        PROVE ChainOf(d)'
    BY <2>4, ChainStays DEF Prove
  <2>5. CASE UNCHANGED vars
    BY <2>5, ChainStays DEF vars
  <2> QED
    BY <2>1, <2>2, <2>3, <2>4, <2>5 DEF Next
<1> QED
  BY <1>1, <1>2, TypeCorrect, PTL DEF Spec
-----------------------------------------------------------------------------
\* One connection's part of SignedWhereBound.
SignedOn(c) ==
    signed[c] # Unsigned =>
        /\ signed[c].hop <= Len(bindings[c])
        /\ signed[c].hop > 0 =>
              /\ signed[c].what \in Userauth
              /\ signed[c].what.session_id = bindings[c][signed[c].hop].session_id
              /\ signed[c].what.host_key \in {bindings[c][signed[c].hop].host_key, NoHost}

\* A chain that grows or stays leaves a signature where it was given.
LEMMA SignedStays ==
    ASSUME TypeOK, NEW c \in Connections, SignedOn(c), signed'[c] = signed[c],
           \/ bindings'[c] = bindings[c]
           \/ \E bind \in Binding : bindings'[c] = Append(bindings[c], bind)
    PROVE  SignedOn(c)'
<1>1. CASE bindings'[c] = bindings[c]
  BY <1>1 DEF SignedOn
<1>2. CASE \E bind \in Binding : bindings'[c] = Append(bindings[c], bind)
  <2>1. PICK bind \in Binding : bindings'[c] = Append(bindings[c], bind)
    BY <1>2
  <2>2. bindings[c] \in Seq(Binding)
    BY DEF TypeOK
  <2>3. /\ Len(bindings[c]) \in Nat
        /\ Len(bindings'[c]) = Len(bindings[c]) + 1
        /\ \A i \in 1..Len(bindings[c]) : bindings'[c][i] = bindings[c][i]
    BY <2>1, <2>2, AppendProperties, LenProperties
  <2>4. signed[c] # Unsigned => signed[c].hop \in Nat
    BY DEF TypeOK, Signatures
  <2> QED
    BY <2>3, <2>4 DEF SignedOn
<1> QED
  BY <1>1, <1>2

(***************************************************************************)
(* Whatever was signed on a bound connection was asked for the session of  *)
(* the host that was newest then, and that host still stands there (sign,  *)
(* userauth_session_id).                                                   *)
(***************************************************************************)
THEOREM SignedForTheNewestHost == Spec => []SignedWhereBound
<1>0. SignedWhereBound <=> \A c \in Connections : SignedOn(c)
  BY DEF SignedWhereBound, SignedOn
<1>1. Init => SignedWhereBound
  BY DEF Init, SignedWhereBound
<1>2. TypeOK /\ SignedWhereBound /\ [Next]_vars => SignedWhereBound'
  <2> SUFFICES ASSUME TypeOK, \A c \in Connections : SignedOn(c), [Next]_vars,
                      NEW d \in Connections
               PROVE  SignedOn(d)'
    BY <1>0 DEF SignedWhereBound, SignedOn
  <2>1. ASSUME NEW c \in Connections, NEW bind \in Binding, Bind(c, bind) PROVE SignedOn(d)'
    <3>1. signed' = signed
      BY <2>1 DEF Bind
    <3>2. \/ bindings'[d] = bindings[d]
          \/ bindings'[d] = Append(bindings[d], bind)
      BY <2>1, BindAppends
    <3> QED
      BY <3>1, <3>2, SignedStays
  <2>2. ASSUME NEW c \in Connections, NEW what \in Userauth \union {Other}, Sign(c, what)
        PROVE SignedOn(d)'
    <3>1. CASE d = c
      <4>1. signed'[c] = [what |-> what, hop |-> Len(bindings[c])] /\ bindings' = bindings
        BY <2>2 DEF Sign, TypeOK
      <4>2. bindings[c] \in Seq(Binding) /\ Len(bindings[c]) \in Nat
        BY LenProperties DEF TypeOK
      <4>3. CASE bindings[c] = <<>>
        BY <3>1, <4>1, <4>2, <4>3 DEF SignedOn
      <4>4. CASE bindings[c] # <<>>
        BY <2>2, <3>1, <4>1, <4>2, <4>4 DEF SignedOn, Sign, Fits, IsBound, Newest
      <4> QED
        BY <4>3, <4>4
    <3>2. CASE d # c
      BY <2>2, <3>2, SignedStays DEF Sign, TypeOK
    <3> QED
      BY <3>1, <3>2
  <2>3. ASSUME NEW c \in Connections, Reconnect(c) PROVE SignedOn(d)'
    <3>1. CASE d = c
      BY <2>3, <3>1 DEF Reconnect, TypeOK, SignedOn
    <3>2. CASE d # c
      BY <2>3, <3>2, SignedStays DEF Reconnect, TypeOK
    <3> QED
      BY <3>1, <3>2
  <2>4. ASSUME NEW key \in PlainKeys, NEW session \in Sessions, Prove(key, session)
        PROVE SignedOn(d)'
    BY <2>4, SignedStays DEF Prove
  <2>5. CASE UNCHANGED vars
    BY <2>5, SignedStays DEF vars
  <2> QED
    BY <2>1, <2>2, <2>3, <2>4, <2>5 DEF Next
<1> QED
  BY <1>1, <1>2, TypeCorrect, PTL DEF Spec

(***************************************************************************)
(* Every binding answered with success stands on its connection, under the *)
(* host key that was sent (handle_extension).                              *)
(***************************************************************************)
THEOREM AcceptedStands == Spec => []AcceptedIsBound
<1> DEFINE On(c) == \A hop \in accepted[c] : \E bind \in Bound(c) : hop = HopOf(bind)
<1>1. Init => AcceptedIsBound
  BY DEF Init, AcceptedIsBound
<1>2. TypeOK /\ AcceptedIsBound /\ [Next]_vars => AcceptedIsBound'
  <2> SUFFICES ASSUME TypeOK, \A c \in Connections : On(c), [Next]_vars, NEW d \in Connections
               PROVE  On(d)'
    BY DEF AcceptedIsBound
  <2>0. ASSUME accepted'[d] \subseteq accepted[d], bindings'[d] = bindings[d] PROVE On(d)'
    BY <2>0 DEF Bound
  <2>1. ASSUME NEW c \in Connections, NEW bind \in Binding, Bind(c, bind) PROVE On(d)'
    <3>1. CASE d = c
      <4>1. accepted'[c] = accepted[c] \union {HopOf(bind)}
        BY <2>1 DEF Bind, TypeOK
      <4>2. CASE Seen(c, bind) /\ bindings' = bindings
        <5>1. \E seen \in Bound(c) : HopOf(bind) = HopOf(seen)
          BY <4>2 DEF Seen, HopOf
        <5> QED
          BY <3>1, <4>1, <4>2, <5>1 DEF Bound
      <4>3. CASE bindings'[c] = Append(bindings[c], bind)
        <5>1. bindings[c] \in Seq(Binding)
          BY DEF TypeOK
        <5>2. /\ Len(bindings[c]) \in Nat
              /\ DOMAIN bindings[c] = 1..Len(bindings[c])
              /\ DOMAIN bindings'[c] = 1..Len(bindings[c]) + 1
              /\ \A i \in 1..Len(bindings[c]) : bindings'[c][i] = bindings[c][i]
              /\ bindings'[c][Len(bindings[c]) + 1] = bind
          BY <4>3, <5>1, AppendProperties, LenProperties
        <5>3. Bound(c)' = Bound(c) \union {bind}
          BY <5>2 DEF Bound
        <5> QED
          BY <3>1, <4>1, <5>3
      <4> QED
        BY <2>1, <4>2, <4>3 DEF Bind, TypeOK
    <3>2. CASE d # c
      BY <2>0, <2>1, <3>2, BindAppends DEF Bind, TypeOK
    <3> QED
      BY <3>1, <3>2
  <2>2. ASSUME NEW c \in Connections, NEW what \in Userauth \union {Other}, Sign(c, what)
        PROVE On(d)'
    BY <2>0, <2>2 DEF Sign
  <2>3. ASSUME NEW c \in Connections, Reconnect(c) PROVE On(d)'
    <3>1. CASE d = c
      BY <2>3, <3>1 DEF Reconnect, TypeOK
    <3>2. CASE d # c
      BY <2>0, <2>3, <3>2 DEF Reconnect, TypeOK
    <3> QED
      BY <3>1, <3>2
  <2>4. ASSUME NEW key \in PlainKeys, NEW session \in Sessions, Prove(key, session)
        PROVE On(d)'
    BY <2>0, <2>4 DEF Prove
  <2>5. CASE UNCHANGED vars
    BY <2>0, <2>5 DEF vars
  <2> QED
    BY <2>1, <2>2, <2>3, <2>4, <2>5 DEF Next
<1> QED
  BY <1>1, <1>2, TypeCorrect, PTL DEF Spec
=============================================================================
