----------------------------- MODULE SessionBind -----------------------------
(***************************************************************************)
(* The hosts a connection is bound to, and what it may have signed: the    *)
(* session-bind extension and the check at the head of sign in             *)
(* src/src/agent.rs, with the reading of both requests in                  *)
(* src/src/signing.rs.                                                     *)
(*                                                                         *)
(* A connection is served one message at a time, so a message is one step, *)
(* and what a prompt says of the chain of hosts is still so when the       *)
(* signature is issued. Who may have asked is left open: a host may sign   *)
(* any session id, and any message may arrive at any time.                 *)
(***************************************************************************)
EXTENDS Integers, Sequences

CONSTANTS
    Connections,
    HostKeys,       \* host keys as the bytes a host sends: plain, or certificates
    PlainKeys,      \* the keys themselves, as fingerprinted
    KeyOf,          \* the plain key of a host key: of a certificate, the one inside
    Sessions,       \* session ids
    NoHost,         \* of a userauth request that is not host-bound
    Other,          \* data that is not a userauth request for the key asked for
    Unsigned,       \* of a connection whose signatures are not looked at
    MaxBindings     \* MAX_SESSION_BINDINGS

ASSUME HostAssumption == KeyOf \in [HostKeys -> PlainKeys] /\ NoHost \notin HostKeys
ASSUME LimitAssumption == MaxBindings \in Nat \ {0}

Binding == [host_key : HostKeys, session_id : Sessions, is_forwarding : BOOLEAN]
Hop == [host_key : HostKeys, session_id : Sessions]
Userauth == [session_id : Sessions, host_key : HostKeys \union {NoHost}]

Signatures == [what : Userauth \union {Other}, hop : Nat]

ASSUME OtherAssumption == Other \notin Userauth /\ Unsigned \notin Signatures

VARIABLES
    bindings,       \* each connection's SessionBindings, oldest hop first
    proved,         \* which host has signed which session id
    accepted,       \* history: bindings answered with success
    signed          \* history: a signature, any one, and how many hosts were bound then

vars == <<bindings, proved, accepted, signed>>

TypeOK ==
    /\ bindings \in [Connections -> Seq(Binding)]
    /\ proved \in SUBSET (PlainKeys \X Sessions)
    /\ accepted \in [Connections -> SUBSET Hop]
    /\ signed \in [Connections -> Signatures \union {Unsigned}]

Init ==
    /\ bindings = [c \in Connections |-> <<>>]
    /\ proved = {}
    /\ accepted = [c \in Connections |-> {}]
    /\ signed = [c \in Connections |-> Unsigned]

-----------------------------------------------------------------------------
(* What a binding meets on its connection.                                 *)

HopOf(bind) == [host_key |-> bind.host_key, session_id |-> bind.session_id]
Bound(c) == {bindings[c][i] : i \in DOMAIN bindings[c]}
IsBound(c) == bindings[c] # <<>>
Newest(c) == bindings[c][Len(bindings[c])]

\* A variant that must fail: two certificates over one key taken for one host key.
SeenByFingerprint(c, bind) ==
    \E seen \in Bound(c) :
        KeyOf[seen.host_key] = KeyOf[bind.host_key] /\ seen.session_id = bind.session_id

\* A replay; whether it says the agent is forwarded is not compared.
Seen(c, bind) ==
    \E seen \in Bound(c) :
        seen.host_key = bind.host_key /\ seen.session_id = bind.session_id

\* A variant that must fail: only another plain key counts as another host.
ConflictsByFingerprint(c, bind) ==
    \E seen \in Bound(c) :
        KeyOf[seen.host_key] # KeyOf[bind.host_key] /\ seen.session_id = bind.session_id

Conflicts(c, bind) == \E seen \in Bound(c) : seen.session_id = bind.session_id

\* bound_host_key: the host's signature over the session id verifies.
Verified(bind) == <<KeyOf[bind.host_key], bind.session_id>> \in proved

\* The connection's destination is bound: nothing binds after it.
AtDestination(c) == IsBound(c) /\ ~Newest(c).is_forwarding

Full(c) == Len(bindings[c]) >= MaxBindings

\* A variant that must fail: a request for any bound session will do.
FitsAny(c, what) ==
    IsBound(c) => /\ what \in Userauth
                  /\ \E bind \in Bound(c) :
                        /\ what.session_id = bind.session_id
                        /\ what.host_key \in {bind.host_key, NoHost}

\* userauth_session_id against the newest binding; an unbound connection is free.
Fits(c, what) ==
    IsBound(c) => /\ what \in Userauth
                  /\ what.session_id = Newest(c).session_id
                  /\ what.host_key \in {Newest(c).host_key, NoHost}

-----------------------------------------------------------------------------
(* The messages. A message refused changes nothing, and is no step.        *)

(***************************************************************************)
(* handle_extension: a binding that is well formed and within the sizes.   *)
(* The destination is looked at first, so there even a replay is refused;  *)
(* the limit last, so a full chain still takes one.                        *)
(***************************************************************************)
Bind(c, bind) ==
    /\ Verified(bind)
    /\ ~AtDestination(c)
    /\ \/ /\ Seen(c, bind)
          /\ UNCHANGED bindings
       \/ /\ ~Seen(c, bind) /\ ~Conflicts(c, bind) /\ ~Full(c)
          /\ bindings' = [bindings EXCEPT ![c] = Append(@, bind)]
    /\ accepted' = [accepted EXCEPT ![c] = @ \union {HopOf(bind)}]
    /\ UNCHANGED <<proved, signed>>

\* sign, once everything else it may refuse for has not been in the way; a signature
\* nobody looks at later changes nothing, and is no step.
Sign(c, what) ==
    /\ Fits(c, what)
    /\ signed' = [signed EXCEPT ![c] = [what |-> what, hop |-> Len(bindings[c])]]
    /\ UNCHANGED <<bindings, proved, accepted>>

\* The client has gone; the next one gets a clone of the agent that is bound to nothing.
Reconnect(c) ==
    /\ bindings' = [bindings EXCEPT ![c] = <<>>]
    /\ accepted' = [accepted EXCEPT ![c] = {}]
    /\ signed' = [signed EXCEPT ![c] = Unsigned]
    /\ UNCHANGED proved

\* A host signs a session id in a key exchange with someone, somewhere.
Prove(key, session) ==
    /\ proved' = proved \union {<<key, session>>}
    /\ UNCHANGED <<bindings, accepted, signed>>

Next ==
    \/ \E c \in Connections :
          \/ \E bind \in Binding : Bind(c, bind)
          \/ \E what \in Userauth \union {Other} : Sign(c, what)
          \/ Reconnect(c)
    \/ \E key \in PlainKeys, session \in Sessions : Prove(key, session)

Spec == Init /\ [][Next]_vars

-----------------------------------------------------------------------------
(***************************************************************************)
(* The chain a prompt shows is one an agent can have been forwarded along: *)
(* every host on it proved itself for its session, no session stands under *)
(* two host keys, every hop but the newest forwards the agent, and it has  *)
(* at most MAX_SESSION_BINDINGS hops (handle_extension).                   *)
(***************************************************************************)
ChainSound ==
    \A c \in Connections :
        /\ Len(bindings[c]) <= MaxBindings
        /\ \A i \in DOMAIN bindings[c] :
              /\ Verified(bindings[c][i])
              /\ i < Len(bindings[c]) => bindings[c][i].is_forwarding
              /\ \A j \in DOMAIN bindings[c] :
                    bindings[c][i].session_id = bindings[c][j].session_id => i = j

(***************************************************************************)
(* A binding answered with success is recorded, under the host key that    *)
(* was sent: "a request bound to the second [certificate over one key] has *)
(* to find the second recorded" (handle_extension).                        *)
(***************************************************************************)
AcceptedIsBound ==
    \A c \in Connections : \A hop \in accepted[c] :
        \E bind \in Bound(c) : hop = HopOf(bind)

(***************************************************************************)
(* Whatever was signed while a host was bound was a userauth request for   *)
(* the session of the host that was newest then, and if it names a host    *)
(* key, that one's; and the chain has only grown since, so that host still *)
(* stands where the prompt showed it (sign, userauth_session_id).          *)
(***************************************************************************)
SignedWhereBound ==
    \A c \in Connections : signed[c] # Unsigned =>
        LET hop == signed[c].hop
            what == signed[c].what
        IN  /\ hop <= Len(bindings[c])
            /\ hop > 0 => /\ what \in Userauth
                          /\ what.session_id = bindings[c][hop].session_id
                          /\ what.host_key \in {bindings[c][hop].host_key, NoHost}
=============================================================================
