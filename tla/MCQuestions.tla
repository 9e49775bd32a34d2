---------------------------- MODULE MCQuestions -----------------------------
(* An instance of Questions: a plain host key and two certificates over     *)
(* another, processes named to be mistaken for one another, known_hosts     *)
(* files that name and revoke.                                              *)
EXTENDS Questions

CONSTANTS plain, cert1, cert2, key1, key2, s1, s2, s3

ThreeHostKeys == {plain, cert1, cert2}
TwoPlainKeys == {key1, key2}
PlainAndCertificates == plain :> key1 @@ cert1 :> key2 @@ cert2 :> key2
ThreeSessions == {s1, s2, s3}
SessionSymmetry == Permutations(ThreeSessions)

MCKeys == {[item |-> <<"i">>, fingerprint |-> <<"f">>, name |-> <<"work", "RLO", "x">>]}
MCPeers == {[pid |-> 9, uid |-> "u"], [pid |-> NoPid, uid |-> "u"]}

Process(path, parent) == [path |-> path, parent |-> parent]
Bin(name) == <<"bin", "/", name>>

\* ssh under git under a shell, in a terminal; under one file named like the two; a loop of
\* shells; and a process that cannot be read.
MCTrees == {
    9 :> Process(Bin("ssh"), 8) @@ 8 :> Process(Bin("a"), 7)
        @@ 7 :> Process(Bin("b"), 1),
    9 :> Process(Bin("ssh"), 8)
        @@ 8 :> Process(<<"bin", "/", "a", "->", "bin", "/", "b">>, 1),
    9 :> Process(Bin("ssh"), 8) @@ 8 :> Process(Bin("US"), 7)
        @@ 7 :> Process(Bin("US"), 6)
        @@ 6 :> Process(<<"Term", ".app", "/", "h", ".app", "/", "t">>, 5),
    8 :> Process(Bin("a"), 1)}

NamedLine(key, host) == [mark |-> "none", hosts |-> <<host>>, key |-> key]
RevokedLine(key) == [mark |-> "revoked", hosts |-> Hashed, key |-> key]

MCGlyphs == PlainKeys \cup {"i", "f", "u", "work", "RLO", "x", "bin", "ssh", "a", "b", "->", "US",
                           "/", ", ", "Term", ".app", "h", "t", "git", "hub"}

MCContents == {
    NoFile,
    <<NamedLine(key1, "git"), [mark |-> "none", hosts |-> Hashed, key |-> key1],
      NamedLine("garbled", "x"), [mark |-> "authority", hosts |-> <<"x">>, key |-> key1]>>,
    <<NamedLine(key1, "git"), NamedLine(key1, "hub"), RevokedLine(key2)>>,
    <<RevokedLine(key1), NamedLine(key1, "git")>>}

MCLines == UNION {ToSet(contents) : contents \in MCContents \ {NoFile}}

-----------------------------------------------------------------------------
(* Bounds: a chain is built before the first approval and while the world   *)
(* stands still, and questions are asked with chains whose histories hold   *)
(* nothing else; an unbound connection is asked for one kind of data. Two   *)
(* clients ask where their questions can be the same, which is where no     *)
(* host is bound, and files change where there are hosts to be looked up.   *)

Still == changes = 0 /\ approved = {} /\ \A c \in Locals : req[c].step = "idle"

Settled ==
    \A c \in Connections :
        /\ proved = {<<KeyOf[bind.host_key], bind.session_id>> : bind \in Bound(c)}
        /\ accepted[c] = {HopOf(bind) : bind \in Bound(c)}
        /\ approved = {} => signed[c] = Unsigned

Data(c) ==
    IF IsBound(c) THEN {[session_id |-> Newest(c).session_id, host_key |-> NoHost]} ELSE {Other}

MCInit ==
    /\ AskInit
    /\ 7 \in DOMAIN tree /\ 6 \notin DOMAIN tree
    /\ files = [f \in 1 .. NumFiles |-> NoFile]
    /\ peer = [c \in Clients |-> [pid |-> 9, uid |-> "u"]]

Alone == \E c \in Connections : IsBound(c)

MCNext ==
    \/ \E c \in Connections :
          \/ \E bind \in Binding : Still /\ BindHost(c, bind)
          \/ \E what \in Userauth \cup {Other} : Still /\ SignUnasked(c, what)
          \/ \E what \in Data(c), key \in Keys : Settled /\ Arrive(c, key, what)
          \/ Still /\ Return(c)
    \/ \E c \in Locals, key \in Keys : Settled /\ ~Alone /\ Arrive(c, key, Other)
    \/ \E c \in Locals : Settled /\ ~Alone /\ Return(c)
    \/ \E c \in Clients : Serve(c)
    \/ \E key \in PlainKeys, session \in Sessions : Still /\ ProveHost(key, session)
    \/ Settled /\ TurnTree
    \/ Settled /\ Alone /\ EditFile
    \/ ForgetApprovals

MCSpec == MCInit /\ [][MCNext]_allVars
=============================================================================
