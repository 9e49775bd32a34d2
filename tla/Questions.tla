----------------------------- MODULE Questions ------------------------------
(***************************************************************************)
(* What a prompt says, and which earlier yes answers for it: approval_for  *)
(* and named_bindings of src/src/agent.rs, ConfirmContext,                 *)
(* describe_request and approval_question of src/src/confirm/mod.rs, the   *)
(* host names of src/src/knownhosts.rs, the requester of                   *)
(* src/src/requester.rs and the escaping of src/src/text.rs, on            *)
(* connections bound to hosts as SessionBind has it.                       *)
(*                                                                         *)
(* Files are read and processes looked at while both change, and a request *)
(* may wait long for its turn to prompt. When an approval is forgotten is  *)
(* Approvals and SigningAgent; here it may be at any time.                 *)
(*                                                                         *)
(* A text is a sequence of glyphs. "\n", "RS", "US" and "RLO" stand for    *)
(* the glyphs that are escaped, with the escapes they are shown as.        *)
(***************************************************************************)
EXTENDS SessionBind, SequencesExt

CONSTANTS
    Glyphs,         \* what text is made of
    Locals,         \* connections of local tools, which bind no hosts
    Keys,           \* what is served: records of item, fingerprint and name
    Peers,          \* what a socket can say of a client: records of pid and uid
    NoPid,          \* of a client whose socket does not say its pid
    NoPeer,         \* of a client whose socket says nothing
    Trees,          \* the processes there may be: [pid -> path and parent]
    Lines,          \* what a line of known_hosts may say
    Contents,       \* what a known_hosts file may hold: lines, or NoFile
    NoFile,         \* absent, unreadable, too large or no file at all
    Hashed,         \* of a line that keeps its host names hashed
    NumFiles,       \* known_hosts files
    MaxOriginDepth, \* MAX_ORIGIN_DEPTH
    MaxShown,       \* MAX_DISPLAY_CHARS
    Nobody,         \* of a gate that is free
    NoQuestion,     \* of a requester that cannot be told from another
    MaxChanges,     \* a bound on the changes of processes and files
    MaxYes          \* a bound on the approvals given

Clients == Connections \cup Locals

ASSUME ClientAssumption == Connections \cap Locals = {} /\ Nobody \notin Clients
ASSUME BoundsAssumption == NumFiles \in Nat /\ MaxOriginDepth \in Nat /\ MaxChanges \in Nat

VARIABLES
    tree,           \* the processes
    files,          \* the known_hosts files
    peer,           \* who is behind each connection
    req,            \* the request each connection is being served
    gate,           \* who talks to the user
    remembered,     \* the questions a yes is remembered for
    approved,       \* history: what was shown of the requests the user approved
    changes         \* how many changes of tree and files there were

askVars == <<tree, files, peer, req, gate, remembered, approved, changes>>
allVars == <<vars, askVars>>

-----------------------------------------------------------------------------
(* Text.                                                                   *)

Text == Seq(Glyphs)

EscapeOf(glyph) ==
    CASE glyph = "\n" -> "\\x0a"
      [] glyph = "RS" -> "\\x1e"
      [] glyph = "US" -> "\\x1f"
      [] glyph = "RLO" -> "\\u{202e}"
      [] OTHER -> glyph

Escaped(text) == [i \in DOMAIN text |-> EscapeOf(text[i])]

\* display_bounded: cut after escaping, saying how much was left out.
Bounded(text) ==
    LET escaped == Escaped(text)
    IN  IF Len(escaped) <= MaxShown THEN [shown |-> escaped, more |-> 0]
        ELSE [shown |-> SubSeq(escaped, 1, MaxShown), more |-> Len(escaped) - MaxShown]

Joined(texts, separator) ==
    LET join[n \in 0 .. Len(texts)] ==
            IF n = 0 THEN <<>>
            ELSE IF n = 1 THEN texts[1] ELSE join[n - 1] \o <<separator>> \o texts[n]
    IN  join[Len(texts)]

\* Names and paths may hold any text. A uid is its digits and a fingerprint is base64, and
\* a line of known_hosts has no field that is empty.
ASSUME TextAssumption ==
    /\ ", " \in Glyphs
    /\ Keys \subseteq [item : Text, fingerprint : Text, name : Text]
    /\ \A printed \in PlainKeys \cup {client.uid : client \in Peers} :
          printed \in Glyphs /\ EscapeOf(printed) = printed
    /\ \A processes \in Trees : \A pid \in DOMAIN processes : processes[pid].path \in Text
    /\ \A line \in Lines : line.hosts = Hashed \/ line.hosts \in Text \ {<<>>}
    /\ Contents \ {NoFile} \subseteq Seq(Lines)

-----------------------------------------------------------------------------
(* The requester. Path and parent of a process that cannot be read are     *)
(* <<>> and 0.                                                             *)

PathOf(pid) == IF pid \in DOMAIN tree THEN tree[pid].path ELSE <<>>
ParentOf(pid) == IF pid \in DOMAIN tree THEN tree[pid].parent ELSE 0

\* The outermost bundle, if it has a name, and the file's name otherwise.
DisplayName(path) ==
    LET breaks == {0, Len(path) + 1} \cup {i \in DOMAIN path : path[i] = "/"}
        bundles == {i \in DOMAIN path : path[i] = ".app" /\ i + 1 \in breaks}
        outermost == Min(bundles)
        PartUpTo(end) == SubSeq(path, Max({i \in breaks : i <= end}) + 1, end)
    IN  IF bundles # {} /\ PartUpTo(outermost - 1) # <<>>
        THEN PartUpTo(outermost - 1) ELSE PartUpTo(Len(path))

\* origin_chain_from: so many steps up, stopping below the root and at what cannot be read.
Origin(pid) ==
    LET walk[n \in 0 .. MaxOriginDepth] ==
            IF n = 0 THEN [at |-> pid, names |-> <<>>]
            ELSE LET was == walk[n - 1]
                     next == ParentOf(was.at)
                     path == Escaped(PathOf(next))
                     up == [name |-> DisplayName(path), path |-> path]
                 IN  IF next <= 1 \/ path = <<>> THEN [was EXCEPT !.at = 0]
                     ELSE [at |-> next,
                           names |-> IF was.names # <<>> /\ Last(was.names).path = up.path
                                     THEN was.names ELSE Append(was.names, up)]
    IN  walk[MaxOriginDepth].names

-----------------------------------------------------------------------------
(* Host names. A line is a record of its marker, "none", "revoked" or      *)
(* another, its hosts, and its key, one of PlainKeys if it can be parsed.  *)

Names(line) == line.mark = "none" /\ line.hosts # Hashed /\ line.key \in PlainKeys

\* Revocation is of the key: that the line's host is hashed does not matter.
Revokes(line) == line.mark = "revoked" /\ line.key \in PlainKeys

NoIndex == [names |-> [key \in PlainKeys |-> <<>>], revoked |-> {}]

\* A variant that must fail: a revocation takes away the names found so far.
AddLineInOrder(index, line) ==
    [index EXCEPT !.names =
        [key \in PlainKeys |->
            IF Revokes(line) /\ key = line.key THEN <<>>
            ELSE IF Names(line) /\ key = line.key THEN Append(@[key], line.hosts) ELSE @[key]]]

\* One host in two files is one name.
AddLine(index, line) ==
    [names |-> IF Names(line) /\ ~Contains(index.names[line.key], line.hosts)
               THEN [index.names EXCEPT ![line.key] = Append(@, line.hosts)]
               ELSE index.names,
     revoked |-> IF Revokes(line) THEN index.revoked \cup {line.key} ELSE index.revoked]

AddFile(index, contents) ==
    LET added[n \in 0 .. Len(contents)] ==
            IF n = 0 THEN index ELSE AddLine(added[n - 1], contents[n])
    IN  IF contents = NoFile THEN index ELSE added[Len(contents)]

\* A variant that must fail: the first name stands for the host.
FirstNameFor(index, key) ==
    IF key \in index.revoked \/ index.names[key] = <<>> THEN <<>> ELSE <<index.names[key][1]>>

\* name_for: all of its names, and none of a revoked key's.
NameFor(index, key) == IF key \in index.revoked THEN <<>> ELSE index.names[key]

\* What each file records at this moment.
LinesOf(f) == IF files[f] = NoFile THEN {} ELSE ToSet(files[f])
NamedNow == UNION {{<<f, line.key, line.hosts>> : line \in {l \in LinesOf(f) : Names(l)}} :
                       f \in 1 .. NumFiles}
RevokedNow == UNION {{<<f, line.key>> : line \in {l \in LinesOf(f) : Revokes(l)}} :
                       f \in 1 .. NumFiles}

-----------------------------------------------------------------------------
(* A context, and what is made of it.                                      *)

Chain(c) == IF c \in Connections THEN bindings[c] ELSE <<>>

\* named_bindings: the chain with its names; a lookup that gave up names nothing.
NamedHops(c, index) ==
    [i \in DOMAIN Chain(c) |->
        [fingerprint |-> KeyOf[Chain(c)[i].host_key],
         names |-> NameFor(index, KeyOf[Chain(c)[i].host_key]),
         is_forwarding |-> Chain(c)[i].is_forwarding]]

\* A process that cannot be read is no requester, whatever is above it.
ContextOf(key, client, hops) ==
    LET pid == IF client = NoPeer THEN NoPid ELSE client.pid
        path == IF pid = NoPid THEN <<>> ELSE PathOf(pid)
    IN  [key |-> key, peer |-> client, hops |-> hops,
         process |-> Escaped(path),
         origin |-> IF path = <<>> THEN <<>> ELSE Origin(pid)]

Known(ctx) == ctx.peer # NoPeer /\ ctx.process # <<>>

HostName(hop) == Joined(hop.names, ", ")

\* describe_request, the pid left out: what is on screen when the user says yes.
Words(ctx) ==
    [key |-> Bounded(ctx.key.name),
     fingerprint |-> Escaped(ctx.key.fingerprint), item |-> Escaped(ctx.key.item),
     requester |->
        CASE ctx.peer = NoPeer -> <<"unknown">>
          [] ctx.peer # NoPeer /\ Known(ctx) -> ctx.process \o <<"uid", ctx.peer.uid>>
          [] ctx.peer # NoPeer /\ ~Known(ctx) ->
                (IF ctx.peer.pid = NoPid THEN <<>> ELSE <<"unknown process">>)
                    \o <<"uid", ctx.peer.uid>>,
     started_from |-> Joined([i \in DOMAIN ctx.origin |-> ctx.origin[i].name], "->"),
     warned |-> \E i \in DOMAIN ctx.hops : ctx.hops[i].is_forwarding,
     session |-> [i \in DOMAIN ctx.hops |->
        [host |-> Bounded(IF ctx.hops[i].names = <<>> THEN <<ctx.hops[i].fingerprint>>
                          ELSE HostName(ctx.hops[i])),
         onward |-> ctx.hops[i].is_forwarding]]]

\* A variant that must fail: the pieces of a list are joined with something printable.
SeparatorPrinted == "->"

Separator == "US"

HopText(hop) ==
    Escaped(<<hop.fingerprint>>) \o <<"RS">> \o Escaped(HostName(hop)) \o <<"RS">>
        \o (IF hop.is_forwarding THEN <<"forwarding">> ELSE <<>>)

\* approval_question: one string, so two of them are one question.
Question(ctx) ==
    IF ~Known(ctx) THEN NoQuestion
    ELSE Joined(<<Escaped(ctx.key.item), Escaped(ctx.key.fingerprint), Escaped(ctx.key.name),
                  ctx.process, <<ctx.peer.uid>>,
                  Joined([i \in DOMAIN ctx.origin |-> ctx.origin[i].path], Separator),
                  Joined([i \in DOMAIN ctx.hops |-> HopText(ctx.hops[i])], Separator)>>,
                "\n") \o <<"\n">>

-----------------------------------------------------------------------------
(* The requests, one at a time on each connection.                         *)

Steps == {"idle", "naming", "waiting", "prompting", "signing"}

NoContext == [hops |-> <<>>]

\* named and revoked hold what one and the same file has recorded ever since the request
\* arrived: history, until the names are there.
NoRequest == [step |-> "idle"]

QuestionsTypeOK ==
    /\ tree \in Trees
    /\ files \in [1 .. NumFiles -> Contents]
    /\ peer \in [Clients -> Peers \cup {NoPeer}]
    /\ \A c \in Clients : req[c].step \in Steps
    /\ gate \in Clients \cup {Nobody}
    /\ NoQuestion \notin remembered
    /\ changes \in 0 .. MaxChanges

AskInit ==
    /\ Init
    /\ tree \in Trees
    /\ files \in [1 .. NumFiles -> Contents]
    /\ peer \in [Clients -> Peers \cup {NoPeer}]
    /\ req = [c \in Clients |-> NoRequest]
    /\ gate = Nobody
    /\ remembered = {}
    /\ approved = {}
    /\ changes = 0

\* sign: a key that is confirmed, for data that fits the connection.
Arrive(c, key, what) ==
    /\ req[c].step = "idle"
    /\ c \in Connections => Fits(c, what)
    /\ req' = [req EXCEPT ![c] =
            [step |-> "naming", key |-> key, what |-> what, index |-> NoIndex, at |-> 1,
             ctx |-> NoContext, question |-> NoQuestion, from |-> "nobody",
             named |-> NamedNow, revoked |-> RevokedNow]]
    /\ UNCHANGED <<vars, tree, files, peer, gate, remembered, approved, changes>>

\* index_files, a file at a time; without a host no file is touched.
ReadFile(c) ==
    /\ req[c].step = "naming"
    /\ Chain(c) # <<>>
    /\ req[c].at <= NumFiles
    /\ req' = [req EXCEPT ![c].index = AddFile(@, files[req[c].at]), ![c].at = @ + 1]
    /\ UNCHANGED <<vars, tree, files, peer, gate, remembered, approved, changes>>

\* A context has been made; what is remembered of its question is looked up at once.
Asked(c, ctx, question, otherwise) ==
    LET answered == question \in remembered
    IN  req' = [req EXCEPT ![c] = [@ EXCEPT
            !.ctx = ctx, !.question = question,
            !.index = NoIndex, !.at = 1, !.named = {}, !.revoked = {},
            !.step = IF answered THEN "signing" ELSE otherwise,
            !.from = IF answered THEN "memory" ELSE "nobody"]]

\* The lookup is over, or it has outlasted its deadline and nothing gets a name.
Named(c) ==
    /\ req[c].step = "naming"
    /\ \E index \in {NoIndex, req[c].index} :
          /\ index = req[c].index => Chain(c) = <<>> \/ req[c].at > NumFiles
          /\ index # req[c].index => Chain(c) # <<>>
          /\ LET ctx == ContextOf(req[c].key, peer[c], NamedHops(c, index))
             IN  Asked(c, ctx, Question(ctx), "waiting")
    /\ UNCHANGED <<vars, tree, files, peer, gate, remembered, approved, changes>>

\* A variant that must fail: the question asked before the wait stands.
EnterWithOldQuestion(c) ==
    /\ req[c].step = "waiting"
    /\ gate = Nobody
    /\ gate' = c
    /\ Asked(c, ContextOf(req[c].key, peer[c], req[c].ctx.hops), req[c].question, "prompting")
    /\ UNCHANGED <<vars, tree, files, peer, remembered, approved, changes>>

\* The gate is this request's: the requester is looked up again, the hosts are not.
Enter(c) ==
    /\ req[c].step = "waiting"
    /\ gate = Nobody
    /\ gate' = c
    /\ LET ctx == ContextOf(req[c].key, peer[c], req[c].ctx.hops)
       IN  Asked(c, ctx, Question(ctx), "prompting")
    /\ UNCHANGED <<vars, tree, files, peer, remembered, approved, changes>>

\* What a yes is a yes to: the words, and the paths and keys behind the names in them.
Shown(ctx) ==
    [words |-> Words(ctx),
     paths |-> [i \in DOMAIN ctx.origin |-> ctx.origin[i].path],
     hosts |-> [i \in DOMAIN ctx.hops |-> ctx.hops[i].fingerprint]]

\* A variant that must fail: the gate is let go once the user has answered.
ApproveAndLetGo(c) ==
    /\ req[c].step = "prompting"
    /\ Cardinality(approved \cup {Shown(req[c].ctx)}) <= MaxYes
    /\ approved' = approved \cup {Shown(req[c].ctx)}
    /\ req' = [req EXCEPT ![c].step = "signing", ![c].from = "user"]
    /\ gate' = Nobody
    /\ UNCHANGED <<vars, tree, files, peer, remembered, changes>>

Approve(c) ==
    /\ req[c].step = "prompting"
    /\ Cardinality(approved \cup {Shown(req[c].ctx)}) <= MaxYes
    /\ approved' = approved \cup {Shown(req[c].ctx)}
    /\ req' = [req EXCEPT ![c].step = "signing", ![c].from = "user"]
    /\ UNCHANGED <<vars, tree, files, peer, gate, remembered, changes>>

LetGo(c) == gate' = IF gate = c THEN Nobody ELSE gate

End(c) == req' = [req EXCEPT ![c] = NoRequest] /\ LetGo(c)

Deny(c) ==
    /\ req[c].step = "prompting"
    /\ End(c)
    /\ UNCHANGED <<vars, tree, files, peer, remembered, approved, changes>>

\* A variant that must fail: a yes to a requester nobody can tell from another is kept.
RememberUnknown(c) ==
    remembered' = IF req[c].from = "user" THEN remembered \cup {req[c].question} ELSE remembered

\* settle and remember_in: a yes may be remembered for its question, if it has one.
Remember(c) ==
    \/ UNCHANGED remembered
    \/ /\ req[c].from = "user" /\ req[c].question # NoQuestion
       /\ remembered' = remembered \cup {req[c].question}

\* The signature, with nothing looked at again of what it was checked against.
Issue(c) ==
    /\ c \in Connections
    /\ signed' = [signed EXCEPT ![c] = [what |-> req[c].what, hop |-> Len(bindings[c])]]
    /\ UNCHANGED <<bindings, proved, accepted>>

\* The key is fetched and the signature issued, or not; the gate goes with the request.
Finish(c) ==
    /\ req[c].step = "signing"
    /\ End(c)
    /\ Remember(c)
    /\ Issue(c) \/ UNCHANGED vars
    /\ UNCHANGED <<tree, files, peer, approved, changes>>

-----------------------------------------------------------------------------
(* The rest of the connection, and of the world.                           *)

\* A variant that must fail: bindings are served while a request waits for the user.
BindHostAnytime(c, bind) == Bind(c, bind) /\ UNCHANGED askVars

\* Nothing else is served on a connection until its request is.
BindHost(c, bind) == req[c].step = "idle" /\ Bind(c, bind) /\ UNCHANGED askVars

\* A key that is not confirmed signs without a question.
SignUnasked(c, what) == req[c].step = "idle" /\ Sign(c, what) /\ UNCHANGED askVars

\* The client has gone, and another connects.
Return(c) ==
    /\ req[c].step = "idle"
    /\ \E client \in Peers \cup {NoPeer} : peer' = [peer EXCEPT ![c] = client]
    /\ IF c \in Connections THEN Reconnect(c) ELSE UNCHANGED vars
    /\ UNCHANGED <<tree, files, req, gate, remembered, approved, changes>>

ProveHost(key, session) == Prove(key, session) /\ UNCHANGED askVars

Change == changes < MaxChanges /\ changes' = changes + 1

\* Processes start, end, run another program or lose their parent.
TurnTree ==
    /\ Change
    /\ tree' \in Trees \ {tree}
    /\ UNCHANGED <<vars, files, peer, req, gate, remembered, approved>>

\* ssh records a host, or someone edits a file; lookups under way have it before and after.
EditFile ==
    /\ Change
    /\ \E f \in 1 .. NumFiles, contents \in Contents : files' = [files EXCEPT ![f] = contents]
    /\ req' = [c \in Clients |->
            IF req[c].step # "naming" THEN req[c]
            ELSE [req[c] EXCEPT !.named = @ \cap NamedNow', !.revoked = @ \cap RevokedNow']]
    /\ UNCHANGED <<vars, tree, peer, gate, remembered, approved>>

\* A lock, an idle time, or an ask of the master password: Approvals has which.
ForgetApprovals ==
    /\ remembered # {}
    /\ remembered' = {}
    /\ UNCHANGED <<vars, tree, files, peer, req, gate, approved, changes>>

Serve(c) ==
    \/ ReadFile(c) \/ Named(c) \/ Enter(c) \/ Approve(c) \/ Deny(c) \/ Finish(c)

World == TurnTree \/ EditFile \/ ForgetApprovals

AskNext ==
    \/ \E c \in Connections :
          \/ \E bind \in Binding : BindHost(c, bind)
          \/ \E what \in Userauth \cup {Other} :
                SignUnasked(c, what) \/ \E key \in Keys : Arrive(c, key, what)
    \/ \E c \in Locals, key \in Keys : Arrive(c, key, Other)
    \/ \E c \in Clients : Serve(c) \/ Return(c)
    \/ \E key \in PlainKeys, session \in Sessions : ProveHost(key, session)
    \/ World

AskSpec == AskInit /\ [][AskNext]_allVars

-----------------------------------------------------------------------------
(***************************************************************************)
(* What is answered from memory was approved under the same words, the pid *)
(* aside, and of the same executables above the requester and the same     *)
(* hosts, and the requester is known ("The same words on screen are the    *)
(* same question; anything else asks again", approval_question).           *)
(***************************************************************************)
RememberedAsShown ==
    \A c \in Clients :
        req[c].step = "signing" /\ req[c].from = "memory" =>
            Known(req[c].ctx) /\ Shown(req[c].ctx) \in approved

(***************************************************************************)
(* The names of a request's hosts are those known_hosts had while it was   *)
(* looked up, whichever file was read first and whatever was edited: a key *)
(* that a file revoked all the while has no name, "whichever file or line  *)
(* revoked it", and a key with a name has every name that a file had for   *)
(* it all the while (Index). A line moved to a file already read is        *)
(* missed, and nothing says otherwise.                                     *)
(***************************************************************************)
NamesAsRecorded ==
    [][\A c \in Clients :
        (req[c].step = "naming" /\ req'[c].step # "naming") =>
            \A i \in DOMAIN req'[c].ctx.hops :
                LET hop == req'[c].ctx.hops[i]
                IN  /\ \A entry \in req[c].revoked :
                          entry[2] = hop.fingerprint => hop.names = <<>>
                    /\ \A entry \in req[c].named :
                          entry[2] = hop.fingerprint /\ hop.names # <<>>
                              => entry[3] \in ToSet(hop.names)
      ]_allVars

(***************************************************************************)
(* The hosts a prompt shows, and the forwarding it warns of, are those the *)
(* connection is bound to when the signature is issued (approval_for keeps *)
(* its bindings across the wait for the gate).                             *)
(***************************************************************************)
HostsAreBound ==
    \A c \in Clients : req[c].step \notin {"idle", "naming"} =>
        /\ Len(req[c].ctx.hops) = Len(Chain(c))
        /\ \A i \in DOMAIN req[c].ctx.hops :
              /\ req[c].ctx.hops[i].fingerprint = KeyOf[Chain(c)[i].host_key]
              /\ req[c].ctx.hops[i].is_forwarding = Chain(c)[i].is_forwarding

(***************************************************************************)
(* Nobody is asked again what has just been answered: no prompt goes up    *)
(* while a yes to its question is remembered, or on its way to being       *)
(* ("a second request with the same question ... would otherwise put a     *)
(* second prompt up for an answer just given").                            *)
(***************************************************************************)
NotAskedTwice ==
    [][\A c \in Clients :
        (req[c].step # "prompting" /\ req'[c].step = "prompting") =>
            /\ req'[c].question \notin remembered
            /\ \A other \in Clients \ {c} :
                  req[other].step = "signing" /\ req[other].from = "user"
                      => req[other].question # req'[c].question]_allVars

(***************************************************************************)
(* With its questions, a connection does what SessionBind says it does: no *)
(* prompt, however long, lets a binding or another request in between what *)
(* a request was checked against and its signature.                        *)
(***************************************************************************)
BindsAsSpecified == Spec
=============================================================================
