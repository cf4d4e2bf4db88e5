------------------------------ MODULE Presence ------------------------------
(***************************************************************************)
(* Who holds a stream at the relay, and what everybody was told of it.     *)
(*                                                                         *)
(*   src/spirit/run/spirit/presence.js     the registry of sinks           *)
(*   src/spirit/run/spirit/streamSink.js   the cut of a reader that stopped*)
(*   src/spirit/run/spirit/relayServer.js  the life of one stream request  *)
(*   src/spirit/run/spirit/relay.js        streamOpen, streamClose,        *)
(*                                         forgetPeer, the active rows     *)
(*                                                                         *)
(* The relay is one thread, so a handler is one action.  What interleaves  *)
(* is handlers: a connection that was replaced, closed or cut is torn down *)
(* by an event of its own, later, when its member may be back already.     *)
(*                                                                         *)
(* How far behind a reader is cannot be seen from here, so any write to an *)
(* open connection may be the one that exceeds the backlog and cuts it.    *)
(* A write to a connection its client closed is lost without an error.     *)
(* Face streams, which share the allowance, and the connects-per-minute    *)
(* limit, which only refuses, are left out.                                *)
(***************************************************************************)
EXTENDS Identities, Naturals, FiniteSets

CONSTANTS
    Roll,       \* the members the relay starts with
    Conn,       \* connections that exist at one time
    NoConn,
    Allowed     \* streams the owner's RAM allows

ASSUME PresenceAssumption ==
    /\ Roll \subseteq Person
    /\ Owner \in Roll
    /\ NoConn \notin Conn
    /\ Allowed \in Nat

VARIABLES
    members,    \* the roll on disc
    conn,       \* connection -> whose it is, and the state of its socket
    sink,       \* member -> the connection the registry holds for it
    active,     \* members whose row is cached (activeRows)
    told        \* member -> what its current stream last heard of each one

presenceVars == <<members, conn, sink, active, told>>

SocketState ==
    {"free",        \* no such connection
     "open",
     "shut",        \* closed by its client or replaced; close event to come
     "cut"}         \* cut because its reader stopped; onStall to come

Word == {"unsaid", "present", "absent"}

NoStream == [state |-> "free", who |-> Owner]

Fresh == [m \in Person |-> "unsaid"]

(* The identities a registry holds a stream for.                           *)
Streaming(sk) == {m \in Person : sk[m] # NoConn}

Present == Streaming(sink)

-----------------------------------------------------------------------------
(* Writing.                                                                *)

Cut(cs, S) == [c \in Conn |-> IF c \in S THEN [cs[c] EXCEPT !.state = "cut"] ELSE cs[c]]

OpenIn(cs, S) == {c \in S : cs[c].state = "open"}

(* Connections after one write to the stream of m, if it has one: send(),  *)
(* which leaves the registry alone whether the write succeeds or not.      *)
Sent(cs, sk, m) ==
    {cs} \cup {Cut(cs, {c}) : c \in OpenIn(cs, {sk[m]} \ {NoConn})}

(* broadcast() to the members in `to`: the connections in `cut` give way   *)
(* under it, and every sink that did not take the write is deleted.        *)
Unheard(cs, sk, to, cut) ==
    {m \in to \cap Streaming(sk) : cs[sk[m]].state = "cut" \/ sk[m] \in cut}

Dropped(sk, S) == [m \in Person |-> IF m \in S THEN NoConn ELSE sk[m]]

(* What `about` is said to be, entered with everybody who heard it.        *)
Heard(hearers, about, word) ==
    [m \in Person |-> IF m \in hearers THEN [told[m] EXCEPT ![about] = word] ELSE told[m]]

-----------------------------------------------------------------------------
Init ==
    /\ members = Roll
    /\ conn = [c \in Conn |-> NoStream]
    /\ sink = [m \in Person |-> NoConn]
    /\ active = {}
    /\ told = [m \in Person |-> Fresh]

(* Mutant: an allowance that is one too wide.                              *)
FullLate(sk) == Cardinality(Streaming(sk)) > Allowed

Full(sk) == Cardinality(Streaming(sk)) >= Allowed

(* streamOpen(): the newest stream of a member replaces its older one, a   *)
(* newcomer needs room unless it is the owner, and everybody is told.      *)
StreamOpen(m, c) ==
    LET old == sink[m]
        cs  == [d \in Conn |->
                    IF d = c THEN [state |-> "open", who |-> m]
                    ELSE IF d = old /\ conn[d].state = "open"
                         THEN [conn[d] EXCEPT !.state = "shut"] ELSE conn[d]]
        sk  == [sink EXCEPT ![m] = c]
    IN  /\ m \in members
        /\ conn[c].state = "free"
        /\ \/ old # NoConn
           \/ m = Owner
           \/ ~Full(sink)
        /\ \E cut \in SUBSET OpenIn(cs, {sk[k] : k \in Streaming(sk) \ {m}}) :
              LET lost == Unheard(cs, sk, Person, cut)
              IN  /\ sink' = Dropped(sk, lost)
                  /\ conn' \in Sent(Cut(cs, cut), Dropped(sk, lost \cup {m}), Owner)
                  /\ told' = [Heard(Streaming(sk) \ lost, m, "present")
                                EXCEPT ![m] = [Fresh EXCEPT ![m] = "present"]]
        /\ active' = active \cup {m}
        /\ UNCHANGED members

(* Mutant: a teardown ends whatever stream its member has by now.          *)
EndsStreamOfMember(c) == sink[conn[c].who] # NoConn

(* Mutant: a cut stream is taken to have left the registry by itself.      *)
EndsStreamUnlessCut(c) == sink[conn[c].who] = c /\ conn[c].state = "shut"

(* disconnect(id, sink): only the connection the registry holds.           *)
EndsStream(c) == sink[conn[c].who] = c

(* Mutant: only the close event tears down; the cut has no hook (onStall). *)
TeardownDueOnClose(c) == conn[c].state = "shut"

TeardownDue(c) == conn[c].state \in {"shut", "cut"}

(* Mutant: the stream goes without a word.                                 *)
TeardownUnannounced(c, now) ==
    LET m == conn[c].who
    IN  /\ TeardownDue(c)
        /\ conn' = [now EXCEPT ![c] = NoStream]
        /\ IF m \in members /\ EndsStream(c)
           THEN sink' = [sink EXCEPT ![m] = NoConn] /\ active' = active \ {m}
           ELSE UNCHANGED <<sink, active>>
        /\ UNCHANGED <<members, told>>

(* Mutant: the absence is announced whichever connection went.             *)
TeardownAlwaysSays(c, now) ==
    LET m == conn[c].who
    IN  /\ TeardownDue(c)
        /\ conn' = [now EXCEPT ![c] = NoStream]
        /\ IF EndsStream(c)
           THEN sink' = [sink EXCEPT ![m] = NoConn] /\ active' = active \ {m}
           ELSE UNCHANGED <<sink, active>>
        /\ told' = Heard(Streaming(sink'), m, "absent")
        /\ UNCHANGED members

(* teardown() and streamClose(): at most once for a connection; `now` is   *)
(* the state of the connections when the absence comes to be announced.    *)
TeardownFrom(c, now) ==
    LET m  == conn[c].who
        cs == [now EXCEPT ![c] = NoStream]
        sk == [sink EXCEPT ![m] = NoConn]
    IN  /\ TeardownDue(c)
        /\ IF m \in members /\ EndsStream(c)
           THEN /\ \E cut \in SUBSET OpenIn(cs, {sk[k] : k \in Streaming(sk)}) :
                      LET lost == Unheard(cs, sk, Person, cut)
                      IN  /\ sink' = Dropped(sk, lost)
                          /\ conn' \in Sent(Cut(cs, cut), Dropped(sk, lost), Owner)
                          /\ told' = Heard(Streaming(sk) \ lost, m, "absent")
                /\ active' = active \ {m}
           ELSE /\ conn' = cs
                /\ UNCHANGED <<sink, active, told>>
        /\ UNCHANGED members

Teardown(c) == TeardownFrom(c, conn)

ClientCloses(c) ==
    /\ conn[c].state = "open"
    /\ conn' = [conn EXCEPT ![c].state = "shut"]
    /\ UNCHANGED <<members, sink, active, told>>

(* The heartbeat writes to its own connection, registered or not.          *)
Heartbeat(c) ==
    /\ conn[c].state = "open"
    /\ conn' = Cut(conn, {c})
    /\ UNCHANGED <<members, sink, active, told>>

(* The `card` verb stores a member's card and remembers its row, and       *)
(* answers on the member's stream; it needs no stream to be asked.         *)
TakeCard(m) ==
    /\ m \in members
    /\ active' = active \cup {m}
    /\ conn' \in Sent(conn, sink, m)
    /\ UNCHANGED <<members, sink, told>>

(* Mutant: the row goes and the registry is forgotten.                     *)
ForgetRowOnly(m) ==
    /\ m \in members \ {Owner}
    /\ members' = members \ {m}
    /\ active' = active \ {m}
    /\ UNCHANGED <<conn, sink, told>>

(* forgetPeer(): the row, the registration and the cached row go, and the  *)
(* rest is told that the key is gone.                                      *)
ForgetPeer(m) ==
    LET sk == [sink EXCEPT ![m] = NoConn]
    IN  /\ m \in members \ {Owner}
        /\ members' = members \ {m}
        /\ active' = active \ {m}
        /\ \E cut \in SUBSET OpenIn(conn, {sk[k] : k \in Streaming(sk)}) :
              LET lost == Unheard(conn, sk, Person, cut)
              IN  /\ sink' = Dropped(sk, lost)
                  /\ conn' \in Sent(Cut(conn, cut), Dropped(sk, lost), Owner)
                  /\ told' = Heard(Streaming(sk) \ lost, m, "absent")

(* announceMember(): everybody but the member hears of it, and that it is  *)
(* present if it is; cs is the state of the connections when it starts.    *)
AnnouncesMember(cs, m) ==
    \E cut \in SUBSET OpenIn(cs, {sink[k] : k \in Present \ {m}}) :
        LET lost == Unheard(cs, sink, Person \ {m}, cut)
        IN  /\ sink' = Dropped(sink, lost)
            /\ conn' = Cut(cs, cut)
            /\ told' = IF m \in Present THEN Heard(Present \ (lost \cup {m}), m, "present")
                       ELSE told

(* claim() or join() puts a row on the roll; the owner hears it first.     *)
Claim(m) ==
    /\ m \notin members
    /\ members' = members \cup {m}
    /\ \E cs \in Sent(conn, sink, Owner) : AnnouncesMember(cs, m)
    /\ UNCHANGED active

(* The `rename` verb: the member is announced again under its new label.   *)
Rename(m) ==
    /\ m \in members
    /\ AnnouncesMember(conn, m)
    /\ UNCHANGED <<members, active>>

(* The process ends, by itself or on purpose; the roll is what survives.   *)
Restart ==
    /\ conn' = [c \in Conn |-> NoStream]
    /\ sink' = [m \in Person |-> NoConn]
    /\ active' = {}
    /\ told' = [m \in Person |-> Fresh]
    /\ UNCHANGED members

Next ==
    \/ \E m \in Person, c \in Conn : StreamOpen(m, c)
    \/ \E c \in Conn : Teardown(c)
    \/ \E c \in Conn : ClientCloses(c)
    \/ \E c \in Conn : Heartbeat(c)
    \/ \E m \in Person : TakeCard(m)
    \/ \E m \in Person : ForgetPeer(m)
    \/ \E m \in Person : Claim(m)
    \/ \E m \in Person : Rename(m)
    \/ Restart

Spec == Init /\ [][Next]_presenceVars

-----------------------------------------------------------------------------
(* Properties.                                                             *)

(* Types; and a registered stream is a connection of that very member that *)
(* was not torn down.                                                      *)
TypeOK ==
    /\ members \subseteq Person
    /\ conn \in [Conn -> [state : SocketState, who : Person]]
    /\ sink \in [Person -> Conn \cup {NoConn}]
    /\ active \subseteq Person
    /\ told \in [Person -> [Person -> Word]]
    /\ \A m \in Present : conn[sink[m]].who = m /\ conn[sink[m]].state # "free"

(* Who was taken off the roll holds no registered stream and no cached row,*)
(* in whichever order replaced, closed, cut and removed streams end        *)
(* (relay.js, forgetPeer and streamClose).                                 *)
OnlyMembersAreKnown == Present \cup active \subseteq members

(* The registry knows members only, each by a connection of its own.       *)
RegistrySound == TypeOK /\ OnlyMembersAreKnown

(* The allowance: the owner may come on top of it, nobody else ever does   *)
(* (presence.js, connect: `always` is the floor of the allowance).         *)
WithinAllowance == Cardinality(Present \ {Owner}) <= Allowed

(* "A teardown arriving after the same identity reconnected must not       *)
(* announce an absence that is not true" (relay.js, streamClose): nobody   *)
(* who holds a stream believes absent a member that holds one too.         *)
NoFalseAbsence ==
    \A k, m \in Present : told[k][m] # "absent"

(* A stream that still works leaves the registry only with its member, for *)
(* its successor, or with the process; never by a late event of another    *)
(* connection.                                                             *)
WorkingStreamsStay ==
    [][\A m \in Present :
            \/ sink'[m] # NoConn
            \/ m \notin members'
            \/ conn[sink[m]].state # "open"
            \/ conn'[sink[m]].state = "cut"
            \/ Streaming(sink') = {} /\ \A c \in Conn : conn'[c].state = "free"]_presenceVars

(* When the stream of a member is torn down, everybody still connected     *)
(* hears in that same turn that the member is absent.                      *)
TeardownIsAnnounced ==
    [][\A m \in Present :
            (conn[sink[m]].state # "free" /\ conn'[sink[m]].state = "free")
                => \A k \in Streaming(sink') : told'[k][m] = "absent"]_presenceVars

(* A stream that was closed or cut leaves the registry, on the close event *)
(* or on the hook of the cut.                                              *)
DeadStreamsLeave ==
    \A m \in Person, c \in Conn :
        (sink[m] = c /\ conn[c].state \in {"shut", "cut"})
            ~> ~(sink[m] = c /\ conn[c].state \in {"shut", "cut"})

(* What the code says of itself and does not keep.                         *)

(* presence.js:213-216, broadcast: a sink that fails to take a write "is   *)
(* dropped here rather than left to a teardown that may never come - the   *)
(* alternative is a peer reading as present forever".                      *)
NobodyReadsPresentForever ==
    \A k \in Present, m \in Person \ Present :
        told[k][m] = "present" => \E c \in Conn : conn[c].who = m /\ TeardownDue(c)

(* relay.js:3081-3083, walkRoll over activeRows: "Every row found here is  *)
(* present".                                                               *)
ActiveArePresent == active \subseteq Present

(* relay.js:2094, forgetPeer: "If they are holding a stream, it ends now." *)
RemovedPeersHoldNoStream ==
    \A c \in Conn : conn[c].state = "open" => conn[c].who \in members
=============================================================================
