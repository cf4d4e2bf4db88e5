---------------------------- MODULE PresenceNode ----------------------------
(***************************************************************************)
(* Who a node shows as present (src/spirit/run/spirit/presenceNode.js),    *)
(* from what each relay says on the stream the node holds to it, and what  *)
(* the relay answers when the node asks, once for each stream.             *)
(*                                                                         *)
(* The relay is the one of Presence.tla and Relay.tla as a member sees it: *)
(* it tells every stream who comes, who goes and who was removed, and it   *)
(* answers a search after a walk of its connected members with the event   *)
(* loop between the pages.  One answer names all it found.                 *)
(*                                                                         *)
(* The moments of the words, the shadow roll, the job's wording and the    *)
(* entries for the relay itself and this node are left out.                *)
(***************************************************************************)
EXTENDS Naturals, FiniteSets, SequencesExt

CONSTANTS
    Url,            \* relays
    Key,            \* the other nodes
    Writers,        \* of them: those that post to this node
    Slots,          \* how many an answer names at most (peerRank.SLOTS)
    MaxChanges,     \* bound: what happens at the relays
    MaxLosses,      \* bound: streams that end
    MaxLine         \* bound: messages on the way on one stream

ASSUME PresenceNodeAssumption ==
    /\ Writers \subseteq Key
    /\ {Slots, MaxChanges, MaxLosses, MaxLine} \subseteq Nat
    /\ IsFiniteSet(Key)

VARIABLES
    book,       \* the keys that knows() accepts: the contacts
    streams,    \* relay -> "none", "away" while it is dialled, or "open"
    byRelay,    \* the relays that may speak -> the keys they named -> present or not
    line,       \* relay -> messages on this node's stream, in order
    asked,      \* searches the relays have not finished
    roll,       \* relay -> its members
    on,         \* relay -> the connected ones
    changes, losses,
    since,      \* relay -> who is in the book since its stream opened
    told        \* relays that answered the question of the stream that is open

node == <<book, streams, byRelay>>
relay == <<roll, on>>
vars == <<node, line, asked, relay, changes, losses, since, told>>

Init ==
    /\ book \in SUBSET Key
    /\ streams = [u \in Url |-> "none"]
    /\ byRelay = <<>>
    /\ line = [u \in Url |-> <<>>]
    /\ asked = {}
    /\ roll = [u \in Url |-> Key]
    /\ on \in [Url -> SUBSET Key]
    /\ changes = 0
    /\ losses = 0
    /\ since = [u \in Url |-> {}]
    /\ told = {}

With(f, x, y) == [z \in DOMAIN f \cup {x} |-> IF z = x THEN y ELSE f[z]]
Without(f, S) == Restrict(f, DOMAIN f \ S)

-----------------------------------------------------------------------------
(* The relays.                                                             *)

Open == {u \in Url : streams[u] = "open"}

(* What a relay says on the stream, if it holds one of this node.          *)
Says(u, msg) ==
    IF u \in Open
    THEN Len(line[u]) < MaxLine /\ line' = [line EXCEPT ![u] = Append(@, msg)]
    ELSE UNCHANGED line

Happens == changes < MaxChanges /\ changes' = changes + 1

Broadcast(u, k, word) == Says(u, [kind |-> "presence", key |-> k, word |-> word])

Comes(u, k) ==
    /\ Happens
    /\ k \in roll[u] \ on[u]
    /\ on' = [on EXCEPT ![u] = @ \cup {k}]
    /\ Broadcast(u, k, "present")
    /\ UNCHANGED <<node, asked, roll, losses, since, told>>

Goes(u, k) ==
    /\ Happens
    /\ k \in on[u]
    /\ on' = [on EXCEPT ![u] = @ \ {k}]
    /\ Broadcast(u, k, "absent")
    /\ UNCHANGED <<node, asked, roll, losses, since, told>>

(* forgetPeer(): gone, not absent.                                         *)
Removed(u, k) ==
    /\ Happens
    /\ k \in roll[u]
    /\ roll' = [roll EXCEPT ![u] = @ \ {k}]
    /\ on' = [on EXCEPT ![u] = @ \ {k}]
    /\ Broadcast(u, k, "gone")
    /\ UNCHANGED <<node, asked, losses, since, told>>

Joins(u, k) ==
    /\ Happens
    /\ k \notin roll[u]
    /\ roll' = [roll EXCEPT ![u] = @ \cup {k}]
    /\ UNCHANGED <<node, line, asked, on, losses, since, told>>

(* A packet of k to this node.                                             *)
Carries(u, k) ==
    /\ Happens
    /\ k \in Writers
    /\ u \in Open
    /\ Says(u, [kind |-> "carried", key |-> k])
    /\ UNCHANGED <<node, asked, relay, losses, since, told>>

(* walkRoll(): the walk is over who is connected when it begins.           *)
Begins(a) ==
    /\ a \in asked
    /\ ~a.begun
    /\ asked' = (asked \ {a}) \cup {[a EXCEPT !.begun = TRUE, !.todo = on[a.url]]}
    /\ UNCHANGED <<node, line, relay, changes, losses, since, told>>

(* One page of it; who went in the meantime is not found.                  *)
Walks(a, k) ==
    /\ a \in asked
    /\ k \in a.todo
    /\ asked' = (asked \ {a}) \cup
            {[a EXCEPT !.todo = @ \ {k},
                       !.found = IF k \in on[a.url] THEN @ \cup {k} ELSE @]}
    /\ UNCHANGED <<node, line, relay, changes, losses, since, told>>

(* The answer goes out on the stream that is there by then, and names as   *)
(* many as it holds.                                                       *)
Answers(a) ==
    /\ a \in asked
    /\ a.begun /\ a.todo = {}
    /\ a.url \in Open
    /\ asked' = asked \ {a}
    /\ \E named \in SUBSET a.found :
        /\ Cardinality(named) = IF Cardinality(a.found) <= Slots THEN Cardinality(a.found) ELSE Slots
        /\ Says(a.url, [kind |-> "answer", found |-> named, new |-> a.new])
    /\ UNCHANGED <<node, relay, changes, losses, since, told>>

(* A question or its answer is lost, refused, or too late for its slot.    *)
Misses(a) ==
    /\ a \in asked
    /\ asked' = asked \ {a}
    /\ UNCHANGED <<node, line, relay, changes, losses, since, told>>

-----------------------------------------------------------------------------
(* The node.                                                               *)

(* openTo(): a relay that is held already is left as it is.                *)
OpenTo(u) ==
    /\ streams[u] = "none"
    /\ streams' = [streams EXCEPT ![u] = "away"]
    /\ UNCHANGED <<book, byRelay, line, asked, relay, changes, losses, since, told>>

(* onOpen(): seedRelay() starts an empty picture, reconcile() asks.        *)
OnOpen(u) ==
    /\ streams[u] = "away"
    /\ streams' = [streams EXCEPT ![u] = "open"]
    /\ byRelay' = With(byRelay, u, <<>>)
    /\ asked' = asked \cup {[url |-> u, begun |-> FALSE, todo |-> {}, found |-> {}, new |-> TRUE]}
    /\ since' = [since EXCEPT ![u] = book]
    /\ UNCHANGED <<book, line, relay, changes, losses, told>>

(* say(): every word about a key lands here and replaces what stood.       *)
Said(u, S, present) ==
    With(byRelay, u, [k \in DOMAIN byRelay[u] \cup S |->
                          IF k \in S THEN present ELSE byRelay[u][k]])

Taken(u) == line' = [line EXCEPT ![u] = Tail(@)]

Hears(u, kind) == u \in Open /\ line[u] # <<>> /\ Head(line[u]).kind = kind

(* An answer settles a promise: a presence change that came in one chunk   *)
(* with it is heard first.                                                 *)
NextChange(u, i) ==
    /\ u \in Open
    /\ i \in DOMAIN line[u]
    /\ \A j \in 1 .. i : line[u][j].kind = "presence" <=> j = i
    /\ line' = [line EXCEPT ![u] = RemoveAt(@, i)]

(* Mutant: a removed key is shown as one that is away.                     *)
OnChangeGoneIsAbsent(u) ==
    \E i \in 1 .. MaxLine :
        LET msg   == line[u][i]
            drawn == msg.key \in book \cup DOMAIN byRelay[u]
        IN
        /\ NextChange(u, i)
        /\ byRelay' = IF drawn THEN Said(u, {msg.key}, msg.word = "present") ELSE byRelay
        /\ UNCHANGED <<book, streams, asked, relay, changes, losses, since, told>>

(* Mutant: only keys that are on the picture already are drawn.            *)
OnChangeDrawn(u) ==
    \E i \in 1 .. MaxLine :
        LET msg == line[u][i]
        IN
        /\ NextChange(u, i)
        /\ byRelay' =
            IF msg.key \notin DOMAIN byRelay[u] THEN byRelay
            ELSE IF msg.word = "gone"
            THEN With(byRelay, u, Without(byRelay[u], {msg.key}))
            ELSE Said(u, {msg.key}, msg.word = "present")
        /\ UNCHANGED <<book, streams, asked, relay, changes, losses, since, told>>

(* onChange(): a key that is neither in the book nor on the picture is not *)
(* drawn; gone takes it off the picture.                                   *)
OnChange(u) ==
    \E i \in 1 .. MaxLine :
        LET msg   == line[u][i]
            drawn == msg.key \in book \cup DOMAIN byRelay[u]
        IN
        /\ NextChange(u, i)
        /\ byRelay' =
            IF ~drawn THEN byRelay
            ELSE IF msg.word = "gone"
            THEN With(byRelay, u, Without(byRelay[u], {msg.key}))
            ELSE Said(u, {msg.key}, msg.word = "present")
        /\ UNCHANGED <<book, streams, asked, relay, changes, losses, since, told>>

(* reconcile(), once it is answered: the contacts it names are present.    *)
Reconciled(u) ==
    /\ Hears(u, "answer")
    /\ Taken(u)
    /\ byRelay' = Said(u, Head(line[u]).found \cap book, TRUE)
    /\ told' = IF Head(line[u]).new THEN told \cup {u} ELSE told
    /\ UNCHANGED <<book, streams, asked, relay, changes, losses, since>>

(* heard(): the relay just carried a packet of a contact.                  *)
Heard(u) ==
    /\ Hears(u, "carried")
    /\ Taken(u)
    /\ byRelay' = Said(u, {Head(line[u]).key} \cap book, TRUE)
    /\ UNCHANGED <<book, streams, asked, relay, changes, losses, since, told>>

(* What is left of the streams of U once they ended.                       *)
Ended(U) ==
    /\ line' = [u \in Url |-> IF u \in U THEN <<>> ELSE line[u]]
    /\ asked' = {IF a.url \in U THEN [a EXCEPT !.new = FALSE] ELSE a : a \in asked}
    /\ told' = told \ U

(* Mutant: the last word of a lost relay is kept.                          *)
OnCloseKept(u) ==
    /\ losses < MaxLosses /\ losses' = losses + 1
    /\ streams[u] = "open"
    /\ streams' = [streams EXCEPT ![u] = "away"]
    /\ UNCHANGED byRelay
    /\ Ended({u})
    /\ UNCHANGED <<book, relay, changes, since>>

(* onClose(): a relay that cannot be reached asserts nothing (forget); the *)
(* client dials again.                                                     *)
OnClose(u) ==
    /\ losses < MaxLosses /\ losses' = losses + 1
    /\ streams[u] = "open"
    /\ streams' = [streams EXCEPT ![u] = "away"]
    /\ byRelay' = Without(byRelay, {u})
    /\ Ended({u})
    /\ UNCHANGED <<book, relay, changes, since>>

(* Mutant: the pictures outlive the streams.                               *)
StopKept ==
    /\ losses < MaxLosses /\ losses' = losses + 1
    /\ streams' = [u \in Url |-> "none"]
    /\ UNCHANGED byRelay
    /\ Ended(Url)
    /\ UNCHANGED <<book, relay, changes, since>>

(* stop(): every stream is let go and everything is forgotten.             *)
Stop ==
    /\ losses < MaxLosses /\ losses' = losses + 1
    /\ streams' = [u \in Url |-> "none"]
    /\ byRelay' = <<>>
    /\ Ended(Url)
    /\ UNCHANGED <<book, relay, changes, since>>

(* The owner adds a contact, or removes one.                               *)
AddContact(k) ==
    /\ Happens
    /\ k \notin book
    /\ book' = book \cup {k}
    /\ UNCHANGED <<streams, byRelay, line, asked, relay, losses, since, told>>

DropContact(k) ==
    /\ Happens
    /\ k \in book
    /\ book' = book \ {k}
    /\ since' = [u \in Url |-> since[u] \ {k}]
    /\ UNCHANGED <<streams, byRelay, line, asked, relay, losses, told>>

Next ==
    \/ \E u \in Url, k \in Key :
        Comes(u, k) \/ Goes(u, k) \/ Removed(u, k) \/ Joins(u, k) \/ Carries(u, k)
    \/ \E a \in asked : Begins(a) \/ Answers(a) \/ Misses(a) \/ \E k \in Key : Walks(a, k)
    \/ \E u \in Url : OpenTo(u) \/ OnOpen(u) \/ OnChange(u) \/ Reconciled(u) \/ Heard(u) \/ OnClose(u)
    \/ Stop
    \/ \E k \in Key : AddContact(k) \/ DropContact(k)

Spec == Init /\ [][Next]_vars

-----------------------------------------------------------------------------
(* Properties.                                                             *)

Message ==
    [kind : {"presence"}, key : Key, word : {"present", "absent", "gone"}]
        \cup [kind : {"carried"}, key : Writers]
        \cup [kind : {"answer"}, found : SUBSET Key, new : BOOLEAN]

TypeOK ==
    /\ book \subseteq Key
    /\ streams \in [Url -> {"none", "away", "open"}]
    /\ DOMAIN byRelay = Open
    /\ \A u \in DOMAIN byRelay :
        /\ DOMAIN byRelay[u] \subseteq Key
        /\ \A k \in DOMAIN byRelay[u] : byRelay[u][k] \in BOOLEAN
    /\ line \in [Url -> Seq(Message)]
    /\ asked \subseteq [url : Url, begun : BOOLEAN, todo : SUBSET Key,
                       found : SUBSET Key, new : BOOLEAN]
    /\ roll \in [Url -> SUBSET Key]
    /\ on \in [Url -> SUBSET Key]
    /\ changes \in 0 .. MaxChanges /\ losses \in 0 .. MaxLosses
    /\ since \in [Url -> SUBSET Key]
    /\ told \subseteq Url

Names(u, k, present) ==
    u \in DOMAIN byRelay /\ k \in DOMAIN byRelay[u] /\ byRelay[u][k] = present

(* merge(): green when any relay says present, red when one says absent    *)
(* and none present, white when none mentions the key.                     *)
Dot(k) ==
    IF \E u \in Url : Names(u, k, TRUE) THEN "green"
    ELSE IF \E u \in Url : Names(u, k, FALSE) THEN "red" ELSE "white"

(* The relay has nothing more to say that the node has not heard.          *)
Quiet(u) == u \in Open /\ line[u] = <<>>

(* A relay that is not held asserts nothing: whoever only it named is      *)
(* white again (presenceNode.js, forget: "A relay we cannot reach knows    *)
(* nothing, so it must stop asserting").                                   *)
LostRelayIsSilent ==
    \A k \in Key : Dot(k) # "white" =>
        \E u \in Open : Names(u, k, Dot(k) = "green")

(* What the node shows is what the streams it holds have said.             *)
PictureIsHeld == TypeOK /\ LostRelayIsSilent

(* Once a relay has answered the question of a stream, every contact that  *)
(* is connected there is green, in whatever order the walk, the arrivals   *)
(* and the broadcasts came, if an answer can name them all                 *)
(* (presenceNode.js, reconcile: "a node that opens its stream after its    *)
(* contacts connected never hears them").                                  *)
ConnectedIsGreen ==
    \A u \in told : (Quiet(u) /\ Cardinality(Key) <= Slots) =>
        \A k \in since[u] \cap on[u] : Dot(k) = "green"

(* Nobody is shown as away on the word of a relay that no longer knows     *)
(* them (presenceNode.js, onChange: "Keeping the key at `false` would show *)
(* a removed person as merely away, for ever").                            *)
RemovedIsNotAway ==
    \A u \in Url : Quiet(u) => \A k \in Key \ roll[u] : ~Names(u, k, FALSE)

(* test/presenceShow.js:217: "The dot follows the connection, and the      *)
(* connection is the presence": where every relay is quiet and nothing is  *)
(* asked, green is somebody connected.                                     *)
DotFollowsConnection ==
    (asked = {} /\ \A u \in Url : Quiet(u)) =>
        \A k \in Key : Dot(k) = "green" => \E u \in Url : k \in on[u]
=============================================================================
