------------------------------- MODULE Relay -------------------------------
(***************************************************************************)
(* The relay between its members: posts, replies and held posts            *)
(* (src/spirit/run/spirit/relay.js: routePost, routeReply, failRoutesOf,   *)
(* holdOnPost and settleOnPost) over the streams of Presence.tla and the   *)
(* route table of RouteTable.tla.                                          *)
(*                                                                         *)
(* A request is named by its hash, which its asker, its target, its text   *)
(* and the minute determine; so a hash has one asker and one target, and   *)
(* the same request may be posted again within the minute.  A member hears *)
(* the answer on its stream.  A stranger has no stream: its post is held   *)
(* open until the answer comes.                                            *)
(*                                                                         *)
(* Signatures, sizes and the limits per minute only refuse and are left    *)
(* out, as is the text.  What the relay answers within the turn that asked *)
(* leaves no trace here; `search` is the question to the relay that is     *)
(* answered in a later turn.  The owner hears of every event (ownerEvent,  *)
(* monitorEvent, statusToOwner), so any handler may be what cuts its       *)
(* stream.                                                                 *)
(***************************************************************************)
EXTENDS Presence, RouteTable

CONSTANTS
    From,       \* hash -> who asks
    To,         \* hash -> who is asked
    Call,       \* posts the relay can hold open at a time
    NoCall,
    NoHash

ASSUME RelayAssumption ==
    /\ From \in [Hash -> Person]
    /\ To \in [Hash -> Id]
    /\ NoCall \notin Call
    /\ NoHash \notin Hash

VARIABLES
    pending,    \* the route table
    carried,    \* routes filed for a held post (their entry has a `carry`)
    slot,       \* hash -> the held post that heldOnPost has for it
    call,       \* held post -> its request, and the age of its timer
    answered    \* hash -> answers its asker got since it was last filed

routeVars == <<pending, carried, slot, call, answered>>

relayVars == <<members, conn, sink, active, told, pending, carried, slot, call, answered>>

NoPost == [hash |-> NoHash, age |-> 0]

RelayInit ==
    /\ Init
    /\ pending = EmptyTable
    /\ carried = {}
    /\ slot = [h \in Hash |-> NoCall]
    /\ call = [c \in Call |-> NoPost]
    /\ answered = [h \in Hash |-> 0]

-----------------------------------------------------------------------------
(* Parts of handlers.                                                      *)

(* One more answer for every request of H; two are already too many.       *)
Counted(H) == [h \in Hash |-> IF h \in H /\ answered[h] < 2 THEN answered[h] + 1 ELSE answered[h]]

(* settleOnPost() for every request of H that has a held post.             *)
Settles(H) ==
    /\ slot' = [h \in Hash |-> IF h \in H THEN NoCall ELSE slot[h]]
    /\ call' = [c \in Call |-> IF \E h \in H : slot[h] = c THEN NoPost ELSE call[c]]

Working(cs, m) == sink[m] # NoConn /\ cs[sink[m]].state # "cut"

Sinks(S) == {sink[m] : m \in S \cap Present}

-----------------------------------------------------------------------------
(* Posts.                                                                  *)

(* Mutant: the route stays although the request could not be delivered.    *)
FiledUndelivered(h, want, cs) ==
    LET p == Swept(pending)
    IN  IF Declines(p, h, From[h], To[h], want)
        THEN pending' = p /\ conn' = cs /\ UNCHANGED answered
        ELSE /\ conn' \in Sent(cs, sink, To[h])
             /\ pending' = Filed(p, h, From[h], To[h], want)
             /\ answered' = [answered EXCEPT ![h] = 0]

(* routes.open() with the push to the target's stream as its delivery.     *)
OpenRoute(h, want, cs) ==
    LET p == Swept(pending)
    IN  \/ /\ Declines(p, h, From[h], To[h], want)
           /\ pending' = p
           /\ conn' = cs
           /\ UNCHANGED answered
        \/ /\ ~Declines(p, h, From[h], To[h], want)
           /\ conn' \in Sent(cs, sink, To[h])
           /\ IF Working(conn', To[h])
              THEN /\ pending' = Filed(p, h, From[h], To[h], want)
                   /\ answered' = [answered EXCEPT ![h] = 0]
              ELSE pending' = p /\ UNCHANGED answered

(* A member posts to a member that holds a stream.                         *)
MemberPost(h, want) ==
    /\ From[h] \in members
    /\ To[h] \in members /\ To[h] \in Present
    /\ \E cs \in Sent(conn, sink, Owner) : OpenRoute(h, want, cs)
    /\ carried' = IF pending' # Swept(pending) THEN carried \ {h} ELSE carried
    /\ UNCHANGED <<members, sink, active, told, slot, call>>

(* A stranger does.  Its post is held before the route is asked for, and   *)
(* settled with the refusal when there is none.                            *)
StrangerPost(h, want, c) ==
    /\ From[h] \notin members
    /\ To[h] \in members /\ To[h] \in Present
    /\ call[c] = NoPost
    /\ \E cs \in Sent(conn, sink, Owner) : OpenRoute(h, want, cs)
    /\ IF pending' # Swept(pending)
       THEN /\ slot' = [slot EXCEPT ![h] = c]
            /\ call' = [call EXCEPT ![c] = [hash |-> h, age |-> 0]]
            /\ carried' = carried \cup {h}
       ELSE /\ slot' = [slot EXCEPT ![h] = NoCall]
            /\ UNCHANGED <<call, carried>>
    /\ UNCHANGED <<members, sink, active, told>>

(* A member asks the relay itself for something it answers later.          *)
AskRelay(h, want) ==
    LET p == Swept(pending)
    IN  /\ From[h] \in members
        /\ To[h] = SelfKey
        /\ \/ /\ Declines(p, h, From[h], SelfKey, want)
              /\ pending' = p
              /\ UNCHANGED <<carried, answered>>
           \/ /\ ~Declines(p, h, From[h], SelfKey, want)
              /\ pending' = Filed(p, h, From[h], SelfKey, want)
              /\ carried' = carried \ {h}
              /\ answered' = [answered EXCEPT ![h] = 0]
        /\ UNCHANGED <<members, conn, sink, active, told, slot, call>>

-----------------------------------------------------------------------------
(* Answers.                                                                *)

(* routeReply(): a reply that matches a live route of which its poster is  *)
(* the target takes the route out, and settles the held post or is pushed  *)
(* to the asker's stream.  If that works the two ends hear of each other   *)
(* (the `route` events), so three streams may give way here.               *)
Reply(h, p) ==
    LET t == Swept(pending)
        r == t[h].requester
    IN  /\ p \in members
        /\ h \in DOMAIN t
        /\ t[h].target = p
        /\ pending' = Without(t, {h})
        /\ IF h \in carried
           THEN /\ conn' \in Sent(conn, sink, Owner)
                /\ Settles({h})
                /\ answered' = Counted({h} \cap {x \in Hash : slot[x] # NoCall})
           ELSE /\ \E S \in SUBSET OpenIn(conn, Sinks({Owner, r, p})) :
                      /\ conn' = Cut(conn, S)
                      /\ \/ Working(conn, r) /\ answered' = Counted({h})
                         \/ ~Working(conn', r) /\ UNCHANGED answered
                /\ UNCHANGED <<slot, call>>
        /\ UNCHANGED <<members, sink, active, told, carried>>

(* Any other reply is refused: 404, or 403 for who is not the target.      *)
ReplyRefused(h, p) ==
    LET t == Swept(pending)
    IN  /\ p \in members
        /\ h \in DOMAIN t => t[h].target # p
        /\ pending' = t
        /\ conn' \in Sent(conn, sink, Owner)
        /\ UNCHANGED <<members, sink, active, told, carried, slot, call, answered>>

(* sendSelfAnswer(): the relay answers what was asked of it, unless the    *)
(* route ended before the answer was ready.                                *)
AnswerRelay(h) ==
    LET t == Swept(pending)
    IN  /\ h \in DOMAIN t
        /\ t[h].target = SelfKey
        /\ pending' = Without(t, {h})
        /\ conn' \in Sent(conn, sink, t[h].requester)
        /\ answered' = IF Working(conn', t[h].requester) THEN Counted({h}) ELSE answered
        /\ UNCHANGED <<members, sink, active, told, carried, slot, call>>

(* Mutant: the timer leaves a post alone whose route has ended.            *)
HoldDueWhileRouted(c) ==
    /\ call[c] # NoPost
    /\ call[c].age >= MaxTtl
    /\ slot[call[c].hash] = c
    /\ call[c].hash \in Live(pending)

(* The timer of a held post settles it, if the slot is still its own.      *)
HoldDue(c) ==
    /\ call[c] # NoPost
    /\ call[c].age >= MaxTtl
    /\ slot[call[c].hash] = c

(* Mutant: the timer answers the post and leaves the slot behind.          *)
HoldTimeoutKeepsSlot(c) ==
    /\ HoldDue(c)
    /\ call' = [call EXCEPT ![c] = NoPost]
    /\ UNCHANGED <<members, conn, sink, active, told, pending, carried, slot, answered>>

HoldTimeout(c) ==
    /\ HoldDue(c)
    /\ slot' = [slot EXCEPT ![call[c].hash] = NoCall]
    /\ call' = [call EXCEPT ![c] = NoPost]
    /\ UNCHANGED <<members, conn, sink, active, told, pending, carried, answered>>

-----------------------------------------------------------------------------
(* Streams, with what their coming and going does to the routes.           *)

(* The status that the owner hears counts the routes, and so sweeps.       *)
StatusSweeps == pending' = IF sink'[Owner] # NoConn THEN Swept(pending) ELSE pending

RelayStreamOpen(m, c) ==
    /\ StreamOpen(m, c)
    /\ StatusSweeps
    /\ UNCHANGED <<carried, slot, call, answered>>

(* Mutant: only what the member asked is released, not what it was asked.  *)
ReleasedAsRequester(m) == Without(Swept(pending), RoutesOf(Swept(pending), m))

(* Mutant: the routes are read and answered but stay in the table.         *)
ReleasedNothing(m) == Swept(pending)

(* routes.release(): both what the member asked and what it was asked.     *)
Released(m) == Without(Swept(pending), RoutesNaming(Swept(pending), m))

(* failRoutesOf(): who asked the member is answered at once, on the held   *)
(* post or on its stream.                                                  *)
FailRoutes(c, m) ==
    LET t     == Swept(pending)
        asked == {h \in DOMAIN t : t[h].target = m /\ t[h].requester # m}
        heard == {h \in asked \ carried : t[h].requester \in members}
    IN  \E S \in SUBSET OpenIn(conn, Sinks({t[h].requester : h \in heard} \cup {Owner})) :
            /\ TeardownFrom(c, Cut(conn, S))
            /\ pending' = Released(m)
            /\ Settles(asked \cap carried)
            /\ answered' = Counted(
                   {h \in heard : Working(Cut(conn, S), t[h].requester)}
                   \cup {h \in asked \cap carried : slot[h] # NoCall})
            /\ UNCHANGED carried

RelayTeardown(c) ==
    LET m == conn[c].who
    IN  \/ /\ conn[c].state = "cut" /\ m \in members /\ EndsStream(c)
           /\ FailRoutes(c, m)
        \/ /\ ~(conn[c].state = "cut" /\ m \in members /\ EndsStream(c))
           /\ Teardown(c)
           /\ StatusSweeps
           /\ UNCHANGED <<carried, slot, call, answered>>

(* What touches streams and rows but no route.                             *)
StreamsOnly ==
    /\ \/ \E c \in Conn : ClientCloses(c) \/ Heartbeat(c)
       \/ \E m \in Person : TakeCard(m) \/ ForgetPeer(m) \/ Claim(m) \/ Rename(m)
    /\ UNCHANGED routeVars

RelayRestart ==
    /\ Restart
    /\ pending' = EmptyTable
    /\ carried' = {}
    /\ slot' = [h \in Hash |-> NoCall]
    /\ call' = [c \in Call |-> NoPost]
    /\ answered' = [h \in Hash |-> 0]

Tick ==
    /\ pending' = Older(pending)
    /\ call' = [c \in Call |->
                  IF call[c] # NoPost /\ call[c].age < MaxTtl
                  THEN [call[c] EXCEPT !.age = @ + 1] ELSE call[c]]
    /\ UNCHANGED <<members, conn, sink, active, told, carried, slot, answered>>

RelayNext ==
    \/ \E h \in Hash, want \in Budget : MemberPost(h, want) \/ AskRelay(h, want)
    \/ \E h \in Hash, want \in Budget, c \in Call : StrangerPost(h, want, c)
    \/ \E h \in Hash, p \in Person : Reply(h, p) \/ ReplyRefused(h, p)
    \/ \E h \in Hash : AnswerRelay(h)
    \/ \E c \in Call : HoldTimeout(c)
    \/ \E m \in Person, c \in Conn : RelayStreamOpen(m, c)
    \/ \E c \in Conn : RelayTeardown(c)
    \/ StreamsOnly
    \/ RelayRestart
    \/ Tick

(* Time passes; timers fire; Node calls the close listener of a socket and *)
(* the hook of a cut one.                                                  *)
RelayFairness ==
    /\ WF_relayVars(Tick)
    /\ \A c \in Call : WF_relayVars(HoldTimeout(c))
    /\ \A c \in Conn : WF_relayVars(RelayTeardown(c))

RelaySafe == RelayInit /\ [][RelayNext]_relayVars

RelaySpec == RelaySafe /\ RelayFairness

-----------------------------------------------------------------------------
(* Properties.                                                             *)

(* The route table stays sound under the handlers that share it, and what  *)
(* they keep beside it has the types they rely on.                         *)
RelayTypeOK ==
    /\ TypeOK
    /\ WellFormed(pending) /\ Capped(pending)
    /\ carried \subseteq Hash
    /\ slot \in [Hash -> Call \cup {NoCall}]
    /\ call \in [Call -> [hash : Hash \cup {NoHash}, age : 0 .. MaxTtl]]
    /\ answered \in [Hash -> 0 .. 2]

(* One question, at most one answer: the target's reply, the relay's word  *)
(* that the target stopped reading, and the relay's own answer each end    *)
(* the route they answer (router.js, answer and release), so no two of     *)
(* them reach the asker, in whichever order they come.                     *)
AnsweredOnce ==
    \A h \in Hash :
        /\ answered[h] <= 1
        /\ h \in Live(pending) => answered[h] = 0

(* A slot of heldOnPost always belongs to a post that waits for that hash; *)
(* a reply is never spent on a post that was settled already.              *)
SlotsAreWaiting ==
    \A h \in Hash : slot[h] # NoCall => call[slot[h]].hash = h

(* The table that the handlers share stays within its caps, the registry   *)
(* sound, and what waits in a slot is a post that is still held for it.    *)
RelaySound == RelayTypeOK /\ SlotsAreWaiting

(* A route is filed only for a request that was pushed to a stream its     *)
(* target still has: the delivery decides whether the entry stays          *)
(* (router.js, open).                                                      *)
FiledWasDelivered ==
    [][\A h \in Hash :
            (h \in Live(pending') /\ h \notin Live(pending) /\ To[h] # SelfKey)
                => Working(conn', To[h])]_relayVars

(* When the stream of a reader that stopped is torn down, no route of that *)
(* member is left, and whoever asked it and still listens is told at once, *)
(* not at its deadline (relay.js, failRoutesOf: "the asker is told now     *)
(* rather than at its deadline").                                          *)
CutTellsAskers ==
    [][\A m \in members \cap Present :
            (/\ conn[sink[m]].state = "cut"
             /\ conn'[sink[m]].state = "free"
             /\ Streaming(sink') # {}) =>
                /\ RoutesNaming(pending', m) = {}
                /\ \A h \in Live(pending) :
                      (pending[h].target = m /\ pending[h].requester # m) =>
                          IF h \in carried
                          THEN slot'[h] = NoCall
                          ELSE \/ pending[h].requester \notin Streaming(sink')
                               \/ ~Working(conn', pending[h].requester)
                               \/ answered'[h] = 1]_relayVars

(* Every route ends, although no timer serves the table.                   *)
RoutesEnd ==
    \A h \in Hash : h \in Live(pending) ~> h \notin Live(pending)

(* The post in a slot is answered, by its target or by its own timer.      *)
SlotsClear ==
    \A h \in Hash, c \in Call : slot[h] = c ~> slot[h] # c

(* Nothing stays for ever because nobody comes back to it: no route, no    *)
(* held post, no dead stream in the registry.                              *)
NothingLingers == RoutesEnd /\ SlotsClear /\ DeadStreamsLeave

(* relay.js:1899-1905, holdOnPost: a held post "Settles with the reply     *)
(* packet a stream would have carried [...] or, when the time this relay   *)
(* granted runs out, with the refusal".  Only the post in the slot of its  *)
(* hash can be settled by either.                                          *)
EveryHeldPostCanSettle ==
    \A c \in Call : call[c] # NoPost => slot[call[c].hash] = c
=============================================================================
