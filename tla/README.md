# SpiritOS in TLA+

A specification of the parts of SpiritOS where several parties, several events and time meet: the relay
that carries requests between nodes, the seats its owner hands out, the node that posts, receives and
shows who is there, and the desk where agents share the work on a goal.

The modules are read from the code under `src/spirit/run/`. Paths below are relative to
`src/spirit/run/spirit/`, and `desk.js` is `src/spirit/run/process/js/desk/desk.js`.

## The system

A *node* is somebody's own server. Nodes do not accept connections from each other: each holds one
server-sent-event stream to a *relay* and posts over HTTP. The relay passes a request to the stream of
the node it is for, remembers who asked in its route table, and passes the answer back on the stream of
whoever asked. It stores no traffic: what it cannot pass on at once it refuses. So the node keeps what it
posts, in a queue with patience, and what it receives, in a log. The desk is a process of one node; its
users are the owner and the agents that work for him.

| part | code | state | operations |
|---|---|---|---|
| route table | `router.js` | pending requests: asker, target, time filed, time granted, carry | `open` (files, then delivers), `answer`, `cancel`, `release`, `has`, counts, `reset`; expiry is lazy |
| presence | `presence.js`, `streamSink.js` | a sink for each connected identity; backlog and cut of each sink | `connect`, `disconnect`, `send`, `broadcast`, `goingAway` |
| relay routing | `relay.js` | the roll on disc, cached rows, held posts and their timers, joins, limits | `routePost`, `routeReply`, `streamOpen`, `streamClose`, `failRoutesOf`, `forgetPeer`, `claim`, `rename`, `card`, owner's verbs |
| relay server | `relayServer.js` | for each stream request: torn down or not, heartbeat | HTTP in and out, close and error events |
| seats and invites | `relay.js`, `invites.js` | members against the allowance; live invites; joins waiting for a code | `mint`, `revokeInvite`, `claimAttempt`, `join`, `joinConfirm`, `renameSelf`, `forgetPeer` |
| figures | `relay.js` `reconfigure`, `relayConfig.js` | memory and disc: on file, and those the process runs on | `config`, the boot's clamp |
| strangers | `relay.js` `strangerAdmit` | addresses that posted lately | admit, refuse |
| relay store | `relayStore.js` | rows of members and of invites; the size of the file | put, remove, page, sweep, compact |
| node queue | `postQueue.js` | items, places in flight per relay, back-off per (relay, target) | `add`, `eligible`, `started`, `done`, `busy`, `silent`, `reached`, `expired`, `nextWakeMs` |
| node exchange | `peerPost.js`, `relayRequest.js` | slots of waiting messages, attempt timers, persisted rows | `post`, `sendAttempt`, `afterAttempt`, `settle`, `onReply`, `restore` |
| arrivals | `peerPost.js` `onRequest`, `arrivals.js`, `trafficLog.js` | replay index, packet log, the floor of strangers, the open pages | deliver, ignore, receipt, `subscribe`, shedding |
| node presence | `presenceNode.js` | what each relay said of each contact | `onChange`, `reconcile`, `heard`, `forget` |
| stream client | `sseClient.js` | one call, its watchdog, the distance to the next attempt | connect, read, `scheduleRetry`, `close` |
| desk | `desk.js` | the goal, its items, what they block, phases and holders, agents | the owner's presses, add, block, delete, take, release, phase take and done, claims, signoff, exclusion |
| node store, hub | `nodeStore.js`, `hub.js` | persisted messages, contacts | handlers over the exchange |
| signatures | `relayAuth.js`, `seal.js`, `nodeCard.js`, `relayKeys.js` | keys | verify, seal |
| faces | `faceHome.js`, `faceRoute.js` | requests carried to a node's public face | open, answer, end |
| the rest | words, shell, jobs, browser client, configuration, logs | of one process | no shared protocol |

How they interact. `relayServer` calls `relay.streamOpen` with a sink, which `presence` keeps; the close of
the socket and the cut of a slow reader both come back to `relay.streamClose`, at most once for a
connection. `relay.routePost` calls `routes.open` with a delivery that is a `presence.send`; a write to a
stream may cut it in the middle of the handler that writes, and its teardown is then an event of its own. A
broadcast meeting such a stream deletes its sink without a word. The owner's stream hears of every event, so
every handler writes to it. `failRoutesOf` takes every route of a cut reader out of the table and answers the
askers, on their streams or on the posts that are held open for them. At the node, `presenceNode` opens one
`sseClient` per relay; packets it carries go to `peerPost.onRequest` and `onReply`, which also count as a sign
of life; `peerPost` asks `postQueue` what may go and writes each message down in `nodeStore` before the first try.

What is hard here:

- *Late events.* A connection that was replaced, closed or cut is torn down later, when its member may
  have reconnected. An HTTP answer comes after its attempt was given up. A search is answered after what it saw changed.
- *Failure inside a handler.* Any write may be the one that ends a stream, under a send, a broadcast, a
  heartbeat or the answer to somebody else.
- *Lazy expiry.* Nothing removes a spent route until a later call happens to sweep.
- *Retries.* One packet has one hash for its whole minute and may be posted again while its first copy is
  in flight, on a held post too.
- *Several things may end one question:* its target, the relay on behalf of a target that stopped
  reading, the timer of a held post, the node's own timer, its patience.
- *Bounds* on routes, requesters, pairs, streams, attempts per relay and the queue, each with its exception.
- *Restarts.* The relay forgets everything but the roll, the invites and the figures on file. The node forgets
  who waits, and keeps the rows of its queue, the replay index and the log.
- *Partial failure.* A claim burns its invite, then writes its row, then sweeps; a full disc can stop it at each.
- *Two truths.* The figures on file and those in use differ after a cut and after a start on a fuller box.
- *Long histories at the desk.* Every press is legal by the state it meets, and what makes the state safe
  (no circles, phases with different agents) must survive any sequence of them.

`PROJECT.json` lists the hazards at their lines, with the properties that cover each. Four more have no property
and are kept here only: claims and refusals that race at `peerPost.js:565`, the row that the card
verb caches (`relay.js:2864`), the figure an ask leaves out (`relay.js:780`) and the second task of an agent
(`desk.js:1001`). The last three are in "What the code says and does not keep".

## What correct means

- Route table: the caps hold whatever is still unswept; a route is never renewed; callers never see a
  route past its time; one answer, from the target only, to the requester.
- Presence: the registry holds live connections of members; a late teardown never takes out or denies a
  newer stream; who goes is announced; the allowance holds.
- Relay: one question has at most one answer; what is filed was delivered; a held post is settled; whoever
  asked a reader that stopped is told at once.
- Seats: nobody is admitted beyond the figures; a live invite can be redeemed; a seat is paid for once; nobody
  leaves the roll but by the owner's removal of him; what the owner asked for stays on file.
- Posts: a place that was taken comes back; nobody sleeps past its moment; every message ends once, with a
  true word; patience bounds retrying; the older goes first; a restart brings back exactly what is open.
- Arrivals: a message is acted on once at most, filed before it is receipted, and shown once; what was
  forgotten is refused for its age.
- Node presence: what a node shows is what its relays said, and who is connected turns green.
- Stream: one loop, one timer; silence keeps away; a relay that stays reachable is reached.
- Desk: work goes round nowhere; the order between items survives an item that leaves; red, build and verify stay apart; holders
  are on record; work that nobody holds can go on.

## The modules

| module | what it is |
|---|---|
| `Identities` | who can ask and be asked: people by key, and the relay's own key |
| `RouteTable` | the route table as a value: sweeping, counting, refusing, filing |
| `RouteContract` | abstract: held routes and receipts, no clock |
| `Router` | `router.js`, one action for each call, over `RouteTable`; implements `RouteContract` |
| `RouteTableProofs`, `RouterProofs` | lemmas on tables; the invariant of `Router`, its action property and the refinement |
| `Presence` | the registry, the sockets under it and what everybody was told |
| `Relay` | posts, answers, held posts and stream ends, over the variables of `Presence` and a table of `RouteTable` |
| `RelayProofs` | the invariant of the registry, and what becomes of a connection; on these and `RouteTableProofs`, the invariant of `Relay` and its two action properties |
| `Seats` | the roll, the invites, the joins and the figures, over a disc that may fail |
| `SeatsProofs` | the invariant of `Seats` and its four action properties |
| `PostQueue` | `postQueue.js` as operators over the queue's state |
| `Delivery` | abstract: every message ends, once, with a true word |
| `PeerPost` | the node's posts, over `PostQueue`; implements `Delivery` |
| `PeerPostProofs` | what the queue's operations preserve; what every step of `PeerPost` may do to a message and to the queue; the safety of `Delivery` |
| `Arrivals` | requests that reach a node, its index, log and pages |
| `ArrivalsProofs` | the invariants of `Arrivals`: what is acted on and answered, and what is on the pages |
| `PresenceNode` | who a node shows, against relays that say and answer |
| `StreamContract` | abstract: a stream that takes turns and comes back |
| `SseClient` | the loop that keeps one stream; implements `StreamContract` |
| `NodeStreamProofs` | the invariant of `PresenceNode`; the two invariants of `SseClient` and the safety of `StreamContract` |
| `Desk` | one goal of the desk |
| `DeskProofs` | the invariants of `Desk`, that its order survives and that its work goes on |
| `MC...` | the instances that TLC checks |

`RouteTable` is separate from `Router` because two state machines use it: `Router`, where any call comes in
any order, and `Relay`, where the handlers of the relay are the callers. `Relay` does not compose `Router`'s
actions, since one handler makes several calls in one turn (`failRoutesOf` sweeps, releases and answers). For
the same reason `PostQueue` has no variables: one handler of `peerPost.js` makes several calls of the queue.

Operators whose comment begins with "Mutant" are plausible errors. Nothing uses them; `PROJECT.json` says which
definition each replaces, and which property then fails.

### Route table

`pending` maps a hash to its asker, its target, its age and its grant. The clock is kept as ages that stop
at their grant, so time is unbounded and the states are not. `open` files before it delivers and takes the
entry out again when the delivery fails, all in one turn: the three outcomes of `Open`. `receipt` is the
last answer that matched. `KeepsContract` says that a reader who sees only unexpired routes sees a table
without stale entries. `TableSound` is the types and the three caps. `cancel` and `has` have no caller in the relay
today and are modelled all the same. The classes of requesters (`kind`) are left out: the code has one.

### Presence

The relay is one thread, so a handler is one action. A connection is `open`, `shut` (closed by the client
or replaced; its close event is still to come) or `cut` (its backlog was exceeded; its hook and its close
event are to come, and the first of them tears down). How far behind a reader is cannot be seen by the relay's
own state, so every write may be the one that cuts. `Sent` is `send`, which leaves the registry alone;
`Unheard` is who a `broadcast` deletes. `told` records, for the current stream of each member, the last
word it heard of each other. `Restart` is the end of the process, on purpose (`goingAway`) or not.
`RegistrySound` is the types and that whoever was removed keeps neither sink nor row.

Left out: the connects per minute, which only refuse; face streams, which share the allowance;
`evictIdlest`, which nothing calls; the recalculation of the allowance at boot. The owner is taken to be on
the roll (`owner.json` lets it hold a stream before its row exists).

### Relay

A hash is determined by its asker, its target, its text and the minute, so `From` and `To` are functions of
it. A member that posts hears the answer on its stream; a stranger's post is held open (`slot`, `call`).
`carried` are the routes whose entry has a `carry`. `answered` counts what the asker got since its request was last
filed: the replies, the refusals of `failRoutesOf` and the relay's own answers. What the relay answers in
the same turn (most verbs, the card ask, the claim) leaves no trace; `AskRelay` and `AnswerRelay` are the
search, whose answer comes in a later turn. The owner's status counts the routes and thereby sweeps them.
Seats, invites, signatures, sizes and limits per minute refuse without changing this state.

`RelaySound` is the types, the table and the registry, and that a slot holds a post that waits for it.
`NothingLingers` is that routes end, slots clear and dead streams leave.

### Seats

`label` is the roll, `invites` the table of tokens (a label and what is left of its life: positive is live, 0 is the
last instant, negative is expired and unswept), `joins` the pending joins in memory. `file`, `running` and `asked`
are figures: in config.json, in the process, and the last that the owner asked for (a history). `process` is another
history: which process runs, told apart from the one before it, so that a start is seen even when the figures stay. `used` is the size
of the store, which a deleted row does not shrink. A RAM figure is counted in the seats it serves and a disc figure
in rows, so that one row is one unit of disc.

| action | code |
|---|---|
| `Mint` | `mint`: sweep, free seat, insert |
| `Revoke`, `Report`, `RemovePeer` | `revokeInvite`; the status of the owner, which sweeps; `forgetPeer` and the invites it revokes |
| `Claim`, `ClaimOwner` | `claimAttempt` with an invite, and the owner's on his boot seat |
| `Join`, `JoinConfirm` | the ask, and the code with the claim it leads to |
| `Rename`, `Reconfigure` | `renameSelf`; the owner's `config` verb |
| `Restart` | the end of the process, compaction, the clamp and the owner's seat at boot |

A handler is one turn, but each of its writes may fail (`DiscMayFail`) and what it wrote before stays: `Claim` may
burn the invite and seat nobody, or seat somebody and not sweep. An invite on its last instant is still redeemed
(`invites.js:118` refuses from the next millisecond on) and holds no seat any more (`relay.js:630`); the model keeps
both tests as they are, and `ReservationsStand` names the difference as an exception.

Left out: signatures, the shape of labels, the email, the mails and their caps, which only refuse; cards; a second
claim of a seated key for another card. A join's code is right or the confirmation does nothing. Whether the box has
room for a figure that the owner asks for is decided by which `Figures` the step takes.

### Posts

`q` is the queue of `PostQueue`, `waiting` the slots of `peerPost.js` by request, `timer` the timer of an attempt,
`alarm` the timers of `wake()`, `row` the rows of `queue` and `queue_backoff` on disc, `refused` the relays that sent this
node away, `fate` what the asker was told, `calling` the calls of `post()` that wait for the key to seal to. Outside the node are `wire` (HTTP calls, with those that were given up),
`road` (the request on its way to the target and back), `replied` and `fresh` (how long the signature is good).

| action | code |
|---|---|
| `Admit` | `post` as far as it waits: the relay has not refused this node, and there is room |
| `Unsealed` | no key came, or the sealed text is too large: the call ends with nothing queued |
| `Ask` | `sealAndSend`: the row, the queue, the slot, `pump` |
| `TimerFires` | the timer of `sendAttempt` |
| `CallRefused`, `CallAccepted` | what follows the HTTP answer; also of a call that was given up |
| `RelayTakes`, `TargetReplies`, `RouteEnds` | the relay and the target, as `Relay` has them |
| `Reply` | `onReply` |
| `WakeUp` | the timer of `wake` |
| `Reseated` | a relay that refused gives a seat again |
| `Crash` | the process ends, is down for a while, and restores its rows |

Each handler ends with `pump()`, which is part of its action. Between `Admit` and `Ask` the code awaits the key
(`peerPost.js:886-898`) and then asks neither question again, so the relay may have refused by then and the room may be full or
overfull; the first is why a message may be refused in the very step that queues it (`sendAttempt` asks once more). Times are counted down, so there is no clock to
bound. The queue answers `nextWakeMs` with the earliest moment at which something could change; that nobody
oversleeps is `NobodyOversleeps`, which with `PlacesComeBack` and the types makes `QueueGoesOn`. `OpenIsKept` says
that queue, slot and row agree on what is open. The mapping to `Delivery` is direct but for `tried`, which is the attempts counted.

Left out: where the key comes from (a card may be fetched by a post of its own), sealing, hints, what becomes of a card or a face in
an answer, refusals at the door of `post()`, which change nothing. A text that is sealed again for a newer card is a message of its own. Every message takes one unit of the queue's bytes.

### Arrivals

`now` is the clock, `index` the table `replay`, `log` the rows of `traffic` that are arrivals or marks, `known` who the front
door lets in, `hits` the floor of strangers, `pages` who listens, `owed` the receipts to be sent. `kept`, `acted`, `shown`
and `told` are histories. `onRequest` runs in one turn, and the process may end inside it: `Death` at "remembered" is after
the row of the index and before delivery, at "logged" after the row of the log and before the listeners. The
order in the code (remember, file, deliver, receipt) is what `ActedOnce` and `ReceiptIsTrue` are about. `Written` may shed
the oldest rows at every write.

Left out: signatures, the words, the bytes a stranger may spend, hits on the shadow roll, a page whose handler
throws, a log that cannot be written.

### Node presence

`book` is the contacts, `streams` the state of each stream, `byRelay` what each relay said of whom. `line` is what is on the way
on a stream, `asked` the searches the relays have not finished; `roll` and `on` are the relay's. A search walks the roll with the
event loop between its pages (`Begins`, `Walks`, `Answers`), and one answer names all it found. An answer settles a promise, so a
broadcast in the same chunk is heard before it (`NextChange`). `OnOpen` starts an empty picture and asks; `OnClose` forgets it.
A loss leaves the search of the lost stream running: its answer goes out on whatever stream is there by then, and `new`
tells the two apart. `PictureIsHeld` is the types, and that a relay that is not held asserts nothing.

Left out: the moments of the words, the shadow roll (`seenPeers.js`), the job's wording, the entries for the relay itself
and for this node.

### Stream

`phase`, `retryMs`, `timer` (the next attempt), `idleTimer` (the watchdog), `dead` (nothing will arrive, and nothing says so),
`reachable`, and three histories: `silence` counts attempts without a byte, `base` is the distance at which that silence began,
`hint` the wait that the last bytes named. The jitter
is `Spread`. `LoopGoesOn` is the types and that exactly what is out is watched and exactly what waits has a timer.
`SilenceKeepsAway` bounds the distance from below by `base` doubled once for each attempt that brought nothing. A relay may name any wait from 0 on
(`sseClient.js:129`), shorter than the first distance too; after a named 0 the bound is 0, and so is the distance (item 16 below).

What arrives is left out but for bytes and the wait a relay names. So is the turn between the answer of a fetch and what `run` does
with it: `close()` in that turn aborts a call that has been answered, `run` asks `stopped` only before the fetch (`sseClient.js:227`), and `onOpen`
may still be called once, and `onClose` after it. The contract is about every other close.

### Desk

`goal` has the goal's flags, `item` a record for each id that may be minted, `blocks` what each item blocks (none: it blocks
the goal), `live` the agents whose last write is recent, `included` those the owner has not excluded. The desk is one thread, and
none of the modelled handlers waits before it has written. Every write is kept in the tables before it is answered and read back
whole, so a restart changes nothing and is not a step.

| action | code |
|---|---|
| `ItemAdd`, `Block`, `Unblock`, `ItemDelete` | the verbs of the same names; `MayBlock` is `blockWhy`, `Repaired` is `repairBlocks` |
| `PressGo`, `PressGoAll`, `PressDone`, `PressClose`, `PressReopen`, `PressBringBack`, `PressDesign`, `PressWaive`, `PressCode` | the owner's presses on an item, each with what `buttons` offers |
| `GoalDesign`, `GoalDone`, `GoalClose`, `GoalReopen`, `GoalAbandon` | the same on the goal |
| `ItemTake`, `ItemRelease`, `PhaseTake`, `PhaseAsked`, `PhaseDone` | an agent takes, is refused (which may waive), lets go, finishes |
| `RedClaim`, `BuildClaim`, `PressClaimDone` | `claim` in its forms |
| `Speak`, `Signoff`, `Exclude`, `Include`, `FallsSilent` | an agent's word, its leaving, the owner's exclusion, `LIVE_MS` |

`PhaseAsked` is the refused `phase.take`: it is a step because it may leave the item waived. `Press` names the owner's presses of an
instance; "deleted" in it stands for taking back the closing of an item that was deleted, which is where the circle comes from.

Left out: what is only shown, chat, the box, checks, file lists, suites, rules, grants to add, several goals, `deskVerify`,
publishing. An open question, an empty file list or a gate of the suites may refuse an end of design, a Go or a finished
phase; every action here may also not happen, which covers those.

## The runs

| run | instance | shows |
|---|---|---|
| `router` | 4 requests, a member and the relay, lifetimes 0, 1 and above the ceiling of 2, capacity 3, 2 per requester, 1 per pair | caps, no renewal, the contract |
| `presence` | the owner and two members, three connections, an allowance of one | the registry under every order of open, close, cut, teardown, removal and restart |
| `relay` | the owner, a member and a stranger; a member's question, a held post, a search; 2 connections, 2 calls, capacity 2, caps of 1 | one answer, delivery, slots, the end of a reader |
| `relay_live` | one held request with one call and a ceiling of 2 | routes end, slots clear, dead streams leave |
| `seats` | the owner and two others, two labels, two tokens, figures of 2 or 3 seats and 3 or 5 rows, any write failing | a seat is paid for once, fits the figures and is not lost |
| `peer_post` | 2 messages to one peer over one relay, patience 3 and 1, busy, absent and not-a-sender, one crash of length 0 or 2 | places, alarms, rows, order, patience, and the contract |
| `arrivals` | 2 messages of one sender and one that asks for the card, window and backlog of 1, a floor of 1, deaths at both places, a clock to 3 | acted on once, shown once, receipted truly |
| `presence_node` | 2 relays, 1 contact, 2 changes, 1 loss, 2 messages on a line | the picture against broadcasts, searches, packets and losses |
| `sse_client` | distances 2 to 8, 12 when rate-limited, watchdog 4, named waits 0, 1, 6 and 16 | one loop, distance, return |
| `desk_work` | 1 item, 3 agents, the owner's Go, done, reopen, waive and design | phases apart, holders, that work goes on |
| `desk_blocks` | 3 items, no agents, every press but "deleted" | no circle, order kept |
| `desk_circle` | 3 items and "deleted" | the circle, see below |

Why the bounds are enough.

- `router`: four hashes against a capacity of 3, 2 per requester and 1 per pair reach every refusal with stale
  entries present, and lifetimes 1 and 2 let entries expire in either order.
- `presence`: an allowance of one with three identities makes the owner's floor and the refusal of a newcomer
  happen; three connections are a stream, the one that replaced it and a third party who hears of it.
- `relay`: two connections are an asker and a target; two calls make the overwritten slot reachable; a capacity
  of 2 for three requests makes the table full.
- `seats`: two seats for three people make both "full" tests bite, and the third seat is there to be raised to and
  clamped from; two tokens are an invite and another one to spend, or a label minted twice; three rows of disc are
  fewer than members and invites together and five are all of them, so a disc is full or never is; lives of 1 let an
  invite be live, on its last instant and expired.
- `peer_post`: one place per relay and two messages make one wait for the other; a patience of 3 outlasts two attempts and two
  back-offs, one of 1 does not; a room of one message is full after the first and holds both when both callers were at the door before; a wait of 2 lets an answer come before and after the timer; a down time of 2 spends
  one patience and not the other.
- `arrivals`: the clock passes the window and the backlog twice, with messages from two of its moments, so that one is
  too old while the other is not.
- `presence_node`: a line of two holds an answer and a broadcast in either order; one loss lets an old search answer on a
  new stream; a second relay contradicts the first. One contact is enough: entries of different keys do not
  meet but in an answer's slots.
- `sse_client`: from 2 to 8 the distance doubles twice; of the named waits 0 stays, 1 is below the first distance, 6 between the two and
  16 beyond the longest and the one of a limited rate; a watchdog of 4 is shorter and longer than the timers.
- `desk_work`: with one item nothing blocks, so the phases and their three agents are all there is; three are needed for
  three phases to be with three agents, and for one of them to be excluded or gone. `desk_blocks`: a block, what it
  implies and what its repair links take three items.

`relay` and `relay_live` use a view that leaves out `told` and `active`, which no handler reads and no property of these
runs mentions. `desk_work` and `desk_blocks` use a view for the same reason (see `MCDesk`). Symmetry is
used in the runs of safety only. Deadlock is not asked of `arrivals`, `presence_node` and `peer_post`, whose clock,
changes or crashes are bounded and whose messages all end, nor of `sse_client`, whose stream may be closed for good.

Fairness. In `relay_live` time passes, a timer that is due fires, and Node calls the close listener of a closed socket
or the hook of a cut one. In `peer_post` time passes and no timer of the node stays due for ever. In
`sse_client` time passes, both timers fire, and a dial to a relay that takes streams infinitely often is not
refused every time. Nothing is assumed of members, strangers, the owner, relays or targets otherwise: a route must end, a slot must
clear and a message must end when nobody does anything. Node's event loop fires its timers and
delivers the events of its sockets, which is what the weak fairness says; the strong one of `Opened` is the assumption on
the network without which no client could promise anything.

## What the code says and does not keep

One of these is a run. The others are stated as formulas in the modules, under the name given, and can be put into
a cfg of the module: TLC then shows the behaviour.

1. *Blocks that go round* (`desk_circle`, `NothingGoesRound`, the shortest takes eight steps). An item that was deleted stays left out
   when its closing is taken back. `blockReaches` (`desk.js:1143`) does not look past what is left out, so a block that closes the circle through
   it is taken; deleting the item again makes `repairBlocks` (`desk.js:1164`) link its two neighbours, each to the other. Neither is ever offered
   a Go. The comment at `desk.js:1127-1129` says "a circular block refused". Without that take-back the promise holds, and this is proved.
2. *A dropped sink stays present* (`NobodyReadsPresentForever` in `Presence`). `broadcast` deletes a sink that does not take a write
   (`presence.js:230`). Its teardown then finds nothing to disconnect and returns (`relay.js:4062`), so
   nobody hears of the absence, the cached row stays and the routes of the reader are not failed. The comment
   at `presence.js:218` gives the opposite as the reason.
3. *A cached row without a stream* (`ActiveArePresent` in `Presence`). The `card` verb caches the row of whoever asks
   (`relay.js:2864`); a search walks the cached rows and takes each for present (`relay.js:3081`).
4. *A removed member's connection stays open* (`RemovedPeersHoldNoStream` in `Presence`). `forgetPeer` forgets the sink without
   closing it (`relay.js:2097`), against `relay.js:2093`.
5. *A held post that nothing settles* (`EveryHeldPostCanSettle` in `Relay`). Posting the same request again from a stranger
   overwrites the slot before `open` declines it (`relay.js:3393`). The path for posts to the relay itself
   opens first and holds afterwards (`relay.js:3281-3297`).
6. *A join takes the seat of an invite* (`SeatsForInvites` in `Seats`). `join` and its claim ask about members alone
   (`relay.js:4145`, `relay.js:1367`), with a reason that holds for a claim by invite (`relay.js:650`). With one seat
   left and an invite outstanding the join is seated and the invite's holder is refused, against
   `relay.js:603` and `relay.js:1742`.
7. *A saved figure is overwritten* (`AskedIsOnFile` in `Seats`). `reconfigure` takes the figure that an ask leaves out from what
   the process runs on (`relay.js:780`) and writes both: a cut waiting for the next start is undone, and a clamp is
   written back, which `relayConfig.js:223` says must never happen.
8. *Equal asks share one slot* (`EveryPostSettles` in `PeerPost`, with `MCOneHash`). Two equal plain asks within a minute have one hash, and the second
   overwrites the slot of the first (`peerPost.js:1087`), whose promise never settles; `test/queueUnderLoad.js:44` says every promise does.
9. *A late answer ends a newer attempt* (`OneInFlight` in `PeerPost`, with a patience of 6 in `MCPatience`). `afterAttempt` (`peerPost.js:605`) does not ask whether the attempt it ends
   is still the message's own: the answer of a call that was given up frees the place of the one that replaced it, and a further attempt
   starts beside it, against `test/queueUnderLoad.js:35`.
10. *Patience ends with the signature's minute* (`BusyIsRetried` in `PeerPost`). A retry carries its first signature, which the relay accepts for a minute
    (`hub.js:994` grants more): a message to a busy target ends at its first attempt after that, against `hub.js:989-990`.
11. *An absent target is retried* (`AbsentFailsAtOnce` in `PeerPost`): with patience it is backed off like a silent one, against `hub.js:991-992`.
12. *"Already delivered" of what was not* (`AgainIsTrue` in `Arrivals`). A stranger's request is put into the replay index (`peerPost.js:1382`) before the
    floor refuses it with nothing filed (`peerPost.js:1436-1438`); its retry is then told it was delivered. So is
    one whose node ended between the two.
13. *A dot that outlives its connection* (`DotFollowsConnection` in `PresenceNode`). A search's answer replaces a newer `absent`
    (`presenceNode.js:255`), and a packet on the way does too, against `test/presenceShow.js:217`.
14. *A named wait is cut short* (`NamedWaitIsWaited` in `SseClient`). The jitter shortens the wait that a relay names, too (`sseClient.js:222`),
    against `test/presenceNode.js:433-434`.
15. *A second task* (`HoldsOneTask` in `Desk`). A task that was done and is reopened is held again by whoever was with it
    (`desk.js:1000`), beside the one it took meanwhile.
16. *A named wait of 0 is never left* (`BackoffClimbs` in `SseClient`). `retry: 0` is taken as the distance (`sseClient.js:129`, `sseClient.js:336`), and 0
    doubled is 0: until a byte comes, a refusal names another wait or is a 429, every attempt follows the last at once, against
    `sseClient.js:284-285`. The relay of this repository names 3 seconds (`relayServer.js:956`).

Smaller ones of the desk, with no formula: a claim ends its phase whoever makes it, and who did the phase stays whoever took it, so with nothing
waived one agent may take the red, claim the build that another took, and take the verify; an ask for a phase by a lone agent waives before Go and in design, though
the comment at `desk.js:3404-3411` says a first take of a red waives nothing; `item.add` may block an item that runs, which
`Block` refuses; a deleted item that is reopened stays left out, so it is worked on and not counted as held.

## What is proved

For all values of the constants, from the assumptions next to them (`IdentityAssumption`: the owner is not
the relay's own key; `RouterAssumption`: lifetimes and caps are numbers, the ceiling and the caps positive;
`PresenceAssumption`: the initial roll is of people and contains the owner;
`RelayAssumption`: each request has an asker and a target; `SeatsAssumption`: labels are no
sentinels, figures are numbers; `ArrivalsAssumption`: a time for each message, and a window no longer than the backlog;
`PostQueueAssumption` and `PeerPostAssumption`: relays, peers and requests of messages are given, waits and patience are numbers;
`PresenceNodeAssumption`: who posts is among the keys, and the keys are finitely many; `SseClientAssumption`: the distances are positive numbers in
their order, and a named one is any number, 0 included;
`DeskAssumption`: the sentinels are no agent and no item). `Seats` assumes that its people and tokens are finite in number and `PresenceNode` that the
keys are, since they count them, and two theorems about posts assume that the messages are; the others assume no set finite.

*Route table.* `RouterProofs` shows `TypeOK /\ Capped(pending)` inductive. The caps on requesters and pairs
are not inductive without well-formedness, which makes the table finite and its counts numbers. Each
operation is sweep, restrict or file; `RouteTableProofs` has a lemma for each that it keeps well-formed and
capped tables so. `TableIsSound` and `RoutesAreNeverRenewed` follow from this invariant, and so does
`TableKeepsContract`: `Open` is a `Grant` or a `Lapse` of what the clock and the sweep took, `Answer` a `Receive`,
everything else a `Lapse`. A step that sweeps and answers is one step of the contract, since the swept routes were
gone from its view before.

*Presence.* `RelayProofs` shows `TypeOK`, `OnlyMembersAreKnown`, `NoFalseAbsence` and `Counts` inductive
together; `RegistryIsSound`, `AllowanceHolds` and `AbsenceIsTrue` follow.
A handler changes the registry in two moves, its own and a broadcast; the lemmas say that cutting and dropping
keep a sound registry sound, `HeardWords` what a broadcast leaves of the words. `Counts` adds to
`WithinAllowance` that the streams are finite in number, without which cardinalities prove nothing. That a registered connection belongs to
its member is what makes the check in `disconnect` enough: a torn-down connection can be the registered one
of no other member. The two action properties rest on `GoesOn`: what any handler makes of a connection but its own teardown
and a restart keeps it in use, and a cut one cut. So `FreedByTeardown` names the only handler that `TeardownIsHeard` speaks of, and for
`WorkingStay` it is enough that who is dropped under a broadcast has been cut by then.

*Relay.* `RelayInv` is the invariant of the registry, a sound table, `Held` and `Owed`. `Held` strengthens `SlotsAreWaiting` by what
a post is that waits for nothing, without which the timer could belong to no request. `Owed` strengthens `AnsweredOnce`: a live route has
had no answer. The handlers differ, but `RouteSteps` shows that each does one of four things to the routes: file one that was delivered
and owes its answer again, end some and count an answer for live ones of them only, let some lapse, or start again. `AnswersComeOnce` and
`FiledIsDelivered` follow from these four alone. `failRoutesOf` tears a stream down after some connections gave way already, so
`TeardownFromKeeps` is stated for any connections that the registry agrees with. `CutIsTold` adds that a cut connection is freed by its own hook
alone (`FreedByItsHook`), and reads off the hook what each asker got.

*Seats.* The inductive invariant is `SeatsTypeOK /\ InvitersAreSeated`; the second half is what makes the start, which
seats an owner without a row, and his claim harmless to the reservations: with an invite on file he has a row already,
so neither adds one. Most handlers are *quiet*: they seat nobody and make no invite live, and
one lemma gives all four action properties for a quiet step. What is left is `Mint` (it takes a seat
that is free), the three ways to a seat (the members grow by one and, by invite, the live invites shrink by one), the
figures and the start. A start, which flips `process`, takes nobody's row: so `EvictsNobody` can say of every step, a start with the same figures
included, that only a removal shortens the roll, and by one. `ReservedSeatsStand`, `EverySeatIsPaid`, `EveryAdmissionFits` and `EvictionsAreMeant` follow.

*Posts.* The theorems of `PeerPostProofs` assume `Apart`, that no two messages are one request; item 8 above is what happens without. The
invariant `Agree` says that slots and rows are equal, each holds an open message of its own request, what is open is queued and conversely,
and that a timer or a call on the wire belongs to a message that was sent. It does not hold inside a handler: `sweepSpent` drops what is spent before
it settles it. So the lemmas are about a copy of the memory that is sound but for the requests of some set H: dropping makes the copy so, `Settled` for H
makes it sound again, and `pump` is two such pairs and the sending. `PumpIsSound` says besides what a pump may do: it gives up what was tried, refuses
what goes to a refusing relay, and sends only what is open, goes to no refusing relay and, if it was sent before, has patience left. `Honest` carries this
to a whole step; `PatienceBoundsRetries`, `RefusingIsLeftAlone` and `EndsAreTrue` read it off, and `OpenIsAlwaysKept` follows from `Agree`.
That the next number is above all in use needs that a bounded set of numbers has a largest one, which follows from the well-foundedness of <.

`QueueAlwaysGoesOn` and `OlderAlwaysGoesFirst` assume besides that the messages are finitely many, because places are counted. Their invariant `OnTime` adds
to `Agree` that the messages on the wire are queued and as many as the places taken, that each has the running timer of its own slot, and that queued
messages have numbers of their own. Two lemmas carry the argument. `FirstFew`: of a finite set in a strict order, those with fewer than k before them
are k, or all; so a pump fills the places of a relay or leaves nobody out who may go, never more. `AlarmIsInTime`: when nobody is left out, whoever still waits
for his turn waits for a back-off, and the next useful moment is no later than its end. The order survives every handler since what is still
queued keeps its number (`Keeps`), and a pump that hands out the younger of two to one peer has handed out the older (`InTurn`).

*Arrivals.* A message that was acted on was kept, and what was kept is in the index or too old: the second is `ForgottenIsTooOld`, which
is inductive because the index drops only what is older than the window by its own time. `ActedOnce` needs it, since `Delivered` is
guarded by the index and by the age and by nothing else. `ReceiptIsTrueAlways` needs of a receipt that is owed that its message was kept.
What the pages show is a second induction, `PageInv`: the log holds at most one arrival of a message, each row is of a message that was filed,
only what a page was given is marked as taken, and the arrival of what a page was given has its mark after it. So a row without a mark after it is of a
message that no page was given, whatever was shed from the front of the log; a page that subscribes is given just those, the oldest first, and marks them in the
same turn. `ShownOnceAlways` and `WaitsForAPageAlways` are read off it.

*Node presence.* The picture is right only once a stream is quiet, so no property of it is inductive; `Streams` says what the line still carries. The last
word on it about a removed member is "gone" (`GoneIsLast`). A contact who is connected, and was a contact when the stream opened, is on the picture, or
the last word about him is "present", or what is to come of the question names him (`OnIsComing`): the answer on the line, the walk that has yet to
reach him or did, or the question that has not begun, unless it was lost. For that a stream's question must have one answer at most (`OneQuestion`): a second
could not be told from the first. The words overtake the answer (`NextChange` takes the first word out of the middle of the line), and the lemmas on lines say
that this changes neither which word about a key is last nor the order of the rest. An answer that holds all keys names all it found (`NamesAll`),
which is where the keys have to be finitely many. `PictureAlwaysHeld`, `ConnectedAlwaysGreen` and `RemovedNeverAway` follow for any number of relays and changes.

*Streams.* `LoopGoesOn` is inductive. `SilenceKeepsAway` is with it: an attempt without a byte doubles the distance or leaves it at the longest, so after n of
them it is at least base * 2^n, or the longest, where base is the distance at which the silence began: the first one, or what the relay named last. The prover knows nothing of powers; `PowerDoubles` takes 2^(n+1) = 2 * 2^n from the theorem of the library on the number
of subsets. `StreamKeepsItsContract` shows that each step of the loop is one of the contract's or none.

*Desk.* `DutiesStayApart` and `HoldersAlwaysStand` are one induction over the items: a handler writes one item, or a function of each item
on its own, and the lemmas say that letting go, finishing, ending by a claim, reopening and a change of code keep an item's record sound. `OrderSurvives` and `NothingGoesRound`
speak of reaching, which is defined by closed sets: a comes before b when b is in every set that holds what a blocks and is closed under blocking.
So `OrderAlwaysSurvives` needs no induction along a chain: a set closed under the repaired blocks is closed under the old ones once
the item that left is added or taken away. `NothingEverGoesRound` assumes that "deleted" is not pressed; its invariant adds that blocked items are made and that
what was left out stays closed, and for each item that leaves it exhibits a closed set without the item.
The run `desk_circle` shows that the assumption is needed. `SomebodyAlwaysCanGoOn` is a case split on the phase over well-typed items: the build of an item
that nobody was waived through is the owner's to waive, every other phase is anybody's who did not build, and if only the builder is included
he is alone, and judged as waived.

Every invariant and every action property of the runs is proved. Only model-checked is liveness: `NothingLingers`, and the liveness inside `KeepsPromise`
(`Delivery`) and the contract of `SseClient` (`StreamContract`), whose safety is proved. Liveness under fairness needs ENABLED, which is beyond
the proof system.

## Not modelled

- Signatures, seals, keys and cards: the modules take a verified sender as given. What fails to verify changes nothing.
- The word kernel and the shell language, HTTP dispatch, static files, cookies, the browser client with its editor:
  single-threaded or pure input and output, with no state that two parties share. They are most of the code by lines,
  and for that reason the modelled share of the whole stays small.
- Jobs, the address book, the owner's own tables, migrations: local bookkeeping of one process.
- Faces and the strangers' table at the relay, which share the allowance with the streams; the status report and its gauges.
- Of the desk: chat, the box, checks and files, suites, rules, grants, `deskVerify`, publishing, several goals.

## What is left

In this order:

1. `Exchange`: `PeerPost` against `Relay` on one request, for the answer that is lost between the two and the retry that meets its own
   first copy. Each side is abstract in the other's module today.
2. The race of a claim and a refusal at `peerPost.js:565`, for which `Reseated` has to become a request of its own.
3. The strangers' table and faces, as far as they share the allowance.
4. The desk's several goals, and its gates of suites and files.
