------------------------------ MODULE PeerPost ------------------------------
(***************************************************************************)
(* A node's posts from the call of post() to their answer                  *)
(* (src/spirit/run/spirit/peerPost.js), over the queue of PostQueue.tla.   *)
(*                                                                         *)
(* A handler of the node is one action; each ends with pump(), which is    *)
(* part of it.  An attempt is one HTTP call to a relay.  Its answer may    *)
(* come after the node gave it up, and the reply to the message comes over *)
(* the stream, before or after that answer or never.  Time is counted down *)
(* in units; a timer may fire late.  The process may end between handlers; *)
(* rows of `queue` and `queue_backoff` outlive it.                         *)
(*                                                                         *)
(* post() looks at the relay and at the room at its door, and then waits   *)
(* for the key to seal to; other handlers run meanwhile, and sealAndSend() *)
(* looks at neither again.  Both are actions of their own.                 *)
(*                                                                         *)
(* Where the key comes from, sealing, hints, the log's wording and what is *)
(* done with a card or a face in an answer are left out.  So are refusals  *)
(* at the door, which change nothing.  A text that is sealed again, for a  *)
(* newer card, is a message of its own.                                    *)
(***************************************************************************)
EXTENDS PostQueue

CONSTANTS
    NoPost,
    Hash,           \* requests: one per signed text, sender, target and minute
    HashOf,         \* message -> its request
    Patience,       \* message -> patienceMs
    Answers,        \* refusals that relays give to a request that verifies
    RetryAfter,     \* retryAfterMs a busy relay may name
    Grants,         \* grantedMs an accepting relay may name
    Wait,           \* DEFAULT_WAIT_MS
    SignatureLife,  \* how long a relay accepts the minute a post was signed in
    DownTimes,      \* how long a process may be down
    MaxCrashes      \* bound: crashes in one behaviour

ASSUME PeerPostAssumption ==
    /\ NoPost \notin Post
    /\ HashOf \in [Post -> Hash]
    /\ \A m, n \in Post : HashOf[m] = HashOf[n] => PairOf(m) = PairOf(n)
    /\ Patience \in [Post -> Nat]
    /\ Answers \subseteq {"busy", "absent", "final", "notASender"}
    /\ RetryAfter \subseteq Nat /\ Grants \subseteq Nat \ {0}
    /\ Wait \in Nat \ {0} /\ SignatureLife \in Nat
    /\ DownTimes \subseteq Nat /\ MaxCrashes \in Nat

VARIABLES
    q,          \* the queue
    waiting,    \* request -> the message whose slot waits for its answer
    timer,      \* slot, named by its message -> its timer and the attempt it is for
    alarm,      \* time left of wakeTimer: one number or none
    row,        \* request -> the message in the table `queue`
    refused,    \* relays that said this node is no sender there
    fate,       \* message -> what its asker, or the log, was told
    wire,       \* HTTP calls that are not answered
    road,       \* request -> what the relay holds for it
    replied,    \* requests that their target ever answered
    fresh,      \* message -> how long its signature is accepted
    crashes,
    calling     \* messages whose post() waits for the key to seal to

memory == <<q, waiting, timer, alarm, row, refused, fate>>
outside == <<road, replied, fresh, crashes, calling>>
vars == <<memory, wire, outside>>

NoTimer == [of |-> NoPost, left |-> 0]

Init ==
    /\ q = EmptyQueue
    /\ waiting = [h \in Hash |-> NoPost]
    /\ timer = [m \in Post |-> NoTimer]
    /\ alarm = {}
    /\ row = [h \in Hash |-> NoPost]
    /\ refused = {}
    /\ fate = [m \in Post |-> "unposted"]
    /\ wire = {}
    /\ road = [h \in Hash |-> "none"]
    /\ replied = {}
    /\ fresh = [m \in Post |-> 0]
    /\ crashes = 0
    /\ calling = {}

-----------------------------------------------------------------------------
(* Settling and pumping, on a copy of the memory.                          *)

Now == [q |-> q, waiting |-> waiting, timer |-> timer, row |-> row,
        refused |-> refused, fate |-> fate, wire |-> wire]

(* wake(): wakeTimer is set to the next useful moment.                     *)
Becomes(s) ==
    /\ q' = s.q
    /\ waiting' = s.waiting
    /\ timer' = s.timer
    /\ alarm' = NextWake(s.q)
    /\ row' = s.row
    /\ refused' = s.refused
    /\ fate' = s.fate
    /\ wire' = s.wire

Hashes(S) == {HashOf[m] : m \in S}

(* The messages whose slots wait for the requests of H.                    *)
SlotsIn(s, H) == {s.waiting[h] : h \in H} \ {NoPost}

(* Mutant: the row of a settled message stays in the table.                *)
SettledKeepsRow(s, H, how) ==
    LET over == SlotsIn(s, H)
    IN  [s EXCEPT !.q = Done(@, over),
                  !.waiting = [h \in Hash |-> IF h \in H THEN NoPost ELSE @[h]],
                  !.timer = [m \in Post |-> IF m \in over THEN NoTimer ELSE @[m]],
                  !.fate = [m \in Post |-> IF m \in over THEN how ELSE @[m]]]

(* settle(): what waits for a request of H ends.                           *)
Settled(s, H, how) ==
    LET over == SlotsIn(s, H)
    IN  [s EXCEPT !.q = Done(@, over),
                  !.waiting = [h \in Hash |-> IF h \in H THEN NoPost ELSE @[h]],
                  !.timer = [m \in Post |-> IF m \in over THEN NoTimer ELSE @[m]],
                  !.fate = [m \in Post |-> IF m \in over THEN how ELSE @[m]],
                  !.row = [h \in Hash |->
                              IF s.waiting[h] \in over /\ h \in H THEN NoPost ELSE @[h]]]

(* sweepSpent(): the messages of S ran out of patience.                    *)
GivenUp(s, S) == Settled([s EXCEPT !.q = Done(@, S)], Hashes(S), "gaveUp")

(* sendAttempt() for messages whose relay refused this node.               *)
TurnedBack(s, S) == Settled([s EXCEPT !.q = Done(@, S)], Hashes(S), "refused")

(* sendAttempt() for messages that nobody waits for.                       *)
Forgotten(s, S) ==
    [s EXCEPT !.q = Done(@, S),
              !.row = [h \in Hash |-> IF h \in Hashes(S) THEN NoPost ELSE @[h]]]

(* sendAttempt(): the calls go out and the timers of their slots start.    *)
Sent(s, S) ==
    LET started == Started(s.q, S)
    IN  [s EXCEPT !.q = started,
                  !.timer = [m \in Post |->
                      IF \E g \in S : s.waiting[HashOf[g]] = m
                      THEN [of |-> CHOOSE g \in S : s.waiting[HashOf[g]] = m, left |-> Wait]
                      ELSE @[m]],
                  !.wire = @ \cup {[post |-> m, n |-> started.tries[m],
                                    taken |-> FALSE, live |-> TRUE] : m \in S}]

(* Mutant: what is spent is not swept.                                     *)
PumpedUnswept(s) ==
    LET able == {m \in Post : s.waiting[HashOf[m]] # NoPost /\ RelayOf[m] \notin s.refused}
    IN  Sent(s, Passed(s.q, able, able))

(* Mutant: what was queued before the refusal is still sent.               *)
PumpedToRefusing(s) ==
    LET s1   == GivenUp(s, Expired(s.q))
        able == {m \in Post : s1.waiting[HashOf[m]] # NoPost}
        gone == Passed(s1.q, able, able)
    IN  Sent(Forgotten(s1, Passed(s1.q, {m \in Post : s1.waiting[HashOf[m]] = NoPost}, gone)),
             gone)

(* pump(): what is spent ends; of the rest, everything goes that may.      *)
Pumped(s) ==
    LET s1   == GivenUp(s, Expired(s.q))
        held == {m \in Post : s1.waiting[HashOf[m]] # NoPost}
        s2   == TurnedBack(s1, Passed(s1.q, {m \in held : RelayOf[m] \in s1.refused}, {}))
        able == {m \in Post : s2.waiting[HashOf[m]] # NoPost /\ RelayOf[m] \notin s2.refused}
        gone == Passed(s2.q, able, able)
    IN  Sent(Forgotten(s2, Passed(s2.q, {m \in Post : s2.waiting[HashOf[m]] = NoPost}, gone)),
             gone)

-----------------------------------------------------------------------------
(* Asking.                                                                 *)

(* post(), to where it waits: no relay that refused this node, no message  *)
(* without room.                                                           *)
Admit(m) ==
    /\ fate[m] = "unposted" /\ m \notin calling
    /\ RelayOf[m] \notin refused
    /\ Accepts(q, m)
    /\ calling' = calling \cup {m}
    /\ UNCHANGED <<memory, wire, road, replied, fresh, crashes>>

(* No key was found, or what was sealed is too large to travel.            *)
Unsealed(m) ==
    /\ m \in calling
    /\ calling' = calling \ {m}
    /\ UNCHANGED <<memory, wire, road, replied, fresh, crashes>>

(* sealAndSend(), with the key: the slot is registered, the message is     *)
(* queued, written down, and sent.                                         *)
Ask(m) ==
    /\ m \in calling /\ fate[m] = "unposted"
    /\ calling' = calling \ {m}
    /\ Becomes(Pumped([Now EXCEPT !.q = Added(@, m, Patience[m]),
                                  !.waiting[HashOf[m]] = m,
                                  !.row[HashOf[m]] = m,
                                  !.fate[m] = "open"]))
    /\ fresh' = [fresh EXCEPT ![m] = SignatureLife]
    /\ UNCHANGED <<road, replied, crashes>>

-----------------------------------------------------------------------------
(* Attempts.                                                               *)

(* retryable(): about the world, not about the packet.                     *)
Retryable(kind) == kind \in {"busy", "absent", "lost", "noAnswer"}

(* afterAttempt(): the message is tried again later, or the answer ends    *)
(* it.  Whichever attempt the answer is for, the timer of the slot stops.  *)
AfterAttempt(s, m, kind, retryAfter) ==
    LET h    == HashOf[m]
        slot == s.waiting[h]
        t    == [n \in Post |-> IF n = slot THEN NoTimer ELSE s.timer[n]]
    IN  IF slot # NoPost /\ Retryable(kind) /\ MayRetry(s.q, m)
        THEN [s EXCEPT !.timer = t,
                       !.q = IF kind = "busy" THEN Busied(@, m, retryAfter)
                                              ELSE Silenced(@, m)]
        ELSE Settled([s EXCEPT !.timer = t, !.q = Done(@, {m})], {h},
                     IF kind = "noAnswer" THEN "noAnswer" ELSE "refused")

(* The timer of a slot: the node stops waiting for that attempt.           *)
TimerFires(slot) ==
    LET m == timer[slot].of
    IN  /\ timer[slot] # NoTimer
        /\ timer[slot].left = 0
        /\ Becomes(Pumped(AfterAttempt(
                [Now EXCEPT !.timer[slot] = NoTimer,
                            !.wire = {IF a.post = m THEN [a EXCEPT !.live = FALSE] ELSE a : a \in @}],
                m, "noAnswer", 0)))
        /\ UNCHANGED outside

(* A refusal, or no answer at all.  The relay checks the signature first.  *)
Refusal(a, kind) ==
    /\ a.taken => kind = "lost"
    /\ (kind = "final" /\ "final" \notin Answers) => fresh[a.post] = 0
    /\ kind \in Answers => fresh[a.post] > 0
    /\ \E wait \in IF kind = "busy" THEN RetryAfter ELSE {0} :
        Becomes(Pumped(AfterAttempt(
            [Now EXCEPT !.wire = @ \ {a},
                        !.refused = IF kind = "notASender" THEN @ \cup {RelayOf[a.post]} ELSE @],
            a.post, kind, wait)))
    /\ UNCHANGED outside

CallRefused(a) ==
    /\ a \in wire
    /\ \E kind \in Answers \cup {"final", "lost"} : Refusal(a, kind)

(* A 2xx: the wait is cut to what the relay granted.                       *)
CallAccepted(a) ==
    LET slot == waiting[HashOf[a.post]]
    IN  /\ a \in wire
        /\ a.taken
        /\ wire' = wire \ {a}
        /\ \/ UNCHANGED timer
           \/ \E g \in Grants :
                /\ slot # NoPost /\ g < Wait
                /\ timer[slot] # NoTimer
                /\ timer' = [timer EXCEPT ![slot] = [of |-> a.post, left |-> g]]
        /\ UNCHANGED <<q, waiting, alarm, row, refused, fate, outside>>

(* wakeTimer, and the pump that a new process starts with.                 *)
WakeUp ==
    /\ 0 \in alarm
    /\ Becomes(Pumped(Now))
    /\ UNCHANGED outside

-----------------------------------------------------------------------------
(* Relays and targets.                                                     *)

(* The relay takes a request that it does not hold already (else 409), and *)
(* pushes it to its target.                                                *)
RelayTakes(a) ==
    /\ a \in wire /\ ~a.taken
    /\ fresh[a.post] > 0
    /\ road[HashOf[a.post]] = "none"
    /\ wire' = (wire \ {a}) \cup {[a EXCEPT !.taken = TRUE]}
    /\ road' = [road EXCEPT ![HashOf[a.post]] = "asked"]
    /\ UNCHANGED <<memory, replied, fresh, crashes, calling>>

TargetReplies(h) ==
    /\ road[h] = "asked"
    /\ road' = [road EXCEPT ![h] = "answered"]
    /\ replied' = replied \cup {h}
    /\ UNCHANGED <<memory, wire, fresh, crashes, calling>>

(* The route ends, or its answer is lost with the stream.                  *)
RouteEnds(h) ==
    /\ road[h] # "none"
    /\ road' = [road EXCEPT ![h] = "none"]
    /\ UNCHANGED <<memory, wire, replied, fresh, crashes, calling>>

(* onReply(): the target's answer, or the relay's word that it could not   *)
(* deliver.  Nobody waits for an answer that comes too late.               *)
Reply(h) ==
    LET slot == waiting[h]
        kept == [Now EXCEPT !.q = IF road[h] = "answered" THEN Reached(@, PairOf(slot)) ELSE @]
    IN  /\ road[h] # "none"
        /\ road' = [road EXCEPT ![h] = "none"]
        /\ IF slot = NoPost
           THEN UNCHANGED memory /\ UNCHANGED wire
           ELSE Becomes(Pumped(Settled(kept, {h},
                    IF road[h] = "answered" THEN "answered" ELSE "refused")))
        /\ UNCHANGED <<replied, fresh, crashes, calling>>

(* A new invite or claim seats this node at the relay again (refusalOf).   *)
Reseated(r) ==
    /\ r \in refused
    /\ refused' = refused \ {r}
    /\ UNCHANGED <<q, waiting, timer, alarm, row, fate, wire, outside>>

-----------------------------------------------------------------------------
(* Time and the process.                                                   *)

AgedTimer(t) == IF t = NoTimer THEN t ELSE [t EXCEPT !.left = Later(@, 1)]

Tick ==
    /\ q' = Aged(q, 1)
    /\ timer' = [m \in Post |-> AgedTimer(timer[m])]
    /\ alarm' = {Later(n, 1) : n \in alarm}
    /\ fresh' = [m \in Post |-> Later(fresh[m], 1)]
    /\ UNCHANGED <<waiting, row, refused, fate, wire, road, replied, crashes, calling>>

(* The process ends and starts again: what the two tables hold comes back, *)
(* nobody waits for it, and a first pump is due.  A call on the wire may   *)
(* still reach its relay.                                                  *)
Crash ==
    /\ crashes < MaxCrashes
    /\ crashes' = crashes + 1
    /\ \E down \in DownTimes :
        /\ q' = Restored(Aged(q, down), {row[h] : h \in Hash} \ {NoPost})
        /\ fresh' = [m \in Post |-> Later(fresh[m], down)]
    /\ waiting' = row
    /\ timer' = [m \in Post |-> NoTimer]
    /\ alarm' = {0}
    /\ refused' = {}
    /\ wire' = {}
    /\ calling' = {}
    /\ \E late \in SUBSET Hashes({a.post : a \in {b \in wire : ~b.taken}}) :
        road' = [h \in Hash |-> IF h \in late /\ road[h] = "none" THEN "asked" ELSE road[h]]
    /\ UNCHANGED <<row, fate, replied>>

Next ==
    \/ \E m \in Post : Admit(m) \/ Unsealed(m) \/ Ask(m) \/ TimerFires(m)
    \/ \E a \in wire : CallRefused(a) \/ CallAccepted(a) \/ RelayTakes(a)
    \/ WakeUp
    \/ \E h \in Hash : TargetReplies(h) \/ RouteEnds(h) \/ Reply(h)
    \/ \E r \in Relay : Reseated(r)
    \/ Tick
    \/ Crash

(* Time passes, and no timer stays due for ever: the weak fairness of      *)
(* WakeUp and TimerFires, whose guards these are and which end them.       *)
(* Nothing is asked of relays, targets or the network.                     *)
Fairness ==
    /\ WF_vars(Tick)
    /\ []<>(0 \notin alarm)
    /\ \A m \in Post : []<>(timer[m] = NoTimer \/ timer[m].left > 0)

Safe == Init /\ [][Next]_vars

Spec == Safe /\ Fairness

-----------------------------------------------------------------------------
(* Properties.                                                             *)

TypeOK ==
    /\ q.seq \in [Post -> Nat] /\ q.tries \in [Post -> Nat] /\ q.left \in [Post -> Nat]
    /\ q.sending \subseteq Post
    /\ q.inFlight \in [Relay -> Nat]
    /\ {q.off, q.last, q.step} \subseteq [Pair -> Nat]
    /\ waiting \in [Hash -> Post \cup {NoPost}]
    /\ timer \in [Post -> [of : Post \cup {NoPost}, left : Nat]]
    /\ alarm \in SUBSET Nat
    /\ row \in [Hash -> Post \cup {NoPost}]
    /\ refused \subseteq Relay
    /\ fate \in [Post -> {"unposted", "open", "answered", "refused", "noAnswer", "gaveUp"}]
    /\ wire \subseteq [post : Post, n : Nat, taken : BOOLEAN, live : BOOLEAN]
    /\ road \in [Hash -> {"none", "asked", "answered"}]
    /\ replied \subseteq Hash
    /\ fresh \in [Post -> Nat]
    /\ crashes \in 0 .. MaxCrashes
    /\ calling \subseteq Post

(* A taken place is always about to be freed: every message that holds one *)
(* is waited for, and the timer of its slot runs for it; and no relay has  *)
(* more places taken than messages on the way to it.  An attempt that left *)
(* its place behind would stop the relay's queue for good (postQueue.js,   *)
(* stopped).                                                               *)
PlacesComeBack ==
    /\ \A m \in q.sending :
        /\ waiting[HashOf[m]] # NoPost
        /\ timer[waiting[HashOf[m]]].of = m
    /\ \A r \in Relay :
        /\ q.inFlight[r] = Cardinality(On(q.sending, r))
        /\ q.inFlight[r] <= PerRelay

(* No message sleeps past its moment: one that could go has gone, and one  *)
(* that waits for a backoff to end is woken no later than that             *)
(* (postQueue.js, nextWakeMs: "null when nothing is waiting on time at     *)
(* all"; peerPost.js, wake).                                               *)
NobodyOversleeps ==
    \A m \in Queued(q) \ q.sending :
        \/ q.inFlight[RelayOf[m]] = PerRelay
        \/ \E t \in alarm : t <= q.off[PairOf(m)]

(* The queue of a relay cannot stop: its places come back, and it wakes.   *)
QueueGoesOn == TypeOK /\ PlacesComeBack /\ NobodyOversleeps

(* What a restart would bring back is exactly what is not settled: a       *)
(* message that was answered is not sent again, and one that waits is not  *)
(* lost (peerPost.js, "written down before it is tried", persistOut).      *)
RowsAreOpen ==
    \A h \in Hash :
        /\ row[h] = waiting[h]
        /\ row[h] # NoPost => row[h] \in Queued(q) /\ fate[row[h]] = "open"

(* A message whose asker still waits has a slot and a place in the queue:  *)
(* whatever ends the one ends the other.                                   *)
OpenIsQueued ==
    \A m \in Post : fate[m] = "open" => m \in Queued(q) /\ waiting[HashOf[m]] = m

(* Queue, slot and row agree on what is open.                              *)
OpenIsKept == RowsAreOpen /\ OpenIsQueued

(* An attempt is only made while the patience lasts, the first one         *)
(* excepted (peerPost.js, pump: "an attempt after the bound is a retry the *)
(* owner did not grant").                                                  *)
NoAttemptPastPatience ==
    [][\A m \in Post :
            (q'.tries[m] > q.tries[m] /\ q.tries[m] > 0) => q'.left[m] > 0]_vars

(* Messages keep the order they were asked in, however often they are      *)
(* refused in between or the process restarts, and of two of one class to  *)
(* one peer the older goes first (postQueue.js, "a requeued request keeps  *)
(* the sequence it was FIRST given").                                      *)
OlderGoesFirst ==
    [][\A m, n \in Queued(q) :
        q.seq[m] < q.seq[n] =>
            /\ {m, n} \subseteq Queued(q') => q'.seq[m] < q'.seq[n]
            /\ (/\ PairOf(m) = PairOf(n)
                /\ (m \in Background) = (n \in Background)
                /\ n \in q'.sending \ q.sending)
                   => m \in q.sending \cup q'.sending \/ m \notin Queued(q')]_vars

(* What the node promises of its messages, for whoever posts them: each    *)
(* with a request of its own ends, once, "answered" only if its target     *)
(* answered, "gave up" only if it was tried (peerPost.js, settle).         *)
Promise == INSTANCE Delivery WITH tried <- {m \in Post : q.tries[m] > 0}

KeepsPromise == Promise!Spec

(* A relay that refused this node is sent nothing more until a new seat    *)
(* there (peerPost.js, "THE RELAY REFUSED THIS NODE, so nothing more is    *)
(* sent to it"), also not what was at its door, or queued, before it did.  *)
NothingToRefusing ==
    [][\A m \in Post : q'.tries[m] > q.tries[m] => RelayOf[m] \notin refused']_vars

(* queueUnderLoad.js:44: "every promise settles".                          *)
EveryPostSettles == \A m \in Post : fate[m] = "open" ~> fate[m] # "open"

(* queueUnderLoad.js:35: "one request in flight at a time, from this node, *)
(* whatever the caller asks for": of the calls for messages that are still *)
(* open, the node has given up all but one per relay.                      *)
OneInFlight ==
    \A r \in Relay :
        Cardinality({a \in wire : a.live /\ RelayOf[a.post] = r
                                 /\ waiting[HashOf[a.post]] = a.post}) <= PerRelay

(* hub.js:989-990: "Given, the scheduler retries a BUSY target with        *)
(* backoff until it is delivered or the patience is spent": where busy is  *)
(* the only refusal there is, no attempt ends a message that has patience. *)
BusyIsRetried ==
    [][\A a \in wire :
            (Refusal(a, "final") /\ MayRetry(q, a.post)
                /\ fate[a.post] = "open" /\ q.step[PairOf(a.post)] > 0)
            => fate'[a.post] = "open"]_vars

(* hub.js:991-992: with patience, too, "an unreachable one still fails at  *)
(* once (peerPost's own rule)".                                            *)
AbsentFailsAtOnce ==
    [][\A a \in wire : Refusal(a, "absent") => fate'[a.post] # "open"]_vars
=============================================================================
