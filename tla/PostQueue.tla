------------------------------ MODULE PostQueue ------------------------------
(***************************************************************************)
(* The order in which a node sends what it was asked to post               *)
(* (src/spirit/run/spirit/postQueue.js), as operators over a queue q.      *)
(*                                                                         *)
(* A moment is kept as the time that is left until it.  The sequence       *)
(* number of an entry only orders the entries that are there, so the next  *)
(* number is one above the largest in use.  Every message takes one unit   *)
(* of the queue's room.                                                    *)
(***************************************************************************)
EXTENDS Naturals, FiniteSets, FiniteSetsExt

CONSTANTS
    Post,           \* the messages
    Relay,
    Peer,
    RelayOf,        \* message -> the relay it goes through
    PeerOf,         \* message -> whom it is for
    Background,     \* messages of class background
    PerRelay,       \* IN_FLIGHT_PER_RELAY
    BackoffStart,   \* BACKOFF_START_MS
    BackoffMax,     \* BACKOFF_MAX_MS
    BusyStart,      \* BUSY_STEP_MS
    BusyMax,        \* BUSY_STEP_MAX_MS
    Room,           \* QUEUE_BYTES_MAX
    BackgroundRoom  \* BACKGROUND_SHARE of it

ASSUME PostQueueAssumption ==
    /\ RelayOf \in [Post -> Relay]
    /\ PeerOf \in [Post -> Peer]
    /\ Background \subseteq Post
    /\ {PerRelay, BackoffStart, BackoffMax, BusyStart, BusyMax} \subseteq Nat \ {0}
    /\ {Room, BackgroundRoom} \subseteq Nat

Pair == Relay \X Peer

PairOf(m) == <<RelayOf[m], PeerOf[m]>>

EmptyQueue ==
    [seq      |-> [m \in Post |-> 0],       \* 0: not in the queue
     sending  |-> {},
     tries    |-> [m \in Post |-> 0],
     left     |-> [m \in Post |-> 0],       \* of its patience
     inFlight |-> [r \in Relay |-> 0],
     off      |-> [p \in Pair |-> 0],       \* of its backoff
     last     |-> [p \in Pair |-> 0],       \* its last wait after silence
     step     |-> [p \in Pair |-> 0]]       \* its last wait after busy

Queued(q) == {m \in Post : q.seq[m] # 0}

(* accepts(): background messages are refused earlier.                     *)
Accepts(q, m) ==
    Cardinality(Queued(q)) < IF m \in Background THEN BackgroundRoom ELSE Room

(* add(): patience 0 is one attempt and no retry.                          *)
Added(q, m, patience) ==
    [q EXCEPT !.seq[m] = 1 + Max({q.seq[n] : n \in Post}),
              !.tries[m] = 0,
              !.left[m] = patience]

(* order(): class first, then age.                                         *)
Before(q, m, n) ==
    \/ m \notin Background /\ n \in Background
    \/ (m \in Background) = (n \in Background) /\ q.seq[m] < q.seq[n]

On(S, r) == {m \in S : RelayOf[m] = r}

(* What eligible() lets pass, in any order.                                *)
Ready(q) ==
    {m \in Queued(q) \ q.sending :
        /\ q.inFlight[RelayOf[m]] < PerRelay
        /\ q.off[PairOf(m)] = 0}

(* Of S, what eligible() hands out until the places of every relay are     *)
(* taken by members of `takers`.                                           *)
Passed(q, S, takers) ==
    {m \in S \cap Ready(q) :
        Cardinality({n \in On(takers \cap Ready(q), RelayOf[m]) : Before(q, n, m)})
            < PerRelay - q.inFlight[RelayOf[m]]}

Started(q, S) ==
    [q EXCEPT !.sending = @ \cup S,
              !.tries = [m \in Post |-> IF m \in S THEN @[m] + 1 ELSE @[m]],
              !.inFlight = [r \in Relay |-> @[r] + Cardinality(On(S, r))]]

(* Mutant: the attempt ends and its place stays taken.                     *)
StoppedKeepsPlace(q, S) == [q EXCEPT !.sending = @ \ S]

(* Mutant: what is not on the wire is stopped as well.                     *)
StoppedTwice(q, S) ==
    [q EXCEPT !.sending = @ \ S,
              !.inFlight = [r \in Relay |-> @[r] - Cardinality(On(S, r))]]

(* stopped(): the attempts of S are over, and free their places.           *)
Stopped(q, S) ==
    [q EXCEPT !.sending = @ \ S,
              !.inFlight = [r \in Relay |-> @[r] - Cardinality(On(S \cap q.sending, r))]]

(* done(): stopped() and drop().                                           *)
Done(q, S) ==
    [Stopped(q, S) EXCEPT !.seq = [m \in Post |-> IF m \in S THEN 0 ELSE @[m]],
                          !.left = [m \in Post |-> IF m \in S THEN 0 ELSE @[m]]]

Least(a, b) == IF a < b THEN a ELSE b

(* Mutant: a message that found its target busy goes to the end.           *)
BusiedLast(q, m, retryAfter) ==
    LET p    == PairOf(m)
        step == IF q.step[p] = 0 THEN BusyStart ELSE Least(2 * q.step[p], BusyMax)
    IN  [Stopped(q, {m}) EXCEPT
            !.seq[m] = 1 + Max({q.seq[n] : n \in Post}),
            !.step[p] = step,
            !.off[p] = IF retryAfter > 0 THEN Least(step, retryAfter) ELSE BackoffStart]

(* busy(): the target is well and somebody else is asking.                 *)
Busied(q, m, retryAfter) ==
    LET p    == PairOf(m)
        step == IF q.step[p] = 0 THEN BusyStart ELSE Least(2 * q.step[p], BusyMax)
    IN  [Stopped(q, {m}) EXCEPT
            !.step[p] = step,
            !.off[p] = IF retryAfter > 0 THEN Least(step, retryAfter) ELSE BackoffStart]

(* silent(): the target did not answer; each wait doubles the last.        *)
Silenced(q, m) ==
    LET p    == PairOf(m)
        wait == IF q.last[p] = 0 THEN BackoffStart ELSE Least(2 * q.last[p], BackoffMax)
    IN  [Stopped(q, {m}) EXCEPT !.last[p] = wait, !.off[p] = wait]

(* reached(): a target that answered is not backed off.                    *)
Reached(q, p) == [q EXCEPT !.off[p] = 0, !.last[p] = 0, !.step[p] = 0]

(* Mutant: an entry that was never tried is expired.                       *)
ExpiredUntried(q) == {m \in Queued(q) \ q.sending : q.left[m] = 0}

(* expired(): patience bounds retrying, never the first attempt.           *)
Expired(q) == {m \in Queued(q) \ q.sending : q.tries[m] > 0 /\ q.left[m] = 0}

MayRetry(q, m) == m \in Queued(q) /\ q.left[m] > 0

(* Mutant: the sleep counts only the patience, not the backoffs.           *)
NextWakePatience(q) ==
    LET until == {q.left[m] : m \in {n \in Queued(q) \ q.sending : q.tries[n] > 0}} \ {0}
    IN  IF until = {} THEN {} ELSE {Min(until)}

(* nextWakeMs(): the earliest useful moment; {} when nothing waits on time.*)
NextWake(q) ==
    LET idle  == Queued(q) \ q.sending
        until == ({q.off[PairOf(m)] : m \in idle}
                    \cup {q.left[m] : m \in {n \in idle : q.tries[n] > 0}}) \ {0}
    IN  IF until = {} THEN {} ELSE {Min(until)}

(* The queue d units of time later.                                        *)
Later(n, d) == IF n > d THEN n - d ELSE 0

Aged(q, d) ==
    [q EXCEPT !.left = [m \in Post |-> Later(@[m], d)],
              !.off = [p \in Pair |-> Later(@[p], d)]]

(* Mutant: what ran out of patience meanwhile does not come back.          *)
RestoredInTime(q, S) ==
    [Done(q, Post) EXCEPT !.seq = [m \in Post |-> IF m \in S /\ q.left[m] > 0 THEN q.seq[m] ELSE 0],
                          !.left = [m \in Post |-> IF m \in S THEN q.left[m] ELSE 0],
                          !.last = [p \in Pair |-> IF q.off[p] = 0 THEN 0 ELSE @[p]],
                          !.step = [p \in Pair |-> 0]]

(* restoreItem() for the messages of S and restorePair() for every pair    *)
(* that is still backed off: nothing is on the wire, and what busy taught  *)
(* was kept in memory only.                                                *)
Restored(q, S) ==
    [Done(q, Post) EXCEPT !.seq = [m \in Post |-> IF m \in S THEN q.seq[m] ELSE 0],
                          !.left = [m \in Post |-> IF m \in S THEN q.left[m] ELSE 0],
                          !.last = [p \in Pair |-> IF q.off[p] = 0 THEN 0 ELSE @[p]],
                          !.step = [p \in Pair |-> 0]]
=============================================================================
