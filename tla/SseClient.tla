----------------------------- MODULE SseClient -----------------------------
(***************************************************************************)
(* One stream of a node and the loop that keeps it                         *)
(* (src/spirit/run/spirit/sseClient.js, connect).                          *)
(*                                                                         *)
(* A connection is dialled, refused or accepted, read, lost.  It may also  *)
(* go dead without a sign; then only the watchdog, set again by every      *)
(* byte, ends it.  After every loss a timer of the present distance,       *)
(* shortened by up to its half, starts the next attempt.                   *)
(*                                                                         *)
(* What arrives is left out but for bytes and the wait that a relay names. *)
(* close() ends a call that is out at once: the turn between the answer of *)
(* a fetch and what run() does with it is left out.                        *)
(***************************************************************************)
EXTENDS Naturals

CONSTANTS
    First,          \* FIRST_RETRY_MS
    Longest,        \* MAX_RETRY_MS
    RateLimited,    \* RATE_LIMITED_MS
    Idle,           \* IDLE_MS
    Named,          \* waits that a relay may name, 0 and those below First included
    None

ASSUME SseClientAssumption ==
    /\ {First, Longest, RateLimited, Idle} \subseteq Nat \ {0}
    /\ First <= Longest /\ Longest <= RateLimited
    /\ Named \subseteq Nat
    /\ None \notin Nat

VARIABLES
    phase,      \* "dialling", "refused" while the refusal is read, "open", "waiting", "over"
    retryMs,
    timer,      \* time left of it, or None
    idleTimer,  \* time left of it, or None
    dead,       \* nothing will arrive on this connection
    reachable,  \* the relay takes streams
    silence,    \* attempts in a row that brought no byte and no wait to keep
    base,       \* the distance at which that silence began
    hint        \* the wait that the last bytes of this stream named, or None

loopVars == <<phase, retryMs, timer, idleTimer, dead, reachable, silence, base, hint>>

LoopInit ==
    /\ phase = "dialling"
    /\ retryMs = First
    /\ timer = None
    /\ idleTimer = Idle
    /\ dead = FALSE
    /\ reachable \in BOOLEAN
    /\ silence = 0
    /\ base = First
    /\ hint = None

Less(a, b) == IF a < b THEN a ELSE b
More(a, b) == IF a < b THEN b ELSE a

(* Time that the jitter leaves of a distance.                              *)
Spread(ms) == (ms + 1) \div 2 .. ms

Calling == {"dialling", "refused", "open"}

-----------------------------------------------------------------------------

(* Mutant: the watchdog of the last attempt runs on.                       *)
ScheduleRetryWatched(from) ==
    /\ phase' = "waiting"
    /\ timer' \in Spread(from)
    /\ retryMs' = Less(2 * from, Longest)
    /\ silence' = Less(silence + 1, Longest)
    /\ hint' = None
    /\ UNCHANGED <<idleTimer, dead, reachable, base>>

(* Mutant: the distance doubles for ever.                                  *)
ScheduleRetryUncapped(from) ==
    /\ phase' = "waiting"
    /\ timer' \in Spread(from)
    /\ retryMs' = 2 * from
    /\ idleTimer' = None
    /\ silence' = Less(silence + 1, Longest)
    /\ hint' = None
    /\ UNCHANGED <<dead, reachable, base>>

(* Mutant: every loss starts again from the shortest distance.             *)
ScheduleRetryFirst(from) ==
    /\ phase' = "waiting"
    /\ timer' \in Spread(from)
    /\ retryMs' = First
    /\ idleTimer' = None
    /\ silence' = Less(silence + 1, Longest)
    /\ hint' = None
    /\ UNCHANGED <<dead, reachable, base>>

(* scheduleRetry(), when the caller does not close from onClose.           *)
ScheduleRetry(from) ==
    /\ phase' = "waiting"
    /\ timer' \in Spread(from)
    /\ retryMs' = Less(2 * from, Longest)
    /\ idleTimer' = None
    /\ silence' = Less(silence + 1, Longest)
    /\ hint' = None
    /\ UNCHANGED <<dead, reachable, base>>

(* A caller that closes the stream from onClose stops the retry.           *)
NoRetry ==
    /\ phase' = "over"
    /\ timer' = None
    /\ idleTimer' = None
    /\ UNCHANGED <<retryMs, dead, reachable, silence, base, hint>>

(* The connection fails before anything was answered.                      *)
Unreachable == phase = "dialling" /\ (ScheduleRetry(retryMs) \/ NoRetry)

(* A refusal: a wait that it names counts unless it is 0, else a 429 keeps *)
(* away longer.  Its body is read before anything else.                    *)
Refused ==
    /\ phase = "dialling"
    /\ ~dead
    /\ phase' = "refused"
    /\ \/ /\ retryMs' \in Named \ {0}
          /\ base' = retryMs' /\ silence' = 0
       \/ retryMs' = More(retryMs, RateLimited) /\ UNCHANGED <<silence, base>>
       \/ UNCHANGED <<retryMs, silence, base>>
    /\ UNCHANGED <<timer, idleTimer, dead, reachable, hint>>

RefusalRead == phase = "refused" /\ ~dead /\ (ScheduleRetry(retryMs) \/ NoRetry)

Opened ==
    /\ phase = "dialling"
    /\ reachable
    /\ ~dead
    /\ phase' = "open"
    /\ UNCHANGED <<retryMs, timer, idleTimer, dead, reachable, silence, base, hint>>

(* Bytes arrive: the distance is the first again, or what they name.  A    *)
(* wait of 0 is taken, too, and leaves nothing to double.                  *)
Bytes(ms) ==
    /\ phase = "open"
    /\ ~dead
    /\ retryMs' = IF ms = None THEN First ELSE ms
    /\ hint' = ms
    /\ base' = retryMs' /\ silence' = 0
    /\ idleTimer' = Idle
    /\ UNCHANGED <<phase, timer, dead, reachable>>

(* The relay ends the stream, or the read fails.                           *)
StreamEnds == phase = "open" /\ (ScheduleRetry(retryMs) \/ NoRetry)

(* touch()'s timer: the call is aborted, and that ends it like any loss.   *)
IdleFires ==
    /\ idleTimer = 0
    /\ phase \in Calling
    /\ ScheduleRetry(retryMs) \/ NoRetry

(* Mutant: the watchdog is armed by the first byte, not before the fetch.  *)
TimerFiresUnwatched ==
    /\ timer = 0
    /\ phase' = "dialling"
    /\ timer' = None
    /\ idleTimer' = None
    /\ dead' = FALSE
    /\ UNCHANGED <<retryMs, reachable, silence, base, hint>>

(* run(): the watchdog is armed before the fetch.                          *)
TimerFires ==
    /\ timer = 0
    /\ phase' = "dialling"
    /\ timer' = None
    /\ idleTimer' = Idle
    /\ dead' = FALSE
    /\ UNCHANGED <<retryMs, reachable, silence, base, hint>>

(* close(): for good.                                                      *)
Close == phase # "over" /\ NoRetry

-----------------------------------------------------------------------------
(* The world.                                                              *)

GoesDead ==
    /\ phase \in Calling
    /\ ~dead
    /\ dead' = TRUE
    /\ UNCHANGED <<phase, retryMs, timer, idleTimer, reachable, silence, base, hint>>

RelayChanges ==
    /\ reachable' = ~reachable
    /\ UNCHANGED <<phase, retryMs, timer, idleTimer, dead, silence, base, hint>>

Aged(t) == IF t \in {None, 0} THEN t ELSE t - 1

Tick ==
    /\ timer' = Aged(timer)
    /\ idleTimer' = Aged(idleTimer)
    /\ UNCHANGED <<phase, retryMs, dead, reachable, silence, base, hint>>

LoopNext ==
    \/ Unreachable \/ Refused \/ RefusalRead \/ Opened \/ StreamEnds
    \/ \E ms \in Named \cup {None} : Bytes(ms)
    \/ IdleFires \/ TimerFires \/ Close
    \/ GoesDead \/ RelayChanges
    \/ Tick

(* Time passes, timers fire, and a call to a relay that takes streams is   *)
(* not unlucky for ever.                                                   *)
Fairness ==
    /\ WF_loopVars(Tick)
    /\ WF_loopVars(TimerFires)
    /\ WF_loopVars(IdleFires)
    /\ SF_loopVars(Opened)

LoopSpec == LoopInit /\ [][LoopNext]_loopVars /\ Fairness

-----------------------------------------------------------------------------
(* Properties.                                                             *)

LoopTypeOK ==
    /\ phase \in Calling \cup {"waiting", "over"}
    /\ \E ms \in {Longest, RateLimited} \cup Named : retryMs \in 0 .. ms
    /\ timer \in Nat \cup {None}
    /\ idleTimer \in 0 .. Idle \cup {None}
    /\ dead \in BOOLEAN /\ reachable \in BOOLEAN
    /\ silence \in 0 .. Longest
    /\ base \in {First} \cup Named
    /\ hint \in Named \cup {None}

(* There is one loop and it never sleeps for good: a call that is out is   *)
(* watched, and what is not out and not closed has a timer; never both,    *)
(* for a watchdog that outlives its call aborts a later one, and a second  *)
(* timer is a second stream of the same node (sseClient.js, scheduleRetry, *)
(* touch, untouch).                                                        *)
OneLoop ==
    /\ phase \in Calling <=> idleTimer # None
    /\ phase = "waiting" <=> timer # None

(* The loop is one, and no distance is longer than the longest, the one of *)
(* a limited rate, or what the relay named.                                *)
LoopGoesOn == LoopTypeOK /\ OneLoop

(* Every attempt that brings no byte doubles the distance, from where the  *)
(* silence found it: the first one, or the wait that the relay named last. *)
(* It does whether the relay was away, refused, or took the stream and     *)
(* ended it at once (sseClient.js: a reset on an accepted socket "turned a *)
(* stale credential into a one-per-second hammer").  After a named wait of *)
(* 0 it says nothing: 0 doubled is 0, until a byte arrives, a refusal      *)
(* names another wait, or a 429 does.                                      *)
SilenceKeepsAway ==
    retryMs >= Less(base * 2 ^ silence, Longest)

(* The caller's view.                                                      *)
Contract ==
    INSTANCE StreamContract
        WITH state <- IF phase \in {"open", "over"} THEN phase ELSE "away"

KeepsContract == Contract!Spec

(* test/presenceNode.js:433-434: a wait that the relay names turns its     *)
(* restart into nodes "arriving once, late enough to be answered".         *)
NamedWaitIsWaited ==
    [][(hint # None /\ phase' = "waiting") => timer' >= hint]_loopVars

(* sseClient.js:284-285: after an attempt without bytes "the backoff keeps *)
(* climbing, the hammer never starts".                                     *)
BackoffClimbs ==
    [][silence' > silence => retryMs' > retryMs \/ retryMs' = Longest]_loopVars
=============================================================================
