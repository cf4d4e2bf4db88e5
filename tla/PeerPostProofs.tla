--------------------------- MODULE PeerPostProofs ---------------------------
(***************************************************************************)
(* However many messages, relays and crashes there are, as long as no two  *)
(* messages are one request: queue, slots and rows agree on what is open,  *)
(* every message ends once and how it ended is true, no attempt is made    *)
(* past its patience, and none to a relay that refused this node.  As long *)
(* as the messages are finitely many, too, the queue never stops (places   *)
(* come back, and nobody oversleeps) and the older goes first.             *)
(***************************************************************************)
EXTENDS PeerPost, WellFoundedInduction, FiniteSetTheorems, TLAPS

(* Every message is a request of its own.                                  *)
Apart == \A m, n \in Post : HashOf[m] = HashOf[n] => m = n

Fate == {"unposted", "open", "answered", "refused", "noAnswer", "gaveUp"}

Timer == [of : Post \cup {NoPost}, left : Nat]

(* What the proofs ask of a queue.                                         *)
SoundQueue(x) ==
    /\ x = [seq |-> x.seq, sending |-> x.sending, tries |-> x.tries, left |-> x.left,
            inFlight |-> x.inFlight, off |-> x.off, last |-> x.last, step |-> x.step]
    /\ {x.seq, x.tries, x.left} \subseteq [Post -> Nat]
    /\ \E bound \in Nat : \A m \in Post : x.seq[m] <= bound

(* What is on the wire, and who is backed off, is the same.                *)
SameWire(x, y) ==
    /\ y.sending = x.sending /\ y.inFlight = x.inFlight
    /\ y.off = x.off /\ y.last = x.last /\ y.step = x.step

(* What is still queued has the number it had.                             *)
Keeps(x, y) == \A m \in Post : y.seq[m] # 0 => y.seq[m] = x.seq[m]

(* A copy of the memory in which queue, slots, rows and fates agree, and   *)
(* whatever is on its way was sent; but the queue may have dropped what    *)
(* waits for a request of H.                                               *)
SoundBut(s, H) ==
    /\ s = [q |-> s.q, waiting |-> s.waiting, timer |-> s.timer, row |-> s.row,
            refused |-> s.refused, fate |-> s.fate, wire |-> s.wire]
    /\ SoundQueue(s.q)
    /\ s.fate \in [Post -> Fate]
    /\ s.waiting \in [Hash -> Post \cup {NoPost}]
    /\ s.row = s.waiting
    /\ \A h \in Hash : s.waiting[h] # NoPost =>
            HashOf[s.waiting[h]] = h /\ s.fate[s.waiting[h]] = "open"
    /\ \A m \in Post : s.fate[m] = "open" => s.waiting[HashOf[m]] = m
    /\ \A m \in Post : s.q.seq[m] # 0 => s.fate[m] = "open"
    /\ \A m \in Post : s.fate[m] = "open" /\ HashOf[m] \notin H => s.q.seq[m] # 0
    /\ \A m \in Post : s.fate[m] = "unposted" => s.q.tries[m] = 0
    /\ s.timer \in [Post -> Timer]
    /\ \A m \in Post : s.timer[m] # NoTimer =>
            s.timer[m].of \in Post /\ s.q.tries[s.timer[m].of] > 0
    /\ \A a \in s.wire : a.post \in Post /\ s.q.tries[a.post] > 0

Sound(s) == SoundBut(s, {})

(* From s to t nothing was sent, and what is still queued is as it was.    *)
Remains(s, t) ==
    /\ t.q.tries = s.q.tries
    /\ t.refused = s.refused
    /\ \A m \in Post : t.q.seq[m] # 0 =>
            /\ s.q.seq[m] # 0
            /\ t.q.left[m] = s.q.left[m]
            /\ m \in t.q.sending <=> m \in s.q.sending

-----------------------------------------------------------------------------
(* A bounded set of numbers has a largest one.                             *)
LEMMA BoundedHasMax ==
    ASSUME NEW S \in SUBSET Nat, S # {}, NEW bound \in Nat, \A x \in S : x <= bound
    PROVE  Max(S) \in S /\ Max(S) \in Nat /\ \A x \in S : x <= Max(S)
<1> DEFINE T == {n \in Nat : \A x \in S : x <= n}
<1>1. T \subseteq Nat /\ T # {}
  BY DEF T
<1> HIDE DEF T
<1>2. PICK n \in T : \A y \in T : ~(<<y, n>> \in OpToRel(<, Nat))
  BY <1>1, NatLessThanWellFounded, WFMin, Zenon
<1>3. \A y \in T : n \in Nat /\ y \in Nat => ~(y < n)
  BY <1>2, Zenon DEF OpToRel
<1>4. \A y \in T : ~(y < n)
  BY <1>1, <1>3
<1>5. n \in S
  <2>1. SUFFICES ASSUME n \notin S PROVE FALSE
    OBVIOUS
  <2>2. n \in Nat /\ \A x \in S : x \in Nat /\ x < n
    BY <2>1 DEF T
  <2>3. n - 1 \in Nat /\ \A x \in S : x <= n - 1
    <3>1. PICK x \in S : TRUE
      OBVIOUS
    <3>2. n >= 1 /\ n \in Nat
      BY <2>2, <3>1
    <3> QED
      BY <2>2, <3>2
  <2>4. n - 1 \in T /\ n - 1 < n
    BY <2>2, <2>3 DEF T
  <2> QED
    BY <2>4, <1>4
<1>6. \A x \in S : n >= x
  BY DEF T
<1> QED
  BY <1>5, <1>6 DEF Max

LEMMA AddedIsSound ==
    ASSUME NEW x, SoundQueue(x), NEW m \in Post, NEW patience \in Nat
    PROVE  /\ SoundQueue(Added(x, m, patience))
           /\ Added(x, m, patience).seq[m] # 0
           /\ Added(x, m, patience).tries[m] = 0
           /\ \A n \in Post \ {m} :
                /\ Added(x, m, patience).seq[n] = x.seq[n]
                /\ Added(x, m, patience).tries[n] = x.tries[n]
                /\ x.seq[n] < Added(x, m, patience).seq[m]
           /\ SameWire(x, Added(x, m, patience))
<1> DEFINE top == Max({x.seq[n] : n \in Post})
           y == Added(x, m, patience)
<1>1. PICK bound \in Nat : \A n \in Post : x.seq[n] <= bound
  BY DEF SoundQueue
<1>2. {x.seq[n] : n \in Post} \in SUBSET Nat
  BY DEF SoundQueue
<1>3. top \in Nat /\ \A n \in Post : x.seq[n] <= top
  <2> DEFINE N == {x.seq[n] : n \in Post}
  <2>1. N # {} /\ \A n \in N : n <= bound
    BY <1>1
  <2>2. Max(N) \in Nat /\ \A n \in N : n <= Max(N)
    <3> HIDE DEF N
    <3> QED
      BY <1>2, <2>1, BoundedHasMax DEF N
  <2> QED
    BY <2>2
<1> HIDE DEF top
<1>4. Added(x, m, patience) =
        [x EXCEPT !.seq[m] = 1 + top, !.tries[m] = 0, !.left[m] = patience]
  BY DEF Added, top
<1>5. /\ y.seq = [x.seq EXCEPT ![m] = 1 + top]
      /\ y.tries = [x.tries EXCEPT ![m] = 0]
      /\ y.left = [x.left EXCEPT ![m] = patience]
      /\ y = [seq |-> y.seq, sending |-> y.sending, tries |-> y.tries, left |-> y.left,
            inFlight |-> y.inFlight, off |-> y.off, last |-> y.last, step |-> y.step]
      /\ SameWire(x, y)
  <2> DEFINE y1 == [x EXCEPT !.seq[m] = 1 + top]
             y2 == [y1 EXCEPT !.tries[m] = 0]
  <2>1. y = [y2 EXCEPT !.left[m] = patience]
    BY <1>4, Zenon
  <2>2. y1 = [seq |-> [x.seq EXCEPT ![m] = 1 + top], sending |-> x.sending,
              tries |-> x.tries, left |-> x.left, inFlight |-> x.inFlight,
              off |-> x.off, last |-> x.last, step |-> x.step]
    BY DEF SoundQueue
  <2> HIDE DEF y1
  <2>3. y2 = [seq |-> [x.seq EXCEPT ![m] = 1 + top], sending |-> x.sending,
              tries |-> [x.tries EXCEPT ![m] = 0], left |-> x.left, inFlight |-> x.inFlight,
              off |-> x.off, last |-> x.last, step |-> x.step]
    BY <2>2
  <2> HIDE DEF y2
  <2> QED
    BY <2>1, <2>3 DEF SameWire
<1> HIDE DEF y
<1>6. {y.seq, y.tries, y.left} \subseteq [Post -> Nat]
  BY <1>3, <1>5 DEF SoundQueue
<1>7. \A n \in Post : y.seq[n] <= 1 + top
  BY <1>3, <1>5 DEF SoundQueue
<1>8. SoundQueue(y)
  BY <1>3, <1>5, <1>6, <1>7 DEF SoundQueue
<1>9. /\ y.seq[m] # 0 /\ y.tries[m] = 0
      /\ \A n \in Post \ {m} :
            y.seq[n] = x.seq[n] /\ y.tries[n] = x.tries[n] /\ x.seq[n] < y.seq[m]
  BY <1>3, <1>5 DEF SoundQueue
<1> QED
  BY <1>5, <1>8, <1>9 DEF y

(* The places that the attempts of S free, and those that they take.       *)
Freed(x, S) == [r \in Relay |-> x.inFlight[r] - Cardinality(On(S \cap x.sending, r))]
Taken(x, S) == [r \in Relay |-> x.inFlight[r] + Cardinality(On(S, r))]

Without(f, S) == [m \in Post |-> IF m \in S THEN 0 ELSE f[m]]
More(f, S) == [m \in Post |-> IF m \in S THEN f[m] + 1 ELSE f[m]]
LaterOff(x, d) == [p \in Pair |-> Later(x.off[p], d)]
KeptLast(x) == [p \in Pair |-> IF x.off[p] = 0 THEN 0 ELSE x.last[p]]

(* What an end of attempts leaves of the queue.                            *)
LEMMA DoneParts ==
    ASSUME NEW x, SoundQueue(x), NEW S
    PROVE  /\ SoundQueue(Done(x, S))
           /\ Done(x, S).seq = Without(x.seq, S) /\ Done(x, S).left = Without(x.left, S)
           /\ Done(x, S).tries = x.tries
           /\ Done(x, S).sending = x.sending \ S
           /\ Done(x, S).inFlight = Freed(x, S)
           /\ Done(x, S).off = x.off /\ Done(x, S).last = x.last /\ Done(x, S).step = x.step
<1> DEFINE y == Done(x, S)
           places == [r \in Relay |-> x.inFlight[r] - Cardinality(On(S \cap x.sending, r))]
<1>1. /\ y.seq = [m \in Post |-> IF m \in S THEN 0 ELSE x.seq[m]]
      /\ y.left = [m \in Post |-> IF m \in S THEN 0 ELSE x.left[m]]
      /\ y.tries = x.tries
      /\ y.sending = x.sending \ S
      /\ y.inFlight = places
      /\ y.off = x.off /\ y.last = x.last /\ y.step = x.step
      /\ y = [seq |-> y.seq, sending |-> y.sending, tries |-> y.tries, left |-> y.left,
            inFlight |-> y.inFlight, off |-> y.off, last |-> y.last, step |-> y.step]
  <2> DEFINE z == Stopped(x, S)
             seqs == [m \in Post |-> IF m \in S THEN 0 ELSE z.seq[m]]
             lefts == [m \in Post |-> IF m \in S THEN 0 ELSE z.left[m]]
  <2>1. z = [x EXCEPT !.sending = @ \ S, !.inFlight = places]
    BY Zenon DEF Stopped
  <2>2. y = [z EXCEPT !.seq = seqs, !.left = lefts]
    BY Zenon DEF Done
  <2> HIDE DEF y, z, places
  <2>3. z = [seq |-> x.seq, sending |-> x.sending \ S, tries |-> x.tries, left |-> x.left,
             inFlight |-> places, off |-> x.off, last |-> x.last, step |-> x.step]
    BY <2>1 DEF SoundQueue
  <2>4. /\ seqs = [m \in Post |-> IF m \in S THEN 0 ELSE x.seq[m]]
        /\ lefts = [m \in Post |-> IF m \in S THEN 0 ELSE x.left[m]]
    BY <2>3
  <2> HIDE DEF seqs, lefts
  <2>5. y = [seq |-> seqs, sending |-> x.sending \ S, tries |-> x.tries, left |-> lefts,
             inFlight |-> places, off |-> x.off, last |-> x.last, step |-> x.step]
    BY <2>2, <2>3
  <2> QED
    BY <2>4, <2>5
<1> HIDE DEF y, places
<1>2. PICK bound \in Nat : \A m \in Post : x.seq[m] <= bound
  BY DEF SoundQueue
<1>3. {y.seq, y.tries, y.left} \subseteq [Post -> Nat] /\ \A m \in Post : y.seq[m] <= bound
  BY <1>1, <1>2 DEF SoundQueue
<1>4. SoundQueue(y)
  BY <1>1, <1>3 DEF SoundQueue
<1> QED
  BY <1>1, <1>4 DEF y, places, Freed, Without
LEMMA DoneIsSound ==
    ASSUME NEW x, SoundQueue(x), NEW S
    PROVE  /\ SoundQueue(Done(x, S))
           /\ Done(x, S).seq = [m \in Post |-> IF m \in S THEN 0 ELSE x.seq[m]]
           /\ Done(x, S).left = [m \in Post |-> IF m \in S THEN 0 ELSE x.left[m]]
           /\ Done(x, S).tries = x.tries
           /\ Done(x, S).sending = x.sending \ S
<1>1. /\ SoundQueue(Done(x, S))
      /\ Done(x, S).seq = Without(x.seq, S) /\ Done(x, S).left = Without(x.left, S)
      /\ Done(x, S).tries = x.tries
      /\ Done(x, S).sending = x.sending \ S
  BY DoneParts
<1> QED
  BY <1>1 DEF Without

(* Attempts begin.                                                         *)
LEMMA StartedParts ==
    ASSUME NEW x, SoundQueue(x), NEW S
    PROVE  /\ SoundQueue(Started(x, S))
           /\ Started(x, S).seq = x.seq
           /\ Started(x, S).left = x.left
           /\ Started(x, S).sending = x.sending \cup S
           /\ Started(x, S).inFlight = Taken(x, S)
           /\ Started(x, S).off = x.off /\ Started(x, S).last = x.last
           /\ Started(x, S).step = x.step
           /\ Started(x, S).tries = More(x.tries, S)
<1> DEFINE y == Started(x, S)
           places == [r \in Relay |-> x.inFlight[r] + Cardinality(On(S, r))]
           again == [m \in Post |-> IF m \in S THEN x.tries[m] + 1 ELSE x.tries[m]]
<1>1. y = [x EXCEPT !.sending = @ \cup S, !.tries = again, !.inFlight = places]
  BY Zenon DEF Started
<1>2. again \in [Post -> Nat]
  BY DEF SoundQueue
<1> HIDE DEF y, places, again
<1>3. y = [seq |-> x.seq, sending |-> x.sending \cup S, tries |-> again, left |-> x.left,
           inFlight |-> places, off |-> x.off, last |-> x.last, step |-> x.step]
  BY <1>1 DEF SoundQueue
<1>4. SoundQueue(y)
  BY <1>2, <1>3 DEF SoundQueue
<1> QED
  BY <1>3, <1>4 DEF y, again, places, Taken, More

LEMMA StartedIsSound ==
    ASSUME NEW x, SoundQueue(x), NEW S
    PROVE  /\ SoundQueue(Started(x, S))
           /\ Started(x, S).seq = x.seq
           /\ Started(x, S).left = x.left
           /\ Started(x, S).tries =
                [m \in Post |-> IF m \in S THEN x.tries[m] + 1 ELSE x.tries[m]]
<1>1. /\ SoundQueue(Started(x, S))
      /\ Started(x, S).seq = x.seq
      /\ Started(x, S).left = x.left
      /\ Started(x, S).tries = More(x.tries, S)
  BY StartedParts
<1> QED
  BY <1>1 DEF More

(* Attempts end, and their pairs are backed off.                           *)
LEMMA BackedOffIsSound ==
    ASSUME NEW x, SoundQueue(x), NEW m, NEW wait
    PROVE  \A y \in {Busied(x, m, wait), Silenced(x, m), Reached(x, m)} :
                /\ SoundQueue(y)
                /\ y.seq = x.seq /\ y.tries = x.tries /\ y.left = x.left
<1> DEFINE Alike(y) ==
                /\ SoundQueue(y)
                /\ y.seq = x.seq /\ y.tries = x.tries /\ y.left = x.left
           z == Stopped(x, {m})
           places == [r \in Relay |-> x.inFlight[r] - Cardinality(On({m} \cap x.sending, r))]
<1>1. z = [x EXCEPT !.sending = @ \ {m}, !.inFlight = places]
  BY Zenon DEF Stopped
<1> HIDE DEF z, places
<1>2. Alike(z)
  <2>1. z = [seq |-> x.seq, sending |-> x.sending \ {m}, tries |-> x.tries, left |-> x.left,
             inFlight |-> places, off |-> x.off, last |-> x.last, step |-> x.step]
    BY <1>1 DEF SoundQueue
  <2> QED
    BY <2>1 DEF SoundQueue
<1>3. ASSUME NEW u, Alike(u), NEW p, NEW c
      PROVE  /\ Alike([u EXCEPT !.off[p] = c])
             /\ Alike([u EXCEPT !.last[p] = c])
             /\ Alike([u EXCEPT !.step[p] = c])
  <2>1. ASSUME NEW f
        PROVE  /\ Alike([u EXCEPT !.off = f])
               /\ Alike([u EXCEPT !.last = f])
               /\ Alike([u EXCEPT !.step = f])
    BY <1>3 DEF SoundQueue
  <2> HIDE DEF Alike
  <2> QED
    BY <2>1, Zenon
<1>4. Alike(x)
  OBVIOUS
<1> HIDE DEF Alike
<1> DEFINE p == PairOf(m)
<1>5. \A c, d : Alike([z EXCEPT !.step[p] = c, !.off[p] = d])
  <2>1. ASSUME NEW c, NEW d PROVE Alike([[z EXCEPT !.step[p] = c] EXCEPT !.off[p] = d])
    BY <1>2, <1>3, Zenon
  <2> QED
    BY <2>1, Zenon
<1>6. \A c, d : Alike([z EXCEPT !.last[p] = c, !.off[p] = d])
  <2>1. ASSUME NEW c, NEW d PROVE Alike([[z EXCEPT !.last[p] = c] EXCEPT !.off[p] = d])
    BY <1>2, <1>3, Zenon
  <2> QED
    BY <2>1, Zenon
<1>7. \A o : Alike([x EXCEPT !.off[o] = 0, !.last[o] = 0, !.step[o] = 0])
  <2>1. ASSUME NEW o
        PROVE  Alike([[[x EXCEPT !.off[o] = 0] EXCEPT !.last[o] = 0] EXCEPT !.step[o] = 0])
    BY <1>3, <1>4, Zenon
  <2> QED
    BY <2>1, Zenon
<1>8. Alike(Busied(x, m, wait))
  BY <1>5, Zenon DEF Busied, z, p
<1>9. Alike(Silenced(x, m))
  BY <1>6, Zenon DEF Silenced, z, p
<1>10. Alike(Reached(x, m))
  BY <1>7, Zenon DEF Reached
<1> QED
  BY <1>8, <1>9, <1>10 DEF Alike
-----------------------------------------------------------------------------
(* Settling and pumping.                                                   *)

Ending == {"answered", "refused", "noAnswer", "gaveUp"}

(* Whoever is asked for by H and still open ends so, and nobody else.      *)
EndsIn(s, t, H, how) ==
    \A m \in Post :
        t.fate[m] = IF s.fate[m] = "open" /\ HashOf[m] \in H THEN how ELSE s.fate[m]

LEMMA SettledIsSound ==
    ASSUME NEW s, NEW H \in SUBSET Hash, SoundBut(s, H), NEW how \in Ending
    PROVE  /\ Sound(Settled(s, H, how))
           /\ Remains(s, Settled(s, H, how))
           /\ EndsIn(s, Settled(s, H, how), H, how)
<1> DEFINE over == SlotsIn(s, H)
           t == Settled(s, H, how)
           x == Done(s.q, over)
           rows == [h \in Hash |-> IF s.waiting[h] \in over /\ h \in H THEN NoPost ELSE s.row[h]]
           slots == [h \in Hash |-> IF h \in H THEN NoPost ELSE s.waiting[h]]
           timers == [m \in Post |-> IF m \in over THEN NoTimer ELSE s.timer[m]]
           fates == [m \in Post |-> IF m \in over THEN how ELSE s.fate[m]]
<1>1. t = [s EXCEPT !.q = x, !.waiting = slots, !.timer = timers, !.fate = fates, !.row = rows]
  BY Zenon DEF Settled
<1>2. \A m \in Post : m \in over <=> s.fate[m] = "open" /\ HashOf[m] \in H
  <2>1. ASSUME NEW m \in Post, m \in over
        PROVE  s.fate[m] = "open" /\ HashOf[m] \in H
    <3>1. PICK h \in H : m = s.waiting[h] /\ m # NoPost
      BY <2>1 DEF SlotsIn
    <3> QED
      BY <3>1 DEF SoundBut
  <2>2. ASSUME NEW m \in Post, s.fate[m] = "open", HashOf[m] \in H
        PROVE  m \in over
    BY <2>2, PeerPostAssumption DEF SoundBut, SlotsIn
  <2> QED
    BY <2>1, <2>2
<1>3. \A h \in H : s.waiting[h] # NoPost => s.waiting[h] \in over
  BY DEF SlotsIn
<1> HIDE DEF x, over
<1>4. /\ SoundQueue(x)
      /\ x.seq = [m \in Post |-> IF m \in over THEN 0 ELSE s.q.seq[m]]
      /\ x.left = [m \in Post |-> IF m \in over THEN 0 ELSE s.q.left[m]]
      /\ x.tries = s.q.tries
      /\ x.sending = s.q.sending \ over
  BY DoneIsSound DEF x, SoundBut
<1>5. rows = slots /\ slots \in [Hash -> Post \cup {NoPost}]
  BY <1>3 DEF SoundBut
<1>6. fates \in [Post -> Fate]
  BY DEF SoundBut, Fate, Ending
<1> HIDE DEF t, rows, slots, timers, fates
<1>7. t = [q |-> x, waiting |-> slots, timer |-> timers, row |-> slots,
           refused |-> s.refused, fate |-> fates, wire |-> s.wire]
  BY <1>1, <1>5 DEF SoundBut
<1>8. /\ t = [q |-> t.q, waiting |-> t.waiting, timer |-> t.timer, row |-> t.row,
            refused |-> t.refused, fate |-> t.fate, wire |-> t.wire]
      /\ t.q = x /\ t.waiting = slots /\ t.row = slots /\ t.timer = timers
      /\ t.fate = fates /\ t.refused = s.refused /\ t.wire = s.wire
  BY <1>7
<1>9. \A h \in Hash : slots[h] # NoPost =>
          HashOf[slots[h]] = h /\ fates[slots[h]] = "open"
  BY <1>2 DEF slots, fates, SoundBut
<1>10. \A m \in Post : fates[m] = "open" => slots[HashOf[m]] = m
  BY <1>2, PeerPostAssumption DEF slots, fates, SoundBut, Ending
<1>11. \A m \in Post : x.seq[m] # 0 <=> fates[m] = "open"
  BY <1>2, <1>4 DEF fates, SoundBut, Ending
<1>12. \A m \in Post : fates[m] = "unposted" => x.tries[m] = 0
  BY <1>4 DEF fates, SoundBut, Ending
<1>13. /\ timers \in [Post -> Timer]
       /\ \A m \in Post : timers[m] # NoTimer =>
            timers[m].of \in Post /\ x.tries[timers[m].of] > 0
  BY <1>4 DEF timers, SoundBut, Timer, NoTimer
<1>14. \A a \in s.wire : a.post \in Post /\ x.tries[a.post] > 0
  BY <1>4 DEF SoundBut
<1>15. Sound(t)
  BY <1>4, <1>5, <1>6, <1>8, <1>9, <1>10, <1>11, <1>12, <1>13, <1>14 DEF Sound, SoundBut
<1>16. Remains(s, t)
  BY <1>4, <1>8 DEF Remains
<1>17. EndsIn(s, t, H, how)
  BY <1>2, <1>8 DEF EndsIn, fates
<1> QED
  BY <1>15, <1>16, <1>17 DEF t

(* Messages leave the queue before whoever waits for them is told.         *)
LEMMA DroppedIsSoundBut ==
    ASSUME NEW s, Sound(s), NEW S \in SUBSET Post
    PROVE  LET t == [s EXCEPT !.q = Done(@, S)]
           IN  /\ SoundBut(t, Hashes(S)) /\ Hashes(S) \in SUBSET Hash
               /\ Remains(s, t) /\ t.fate = s.fate
               /\ \A m \in S : t.q.seq[m] = 0
<1> DEFINE x == Done(s.q, S)
           t == [s EXCEPT !.q = x]
<1>1. /\ SoundQueue(x)
      /\ x.seq = [m \in Post |-> IF m \in S THEN 0 ELSE s.q.seq[m]]
      /\ x.left = [m \in Post |-> IF m \in S THEN 0 ELSE s.q.left[m]]
      /\ x.tries = s.q.tries
      /\ x.sending = s.q.sending \ S
  BY DoneIsSound DEF Sound, SoundBut
<1> HIDE DEF x
<1>2. \A m \in S : HashOf[m] \in Hashes(S)
  BY DEF Hashes
<1>3. Hashes(S) \in SUBSET Hash
  BY PeerPostAssumption DEF Hashes
<1>4. t = [q |-> x, waiting |-> s.waiting, timer |-> s.timer, row |-> s.row,
           refused |-> s.refused, fate |-> s.fate, wire |-> s.wire]
  BY DEF Sound, SoundBut
<1> HIDE DEF t
<1>5. SoundBut(t, Hashes(S))
  BY <1>1, <1>2, <1>4 DEF Sound, SoundBut
<1>6. Remains(s, t)
  BY <1>1, <1>4 DEF Remains
<1> QED
  BY <1>1, <1>3, <1>4, <1>5, <1>6 DEF t, x
(* The messages of S leave the queue and end.                              *)
LEMMA OverIsSound ==
    ASSUME NEW s, Sound(s), NEW S \in SUBSET Queued(s.q), NEW how \in Ending
    PROVE  LET t == Settled([s EXCEPT !.q = Done(@, S)], Hashes(S), how)
           IN  /\ Sound(t) /\ Remains(s, t)
               /\ \A m \in Post : t.fate[m] = IF m \in S THEN how ELSE s.fate[m]
               /\ \A m \in S : t.q.seq[m] = 0
<1> DEFINE d == [s EXCEPT !.q = Done(@, S)]
           t == Settled(d, Hashes(S), how)
<1>1. S \in SUBSET Post /\ \A m \in S : s.fate[m] = "open" /\ s.waiting[HashOf[m]] = m
  BY DEF Queued, Sound, SoundBut
<1>2. /\ SoundBut(d, Hashes(S)) /\ Hashes(S) \in SUBSET Hash
      /\ Remains(s, d) /\ d.fate = s.fate /\ \A m \in S : d.q.seq[m] = 0
  BY <1>1, DroppedIsSoundBut
<1> HIDE DEF d
<1>3. Sound(t) /\ Remains(d, t) /\ EndsIn(d, t, Hashes(S), how)
  BY <1>2, SettledIsSound
<1> HIDE DEF t
<1>4. \A m \in Post : s.fate[m] = "open" /\ HashOf[m] \in Hashes(S) <=> m \in S
  BY <1>1 DEF Hashes, Sound, SoundBut
<1>5. \A m \in Post : t.fate[m] = IF m \in S THEN how ELSE s.fate[m]
  BY <1>2, <1>3, <1>4 DEF EndsIn
<1>6. Remains(s, t) /\ \A m \in S : t.q.seq[m] = 0
  BY <1>1, <1>2, <1>3 DEF Remains
<1> QED
  BY <1>3, <1>5, <1>6 DEF t, d

(* Nobody waits for a message that is queued: there is none such.          *)
LEMMA NothingIsForgotten ==
    ASSUME NEW s, Sound(s), NEW S \in SUBSET Queued(s.q),
           \A m \in S : s.waiting[HashOf[m]] = NoPost
    PROVE  /\ Sound(Forgotten(s, S)) /\ Remains(s, Forgotten(s, S))
           /\ Forgotten(s, S).fate = s.fate /\ Forgotten(s, S).waiting = s.waiting
           /\ Forgotten(s, S).q.seq = s.q.seq
<1> DEFINE x == Done(s.q, S)
           rows == [h \in Hash |-> IF h \in Hashes(S) THEN NoPost ELSE s.row[h]]
           t == Forgotten(s, S)
<1>1. S = {}
  BY PeerPostAssumption DEF Queued, Sound, SoundBut
<1>2. t = [s EXCEPT !.q = x, !.row = rows]
  BY Zenon DEF Forgotten
<1>3. rows = s.row
  BY <1>1 DEF Hashes, Sound, SoundBut
<1>4. /\ SoundQueue(x)
      /\ x.seq = [m \in Post |-> IF m \in S THEN 0 ELSE s.q.seq[m]]
      /\ x.left = [m \in Post |-> IF m \in S THEN 0 ELSE s.q.left[m]]
      /\ x.tries = s.q.tries
      /\ x.sending = s.q.sending \ S
  BY DoneIsSound DEF Sound, SoundBut
<1> HIDE DEF x, rows, t
<1>5. x.seq = s.q.seq /\ x.left = s.q.left /\ x.sending = s.q.sending \ {}
  BY <1>1, <1>4 DEF Sound, SoundBut, SoundQueue
<1>6. t = [q |-> x, waiting |-> s.waiting, timer |-> s.timer, row |-> s.row,
           refused |-> s.refused, fate |-> s.fate, wire |-> s.wire]
  BY <1>2, <1>3 DEF Sound, SoundBut
<1>7. Sound(t)
  BY <1>4, <1>5, <1>6 DEF Sound, SoundBut
<1>8. Remains(s, t)
  BY <1>4, <1>5, <1>6 DEF Remains
<1> QED
  BY <1>5, <1>6, <1>7, <1>8 DEF t

(* Attempts for messages that are queued.                                  *)
LEMMA SentIsSound ==
    ASSUME NEW s, Sound(s), NEW S \in SUBSET Queued(s.q)
    PROVE  LET t == Sent(s, S)
           IN  /\ Sound(t)
               /\ t.fate = s.fate /\ t.refused = s.refused /\ t.q.left = s.q.left
               /\ t.q.tries =
                    [m \in Post |-> IF m \in S THEN s.q.tries[m] + 1 ELSE s.q.tries[m]]
<1> DEFINE t == Sent(s, S)
           x == Started(s.q, S)
           first(m) == CHOOSE g \in S : s.waiting[HashOf[g]] = m
           timers == [m \in Post |->
                      IF \E g \in S : s.waiting[HashOf[g]] = m
                      THEN [of |-> first(m), left |-> Wait] ELSE s.timer[m]]
           calls == s.wire \cup {[post |-> m, n |-> x.tries[m],
                                  taken |-> FALSE, live |-> TRUE] : m \in S}
<1>1. t = [s EXCEPT !.q = x, !.timer = timers, !.wire = calls]
  BY Zenon DEF Sent
<1>2. S \in SUBSET Post /\ \A m \in S : s.fate[m] = "open"
  BY DEF Queued, Sound, SoundBut
<1>3. /\ SoundQueue(x) /\ x.seq = s.q.seq /\ x.left = s.q.left
      /\ x.tries = [m \in Post |-> IF m \in S THEN s.q.tries[m] + 1 ELSE s.q.tries[m]]
  BY StartedIsSound DEF Sound, SoundBut
<1> HIDE DEF x
<1>4. /\ \A m \in S : x.tries[m] > 0
      /\ \A m \in Post : s.q.tries[m] > 0 => x.tries[m] > 0
  BY <1>2, <1>3 DEF Sound, SoundBut, SoundQueue
<1>5. \A m \in Post : (\E g \in S : s.waiting[HashOf[g]] = m) => first(m) \in S
  OBVIOUS
<1> HIDE DEF first
<1>6. /\ timers \in [Post -> Timer]
      /\ \A m \in Post : timers[m] # NoTimer =>
            timers[m].of \in Post /\ x.tries[timers[m].of] > 0
  BY <1>2, <1>4, <1>5, PeerPostAssumption DEF Sound, SoundBut, Timer
<1>7. \A a \in calls : a.post \in Post /\ x.tries[a.post] > 0
  BY <1>2, <1>4 DEF Sound, SoundBut
<1> HIDE DEF timers, calls, t
<1>8. t = [q |-> x, waiting |-> s.waiting, timer |-> timers, row |-> s.row,
           refused |-> s.refused, fate |-> s.fate, wire |-> calls]
  BY <1>1 DEF Sound, SoundBut
<1>9. \A m \in Post : s.fate[m] = "unposted" => x.tries[m] = 0
  BY <1>2, <1>3 DEF Sound, SoundBut
<1>10. Sound(t)
  BY <1>3, <1>6, <1>7, <1>8, <1>9 DEF Sound, SoundBut
<1> QED
  BY <1>3, <1>8, <1>10 DEF t

LEMMA PassedAreReady ==
    ASSUME NEW x, NEW S, NEW takers
    PROVE  /\ Passed(x, S, takers) \in SUBSET Queued(x)
           /\ Passed(x, S, takers) \subseteq S
           /\ \A m \in Passed(x, S, takers) : m \notin x.sending
BY DEF Passed, Ready

(* What a pump may do: end what is spent or refused, and send.             *)
Pumping(s, t) ==
    /\ t.refused = s.refused
    /\ \A m \in Post :
        \/ t.fate[m] = s.fate[m]
        \/ s.fate[m] = "open" /\ t.fate[m] = "gaveUp" /\ s.q.tries[m] > 0
        \/ s.fate[m] = "open" /\ t.fate[m] = "refused" /\ RelayOf[m] \in s.refused
    /\ \A m \in Post :
        \/ t.q.tries[m] = s.q.tries[m]
        \/ /\ t.q.tries[m] = s.q.tries[m] + 1
           /\ s.fate[m] = "open" /\ t.fate[m] = "open"
           /\ RelayOf[m] \notin s.refused
           /\ s.q.tries[m] > 0 => t.q.left[m] > 0

LEMMA PumpIsSound ==
    ASSUME NEW s, Sound(s)
    PROVE  Sound(Pumped(s)) /\ Pumping(s, Pumped(s))
<1> DEFINE spent == Expired(s.q)
           s1 == GivenUp(s, spent)
           held == {m \in Post : s1.waiting[HashOf[m]] # NoPost}
           back == Passed(s1.q, {m \in held : RelayOf[m] \in s1.refused}, {})
           s2 == TurnedBack(s1, back)
           able == {m \in Post : s2.waiting[HashOf[m]] # NoPost /\ RelayOf[m] \notin s2.refused}
           gone == Passed(s2.q, able, able)
           lost == Passed(s2.q, {m \in Post : s2.waiting[HashOf[m]] = NoPost}, gone)
           s3 == Forgotten(s2, lost)
           t == Sent(s3, gone)
<1>1. Pumped(s) = t
  BY Zenon DEF Pumped
<1>2. spent \in SUBSET Queued(s.q)
      /\ \A m \in Queued(s.q) : m \in s.q.sending \/ m \in spent \/ s.q.tries[m] = 0 \/ s.q.left[m] > 0
  BY DEF Expired, Queued, Sound, SoundBut, SoundQueue
<1>3. \A m \in spent : s.fate[m] = "open" /\ s.q.tries[m] > 0
  BY DEF Expired, Queued, Sound, SoundBut
<1> HIDE DEF spent
<1>4. /\ Sound(s1) /\ Remains(s, s1)
      /\ \A m \in Post : s1.fate[m] = IF m \in spent THEN "gaveUp" ELSE s.fate[m]
      /\ \A m \in spent : s1.q.seq[m] = 0
  <2>1. spent \in SUBSET Queued(s.q) /\ "gaveUp" \in Ending
    BY <1>2 DEF Ending
  <2> QED
    BY <2>1, OverIsSound DEF GivenUp
<1> HIDE DEF s1
<1>5. back \in SUBSET Queued(s1.q) /\ \A m \in back : RelayOf[m] \in s1.refused
  BY PassedAreReady
<1> HIDE DEF back
<1>6. /\ Sound(s2) /\ Remains(s1, s2)
      /\ \A m \in Post : s2.fate[m] = IF m \in back THEN "refused" ELSE s1.fate[m]
  <2>1. Sound(s1) /\ back \in SUBSET Queued(s1.q) /\ "refused" \in Ending
    BY <1>4, <1>5 DEF Ending
  <2> QED
    BY <2>1, OverIsSound DEF TurnedBack
<1>7. \A m \in back : s1.fate[m] = "open"
  BY <1>4, <1>5 DEF Queued, Sound, SoundBut
<1> HIDE DEF s2
<1>8. /\ gone \in SUBSET Queued(s2.q)
      /\ \A m \in gone : m \notin s2.q.sending /\ RelayOf[m] \notin s2.refused
  BY PassedAreReady
<1> HIDE DEF gone
<1>9. lost \in SUBSET Queued(s2.q) /\ \A m \in lost : s2.waiting[HashOf[m]] = NoPost
  BY PassedAreReady
<1> HIDE DEF lost
<1>10. /\ Sound(s3) /\ Remains(s2, s3) /\ s3.fate = s2.fate /\ s3.q.seq = s2.q.seq
  BY <1>6, <1>9, NothingIsForgotten
<1> HIDE DEF s3
<1>11. gone \in SUBSET Queued(s3.q)
  BY <1>8, <1>10 DEF Queued
<1>12. /\ Sound(t)
       /\ t.fate = s3.fate /\ t.refused = s3.refused /\ t.q.left = s3.q.left
       /\ t.q.tries =
            [m \in Post |-> IF m \in gone THEN s3.q.tries[m] + 1 ELSE s3.q.tries[m]]
  BY <1>10, <1>11, SentIsSound
<1> HIDE DEF t
<1>13. t.refused = s.refused /\ s3.q.tries = s.q.tries /\ s2.refused = s.refused
  BY <1>4, <1>6, <1>10, <1>12 DEF Remains
<1>14. \A m \in Post :
          \/ t.fate[m] = s.fate[m]
          \/ s.fate[m] = "open" /\ t.fate[m] = "gaveUp" /\ s.q.tries[m] > 0
          \/ s.fate[m] = "open" /\ t.fate[m] = "refused" /\ RelayOf[m] \in s.refused
  BY <1>3, <1>4, <1>5, <1>6, <1>7, <1>10, <1>12 DEF Remains
<1>15. ASSUME NEW m \in gone
       PROVE  /\ m \in Post /\ s.fate[m] = "open" /\ t.fate[m] = "open"
              /\ RelayOf[m] \notin s.refused
              /\ s.q.tries[m] > 0 => t.q.left[m] > 0
  <2>1. m \in Post /\ s3.q.seq[m] # 0
    BY <1>11 DEF Queued
  <2>2. /\ s2.q.seq[m] # 0 /\ s3.q.left[m] = s2.q.left[m]
        /\ m \notin s2.q.sending
    BY <2>1, <1>8, <1>10 DEF Remains
  <2>3. /\ s1.q.seq[m] # 0 /\ s2.q.left[m] = s1.q.left[m]
        /\ m \notin s1.q.sending
    BY <2>1, <2>2, <1>6 DEF Remains
  <2>4. /\ s.q.seq[m] # 0 /\ s1.q.left[m] = s.q.left[m]
        /\ m \notin s.q.sending /\ m \notin spent
    BY <2>1, <2>3, <1>4 DEF Remains
  <2>5. s.fate[m] = "open" /\ t.fate[m] = "open"
    BY <2>1, <2>4, <1>10, <1>12 DEF Sound, SoundBut
  <2>6. s.q.tries[m] > 0 => t.q.left[m] > 0
    <3>1. m \in Queued(s.q)
      BY <2>1, <2>4 DEF Queued
    <3>2. s.q.left[m] > 0 \/ s.q.tries[m] = 0
      BY <2>4, <3>1, <1>2
    <3>3. t.q.left[m] = s.q.left[m]
      BY <2>2, <2>3, <2>4, <1>12
    <3> QED
      BY <3>2, <3>3
  <2> QED
    BY <2>1, <2>5, <2>6, <1>8, <1>13
<1>16. \A m \in Post :
          \/ t.q.tries[m] = s.q.tries[m]
          \/ /\ t.q.tries[m] = s.q.tries[m] + 1
             /\ s.fate[m] = "open" /\ t.fate[m] = "open"
             /\ RelayOf[m] \notin s.refused
             /\ s.q.tries[m] > 0 => t.q.left[m] > 0
  BY <1>12, <1>13, <1>15
<1>17. Pumping(s, t)
  BY <1>13, <1>14, <1>16 DEF Pumping
<1> QED
  BY <1>1, <1>12, <1>17

-----------------------------------------------------------------------------
(* Attempts that end.                                                      *)

(* Timers that stop, calls that are over and refusals disturb nothing.     *)
LEMMA StoppingIsSound ==
    ASSUME NEW s, NEW H, SoundBut(s, H), NEW timers, NEW calls, NEW relays,
           timers \in [Post -> Timer],
           \A m \in Post : timers[m] \in {NoTimer, s.timer[m]},
           \A a \in calls : \E b \in s.wire : a.post = b.post
    PROVE  SoundBut([q |-> s.q, waiting |-> s.waiting, timer |-> timers, row |-> s.row,
                     refused |-> relays, fate |-> s.fate, wire |-> calls], H)
<1> DEFINE t == [q |-> s.q, waiting |-> s.waiting, timer |-> timers, row |-> s.row,
                 refused |-> relays, fate |-> s.fate, wire |-> calls]
<1>1. /\ t = [q |-> t.q, waiting |-> t.waiting, timer |-> t.timer, row |-> t.row,
              refused |-> t.refused, fate |-> t.fate, wire |-> t.wire]
      /\ t.q = s.q /\ t.waiting = s.waiting /\ t.row = s.row /\ t.timer = timers
      /\ t.fate = s.fate /\ t.wire = calls
  OBVIOUS
<1>2. \A m \in Post : timers[m] # NoTimer =>
          timers[m].of \in Post /\ s.q.tries[timers[m].of] > 0
  BY DEF SoundBut
<1>3. \A a \in calls : a.post \in Post /\ s.q.tries[a.post] > 0
  BY DEF SoundBut
<1> HIDE DEF t
<1>4. SoundBut(t, H)
  BY <1>1, <1>2, <1>3 DEF SoundBut
<1> QED
  BY <1>4 DEF t

(* A queue with the same entries serves as well.                           *)
LEMMA SameEntriesAreSound ==
    ASSUME NEW s, Sound(s), NEW x, SoundQueue(x),
           x.seq = s.q.seq, x.tries = s.q.tries
    PROVE  Sound([s EXCEPT !.q = x])
<1> DEFINE t == [s EXCEPT !.q = x]
<1>1. t = [q |-> x, waiting |-> s.waiting, timer |-> s.timer, row |-> s.row,
           refused |-> s.refused, fate |-> s.fate, wire |-> s.wire]
  BY DEF Sound, SoundBut
<1> HIDE DEF t
<1>2. Sound(t)
  BY <1>1 DEF Sound, SoundBut
<1> QED
  BY <1>2 DEF t

(* An attempt that ends leaves its message waiting, or ends it.            *)
LEMMA AttemptEndsSoundly ==
    ASSUME Apart, NEW s, Sound(s), NEW m \in Post, NEW kind, NEW wait
    PROVE  LET t == AfterAttempt(s, m, kind, wait)
           IN  /\ Sound(t)
               /\ t.refused = s.refused /\ t.q.tries = s.q.tries
               /\ \A n \in Post :
                    \/ t.fate[n] = s.fate[n]
                    \/ /\ n = m /\ s.fate[n] = "open"
                       /\ t.fate[n] = IF kind = "noAnswer" THEN "noAnswer" ELSE "refused"
<1> DEFINE h == HashOf[m]
           slot == s.waiting[h]
           timers == [n \in Post |-> IF n = slot THEN NoTimer ELSE s.timer[n]]
           how == IF kind = "noAnswer" THEN "noAnswer" ELSE "refused"
           s0 == [q |-> s.q, waiting |-> s.waiting, timer |-> timers, row |-> s.row,
                  refused |-> s.refused, fate |-> s.fate, wire |-> s.wire]
           t == AfterAttempt(s, m, kind, wait)
<1>1. timers \in [Post -> Timer] /\ \A n \in Post : timers[n] \in {NoTimer, s.timer[n]}
  BY DEF Sound, SoundBut, Timer, NoTimer
<1>2. \A a \in s.wire : \E b \in s.wire : a.post = b.post
  OBVIOUS
<1> HIDE DEF timers
<1>3. Sound(s0)
  BY <1>1, <1>2, StoppingIsSound DEF Sound
<1>6. /\ s0.q = s.q /\ s0.refused = s.refused /\ s0.fate = s.fate
      /\ \A x : [s EXCEPT !.timer = timers, !.q = x] = [s0 EXCEPT !.q = x]
  <2> DEFINE s1 == [s EXCEPT !.timer = timers]
  <2>1. s1 = s0
    BY DEF Sound, SoundBut
  <2>2. \A x : [s EXCEPT !.timer = timers, !.q = x] = [s1 EXCEPT !.q = x]
    OBVIOUS
  <2> QED
    BY <2>1, <2>2
<1> HIDE DEF s0
<1>4. CASE slot # NoPost /\ Retryable(kind) /\ MayRetry(s.q, m)
  <2> DEFINE x == IF kind = "busy" THEN Busied(s.q, m, wait) ELSE Silenced(s.q, m)
  <2>1. t = [s EXCEPT !.timer = timers, !.q = x]
    BY <1>4, Zenon DEF AfterAttempt, timers, slot, h
  <2>2. SoundQueue(s.q)
    BY DEF Sound, SoundBut
  <2>3. \A y \in {Busied(s.q, m, wait), Silenced(s.q, m), Reached(s.q, m)} :
            SoundQueue(y) /\ y.seq = s.q.seq /\ y.tries = s.q.tries
    BY <2>2, BackedOffIsSound
  <2>7. SoundQueue(x) /\ x.seq = s.q.seq /\ x.tries = s.q.tries
    BY <2>3
  <2> HIDE DEF x, t
  <2>4. Sound([s0 EXCEPT !.q = x])
    BY <1>3, <1>6, <2>7, SameEntriesAreSound
  <2>5. t = [s0 EXCEPT !.q = x]
    BY <1>6, <2>1
  <2>6. t.refused = s.refused /\ t.q.tries = s.q.tries /\ t.fate = s.fate
    BY <1>3, <1>6, <2>7, <2>5 DEF Sound, SoundBut
  <2> QED
    BY <2>4, <2>5, <2>6 DEF t
<1>5. CASE ~(slot # NoPost /\ Retryable(kind) /\ MayRetry(s.q, m))
  <2> DEFINE d == [s0 EXCEPT !.q = Done(@, {m})]
             e == [s EXCEPT !.timer = timers, !.q = Done(@, {m})]
  <2>1. t = Settled(e, {h}, how)
    BY <1>5, Zenon DEF AfterAttempt, timers, slot, h
  <2>2. d = e
    BY <1>6
  <2>3. Hashes({m}) = {h} /\ {m} \in SUBSET Post
    BY DEF Hashes
  <2>4. /\ SoundBut(d, {h}) /\ {h} \in SUBSET Hash
        /\ Remains(s0, d) /\ d.fate = s0.fate
    BY <1>3, <2>3, DroppedIsSoundBut
  <2> HIDE DEF d, e, t, how
  <2>5. how \in Ending
    BY DEF Ending, how
  <2>6. Sound(t) /\ Remains(d, t) /\ EndsIn(d, t, {h}, how)
    BY <2>1, <2>2, <2>4, <2>5, SettledIsSound
  <2>7. t.refused = s.refused /\ t.q.tries = s.q.tries
    BY <1>6, <2>4, <2>6 DEF Remains
  <2>8. \A n \in Post : HashOf[n] \in {h} => n = m
    BY DEF Apart
  <2>9. \A n \in Post :
          \/ t.fate[n] = s.fate[n]
          \/ n = m /\ s.fate[n] = "open" /\ t.fate[n] = how
    BY <1>6, <2>4, <2>6, <2>8 DEF EndsIn
  <2> QED
    BY <2>6, <2>7, <2>9 DEF t, how
<1> QED
  BY <1>4, <1>5

-----------------------------------------------------------------------------
(* The steps of the node.                                                  *)

Agree ==
    /\ Sound(Now)
    /\ road \in [Hash -> {"none", "asked", "answered"}]
    /\ \A h \in Hash : road[h] = "answered" => h \in replied

(* What a step may do to a message.                                        *)
Honest ==
    /\ \A m \in Post :
        \/ fate'[m] = fate[m]
        \/ fate[m] = "unposted" /\ fate'[m] \in {"open", "refused"}
        \/ fate[m] = "open" /\ fate'[m] = "answered" /\ HashOf[m] \in replied
        \/ fate[m] = "open" /\ fate'[m] \in {"noAnswer", "gaveUp"} /\ q.tries[m] > 0
        \/ fate[m] = "open" /\ fate'[m] = "refused"
    /\ \A m \in Post :
        \/ q'.tries[m] = q.tries[m]
        \/ /\ q'.tries[m] = q.tries[m] + 1
           /\ fate'[m] = "open"
           /\ RelayOf[m] \notin refused'
           /\ q.tries[m] > 0 => q'.left[m] > 0

LEMMA SoundNow ==
    ASSUME Sound(Now)
    PROVE  /\ SoundQueue(q)
           /\ fate \in [Post -> Fate]
           /\ waiting \in [Hash -> Post \cup {NoPost}]
           /\ row = waiting
           /\ \A h \in Hash : waiting[h] # NoPost =>
                HashOf[waiting[h]] = h /\ fate[waiting[h]] = "open"
           /\ \A m \in Post : fate[m] = "open" => waiting[HashOf[m]] = m
           /\ \A m \in Post : q.seq[m] # 0 <=> fate[m] = "open"
           /\ \A m \in Post : fate[m] = "unposted" => q.tries[m] = 0
           /\ timer \in [Post -> Timer]
           /\ \A m \in Post : timer[m] # NoTimer =>
                timer[m].of \in Post /\ q.tries[timer[m].of] > 0
           /\ \A a \in wire : a.post \in Post /\ q.tries[a.post] > 0
           /\ q.tries \in [Post -> Nat]
BY DEF Sound, SoundBut, Now, SoundQueue

(* The memory after a step is sound if its parts are.                      *)
LEMMA NextIsSound ==
    ASSUME SoundQueue(q'),
           fate' \in [Post -> Fate],
           waiting' \in [Hash -> Post \cup {NoPost}],
           row' = waiting',
           \A h \in Hash : waiting'[h] # NoPost =>
                HashOf[waiting'[h]] = h /\ fate'[waiting'[h]] = "open",
           \A m \in Post : fate'[m] = "open" => waiting'[HashOf[m]] = m,
           \A m \in Post : q'.seq[m] # 0 <=> fate'[m] = "open",
           \A m \in Post : fate'[m] = "unposted" => q'.tries[m] = 0,
           timer' \in [Post -> Timer],
           \A m \in Post : timer'[m] # NoTimer =>
                timer'[m].of \in Post /\ q'.tries[timer'[m].of] > 0,
           \A a \in wire' : a.post \in Post /\ q'.tries[a.post] > 0
    PROVE  Sound(Now)'
<1> DEFINE t == Now'
<1>1. /\ t = [q |-> t.q, waiting |-> t.waiting, timer |-> t.timer, row |-> t.row,
              refused |-> t.refused, fate |-> t.fate, wire |-> t.wire]
      /\ t.q = q' /\ t.waiting = waiting' /\ t.timer = timer' /\ t.row = row'
      /\ t.fate = fate' /\ t.wire = wire'
  BY DEF Now
<1> HIDE DEF t
<1>2. Sound(t)
  BY <1>1 DEF Sound, SoundBut
<1> QED
  BY <1>2 DEF t

LEMMA BecomesSound ==
    ASSUME NEW STATE s, Sound(s), Becomes(Pumped(s))
    PROVE  /\ Sound(Now)'
           /\ refused' = s.refused
           /\ \A m \in Post :
                \/ fate'[m] = s.fate[m]
                \/ s.fate[m] = "open" /\ fate'[m] = "gaveUp" /\ s.q.tries[m] > 0
                \/ s.fate[m] = "open" /\ fate'[m] = "refused" /\ RelayOf[m] \in s.refused
           /\ \A m \in Post :
                \/ q'.tries[m] = s.q.tries[m]
                \/ /\ q'.tries[m] = s.q.tries[m] + 1
                   /\ s.fate[m] = "open" /\ fate'[m] = "open"
                   /\ RelayOf[m] \notin s.refused
                   /\ s.q.tries[m] > 0 => q'.left[m] > 0
<1> DEFINE t == Pumped(s)
<1>1. Sound(t) /\ Pumping(s, t)
  BY PumpIsSound
<1>2. /\ q' = t.q /\ waiting' = t.waiting /\ timer' = t.timer /\ row' = t.row
      /\ refused' = t.refused /\ fate' = t.fate /\ wire' = t.wire
  BY DEF Becomes
<1> HIDE DEF t
<1>3. t = [q |-> t.q, waiting |-> t.waiting, timer |-> t.timer, row |-> t.row,
           refused |-> t.refused, fate |-> t.fate, wire |-> t.wire]
  BY <1>1 DEF Sound, SoundBut
<1>4. Now' = t
  BY <1>2, <1>3 DEF Now
<1>5. Sound(Now)'
  BY <1>1, <1>4
<1> QED
  BY <1>1, <1>2, <1>5 DEF Pumping

(* The memory of a node that is asked to post m, before the pump.          *)
Asked(m) == [Now EXCEPT !.q = Added(@, m, Patience[m]),
                        !.waiting[HashOf[m]] = m,
                        !.row[HashOf[m]] = m,
                        !.fate[m] = "open"]

LEMMA AskedIsSound ==
    ASSUME Apart, Agree, NEW m \in Post, fate[m] = "unposted"
    PROVE  /\ Sound(Asked(m))
           /\ Asked(m).q = Added(q, m, Patience[m])
           /\ Asked(m).fate = [fate EXCEPT ![m] = "open"]
           /\ Asked(m).timer = timer /\ Asked(m).refused = refused /\ Asked(m).wire = wire
           /\ q.tries[m] = 0 /\ \A n \in Post : Asked(m).q.tries[n] = q.tries[n]
<1> DEFINE x == Added(q, m, Patience[m])
           s == Asked(m)
<1>1. fate[m] = "unposted"
  OBVIOUS
<1>2. SoundQueue(q)
  BY SoundNow DEF Agree
<1>3. /\ SoundQueue(x)
      /\ x.seq[m] # 0 /\ x.tries[m] = 0
      /\ \A n \in Post \ {m} : x.seq[n] = q.seq[n] /\ x.tries[n] = q.tries[n]
  <2>1. Patience[m] \in Nat
    BY PeerPostAssumption
  <2> QED
    BY <1>2, <2>1, AddedIsSound
<1> HIDE DEF x
<1> DEFINE slots == [waiting EXCEPT ![HashOf[m]] = m]
           fates == [fate EXCEPT ![m] = "open"]
<1>4. s = [q |-> x, waiting |-> slots, timer |-> timer,
           row |-> [row EXCEPT ![HashOf[m]] = m],
           refused |-> refused, fate |-> fates, wire |-> wire]
  <2> DEFINE n1 == [Now EXCEPT !.q = Added(@, m, Patience[m])]
             n2 == [n1 EXCEPT !.waiting[HashOf[m]] = m]
             n3 == [n2 EXCEPT !.row[HashOf[m]] = m]
             n4 == [n3 EXCEPT !.fate[m] = "open"]
  <2>1. s = n4
    BY Zenon DEF Asked
  <2>2. n1 = [q |-> x, waiting |-> waiting, timer |-> timer, row |-> row,
              refused |-> refused, fate |-> fate, wire |-> wire]
    BY DEF Now, x
  <2> HIDE DEF n1
  <2>3. n2 = [q |-> x, waiting |-> slots, timer |-> timer, row |-> row,
              refused |-> refused, fate |-> fate, wire |-> wire]
    BY <2>2
  <2> HIDE DEF n2
  <2>4. n3 = [q |-> x, waiting |-> slots, timer |-> timer,
              row |-> [row EXCEPT ![HashOf[m]] = m],
              refused |-> refused, fate |-> fate, wire |-> wire]
    BY <2>3
  <2> HIDE DEF n3
  <2> QED
    BY <2>1, <2>4
<1>5. waiting[HashOf[m]] = NoPost
  <2>1. SUFFICES ASSUME waiting[HashOf[m]] # NoPost PROVE FALSE
    OBVIOUS
  <2>2. waiting[HashOf[m]] \in Post /\ HashOf[waiting[HashOf[m]]] = HashOf[m]
        /\ fate[waiting[HashOf[m]]] = "open"
    BY <2>1, SoundNow, PeerPostAssumption DEF Agree
  <2>3. waiting[HashOf[m]] = m
    BY <2>2 DEF Apart
  <2> QED
    BY <1>1, <2>2, <2>3
<1>6. /\ slots \in [Hash -> Post \cup {NoPost}] /\ [row EXCEPT ![HashOf[m]] = m] = slots
      /\ fates \in [Post -> Fate]
  BY SoundNow, PeerPostAssumption DEF Agree, Fate
<1>7. \A h \in Hash : slots[h] # NoPost => HashOf[slots[h]] = h /\ fates[slots[h]] = "open"
  BY SoundNow, PeerPostAssumption DEF Agree
<1>8. \A n \in Post : fates[n] = "open" => slots[HashOf[n]] = n
  BY SoundNow, PeerPostAssumption DEF Agree, Apart
<1>9. \A n \in Post : x.seq[n] # 0 <=> fates[n] = "open"
  BY <1>3, SoundNow DEF Agree
<1>10. \A n \in Post : fates[n] = "unposted" => x.tries[n] = 0
  BY <1>3, SoundNow DEF Agree
<1>11. q.tries[m] = 0
  BY <1>1, SoundNow DEF Agree
<1>12. \A n \in Post : x.tries[n] = q.tries[n]
  BY <1>3, <1>11
<1>13. timer \in [Post -> Timer]
       /\ \A n \in Post : timer[n] # NoTimer =>
            timer[n].of \in Post /\ x.tries[timer[n].of] > 0
  BY <1>12, SoundNow DEF Agree
<1>14. \A a \in wire : a.post \in Post /\ x.tries[a.post] > 0
  BY <1>12, SoundNow DEF Agree
<1> HIDE DEF s, slots, fates
<1>15. Sound(s)
  BY <1>3, <1>4, <1>6, <1>7, <1>8, <1>9, <1>10, <1>13, <1>14 DEF Sound, SoundBut
<1>16. /\ s.q = x /\ s.fate = fates /\ s.timer = timer
       /\ s.refused = refused /\ s.wire = wire
  BY <1>4
<1> QED
  BY <1>11, <1>12, <1>15, <1>16 DEF s, x, fates

LEMMA AskAgrees ==
    ASSUME Apart, Agree, NEW m \in Post, Ask(m)
    PROVE  Agree' /\ Honest
<1> DEFINE s == Asked(m)
<1>1. /\ fate[m] = "unposted" /\ Becomes(Pumped(s))
      /\ UNCHANGED <<road, replied>>
  BY DEF Ask, Asked
<1>2. /\ Sound(s) /\ s.fate = [fate EXCEPT ![m] = "open"] /\ s.refused = refused
      /\ q.tries[m] = 0 /\ \A n \in Post : s.q.tries[n] = q.tries[n]
  BY <1>1, AskedIsSound
<1> HIDE DEF s
<1>3. Agree'
  BY <1>1, <1>2, BecomesSound DEF Agree
<1>4. ASSUME NEW n \in Post
      PROVE  \/ fate'[n] = fate[n]
             \/ fate[n] = "unposted" /\ fate'[n] \in {"open", "refused"}
             \/ fate[n] = "open" /\ fate'[n] \in {"noAnswer", "gaveUp"} /\ q.tries[n] > 0
             \/ fate[n] = "open" /\ fate'[n] = "refused"
  <2>1. s.fate[n] = IF n = m THEN "open" ELSE fate[n]
    BY <1>2, SoundNow DEF Agree
  <2>2. \/ fate'[n] = s.fate[n]
        \/ s.fate[n] = "open" /\ fate'[n] = "gaveUp" /\ s.q.tries[n] > 0
        \/ s.fate[n] = "open" /\ fate'[n] = "refused" /\ RelayOf[n] \in s.refused
    BY <1>1, <1>2, BecomesSound
  <2>3. CASE n = m
    <3>1. ~(s.q.tries[n] > 0)
      BY <1>2, <2>3
    <3> QED
      BY <1>1, <2>1, <2>2, <2>3, <3>1
  <2> QED
    BY <1>2, <2>1, <2>2, <2>3
<1>5. ASSUME NEW n \in Post
      PROVE  \/ q'.tries[n] = q.tries[n]
             \/ /\ q'.tries[n] = q.tries[n] + 1
                /\ fate'[n] = "open"
                /\ RelayOf[n] \notin refused'
                /\ q.tries[n] > 0 => q'.left[n] > 0
  BY <1>1, <1>2, BecomesSound
<1> QED
  BY <1>3, <1>4, <1>5 DEF Honest

(* A call or a timer ends an attempt, and the queue is pumped.             *)
LEMMA EndOfAttemptAgrees ==
    ASSUME Apart, Agree, NEW m \in Post, q.tries[m] > 0, NEW kind, NEW wait,
           NEW timers \in [Post -> Timer], NEW calls, NEW relays,
           \A n \in Post : timers[n] \in {NoTimer, timer[n]},
           \A a \in calls : \E b \in wire : a.post = b.post,
           Becomes(Pumped(AfterAttempt(
                [q |-> q, waiting |-> waiting, timer |-> timers, row |-> row,
                 refused |-> relays, fate |-> fate, wire |-> calls], m, kind, wait))),
           UNCHANGED outside
    PROVE  Agree' /\ Honest
<1> DEFINE s0 == [q |-> q, waiting |-> waiting, timer |-> timers, row |-> row,
                  refused |-> relays, fate |-> fate, wire |-> calls]
           s == AfterAttempt(s0, m, kind, wait)
<1>1. Sound(s0)
  <2>1. /\ Sound(Now)
        /\ Now.q = q /\ Now.waiting = waiting /\ Now.timer = timer /\ Now.row = row
        /\ Now.fate = fate /\ Now.wire = wire
    BY DEF Agree, Now
  <2> QED
    BY <2>1, StoppingIsSound DEF Sound
<1>2. s0.q = q /\ s0.fate = fate /\ s0.refused = relays
  OBVIOUS
<1> HIDE DEF s0
<1>3. /\ Sound(s)
      /\ s.refused = relays /\ s.q.tries = q.tries
      /\ \A n \in Post :
           \/ s.fate[n] = fate[n]
           \/ /\ n = m /\ fate[n] = "open"
              /\ s.fate[n] = IF kind = "noAnswer" THEN "noAnswer" ELSE "refused"
  BY <1>1, <1>2, AttemptEndsSoundly
<1>4. Becomes(Pumped(s))
  BY DEF s0
<1> HIDE DEF s
<1>5. Agree'
  BY <1>3, <1>4, BecomesSound DEF Agree, outside
<1>6. \A n \in Post :
          \/ fate'[n] = fate[n]
          \/ fate[n] = "open" /\ fate'[n] \in {"noAnswer", "gaveUp"} /\ q.tries[n] > 0
          \/ fate[n] = "open" /\ fate'[n] = "refused"
  BY <1>3, <1>4, BecomesSound
<1>7. \A n \in Post :
          \/ q'.tries[n] = q.tries[n]
          \/ /\ q'.tries[n] = q.tries[n] + 1
             /\ fate'[n] = "open"
             /\ RelayOf[n] \notin refused'
             /\ q.tries[n] > 0 => q'.left[n] > 0
  BY <1>3, <1>4, BecomesSound
<1> QED
  BY <1>5, <1>6, <1>7 DEF Honest

(* The calls of an attempt that the node gave up.                          *)
GivenUpCalls(m) == {IF a.post = m THEN [a EXCEPT !.live = FALSE] ELSE a : a \in wire}

LEMMA TimerEndsAttempt ==
    ASSUME NEW slot \in Post, TimerFires(slot)
    PROVE  /\ timer[slot] # NoTimer
           /\ UNCHANGED outside
           /\ Becomes(Pumped(AfterAttempt(
                [q |-> q, waiting |-> waiting, timer |-> [timer EXCEPT ![slot] = NoTimer],
                 row |-> row, refused |-> refused, fate |-> fate,
                 wire |-> GivenUpCalls(timer[slot].of)], timer[slot].of, "noAnswer", 0)))
<1> DEFINE m == timer[slot].of
           timers == [timer EXCEPT ![slot] = NoTimer]
           calls == {IF a.post = m THEN [a EXCEPT !.live = FALSE] ELSE a : a \in wire}
           s0 == [q |-> q, waiting |-> waiting, timer |-> timers, row |-> row,
                  refused |-> refused, fate |-> fate, wire |-> calls]
<1>1. [Now EXCEPT !.timer[slot] = NoTimer,
                  !.wire = {IF a.post = m THEN [a EXCEPT !.live = FALSE] ELSE a : a \in @}] = s0
  <2> DEFINE n1 == [Now EXCEPT !.timer[slot] = NoTimer]
  <2>1. n1 = [q |-> q, waiting |-> waiting, timer |-> timers, row |-> row,
              refused |-> refused, fate |-> fate, wire |-> wire]
    BY DEF Now
  <2> HIDE DEF n1, timers
  <2>2. [n1 EXCEPT !.wire = {IF a.post = m THEN [a EXCEPT !.live = FALSE] ELSE a : a \in @}]
          = [n1 EXCEPT !.wire = calls]
    BY <2>1
  <2> HIDE DEF calls
  <2>3. [n1 EXCEPT !.wire = calls] = s0
    BY <2>1
  <2> QED
    BY <2>2, <2>3, Zenon DEF n1
<1>2. Becomes(Pumped(AfterAttempt(s0, m, "noAnswer", 0)))
  BY <1>1 DEF TimerFires
<1>3. calls = GivenUpCalls(timer[slot].of)
  BY Zenon DEF GivenUpCalls
<1>4. timer[slot] # NoTimer /\ UNCHANGED outside
  BY DEF TimerFires
<1> HIDE DEF calls
<1> QED
  BY <1>2, <1>3, <1>4, Zenon

LEMMA TimerAgrees ==
    ASSUME Apart, Agree, NEW slot \in Post, TimerFires(slot)
    PROVE  Agree' /\ Honest
<1> DEFINE m == timer[slot].of
           timers == [timer EXCEPT ![slot] = NoTimer]
           calls == GivenUpCalls(m)
           s0 == [q |-> q, waiting |-> waiting, timer |-> timers, row |-> row,
                  refused |-> refused, fate |-> fate, wire |-> calls]
<1>1. timer \in [Post -> Timer] /\ m \in Post /\ q.tries[m] > 0
  BY SoundNow DEF Agree, TimerFires
<1>2. timers \in [Post -> Timer] /\ \A n \in Post : timers[n] \in {NoTimer, timer[n]}
  BY <1>1 DEF Timer, NoTimer
<1>3. \A a \in calls : \E b \in wire : a.post = b.post
  <2>1. \A b \in wire : b.post = [b EXCEPT !.live = FALSE].post
    OBVIOUS
  <2> QED
    BY <2>1 DEF GivenUpCalls
<1>4. Becomes(Pumped(AfterAttempt(s0, m, "noAnswer", 0))) /\ UNCHANGED outside
  BY TimerEndsAttempt, Zenon
<1> HIDE DEF m, timers, calls
<1> QED
  BY <1>1, <1>2, <1>3, <1>4, EndOfAttemptAgrees

(* The relays that refuse this node once one answered so to m.             *)
RefusingAfter(m, kind) ==
    IF kind = "notASender" THEN refused \cup {RelayOf[m]} ELSE refused

LEMMA RefusalEndsAttempt ==
    ASSUME NEW a \in wire, NEW kind, Refusal(a, kind)
    PROVE  /\ UNCHANGED outside
           /\ \E wait \in RetryAfter \cup {0} : Becomes(Pumped(AfterAttempt(
                [q |-> q, waiting |-> waiting, timer |-> timer, row |-> row,
                 refused |-> RefusingAfter(a.post, kind), fate |-> fate, wire |-> wire \ {a}],
                a.post, kind, wait)))
<1> DEFINE calls == wire \ {a}
           relays == RefusingAfter(a.post, kind)
           m == a.post
           s0 == [q |-> q, waiting |-> waiting, timer |-> timer, row |-> row,
                  refused |-> relays, fate |-> fate, wire |-> calls]
<1>1. [Now EXCEPT !.wire = @ \ {a},
                  !.refused = IF kind = "notASender" THEN @ \cup {RelayOf[a.post]} ELSE @] = s0
  <2> DEFINE n1 == [Now EXCEPT !.wire = @ \ {a}]
  <2>1. n1 = [q |-> q, waiting |-> waiting, timer |-> timer, row |-> row,
              refused |-> refused, fate |-> fate, wire |-> calls]
    BY DEF Now
  <2> HIDE DEF n1, calls
  <2>2. [n1 EXCEPT !.refused = IF kind = "notASender" THEN @ \cup {RelayOf[a.post]} ELSE @]
          = [n1 EXCEPT !.refused = relays]
    BY <2>1 DEF RefusingAfter
  <2> HIDE DEF relays
  <2>3. [n1 EXCEPT !.refused = relays] = s0
    BY <2>1
  <2> QED
    BY <2>2, <2>3, Zenon DEF n1
<1>2. PICK wait \in RetryAfter \cup {0} : Becomes(Pumped(AfterAttempt(s0, m, kind, wait)))
  BY <1>1 DEF Refusal
<1>3. UNCHANGED outside
  BY DEF Refusal
<1> HIDE DEF calls, relays, m
<1> QED
  BY <1>2, <1>3, Zenon DEF calls, relays, m

LEMMA RefusalAgrees ==
    ASSUME Apart, Agree, NEW a \in wire, NEW kind, Refusal(a, kind)
    PROVE  Agree' /\ Honest
<1> DEFINE calls == wire \ {a}
           relays == RefusingAfter(a.post, kind)
           m == a.post
           s0 == [q |-> q, waiting |-> waiting, timer |-> timer, row |-> row,
                  refused |-> relays, fate |-> fate, wire |-> calls]
<1>1. m \in Post /\ q.tries[m] > 0 /\ timer \in [Post -> Timer]
  BY SoundNow DEF Agree
<1>2. PICK wait : Becomes(Pumped(AfterAttempt(s0, m, kind, wait)))
  BY RefusalEndsAttempt, Zenon
<1>3. UNCHANGED outside
  BY DEF Refusal
<1>4. \A b \in calls : \E c \in wire : b.post = c.post
  OBVIOUS
<1>5. \A n \in Post : timer[n] \in {NoTimer, timer[n]}
  OBVIOUS
<1> HIDE DEF calls, relays, m
<1> QED
  BY <1>1, <1>2, <1>3, <1>4, <1>5, EndOfAttemptAgrees

LEMMA AcceptanceAgrees ==
    ASSUME Agree, NEW a \in wire, CallAccepted(a)
    PROVE  Agree' /\ Honest
<1> DEFINE slot == waiting[HashOf[a.post]]
<1>1. /\ wire' \subseteq wire
      /\ UNCHANGED <<q, waiting, row, refused, fate, road, replied>>
      /\ \/ timer' = timer
         \/ \E g \in Grants :
              slot # NoPost /\ timer' = [timer EXCEPT ![slot] = [of |-> a.post, left |-> g]]
  BY DEF CallAccepted, outside
<1>2. a.post \in Post /\ q.tries[a.post] > 0 /\ slot \in Post \cup {NoPost}
  BY SoundNow, PeerPostAssumption DEF Agree
<1>3. timer' \in [Post -> Timer] /\ \A m \in Post : timer'[m] # NoTimer =>
          timer'[m].of \in Post /\ q.tries[timer'[m].of] > 0
  <2>1. CASE timer' = timer
    BY <2>1, SoundNow DEF Agree
  <2>2. ASSUME NEW g \in Grants,
               slot # NoPost, timer' = [timer EXCEPT ![slot] = [of |-> a.post, left |-> g]]
        PROVE  timer' \in [Post -> Timer] /\ \A m \in Post : timer'[m] # NoTimer =>
                  timer'[m].of \in Post /\ q.tries[timer'[m].of] > 0
    <3> DEFINE u == [of |-> a.post, left |-> g]
    <3>1. u \in Timer /\ u.of = a.post
      BY <1>2, PeerPostAssumption DEF Timer
    <3> HIDE DEF u
    <3>2. timer' = [timer EXCEPT ![slot] = u]
      BY <2>2 DEF u
    <3> HIDE DEF slot
    <3>3. timer \in [Post -> Timer]
      BY SoundNow DEF Agree
    <3>4. \A m \in Post : timer'[m] = u \/ timer'[m] = timer[m]
      BY <3>2, <3>3
    <3>5. timer' \in [Post -> Timer]
      BY <3>1, <3>2, <3>3
    <3>6. ASSUME NEW m \in Post, timer'[m] # NoTimer
          PROVE  timer'[m].of \in Post /\ q.tries[timer'[m].of] > 0
      <4>1. CASE timer'[m] = u
        BY <3>1, <4>1, <1>2
      <4>2. CASE timer'[m] = timer[m]
        BY <3>6, <4>2, SoundNow DEF Agree
      <4> QED
        BY <3>4, <4>1, <4>2
    <3> QED
      BY <3>5, <3>6
  <2> QED
    BY <1>1, <2>1, <2>2
<1>4. Sound(Now)'
  BY <1>1, <1>3, SoundNow, NextIsSound DEF Agree
<1> QED
  BY <1>1, <1>4 DEF Agree, Honest

LEMMA WakeUpAgrees ==
    ASSUME Agree, WakeUp
    PROVE  Agree' /\ Honest
<1>1. Sound(Now) /\ Becomes(Pumped(Now)) /\ UNCHANGED <<road, replied>>
  BY DEF Agree, WakeUp, outside
<1>2. Now.q = q /\ Now.fate = fate /\ Now.refused = refused
  BY DEF Now
<1>3. Agree'
  BY <1>1, BecomesSound DEF Agree
<1>4. Honest
  BY <1>1, <1>2, BecomesSound DEF Honest
<1> QED
  BY <1>3, <1>4

(* What relays, targets and the owner do, the memory does not see.         *)
LEMMA OthersAgree ==
    ASSUME Agree,
           \/ \E m \in Post : Admit(m) \/ Unsealed(m)
           \/ \E a \in wire : RelayTakes(a)
           \/ \E h \in Hash : TargetReplies(h) \/ RouteEnds(h)
           \/ \E r \in Relay : Reseated(r)
    PROVE  Agree' /\ Honest /\ replied \subseteq replied'
<1>1. /\ UNCHANGED <<q, waiting, timer, row, fate>>
      /\ \A a \in wire' : \E b \in wire : a.post = b.post
  <2>1. CASE \E a \in wire : RelayTakes(a)
    <3>1. PICK a \in wire : RelayTakes(a)
      BY <2>1
    <3>2. wire' = (wire \ {a}) \cup {[a EXCEPT !.taken = TRUE]}
          /\ UNCHANGED <<q, waiting, timer, row, fate>>
      BY <3>1 DEF RelayTakes, memory
    <3>3. [a EXCEPT !.taken = TRUE].post = a.post
      OBVIOUS
    <3> QED
      BY <3>2, <3>3
  <2>2. CASE \/ \E m \in Post : Admit(m) \/ Unsealed(m)
             \/ \E h \in Hash : TargetReplies(h) \/ RouteEnds(h)
             \/ \E r \in Relay : Reseated(r)
    BY <2>2 DEF Admit, Unsealed, TargetReplies, RouteEnds, Reseated, memory
  <2> QED
    BY <2>1, <2>2
<1>2. Sound(Now)'
  BY <1>1, SoundNow, NextIsSound DEF Agree
<1>3. /\ road' \in [Hash -> {"none", "asked", "answered"}]
      /\ \A h \in Hash : road'[h] = "answered" => h \in replied'
      /\ replied \subseteq replied'
  BY DEF Agree, Admit, Unsealed, RelayTakes, TargetReplies, RouteEnds, Reseated, outside
<1>4. Honest
  BY <1>1 DEF Honest
<1> QED
  BY <1>2, <1>3, <1>4 DEF Agree

(* How an answer that is taken changes the queue, before it is settled.    *)
Heard(h) == IF road[h] = "answered" THEN Reached(q, PairOf(waiting[h])) ELSE q

Told(h) == IF road[h] = "answered" THEN "answered" ELSE "refused"

LEMMA ReplySettles ==
    ASSUME Agree, NEW h \in Hash, Reply(h), waiting[h] # NoPost
    PROVE  LET kept == [Now EXCEPT !.q = Heard(h)]
           IN  /\ Becomes(Pumped(Settled(kept, {h}, Told(h))))
               /\ Sound(kept)
               /\ kept.q = Heard(h) /\ kept.fate = fate /\ kept.refused = refused
               /\ kept.timer = timer /\ kept.wire = wire
               /\ kept.q.tries = q.tries /\ kept.q.seq = q.seq
<1> DEFINE slot == waiting[h]
           x == IF road[h] = "answered" THEN Reached(q, PairOf(slot)) ELSE q
           how == IF road[h] = "answered" THEN "answered" ELSE "refused"
           kept == [Now EXCEPT !.q = IF road[h] = "answered" THEN Reached(@, PairOf(slot)) ELSE @]
           s == Settled(kept, {h}, how)
<1>1. Becomes(Pumped(s))
  BY Zenon DEF Reply
<1>2. slot \in Post /\ SoundQueue(q)
  BY SoundNow DEF Agree
<1>3. SoundQueue(x) /\ x.seq = q.seq /\ x.tries = q.tries
  BY <1>2, BackedOffIsSound DEF Reached
<1>4. kept = [Now EXCEPT !.q = x] /\ Sound(Now) /\ Now.q = q
  BY DEF Now, Agree
<1> HIDE DEF x
<1>5. /\ Sound(kept) /\ kept.q = x /\ kept.fate = fate /\ kept.refused = refused
      /\ kept.timer = timer /\ kept.wire = wire
  BY <1>3, <1>4, SameEntriesAreSound DEF Now
<1>6. x = Heard(h) /\ how = Told(h)
  BY DEF x, Heard, Told
<1> HIDE DEF kept, how
<1> QED
  BY <1>1, <1>3, <1>4, <1>5, <1>6, Zenon DEF s

LEMMA ReplyAgrees ==
    ASSUME Apart, Agree, NEW h \in Hash, Reply(h)
    PROVE  Agree' /\ Honest
<1>1. /\ road' = [road EXCEPT ![h] = "none"] /\ replied' = replied
      /\ road' \in [Hash -> {"none", "asked", "answered"}]
      /\ \A k \in Hash : road'[k] = "answered" => k \in replied'
  BY DEF Agree, Reply
<1>2. CASE waiting[h] = NoPost
  <2>1. UNCHANGED <<q, waiting, timer, row, refused, fate, wire>>
    BY <1>2 DEF Reply, memory
  <2>2. Sound(Now)'
    BY <2>1, SoundNow, NextIsSound DEF Agree
  <2> QED
    BY <1>1, <2>1, <2>2 DEF Agree, Honest
<1>3. CASE waiting[h] # NoPost
  <2> DEFINE how == Told(h)
             kept == [Now EXCEPT !.q = Heard(h)]
             s == Settled(kept, {h}, how)
  <2>1. /\ Becomes(Pumped(s)) /\ Sound(kept)
        /\ kept.q.tries = q.tries /\ kept.fate = fate /\ kept.refused = refused
    BY <1>3, ReplySettles, Zenon
  <2> HIDE DEF kept
  <2>2. SoundBut(kept, {h})
    BY <2>1 DEF Sound, SoundBut
  <2>3. how \in Ending /\ {h} \in SUBSET Hash
    BY DEF Ending, Told
  <2>4. how \in {"answered", "refused"} /\ (how = "answered" => h \in replied)
    BY DEF Told, Agree
  <2> HIDE DEF how
  <2>5. Sound(s) /\ Remains(kept, s) /\ EndsIn(kept, s, {h}, how)
    BY <2>2, <2>3, SettledIsSound
  <2> HIDE DEF s
  <2>6. s.q.tries = q.tries /\ s.refused = refused
        /\ \A m \in Post : s.fate[m] = IF fate[m] = "open" /\ HashOf[m] = h
                                       THEN how ELSE fate[m]
    BY <2>1, <2>5 DEF Remains, EndsIn
  <2>7. Agree'
    BY <1>1, <2>1, <2>5, BecomesSound DEF Agree
  <2>8. \A m \in Post :
            \/ fate'[m] = fate[m]
            \/ fate[m] = "open" /\ fate'[m] = "answered" /\ HashOf[m] \in replied
            \/ fate[m] = "open" /\ fate'[m] = "gaveUp" /\ q.tries[m] > 0
            \/ fate[m] = "open" /\ fate'[m] = "refused"
    BY <2>1, <2>4, <2>5, <2>6, BecomesSound
  <2>9. \A m \in Post :
            \/ q'.tries[m] = q.tries[m]
            \/ /\ q'.tries[m] = q.tries[m] + 1
               /\ fate'[m] = "open"
               /\ RelayOf[m] \notin refused'
               /\ q.tries[m] > 0 => q'.left[m] > 0
    BY <2>1, <2>5, <2>6, BecomesSound
  <2> QED
    BY <2>7, <2>8, <2>9 DEF Honest
<1> QED
  BY <1>2, <1>3

-----------------------------------------------------------------------------
(* Time and the process.                                                   *)

LEMMA AgedParts ==
    ASSUME NEW x, SoundQueue(x), NEW d \in Nat
    PROVE  /\ SoundQueue(Aged(x, d))
           /\ Aged(x, d).seq = x.seq /\ Aged(x, d).tries = x.tries
           /\ Aged(x, d).off = LaterOff(x, d)
           /\ Aged(x, d).sending = x.sending /\ Aged(x, d).inFlight = x.inFlight
           /\ Aged(x, d).last = x.last /\ Aged(x, d).step = x.step
<1> DEFINE y == Aged(x, d)
           lefts == [m \in Post |-> Later(x.left[m], d)]
           offs == [p \in Pair |-> Later(x.off[p], d)]
<1>1. y = [x EXCEPT !.left = lefts, !.off = offs]
  BY Zenon DEF Aged
<1>2. lefts \in [Post -> Nat]
  BY DEF SoundQueue, Later
<1> HIDE DEF offs, y
<1>3. y = [seq |-> x.seq, sending |-> x.sending, tries |-> x.tries, left |-> lefts,
           inFlight |-> x.inFlight, off |-> offs, last |-> x.last, step |-> x.step]
  BY <1>1 DEF SoundQueue
<1> HIDE DEF lefts
<1>4. /\ SoundQueue(y) /\ y.seq = x.seq /\ y.tries = x.tries /\ y.off = offs
      /\ y.sending = x.sending /\ y.inFlight = x.inFlight
      /\ y.last = x.last /\ y.step = x.step
  BY <1>2, <1>3 DEF SoundQueue
<1> QED
  BY <1>4 DEF y, offs, LaterOff

LEMMA AgedIsSound ==
    ASSUME NEW x, SoundQueue(x), NEW d \in Nat
    PROVE  /\ SoundQueue(Aged(x, d))
           /\ Aged(x, d).seq = x.seq /\ Aged(x, d).tries = x.tries
BY AgedParts

LEMMA TickAgrees ==
    ASSUME Agree, Tick
    PROVE  Agree' /\ Honest
<1>1. /\ q' = Aged(q, 1) /\ timer' = [m \in Post |-> AgedTimer(timer[m])]
      /\ UNCHANGED <<waiting, row, refused, fate, wire, road, replied>>
  BY DEF Tick
<1>2. SoundQueue(q') /\ q'.seq = q.seq /\ q'.tries = q.tries
  BY <1>1, SoundNow, AgedIsSound DEF Agree
<1>3. \A u \in Timer : AgedTimer(u) \in Timer /\ AgedTimer(u).of = u.of
  BY DEF AgedTimer, Timer, Later, NoTimer
<1>4. \A m \in Post : timer[m] \in Timer /\ timer'[m] = AgedTimer(timer[m])
                      /\ (timer[m] = NoTimer => timer'[m] = NoTimer)
  BY <1>1, SoundNow DEF Agree, AgedTimer
<1>5. timer' \in [Post -> Timer]
      /\ \A m \in Post : timer'[m] # NoTimer =>
            timer'[m].of \in Post /\ q'.tries[timer'[m].of] > 0
  BY <1>1, <1>2, <1>3, <1>4, SoundNow DEF Agree
<1>6. Sound(Now)'
  BY <1>1, <1>2, <1>5, SoundNow, NextIsSound DEF Agree
<1> QED
  BY <1>1, <1>2, <1>6 DEF Agree, Honest

(* What comes back is what the rows hold.                                  *)
LEMMA RestoredParts ==
    ASSUME NEW x, SoundQueue(x), NEW S
    PROVE  /\ SoundQueue(Restored(x, S))
           /\ Restored(x, S).seq = Without(x.seq, Post \ S)
           /\ Restored(x, S).tries = x.tries
           /\ Restored(x, S).sending = Done(x, Post).sending
           /\ Restored(x, S).inFlight = Done(x, Post).inFlight
           /\ Restored(x, S).off = x.off
           /\ Restored(x, S).last = KeptLast(x) /\ Restored(x, S).step = EmptyQueue.step
<1> DEFINE y == Restored(x, S)
           z == Done(x, Post)
           seqs == [m \in Post |-> IF m \in S THEN x.seq[m] ELSE 0]
           lefts == [m \in Post |-> IF m \in S THEN x.left[m] ELSE 0]
           lasts == [p \in Pair |-> IF x.off[p] = 0 THEN 0 ELSE z.last[p]]
           steps == [p \in Pair |-> 0]
<1>1. y = [z EXCEPT !.seq = seqs, !.left = lefts, !.last = lasts, !.step = steps]
  BY Zenon DEF Restored
<1>2. SoundQueue(z) /\ z.tries = x.tries /\ z.off = x.off /\ z.last = x.last
  BY DoneParts
<1>3. {seqs, lefts} \subseteq [Post -> Nat]
  BY DEF SoundQueue
<1>4. PICK bound \in Nat : \A m \in Post : x.seq[m] <= bound
  BY DEF SoundQueue
<1>5. \A m \in Post : seqs[m] <= bound
  BY <1>4
<1> HIDE DEF y, z, lasts, steps
<1>6. y = [seq |-> seqs, sending |-> z.sending, tries |-> z.tries, left |-> lefts,
           inFlight |-> z.inFlight, off |-> z.off, last |-> lasts, step |-> steps]
  <2> HIDE DEF seqs, lefts
  <2> QED
    BY <1>1, <1>2 DEF SoundQueue
<1> HIDE DEF seqs, lefts
<1>7. SoundQueue(y) /\ y.seq = seqs /\ y.tries = x.tries
  BY <1>2, <1>3, <1>5, <1>6 DEF SoundQueue
<1>8. /\ y.sending = z.sending /\ y.inFlight = z.inFlight /\ y.off = x.off
      /\ y.last = lasts /\ y.step = steps
  BY <1>2, <1>6
<1>9. lasts = [p \in Pair |-> IF x.off[p] = 0 THEN 0 ELSE x.last[p]]
  BY <1>2 DEF lasts
<1>10. seqs = Without(x.seq, Post \ S) /\ steps = EmptyQueue.step
  BY DEF seqs, steps, Without, EmptyQueue
<1> QED
  BY <1>7, <1>8, <1>9, <1>10 DEF y, z, KeptLast

LEMMA RestoredIsSound ==
    ASSUME NEW x, SoundQueue(x), NEW S
    PROVE  /\ SoundQueue(Restored(x, S))
           /\ Restored(x, S).seq = [m \in Post |-> IF m \in S THEN x.seq[m] ELSE 0]
           /\ Restored(x, S).tries = x.tries
<1>1. /\ SoundQueue(Restored(x, S))
      /\ Restored(x, S).seq = Without(x.seq, Post \ S)
      /\ Restored(x, S).tries = x.tries
  BY RestoredParts, ZenonT(30)
<1> QED
  BY <1>1 DEF Without

LEMMA CrashAgrees ==
    ASSUME Agree, Crash
    PROVE  Agree' /\ Honest
<1> DEFINE kept == {row[h] : h \in Hash} \ {NoPost}
<1>1. PICK down \in DownTimes : q' = Restored(Aged(q, down), kept)
  BY DEF Crash
<1>2. /\ waiting' = row /\ timer' = [m \in Post |-> NoTimer] /\ wire' = {}
      /\ UNCHANGED <<row, fate, replied>>
  BY DEF Crash
<1>3. down \in Nat
  BY PeerPostAssumption
<1>4. SoundQueue(Aged(q, down)) /\ Aged(q, down).seq = q.seq /\ Aged(q, down).tries = q.tries
  BY <1>3, SoundNow, AgedIsSound DEF Agree
<1>5. \A m \in Post : m \in kept <=> fate[m] = "open"
  BY SoundNow, PeerPostAssumption DEF Agree
<1> HIDE DEF kept
<1>6. /\ SoundQueue(q') /\ q'.tries = q.tries
      /\ q'.seq = [m \in Post |-> IF m \in kept THEN q.seq[m] ELSE 0]
  BY <1>1, <1>4, RestoredIsSound
<1>7. \A m \in Post : q'.seq[m] # 0 <=> fate[m] = "open"
  BY <1>5, <1>6, SoundNow DEF Agree
<1>8. timer' \in [Post -> Timer] /\ \A m \in Post : timer'[m] = NoTimer
  BY <1>2 DEF Timer, NoTimer
<1>9. Sound(Now)'
  BY <1>2, <1>6, <1>7, <1>8, SoundNow, NextIsSound DEF Agree
<1>10. /\ road' \in [Hash -> {"none", "asked", "answered"}]
       /\ \A h \in Hash : road'[h] = "answered" => h \in replied'
  <2>1. PICK late : road' = [h \in Hash |-> IF h \in late /\ road[h] = "none"
                                            THEN "asked" ELSE road[h]]
    BY DEF Crash
  <2> QED
    BY <1>2, <2>1 DEF Agree
<1> QED
  BY <1>2, <1>6, <1>9, <1>10 DEF Agree, Honest

-----------------------------------------------------------------------------
(* The order of the queue.                                                 *)

LEMMA LeastIsLeast ==
    ASSUME NEW S \in SUBSET Nat, S # {}
    PROVE  Min(S) \in S /\ \A n \in S : Min(S) <= n
<1>1. PICK n \in S : \A k \in S : ~(<<k, n>> \in OpToRel(<, Nat))
  BY NatLessThanWellFounded, WFMin, Zenon
<1>2. \A k \in S : n \in Nat /\ k \in Nat => ~(k < n)
  BY <1>1, Zenon DEF OpToRel
<1>3. \A k \in S : n <= k
  BY <1>2
<1> QED
  BY <1>3 DEF Min

(* Nobody stands before the first.                                         *)
LEMMA SomebodyIsFirst ==
    ASSUME NEW x, SoundQueue(x), NEW G \in SUBSET Post, G # {}
    PROVE  \E a \in G : \A b \in G : ~Before(x, b, a)
<1> DEFINE K == IF G \subseteq Background THEN G ELSE G \ Background
           N == {x.seq[m] : m \in K}
<1>1. K # {} /\ K \subseteq G
  OBVIOUS
<1>2. \A m \in Post : x.seq[m] \in Nat
  BY DEF SoundQueue
<1>3. N \in SUBSET Nat /\ N # {}
  BY <1>1, <1>2
<1>4. Min(N) \in N /\ \A n \in N : Min(N) <= n
  BY <1>3, LeastIsLeast
<1>5. PICK a \in K : x.seq[a] = Min(N)
  BY <1>4
<1>6. \A b \in K : x.seq[a] <= x.seq[b]
  BY <1>4, <1>5
<1>7. \A b \in G : ~Before(x, b, a)
  BY <1>1, <1>2, <1>6 DEF Before
<1> QED
  BY <1>1, <1>7

(* Entries with numbers of their own all stand before the last.            *)
LEMMA SomebodyIsLast ==
    ASSUME NEW x, SoundQueue(x), NEW G \in SUBSET Post, G # {},
           \A m, n \in G : x.seq[m] = x.seq[n] => m = n
    PROVE  \E a \in G : \A b \in G \ {a} : Before(x, b, a)
<1> DEFINE K == IF G \cap Background # {} THEN G \cap Background ELSE G
           N == {x.seq[m] : m \in K}
<1>1. K # {} /\ K \subseteq G
  OBVIOUS
<1>2. \A m \in Post : x.seq[m] \in Nat
  BY DEF SoundQueue
<1>3. N \in SUBSET Nat /\ N # {}
  BY <1>1, <1>2
<1>4. PICK bound \in Nat : \A m \in Post : x.seq[m] <= bound
  BY DEF SoundQueue
<1>5. \A n \in N : n <= bound
  BY <1>1, <1>4
<1>6. PICK a \in K : \A b \in K : x.seq[b] <= x.seq[a]
  <2>1. Max(N) \in N /\ \A n \in N : n <= Max(N)
    BY <1>3, <1>5, BoundedHasMax
  <2> QED
    BY <2>1, ZenonT(60)
<1>7. ASSUME NEW b \in G \ {a}
      PROVE  Before(x, b, a)
  <2>1. b \in Post /\ a \in Post /\ a \in G /\ x.seq[b] # x.seq[a]
    BY <1>1
  <2>2. (b \in Background) = (a \in Background) => b \in K
    BY <1>1
  <2>3. b \in K => x.seq[b] < x.seq[a]
    BY <1>2, <1>6, <2>1
  <2> QED
    BY <2>1, <2>2, <2>3 DEF Before
<1> QED
  BY <1>1, <1>7

Foremost(x, R, k) == {m \in R : Cardinality({n \in R : Before(x, n, m)}) < k}

(* Those with fewer than k before them are k, or all.                      *)
LEMMA FirstFew ==
    ASSUME NEW x, SoundQueue(x), NEW R \in SUBSET Post, IsFiniteSet(R),
           \A m, n \in R : x.seq[m] = x.seq[n] => m = n,
           NEW k \in Nat
    PROVE  LET G == Foremost(x, R, k)
           IN  /\ IsFiniteSet(G) /\ Cardinality(G) \in Nat /\ Cardinality(G) <= k
               /\ G = R \/ Cardinality(G) = k
<1> DEFINE P(m) == {n \in R : Before(x, n, m)}
           G == {m \in R : Cardinality(P(m)) < k}
<1>1. ASSUME NEW S \in SUBSET R
      PROVE  IsFiniteSet(S) /\ Cardinality(S) \in Nat
  BY FS_Subset, FS_CardinalityType
<1>2. G \in SUBSET R /\ \A m \in R : P(m) \in SUBSET R
  OBVIOUS
<1>3. IsFiniteSet(G) /\ Cardinality(G) \in Nat
  BY <1>1, <1>2
<1>4. Cardinality(G) <= k
  <2>1. CASE G = {}
    <3> HIDE DEF G
    <3> QED
      BY <2>1, FS_EmptySet
  <2>2. CASE G # {}
    <3>1. PICK a \in G : \A b \in G \ {a} : Before(x, b, a)
      <4>1. G \in SUBSET Post /\ \A m, n \in G : x.seq[m] = x.seq[n] => m = n
        BY <1>2
      <4> HIDE DEF G
      <4> QED
        BY <2>2, <4>1, SomebodyIsLast
    <3>2. G \ {a} \in SUBSET P(a) /\ Cardinality(P(a)) < k
      BY <1>2, <3>1
    <3> HIDE DEF G, P
    <3>3. IsFiniteSet(P(a)) /\ Cardinality(P(a)) \in Nat
      BY <1>1, <1>2
    <3>4. Cardinality(G \ {a}) <= Cardinality(P(a))
      BY <3>2, <3>3, FS_Subset
    <3>5. Cardinality(G \ {a}) = Cardinality(G) - 1
      BY <1>3, FS_RemoveElement
    <3> QED
      BY <1>3, <3>2, <3>3, <3>4, <3>5
  <2> QED
    BY <2>1, <2>2
<1>5. G = R \/ Cardinality(G) >= k
  <2>1. SUFFICES ASSUME R \ G # {} PROVE Cardinality(G) >= k
    BY <1>2
  <2>2. PICK b \in R \ G : \A c \in R \ G : ~Before(x, c, b)
    <3> HIDE DEF G
    <3>1. R \ G \in SUBSET Post
      OBVIOUS
    <3> QED
      BY <2>1, <3>1, SomebodyIsFirst
  <2>3. P(b) \in SUBSET G
    <3> HIDE DEF G
    <3> QED
      BY <2>2
  <2>4. ~(Cardinality(P(b)) < k)
    BY <2>2
  <2> HIDE DEF G, P
  <2>5. Cardinality(P(b)) <= Cardinality(G) /\ Cardinality(P(b)) \in Nat
    BY <1>1, <1>2, <1>3, <2>2, <2>3, FS_Subset
  <2> QED
    BY <1>3, <2>4, <2>5
<1>6. G = Foremost(x, R, k)
  BY DEF Foremost
<1> HIDE DEF G
<1> QED
  BY <1>3, <1>4, <1>5, <1>6

-----------------------------------------------------------------------------
(* Places.                                                                 *)

(* Every place that is taken is taken by an attempt for a queued message.  *)
PlacedQueue(x) ==
    /\ x.sending \subseteq Queued(x)
    /\ x.inFlight \in [Relay -> Nat]
    /\ \A r \in Relay : x.inFlight[r] = Cardinality(On(x.sending, r)) /\ x.inFlight[r] <= PerRelay
    /\ \A m, n \in Queued(x) : x.seq[m] = x.seq[n] => m = n
    /\ {x.off, x.last, x.step} \subseteq [Pair -> Nat]

LEMMA FreedFit ==
    ASSUME IsFiniteSet(Post), NEW x, PlacedQueue(x), NEW S
    PROVE  /\ Freed(x, S) \in [Relay -> Nat]
           /\ \A r \in Relay : /\ Freed(x, S)[r] = Cardinality(On(x.sending \ S, r))
                               /\ Freed(x, S)[r] <= PerRelay
<1>1. ASSUME NEW r \in Relay
      PROVE  /\ Freed(x, S)[r] = Cardinality(On(x.sending \ S, r))
             /\ Freed(x, S)[r] \in Nat /\ Freed(x, S)[r] <= PerRelay
  <2> DEFINE A == On(x.sending, r)
             B == On(S \cap x.sending, r)
             C == On(x.sending \ S, r)
  <2>1. A \in SUBSET Post /\ B \in SUBSET A /\ C = A \ B /\ C \in SUBSET A
    BY DEF PlacedQueue, Queued, On
  <2>2. Freed(x, S)[r] = x.inFlight[r] - Cardinality(B) /\ x.inFlight[r] = Cardinality(A)
        /\ Cardinality(A) <= PerRelay
    BY DEF Freed, PlacedQueue
  <2> HIDE DEF A, B, C
  <2>3. IsFiniteSet(A) /\ Cardinality(A) \in Nat
    BY <2>1, FS_Subset, FS_CardinalityType
  <2>4. IsFiniteSet(B) /\ Cardinality(B) \in Nat /\ IsFiniteSet(C) /\ Cardinality(C) \in Nat
    BY <2>1, <2>3, FS_Subset, FS_CardinalityType
  <2>5. Cardinality(C) = Cardinality(A) - Cardinality(B)
    <3>1. Cardinality(A \ B) = Cardinality(A) - Cardinality(A \cap B)
      BY <2>3, FS_Difference
    <3>2. A \cap B = B
      BY <2>1
    <3> QED
      BY <2>1, <3>1, <3>2
  <2>6. Cardinality(C) <= Cardinality(A)
    BY <2>1, <2>3, FS_Subset
  <2>7. PerRelay \in Nat
    BY PostQueueAssumption
  <2>8. Freed(x, S)[r] = Cardinality(C)
    BY <2>2, <2>5
  <2>9. Cardinality(C) \in Nat /\ Cardinality(C) <= PerRelay
    BY <2>2, <2>3, <2>4, <2>6, <2>7
  <2> QED
    BY <2>8, <2>9 DEF C
<1> QED
  BY <1>1 DEF Freed

LEMMA DoneIsPlaced ==
    ASSUME IsFiniteSet(Post), NEW x, SoundQueue(x), PlacedQueue(x), NEW S
    PROVE  PlacedQueue(Done(x, S))
<1> DEFINE y == Done(x, S)
<1>1. /\ y.seq = Without(x.seq, S)
      /\ y.sending = x.sending \ S /\ y.inFlight = Freed(x, S)
      /\ y.off = x.off /\ y.last = x.last /\ y.step = x.step
  BY DoneParts
<1> HIDE DEF y
<1>2. /\ Freed(x, S) \in [Relay -> Nat]
      /\ \A r \in Relay : /\ Freed(x, S)[r] = Cardinality(On(x.sending \ S, r))
                          /\ Freed(x, S)[r] <= PerRelay
  BY FreedFit
<1>3. \A m \in Post : y.seq[m] = IF m \in S THEN 0 ELSE x.seq[m]
  BY <1>1 DEF Without
<1>4. y.sending \subseteq Queued(y)
      /\ \A m, n \in Queued(y) : y.seq[m] = y.seq[n] => m = n
  BY <1>1, <1>3 DEF PlacedQueue, Queued
<1>5. PlacedQueue(y)
  BY <1>1, <1>2, <1>4, ZenonT(60) DEF PlacedQueue
<1> QED
  BY <1>5 DEF y

LEMMA AddedIsPlaced ==
    ASSUME NEW x, SoundQueue(x), PlacedQueue(x), NEW m \in Post, x.seq[m] = 0,
           NEW patience \in Nat
    PROVE  PlacedQueue(Added(x, m, patience))
<1> DEFINE y == Added(x, m, patience)
<1>1. /\ y.seq[m] # 0 /\ SameWire(x, y)
      /\ \A n \in Post \ {m} : y.seq[n] = x.seq[n] /\ x.seq[n] < y.seq[m]
  BY AddedIsSound
<1> HIDE DEF y
<1>2. Queued(y) = Queued(x) \cup {m}
  BY <1>1 DEF Queued
<1>3. \A n, k \in Queued(y) : y.seq[n] = y.seq[k] => n = k
  <2>1. \A n \in Post : x.seq[n] \in Nat
    BY DEF SoundQueue
  <2> QED
    BY <1>1, <1>2, <2>1 DEF PlacedQueue, Queued
<1>4. PlacedQueue(y)
  BY <1>1, <1>2, <1>3 DEF PlacedQueue, SameWire
<1> QED
  BY <1>4 DEF y

LEMMA BackedOffIsPlaced ==
    ASSUME IsFiniteSet(Post), NEW x, SoundQueue(x), PlacedQueue(x),
           NEW m \in Post, NEW wait \in Nat
    PROVE  /\ PlacedQueue(Busied(x, m, wait)) /\ Busied(x, m, wait).sending = x.sending \ {m}
           /\ PlacedQueue(Silenced(x, m)) /\ Silenced(x, m).sending = x.sending \ {m}
           /\ PlacedQueue(Reached(x, PairOf(m))) /\ Reached(x, PairOf(m)).sending = x.sending
<1> DEFINE Alike(y, busy) ==
                /\ y = [seq |-> y.seq, sending |-> y.sending, tries |-> y.tries,
                        left |-> y.left, inFlight |-> y.inFlight, off |-> y.off,
                        last |-> y.last, step |-> y.step]
                /\ PlacedQueue(y) /\ y.sending = busy
           z == Stopped(x, {m})
           p == PairOf(m)
<1>1. p \in Pair
  BY PostQueueAssumption DEF PairOf, Pair
<1>2. Alike(x, x.sending)
  BY DEF SoundQueue
<1>3. Alike(z, x.sending \ {m})
  <2>1. z = [x EXCEPT !.sending = @ \ {m}, !.inFlight = Freed(x, {m})]
    BY Zenon DEF Stopped, Freed
  <2> HIDE DEF z
  <2>2. z = [seq |-> x.seq, sending |-> x.sending \ {m}, tries |-> x.tries, left |-> x.left,
             inFlight |-> Freed(x, {m}), off |-> x.off, last |-> x.last, step |-> x.step]
    BY <2>1 DEF SoundQueue
  <2>3. /\ Freed(x, {m}) \in [Relay -> Nat]
        /\ \A r \in Relay : /\ Freed(x, {m})[r] = Cardinality(On(x.sending \ {m}, r))
                            /\ Freed(x, {m})[r] <= PerRelay
    BY FreedFit
  <2>4. /\ z.seq = x.seq /\ z.sending = x.sending \ {m} /\ z.inFlight = Freed(x, {m})
        /\ z.off = x.off /\ z.last = x.last /\ z.step = x.step
        /\ z = [seq |-> z.seq, sending |-> z.sending, tries |-> z.tries,
                left |-> z.left, inFlight |-> z.inFlight, off |-> z.off,
                last |-> z.last, step |-> z.step]
    BY <2>2
  <2>5. PlacedQueue(z)
    BY <2>3, <2>4, ZenonT(60) DEF PlacedQueue, Queued
  <2> QED
    BY <2>4, <2>5
<1>4. ASSUME NEW u, NEW busy, Alike(u, busy), NEW c \in Nat
      PROVE  /\ Alike([u EXCEPT !.off[p] = c], busy)
             /\ Alike([u EXCEPT !.last[p] = c], busy)
             /\ Alike([u EXCEPT !.step[p] = c], busy)
  <2>1. ASSUME NEW f \in [Pair -> Nat]
        PROVE  /\ Alike([u EXCEPT !.off = f], busy)
               /\ Alike([u EXCEPT !.last = f], busy)
               /\ Alike([u EXCEPT !.step = f], busy)
    BY <1>4 DEF PlacedQueue, Queued
  <2>2. {u.off, u.last, u.step} \subseteq [Pair -> Nat]
    BY <1>4 DEF PlacedQueue
  <2>3. /\ [u.off EXCEPT ![p] = c] \in [Pair -> Nat]
        /\ [u.last EXCEPT ![p] = c] \in [Pair -> Nat]
        /\ [u.step EXCEPT ![p] = c] \in [Pair -> Nat]
    BY <2>2
  <2> HIDE DEF Alike
  <2> QED
    BY <2>1, <2>3, Zenon
<1>5. \A n \in Pair : x.last[n] \in Nat /\ x.step[n] \in Nat
  BY DEF PlacedQueue
<1> HIDE DEF Alike, p
<1> DEFINE step == IF x.step[p] = 0 THEN BusyStart ELSE Least(2 * x.step[p], BusyMax)
           off == IF wait > 0 THEN Least(step, wait) ELSE BackoffStart
           silence == IF x.last[p] = 0 THEN BackoffStart ELSE Least(2 * x.last[p], BackoffMax)
<1>6. step \in Nat /\ silence \in Nat
  BY <1>1, <1>5, PostQueueAssumption DEF Least
<1> HIDE DEF step, silence
<1>7. off \in Nat
  BY <1>6, PostQueueAssumption DEF Least
<1> HIDE DEF off, z
<1>8. Alike(Busied(x, m, wait), x.sending \ {m})
  <2>1. Alike([[z EXCEPT !.step[p] = step] EXCEPT !.off[p] = off], x.sending \ {m})
    BY <1>3, <1>4, <1>6, <1>7, Zenon
  <2> QED
    BY <2>1, Zenon DEF Busied, z, p, step, off
<1>9. Alike(Silenced(x, m), x.sending \ {m})
  <2>1. Alike([[z EXCEPT !.last[p] = silence] EXCEPT !.off[p] = silence], x.sending \ {m})
    BY <1>3, <1>4, <1>6, Zenon
  <2> QED
    BY <2>1, Zenon DEF Silenced, z, p, silence
<1>10. Alike(Reached(x, p), x.sending)
  <2>1. Alike([[[x EXCEPT !.off[p] = 0] EXCEPT !.last[p] = 0] EXCEPT !.step[p] = 0], x.sending)
    <3>1. 0 \in Nat
      OBVIOUS
    <3> QED
      BY <1>2, <1>4, <3>1, Zenon
  <2> QED
    BY <2>1, Zenon DEF Reached
<1> QED
  BY <1>8, <1>9, <1>10 DEF Alike, p

LEMMA AgedIsPlaced ==
    ASSUME NEW x, SoundQueue(x), PlacedQueue(x), NEW d \in Nat
    PROVE  PlacedQueue(Aged(x, d))
<1> DEFINE y == Aged(x, d)
<1>1. /\ y.seq = x.seq /\ y.off = LaterOff(x, d)
      /\ y.sending = x.sending /\ y.inFlight = x.inFlight
      /\ y.last = x.last /\ y.step = x.step
  BY AgedParts
<1> HIDE DEF y
<1>2. LaterOff(x, d) \in [Pair -> Nat]
  BY DEF LaterOff, Later, PlacedQueue
<1>3. PlacedQueue(y)
  BY <1>1, <1>2 DEF PlacedQueue, Queued
<1> QED
  BY <1>3 DEF y

LEMMA RestoredIsPlaced ==
    ASSUME IsFiniteSet(Post), NEW x, SoundQueue(x), PlacedQueue(x), NEW S
    PROVE  PlacedQueue(Restored(x, S)) /\ Restored(x, S).sending = {}
<1> DEFINE y == Restored(x, S)
           z == Done(x, Post)
<1>1. /\ y.seq = Without(x.seq, Post \ S)
      /\ y.sending = z.sending /\ y.inFlight = z.inFlight
      /\ y.off = x.off /\ y.last = KeptLast(x) /\ y.step = EmptyQueue.step
  BY RestoredParts, ZenonT(60)
<1>2. PlacedQueue(z) /\ z.sending = x.sending \ Post
  BY DoneIsPlaced, DoneParts
<1> HIDE DEF y, z
<1>3. z.sending = {}
  BY <1>2 DEF PlacedQueue, Queued
<1>4. {x.off, KeptLast(x), EmptyQueue.step} \subseteq [Pair -> Nat]
  BY DEF KeptLast, EmptyQueue, PlacedQueue
<1>5. \A m, n \in Queued(y) : y.seq[m] = y.seq[n] => m = n
  BY <1>1 DEF PlacedQueue, Queued, Without
<1>6. PlacedQueue(y)
  BY <1>1, <1>2, <1>3, <1>4, <1>5 DEF PlacedQueue
<1> QED
  BY <1>1, <1>3, <1>6 DEF y

(* Whatever is handed out fills the places, or nobody is left out.         *)
LEMMA StartedIsPlaced ==
    ASSUME IsFiniteSet(Post), NEW x, SoundQueue(x), PlacedQueue(x), NEW able \in SUBSET Post
    PROVE  LET gone == Passed(x, able, able)
               y == Started(x, gone)
           IN  /\ PlacedQueue(y)
               /\ y.seq = x.seq /\ y.off = x.off /\ y.sending = x.sending \cup gone
               /\ \A r \in Relay : x.inFlight[r] <= y.inFlight[r]
               /\ \A m \in able \cap Ready(x) :
                    m \in gone \/ y.inFlight[RelayOf[m]] = PerRelay
               /\ \A n \in gone : \A m \in able \cap Ready(x) :
                    RelayOf[m] = RelayOf[n] /\ Before(x, m, n) => m \in gone
<1> DEFINE gone == Passed(x, able, able)
           y == Started(x, gone)
<1>1. /\ gone \in SUBSET Queued(x) /\ gone \subseteq able
      /\ \A m \in gone : m \notin x.sending
  BY PassedAreReady
<1>2. ASSUME NEW r \in Relay
      PROVE  /\ Taken(x, gone)[r] = Cardinality(On(x.sending \cup gone, r))
             /\ Taken(x, gone)[r] \in Nat
             /\ x.inFlight[r] <= Taken(x, gone)[r] /\ Taken(x, gone)[r] <= PerRelay
             /\ \/ On(able \cap Ready(x), r) \subseteq gone
                \/ Taken(x, gone)[r] = PerRelay
  <2> DEFINE R == On(able \cap Ready(x), r)
             k == PerRelay - x.inFlight[r]
             G == Foremost(x, R, k)
             A == On(x.sending, r)
  <2>1. k \in Nat /\ x.inFlight[r] \in Nat /\ x.inFlight[r] = Cardinality(A) /\ PerRelay \in Nat
    BY PostQueueAssumption DEF PlacedQueue
  <2>2. R \in SUBSET Post /\ R \subseteq Queued(x) /\ A \in SUBSET Post
    BY DEF On, Ready, PlacedQueue, Queued
  <2>3. IsFiniteSet(R) /\ IsFiniteSet(A)
    BY <2>2, FS_Subset
  <2>4. G = On(gone, r)
    BY DEF On, Passed, Foremost
  <2>5. \A m, n \in R : x.seq[m] = x.seq[n] => m = n
    BY <2>2 DEF PlacedQueue
  <2> HIDE DEF R, k
  <2>6. /\ IsFiniteSet(G) /\ Cardinality(G) \in Nat /\ Cardinality(G) <= k
        /\ G = R \/ Cardinality(G) = k
    BY <2>1, <2>2, <2>3, <2>5, FirstFew
  <2> HIDE DEF G, A
  <2>7. Cardinality(A \cup G) = Cardinality(A) + Cardinality(G)
    <3>1. A \cap G = {}
      BY <1>1, <2>4 DEF A, On
    <3>2. Cardinality(A \cap G) = 0
      BY <3>1, FS_EmptySet
    <3>3. Cardinality(A \cup G) = Cardinality(A) + Cardinality(G) - Cardinality(A \cap G)
      BY <2>3, <2>6, FS_Union
    <3>4. Cardinality(A) \in Nat
      BY <2>1
    <3> QED
      BY <2>6, <3>2, <3>3, <3>4
  <2>8. A \cup G = On(x.sending \cup gone, r)
    BY <2>4 DEF A, On
  <2>9. Taken(x, gone)[r] = x.inFlight[r] + Cardinality(G)
    BY <2>4 DEF Taken
  <2>10. Taken(x, gone)[r] = Cardinality(On(x.sending \cup gone, r))
    BY <2>1, <2>7, <2>8, <2>9
  <2>11. G \subseteq gone
    BY <2>4 DEF On
  <2>12. k = PerRelay - x.inFlight[r]
    BY DEF k
  <2>13. R = On(able \cap Ready(x), r)
    BY DEF R
  <2>14. /\ Taken(x, gone)[r] \in Nat
         /\ x.inFlight[r] <= Taken(x, gone)[r] /\ Taken(x, gone)[r] <= PerRelay
         /\ G = R \/ Taken(x, gone)[r] = PerRelay
    BY <2>1, <2>6, <2>9, <2>12
  <2> QED
    BY <2>10, <2>11, <2>13, <2>14
<1>3. /\ y.seq = x.seq /\ y.sending = x.sending \cup gone /\ y.inFlight = Taken(x, gone)
      /\ y.off = x.off /\ y.last = x.last /\ y.step = x.step
  BY StartedParts
<1>4. Taken(x, gone) = [r \in Relay |-> Taken(x, gone)[r]]
  BY DEF Taken
<1> HIDE DEF gone, y
<1>5. Taken(x, gone) \in [Relay -> Nat]
  BY <1>2, <1>4
<1>6. Queued(y) = Queued(x)
  BY <1>3 DEF Queued
<1>7. PlacedQueue(y)
  BY <1>1, <1>2, <1>3, <1>5, <1>6, ZenonT(60) DEF PlacedQueue
<1>8. ASSUME NEW m \in able \cap Ready(x)
      PROVE  m \in gone \/ y.inFlight[RelayOf[m]] = PerRelay
  <2>1. RelayOf[m] \in Relay /\ m \in On(able \cap Ready(x), RelayOf[m])
    BY PostQueueAssumption DEF On
  <2> QED
    BY <1>2, <1>3, <2>1
<1>9. \A r \in Relay : x.inFlight[r] <= y.inFlight[r]
  BY <1>2, <1>3
<1>10. ASSUME NEW n \in gone, NEW m \in able \cap Ready(x),
              RelayOf[m] = RelayOf[n], Before(x, m, n)
       PROVE  m \in gone
  <2> DEFINE A(k) == {i \in On(able \cap Ready(x), RelayOf[n]) : Before(x, i, k)}
             k == PerRelay - x.inFlight[RelayOf[n]]
  <2>1. n \in Post /\ m \in Post /\ A(m) \in SUBSET Post /\ A(n) \in SUBSET Post
    BY <1>1 DEF On, Ready, Queued
  <2>2. A(m) \subseteq A(n)
    <3>1. \A i \in Post : x.seq[i] \in Nat
      BY DEF SoundQueue
    <3> QED
      BY <1>10, <2>1, <3>1 DEF Before
  <2>3. Cardinality(A(n)) < k
    BY DEF gone, Passed
  <2> HIDE DEF A
  <2>4. Cardinality(A(m)) <= Cardinality(A(n))
        /\ Cardinality(A(m)) \in Nat /\ Cardinality(A(n)) \in Nat
    <3>1. IsFiniteSet(A(n)) /\ IsFiniteSet(A(m))
      BY <2>1, FS_Subset
    <3> QED
      BY <2>2, <3>1, FS_Subset, FS_CardinalityType
  <2>5. RelayOf[n] \in Relay /\ PerRelay \in Nat
    BY <2>1, PostQueueAssumption
  <2>6. k \in Int
    BY <2>5 DEF PlacedQueue
  <2> HIDE DEF k
  <2>7. Cardinality(A(m)) < k
    BY <2>3, <2>4, <2>6
  <2> QED
    BY <1>10, <2>7 DEF gone, Passed, A, k
<1> QED
  BY <1>3, <1>7, <1>8, <1>9, <1>10 DEF gone, y

LEMMA NothingDone ==
    ASSUME NEW x, SoundQueue(x), PlacedQueue(x), NEW S, \A m : m \notin S
    PROVE  Done(x, S) = x
<1> DEFINE y == Done(x, S)
<1>1. /\ y.seq = Without(x.seq, S) /\ y.left = Without(x.left, S)
      /\ y.tries = x.tries /\ y.sending = x.sending \ S /\ y.inFlight = Freed(x, S)
      /\ y.off = x.off /\ y.last = x.last /\ y.step = x.step
      /\ SoundQueue(y)
  BY DoneParts
<1> HIDE DEF y
<1>2. Without(x.seq, S) = x.seq /\ Without(x.left, S) = x.left
  BY DEF Without, SoundQueue
<1>3. \A r \in Relay : Cardinality(On(S \cap x.sending, r)) = 0
  <2>1. \A r \in Relay : On(S \cap x.sending, r) = {}
    BY DEF On
  <2> QED
    BY <2>1, FS_EmptySet
<1>4. Freed(x, S) = x.inFlight
  <2>1. \A r \in Relay : Freed(x, S)[r] = x.inFlight[r] - Cardinality(On(S \cap x.sending, r))
    BY DEF Freed
  <2>2. \A r \in Relay : x.inFlight[r] \in Nat
    BY DEF PlacedQueue
  <2>3. \A r \in Relay : Freed(x, S)[r] = x.inFlight[r]
    BY <1>3, <2>1, <2>2
  <2>4. Freed(x, S) = [r \in Relay |-> Freed(x, S)[r]]
    BY DEF Freed
  <2>5. x.inFlight = [r \in Relay |-> x.inFlight[r]]
    BY DEF PlacedQueue
  <2> QED
    BY <2>3, <2>4, <2>5
<1>5. y = x
  BY <1>1, <1>2, <1>4 DEF SoundQueue
<1> QED
  BY <1>5 DEF y

-----------------------------------------------------------------------------
(* Places and timers, in a copy of the memory.                             *)

Call == [post : Post, n : Nat, taken : BOOLEAN, live : BOOLEAN]

Placed(s) ==
    /\ PlacedQueue(s.q)
    /\ \A m \in Post : s.timer[m] # NoTimer => s.timer[m].of = m
    /\ \A m \in s.q.sending : s.timer[m] # NoTimer
    /\ s.refused \subseteq Relay
    /\ s.wire \subseteq Call

(* Whatever a settled message held is let go, and nothing else.            *)
LEMMA SettledIsPlaced ==
    ASSUME IsFiniteSet(Post), NEW s, NEW H \in SUBSET Hash, SoundBut(s, H), Placed(s), NEW how
    PROVE  /\ Placed(Settled(s, H, how))
           /\ Settled(s, H, how).q.off = s.q.off
           /\ Keeps(s.q, Settled(s, H, how).q)
           /\ Settled(s, H, how).q.sending \subseteq s.q.sending
<1> DEFINE over == SlotsIn(s, H)
           t == Settled(s, H, how)
           x == Done(s.q, over)
           rows == [h \in Hash |-> IF s.waiting[h] \in over /\ h \in H THEN NoPost ELSE s.row[h]]
           slots == [h \in Hash |-> IF h \in H THEN NoPost ELSE s.waiting[h]]
           timers == [m \in Post |-> IF m \in over THEN NoTimer ELSE s.timer[m]]
           fates == [m \in Post |-> IF m \in over THEN how ELSE s.fate[m]]
<1>1. t = [s EXCEPT !.q = x, !.waiting = slots, !.timer = timers, !.fate = fates, !.row = rows]
  BY Zenon DEF Settled
<1> HIDE DEF over
<1>2. SoundQueue(s.q) /\ PlacedQueue(s.q)
  BY DEF SoundBut, Placed
<1>3. /\ PlacedQueue(x) /\ x.sending = s.q.sending \ over /\ x.off = s.q.off
      /\ x.seq = Without(s.q.seq, over)
  BY <1>2, DoneIsPlaced, DoneParts
<1> HIDE DEF x, t, slots, rows, fates
<1>4. \A m \in Post : timers[m] = IF m \in over THEN NoTimer ELSE s.timer[m]
  OBVIOUS
<1> HIDE DEF timers
<1>5. /\ t.q = x /\ t.timer = timers /\ t.refused = s.refused /\ t.wire = s.wire
  BY <1>1 DEF SoundBut
<1>6. \A m \in Post : timers[m] # NoTimer => timers[m].of = m
  BY <1>4 DEF Placed
<1>7. \A m \in x.sending : timers[m] # NoTimer
  BY <1>3, <1>4 DEF Placed, PlacedQueue, Queued
<1>8. Placed(t)
  BY <1>3, <1>5, <1>6, <1>7 DEF Placed
<1> QED
  BY <1>3, <1>5, <1>8 DEF t, Keeps, Without

LEMMA DroppedIsPlaced ==
    ASSUME IsFiniteSet(Post), NEW s, NEW H, SoundBut(s, H), Placed(s), NEW S
    PROVE  LET t == [s EXCEPT !.q = Done(@, S)]
           IN  Placed(t) /\ t.q.off = s.q.off /\ Keeps(s.q, t.q)
<1> DEFINE x == Done(s.q, S)
           t == [s EXCEPT !.q = x]
<1>1. SoundQueue(s.q) /\ PlacedQueue(s.q)
  BY DEF SoundBut, Placed
<1>2. /\ PlacedQueue(x) /\ x.sending = s.q.sending \ S /\ x.off = s.q.off
      /\ x.seq = Without(s.q.seq, S)
  BY <1>1, DoneIsPlaced, DoneParts
<1> HIDE DEF x
<1>3. t.q = x /\ t.timer = s.timer /\ t.refused = s.refused /\ t.wire = s.wire
  BY DEF SoundBut
<1> HIDE DEF t
<1>4. Placed(t)
  BY <1>2, <1>3 DEF Placed
<1> QED
  BY <1>2, <1>3, <1>4 DEF t, x, Keeps, Without

(* Messages that are not on the wire end: nobody's place is touched.       *)
LEMMA OverIsPlaced ==
    ASSUME IsFiniteSet(Post), NEW s, Sound(s), Placed(s), NEW S \in SUBSET Queued(s.q),
           \A m \in S : m \notin s.q.sending, NEW how \in Ending
    PROVE  LET t == Settled([s EXCEPT !.q = Done(@, S)], Hashes(S), how)
           IN  /\ Placed(t) /\ t.q.off = s.q.off /\ Keeps(s.q, t.q)
               /\ t.q.sending = s.q.sending /\ t.q.inFlight = s.q.inFlight
<1> DEFINE d == [s EXCEPT !.q = Done(@, S)]
           t == Settled(d, Hashes(S), how)
<1>1. S \in SUBSET Post
  BY DEF Queued
<1>2. /\ SoundBut(d, Hashes(S)) /\ Hashes(S) \in SUBSET Hash
  BY <1>1, DroppedIsSoundBut
<1>3. SoundBut(s, {})
  BY DEF Sound
<1>4. Placed(d) /\ d.q.off = s.q.off /\ Keeps(s.q, d.q)
  BY <1>3, DroppedIsPlaced
<1>5. /\ Sound(t) /\ Remains(s, t)
      /\ \A m \in Post : t.fate[m] = IF m \in S THEN how ELSE s.fate[m]
  BY OverIsSound
<1> HIDE DEF d
<1>6. Placed(t) /\ t.q.off = d.q.off /\ Keeps(d.q, t.q)
  BY <1>2, <1>4, SettledIsPlaced
<1> HIDE DEF t
<1>7. t.q.sending \subseteq s.q.sending
  BY <1>5, <1>6 DEF Placed, PlacedQueue, Queued, Remains
<1>8. ASSUME NEW m \in s.q.sending
      PROVE  m \in t.q.sending
  <2>1. m \in Post /\ s.q.seq[m] # 0 /\ m \notin S
    BY DEF Placed, PlacedQueue, Queued
  <2>2. t.fate[m] = "open"
    BY <1>5, <2>1 DEF Sound, SoundBut
  <2>3. t.q.seq[m] # 0
    BY <1>5, <2>1, <2>2 DEF Sound, SoundBut
  <2> QED
    BY <1>5, <2>1, <2>3 DEF Remains
<1>9. t.q.sending = s.q.sending
  BY <1>7, <1>8
<1>10. \A r \in Relay : t.q.inFlight[r] = s.q.inFlight[r]
  BY <1>6, <1>9 DEF Placed, PlacedQueue
<1>11. t.q.inFlight = s.q.inFlight
  BY <1>6, <1>10 DEF Placed, PlacedQueue
<1> QED
  BY <1>4, <1>6, <1>9, <1>11 DEF t, d, Keeps

LEMMA NothingForgottenIsPlaced ==
    ASSUME NEW s, Sound(s), Placed(s), NEW S, \A m : m \notin S
    PROVE  Forgotten(s, S) = s
<1> DEFINE rows == [h \in Hash |-> IF h \in Hashes(S) THEN NoPost ELSE s.row[h]]
<1>1. Forgotten(s, S) = [s EXCEPT !.q = Done(s.q, S), !.row = rows]
  BY Zenon DEF Forgotten
<1>2. Done(s.q, S) = s.q
  BY NothingDone DEF Sound, SoundBut, Placed
<1>3. rows = s.row
  BY DEF Hashes, Sound, SoundBut
<1> HIDE DEF rows
<1>4. [s EXCEPT !.q = s.q, !.row = s.row] = s
  BY DEF Sound, SoundBut
<1> QED
  BY <1>1, <1>2, <1>3, <1>4

LEMMA SentIsPlaced ==
    ASSUME IsFiniteSet(Post), NEW s, Sound(s), Placed(s), NEW S \in SUBSET Queued(s.q),
           PlacedQueue(Started(s.q, S))
    PROVE  Placed(Sent(s, S)) /\ Sent(s, S).q = Started(s.q, S)
<1> DEFINE t == Sent(s, S)
           x == Started(s.q, S)
           first(m) == CHOOSE g \in S : s.waiting[HashOf[g]] = m
           timers == [m \in Post |->
                      IF \E g \in S : s.waiting[HashOf[g]] = m
                      THEN [of |-> first(m), left |-> Wait] ELSE s.timer[m]]
           calls == {[post |-> m, n |-> x.tries[m], taken |-> FALSE, live |-> TRUE] : m \in S}
<1>1. t = [s EXCEPT !.q = x, !.timer = timers, !.wire = s.wire \cup calls]
  BY Zenon DEF Sent
<1>2. S \in SUBSET Post /\ \A m \in S : s.waiting[HashOf[m]] = m
  BY DEF Queued, Sound, SoundBut
<1>3. x.sending = s.q.sending \cup S /\ SoundQueue(x)
  BY StartedParts DEF Sound, SoundBut
<1>4. calls \subseteq Call
  <2>1. \A m \in S : m \in Post /\ x.tries[m] \in Nat
    BY <1>2, <1>3 DEF SoundQueue
  <2> HIDE DEF x
  <2>2. \A m \in S : [post |-> m, n |-> x.tries[m], taken |-> FALSE, live |-> TRUE] \in Call
    BY <2>1 DEF Call
  <2> HIDE DEF Call
  <2> QED
    BY <2>2, Zenon
<1>5. \A m \in S : first(m) = m
  BY <1>2
<1>6. \A m \in Post : timers[m] =
          IF m \in S THEN [of |-> m, left |-> Wait] ELSE s.timer[m]
  <2>1. ASSUME NEW m \in Post, \E g \in S : s.waiting[HashOf[g]] = m
        PROVE  m \in S
    BY <1>2, <2>1
  <2> HIDE DEF first
  <2> QED
    BY <1>2, <1>5, <2>1
<1> HIDE DEF x, t, timers, calls
<1>7. /\ t.q = x /\ t.timer = timers /\ t.refused = s.refused /\ t.wire = s.wire \cup calls
  BY <1>1 DEF Sound, SoundBut
<1>8. \A m \in Post : timers[m] # NoTimer => timers[m].of = m
  <2>1. ASSUME NEW m \in Post, m \in S
        PROVE  timers[m].of = m
    <3>1. timers[m] = [of |-> m, left |-> Wait]
      BY <1>6, <2>1
    <3>2. [of |-> m, left |-> Wait].of = m
      OBVIOUS
    <3> QED
      BY <3>1, <3>2, Zenon
  <2>2. ASSUME NEW m \in Post, m \notin S
        PROVE  timers[m] = s.timer[m]
    BY <1>6, <2>2
  <2> QED
    BY <2>1, <2>2 DEF Placed
<1>9. \A m \in x.sending : timers[m] # NoTimer
  <2>1. \A m \in S : [of |-> m, left |-> Wait] # NoTimer
    <3>1. \A m \in S : m # NoPost
      BY <1>2, PeerPostAssumption
    <3> QED
      BY <3>1 DEF NoTimer
  <2>2. x.sending \subseteq Post
    BY <1>2, <1>3 DEF Placed, PlacedQueue, Queued
  <2> QED
    BY <1>3, <1>6, <2>1, <2>2 DEF Placed
<1>10. PlacedQueue(x)
  BY DEF x
<1>11. Placed(t)
  BY <1>4, <1>7, <1>8, <1>9, <1>10 DEF Placed
<1> QED
  BY <1>7, <1>11 DEF t, x

(* Whoever could go has gone.                                              *)
Idle(x) ==
    \A m \in Queued(x) \ x.sending :
        x.inFlight[RelayOf[m]] = PerRelay \/ x.off[PairOf(m)] > 0

(* Of two messages of one class to one peer, the older goes first.         *)
InTurn(x, y) ==
    \A m, n \in Queued(y) :
        (/\ PairOf(m) = PairOf(n)
         /\ (m \in Background) = (n \in Background)
         /\ y.seq[m] < y.seq[n]
         /\ n \in y.sending \ x.sending) => m \in y.sending

LEMMA PumpIsPlaced ==
    ASSUME IsFiniteSet(Post), NEW s, Sound(s), Placed(s)
    PROVE  /\ Placed(Pumped(s)) /\ Idle(Pumped(s).q)
           /\ Keeps(s.q, Pumped(s).q) /\ InTurn(s.q, Pumped(s).q)
<1> DEFINE spent == Expired(s.q)
           s1 == GivenUp(s, spent)
           held == {m \in Post : s1.waiting[HashOf[m]] # NoPost}
           turned == {m \in held : RelayOf[m] \in s1.refused}
           back == Passed(s1.q, turned, {})
           s2 == TurnedBack(s1, back)
           able == {m \in Post : s2.waiting[HashOf[m]] # NoPost /\ RelayOf[m] \notin s2.refused}
           gone == Passed(s2.q, able, able)
           lost == Passed(s2.q, {m \in Post : s2.waiting[HashOf[m]] = NoPost}, gone)
           s3 == Forgotten(s2, lost)
           t == Sent(s3, gone)
<1>1. Pumped(s) = t
  BY Zenon DEF Pumped
<1>2. spent \in SUBSET Queued(s.q) /\ \A m \in spent : m \notin s.q.sending
  BY DEF Expired
<1> HIDE DEF spent
<1>3. /\ Sound(s1) /\ Placed(s1) /\ Keeps(s.q, s1.q)
      /\ s1.q.sending = s.q.sending
  <2>1. "gaveUp" \in Ending
    BY DEF Ending
  <2> QED
    BY <1>2, <2>1, OverIsSound, OverIsPlaced DEF GivenUp
<1> HIDE DEF s1
<1>4. back \in SUBSET Queued(s1.q) /\ \A m \in back : m \notin s1.q.sending
  BY PassedAreReady
<1>5. turned \cap Ready(s1.q) \subseteq back
  <2>1. \A r \in Relay : On({} \cap Ready(s1.q), r) = {}
    BY DEF On
  <2>2. ASSUME NEW m \in turned \cap Ready(s1.q)
        PROVE  m \in back
    <3>1. RelayOf[m] \in Relay
      BY PostQueueAssumption
    <3>2. {n \in On({} \cap Ready(s1.q), RelayOf[m]) : Before(s1.q, n, m)} = {}
      BY <2>1, <3>1
    <3>3. 0 < PerRelay - s1.q.inFlight[RelayOf[m]]
      BY <1>3, <3>1, PostQueueAssumption DEF Ready, Placed, PlacedQueue
    <3>4. Cardinality({n \in On({} \cap Ready(s1.q), RelayOf[m]) : Before(s1.q, n, m)})
            < PerRelay - s1.q.inFlight[RelayOf[m]]
      BY <3>2, <3>3, FS_EmptySet
    <3> HIDE DEF turned
    <3> QED
      BY <3>4 DEF Passed
  <2> QED
    BY <2>2
<1>6. \A m \in Queued(s1.q) : RelayOf[m] \in s1.refused => m \in turned
  BY <1>3, PeerPostAssumption DEF Queued, Sound, SoundBut
<1> HIDE DEF back, turned
<1>7. /\ Sound(s2) /\ Placed(s2) /\ Remains(s1, s2)
      /\ \A m \in back : s2.q.seq[m] = 0
      /\ Keeps(s1.q, s2.q)
      /\ s2.q.off = s1.q.off /\ s2.q.sending = s1.q.sending /\ s2.q.inFlight = s1.q.inFlight
  <2>1. "refused" \in Ending
    BY DEF Ending
  <2> QED
    BY <1>3, <1>4, <2>1, OverIsSound, OverIsPlaced DEF TurnedBack
<1> HIDE DEF s2
<1>8. ASSUME NEW m \in Ready(s2.q)
      PROVE  m \in able
  <2>1. m \in Post /\ s2.q.seq[m] # 0 /\ s1.q.seq[m] # 0 /\ m \in Ready(s1.q)
    BY <1>7 DEF Ready, Queued, Remains
  <2>2. m \notin back
    BY <1>7, <2>1
  <2>3. RelayOf[m] \notin s2.refused
    BY <1>5, <1>6, <1>7, <2>1, <2>2 DEF Queued, Remains
  <2>4. s2.waiting[HashOf[m]] # NoPost
    BY <1>7, <2>1, PeerPostAssumption DEF Sound, SoundBut
  <2> QED
    BY <2>1, <2>3, <2>4
<1>9. able \in SUBSET Post
  OBVIOUS
<1>10. \A m : m \notin lost
  <2>1. lost \in SUBSET Queued(s2.q) /\ \A m \in lost : s2.waiting[HashOf[m]] = NoPost
    BY PassedAreReady
  <2> HIDE DEF lost
  <2> QED
    BY <1>7, <2>1, PeerPostAssumption DEF Queued, Sound, SoundBut
<1> HIDE DEF able, lost
<1>11. s3 = s2
  BY <1>7, <1>10, NothingForgottenIsPlaced
<1> DEFINE y == Started(s2.q, gone)
<1>12. gone \in SUBSET Queued(s2.q)
  BY PassedAreReady
<1>13. SoundQueue(s2.q) /\ PlacedQueue(s2.q)
  BY <1>7 DEF Sound, SoundBut, Placed
<1>14. /\ PlacedQueue(y)
       /\ y.seq = s2.q.seq /\ y.off = s2.q.off /\ y.sending = s2.q.sending \cup gone
       /\ \A r \in Relay : s2.q.inFlight[r] <= y.inFlight[r]
       /\ \A m \in able \cap Ready(s2.q) :
            m \in gone \/ y.inFlight[RelayOf[m]] = PerRelay
       /\ \A n \in gone : \A m \in able \cap Ready(s2.q) :
            RelayOf[m] = RelayOf[n] /\ Before(s2.q, m, n) => m \in gone
  BY <1>9, <1>13, StartedIsPlaced
<1>17. gone \subseteq Ready(s2.q)
  BY DEF Passed
<1> HIDE DEF gone, s3
<1>15. Placed(t) /\ t.q = y
  BY <1>7, <1>11, <1>12, <1>14, SentIsPlaced
<1> HIDE DEF t, y
<1>16. ASSUME NEW m \in Queued(y) \ y.sending
       PROVE  y.inFlight[RelayOf[m]] = PerRelay \/ y.off[PairOf(m)] > 0
  <2>1. m \in Queued(s2.q) \ s2.q.sending /\ m \notin gone
    BY <1>14 DEF Queued
  <2>2. RelayOf[m] \in Relay /\ PairOf(m) \in Pair /\ m \in Post
    BY <2>1, PostQueueAssumption DEF Queued, PairOf, Pair
  <2>3. CASE m \in Ready(s2.q)
    BY <1>8, <1>14, <2>1, <2>3
  <2>4. CASE s2.q.off[PairOf(m)] # 0
    BY <1>13, <1>14, <2>2, <2>4 DEF PlacedQueue
  <2>5. CASE ~(s2.q.inFlight[RelayOf[m]] < PerRelay)
    <3>1. /\ y.inFlight[RelayOf[m]] <= PerRelay /\ y.inFlight[RelayOf[m]] \in Nat
          /\ s2.q.inFlight[RelayOf[m]] \in Nat /\ PerRelay \in Nat
          /\ s2.q.inFlight[RelayOf[m]] <= y.inFlight[RelayOf[m]]
      BY <1>13, <1>14, <2>2, PostQueueAssumption DEF PlacedQueue
    <3> QED
      BY <2>5, <3>1
  <2> QED
    BY <2>1, <2>3, <2>4, <2>5 DEF Ready
<1>18. Keeps(s.q, y)
  BY <1>3, <1>7, <1>14 DEF Keeps
<1>19. ASSUME NEW m \in Queued(y), NEW n \in Queued(y),
              PairOf(m) = PairOf(n), (m \in Background) = (n \in Background),
              y.seq[m] < y.seq[n], n \in y.sending \ s.q.sending
       PROVE  m \in y.sending
  <2>1. n \in gone /\ n \in Ready(s2.q)
    BY <1>3, <1>7, <1>14, <1>17, <1>19
  <2>2. RelayOf[m] = RelayOf[n] /\ Before(s2.q, m, n)
    BY <1>14, <1>19 DEF PairOf, Before
  <2>3. CASE m \in s2.q.sending
    BY <1>14, <2>3
  <2>4. CASE m \notin s2.q.sending
    <3>1. m \in Ready(s2.q)
      BY <1>14, <1>19, <2>1, <2>2, <2>4 DEF Ready, Queued
    <3> QED
      BY <1>8, <1>14, <2>1, <2>2, <3>1
  <2> QED
    BY <2>3, <2>4
<1>20. InTurn(s.q, y)
  BY <1>19 DEF InTurn
<1> QED
  BY <1>1, <1>15, <1>16, <1>18, <1>20 DEF Idle

-----------------------------------------------------------------------------
(* The end of an attempt frees its place, and stops the timer of its slot. *)
LEMMA AttemptEndIsPlaced ==
    ASSUME IsFiniteSet(Post), Apart, NEW s, Sound(s), PlacedQueue(s.q),
           NEW m \in Post, NEW kind, NEW wait \in Nat,
           \A n \in Post : s.timer[n] # NoTimer => s.timer[n].of = n,
           \A n \in s.q.sending \ {m} : s.timer[n] # NoTimer,
           s.refused \subseteq Relay, s.wire \subseteq Call
    PROVE  /\ Placed(AfterAttempt(s, m, kind, wait))
           /\ Keeps(s.q, AfterAttempt(s, m, kind, wait).q)
           /\ AfterAttempt(s, m, kind, wait).q.sending \subseteq s.q.sending
<1> DEFINE h == HashOf[m]
           slot == s.waiting[h]
           timers == [n \in Post |-> IF n = slot THEN NoTimer ELSE s.timer[n]]
           how == IF kind = "noAnswer" THEN "noAnswer" ELSE "refused"
           s0 == [q |-> s.q, waiting |-> s.waiting, timer |-> timers, row |-> s.row,
                  refused |-> s.refused, fate |-> s.fate, wire |-> s.wire]
           t == AfterAttempt(s, m, kind, wait)
<1>1. timers \in [Post -> Timer] /\ \A n \in Post : timers[n] \in {NoTimer, s.timer[n]}
  BY DEF Sound, SoundBut, Timer, NoTimer
<1>2. slot \in {m, NoPost}
  BY PeerPostAssumption DEF Sound, SoundBut, Apart
<1>3. /\ \A n \in Post : timers[n] # NoTimer => timers[n].of = n
      /\ \A n \in s.q.sending \ {m} : timers[n] # NoTimer
  BY <1>1, <1>2, PeerPostAssumption DEF PlacedQueue, Queued
<1>4. \A a \in s.wire : \E b \in s.wire : a.post = b.post
  OBVIOUS
<1> HIDE DEF timers
<1>5. Sound(s0)
  BY <1>1, <1>4, StoppingIsSound DEF Sound
<1>6. SoundQueue(s.q)
  BY DEF Sound, SoundBut
<1>7. /\ s0.q = s.q /\ s0.refused = s.refused /\ s0.wire = s.wire /\ s0.timer = timers
      /\ \A x : [s EXCEPT !.timer = timers, !.q = x] = [s0 EXCEPT !.q = x]
  <2> DEFINE s1 == [s EXCEPT !.timer = timers]
  <2>1. s1 = s0
    BY DEF Sound, SoundBut
  <2>2. \A x : [s EXCEPT !.timer = timers, !.q = x] = [s1 EXCEPT !.q = x]
    OBVIOUS
  <2> QED
    BY <2>1, <2>2
<1> HIDE DEF s0
<1>8. ASSUME NEW x, PlacedQueue(x), x.sending = s.q.sending \ {m}
      PROVE  Placed([s0 EXCEPT !.q = x]) /\ [s0 EXCEPT !.q = x].q = x
  <2> DEFINE u == [s0 EXCEPT !.q = x]
  <2>1. u.q = x /\ u.timer = timers /\ u.refused = s.refused /\ u.wire = s.wire
    BY <1>5, <1>7 DEF Sound, SoundBut
  <2> HIDE DEF u
  <2>2. Placed(u)
    BY <1>3, <1>8, <2>1 DEF Placed
  <2> QED
    BY <2>1, <2>2 DEF u
<1>9. CASE slot # NoPost /\ Retryable(kind) /\ MayRetry(s.q, m)
  <2> DEFINE x == IF kind = "busy" THEN Busied(s.q, m, wait) ELSE Silenced(s.q, m)
  <2>1. t = [s EXCEPT !.timer = timers, !.q = x]
    BY <1>9, Zenon DEF AfterAttempt, timers, slot, h
  <2>2. PlacedQueue(x) /\ x.sending = s.q.sending \ {m}
    BY <1>6, BackedOffIsPlaced
  <2>5. x.seq = s.q.seq
    <3>1. \A y \in {Busied(s.q, m, wait), Silenced(s.q, m), Reached(s.q, m)} :
              y.seq = s.q.seq
      BY <1>6, BackedOffIsSound
    <3> QED
      BY <3>1
  <2> HIDE DEF x, t
  <2>3. Placed([s0 EXCEPT !.q = x]) /\ [s0 EXCEPT !.q = x].q = x
    BY <1>8, <2>2
  <2>4. t = [s0 EXCEPT !.q = x]
    BY <1>7, <2>1
  <2> QED
    BY <2>2, <2>3, <2>4, <2>5 DEF t, Keeps
<1>10. CASE ~(slot # NoPost /\ Retryable(kind) /\ MayRetry(s.q, m))
  <2> DEFINE x == Done(s.q, {m})
             d == [s0 EXCEPT !.q = x]
             e == [s EXCEPT !.timer = timers, !.q = Done(@, {m})]
  <2>1. t = Settled(e, {h}, how)
    BY <1>10, Zenon DEF AfterAttempt, timers, slot, h
  <2>2. d = e
    BY <1>7
  <2>3. Hashes({m}) = {h} /\ {m} \in SUBSET Post
    BY DEF Hashes
  <2>4. SoundBut(d, {h}) /\ {h} \in SUBSET Hash
    <3>1. d = [s0 EXCEPT !.q = Done(@, {m})]
      BY <1>7
    <3> HIDE DEF d
    <3> QED
      BY <1>5, <2>3, <3>1, DroppedIsSoundBut, ZenonT(60)
  <2>5. /\ PlacedQueue(x) /\ x.sending = s.q.sending \ {m}
        /\ x.seq = Without(s.q.seq, {m})
    BY <1>6, DoneIsPlaced, DoneParts
  <2> HIDE DEF x
  <2>6. Placed(d) /\ d.q = x
    BY <1>8, <2>5
  <2> HIDE DEF d, e, t, how
  <2>7. Placed(t) /\ Keeps(d.q, t.q) /\ t.q.sending \subseteq d.q.sending
    BY <2>1, <2>2, <2>4, <2>6, SettledIsPlaced
  <2> QED
    BY <2>5, <2>6, <2>7 DEF t, Keeps, Without
<1> QED
  BY <1>9, <1>10

-----------------------------------------------------------------------------
(* Nobody oversleeps.                                                      *)

OnTime ==
    /\ Agree
    /\ Placed(Now)
    /\ alarm \in SUBSET Nat
    /\ NobodyOversleeps
    /\ replied \subseteq Hash
    /\ fresh \in [Post -> Nat]
    /\ crashes \in 0 .. MaxCrashes
    /\ calling \subseteq Post

LEMMA PlacedNow ==
    ASSUME Placed(Now)
    PROVE  /\ PlacedQueue(q)
           /\ \A m \in Post : timer[m] # NoTimer => timer[m].of = m
           /\ \A m \in q.sending : timer[m] # NoTimer
           /\ refused \subseteq Relay
           /\ wire \subseteq Call
BY DEF Placed, Now

LEMMA NextIsPlaced ==
    ASSUME PlacedQueue(q'),
           \A m \in Post : timer'[m] # NoTimer => timer'[m].of = m,
           \A m \in q'.sending : timer'[m] # NoTimer,
           refused' \subseteq Relay,
           wire' \subseteq Call
    PROVE  Placed(Now)'
<1> DEFINE t == Now'
<1>1. t.q = q' /\ t.timer = timer' /\ t.refused = refused' /\ t.wire = wire'
  BY DEF Now
<1> HIDE DEF t
<1>2. Placed(t)
  BY <1>1 DEF Placed
<1> QED
  BY <1>2 DEF t

(* The node wakes when whoever waits for a backoff to end may go.          *)
LEMMA AlarmIsInTime ==
    ASSUME NEW x, SoundQueue(x), PlacedQueue(x), Idle(x)
    PROVE  /\ NextWake(x) \in SUBSET Nat
           /\ \A m \in Queued(x) \ x.sending :
                \/ x.inFlight[RelayOf[m]] = PerRelay
                \/ \E t \in NextWake(x) : t <= x.off[PairOf(m)]
<1> DEFINE idle == Queued(x) \ x.sending
           offs == {x.off[PairOf(m)] : m \in idle}
           lefts == {x.left[m] : m \in {n \in idle : x.tries[n] > 0}}
           until == (offs \cup lefts) \ {0}
<1>1. NextWake(x) = IF until = {} THEN {} ELSE {Min(until)}
  BY Zenon DEF NextWake
<1>2. \A m \in idle : m \in Post /\ PairOf(m) \in Pair
  BY PostQueueAssumption DEF Queued, PairOf, Pair
<1>3. \A m \in idle : x.off[PairOf(m)] \in Nat /\ x.left[m] \in Nat
  BY <1>2 DEF SoundQueue, PlacedQueue
<1>4. until \in SUBSET Nat
  BY <1>3
<1>5. ASSUME NEW m \in idle, x.off[PairOf(m)] > 0
      PROVE  x.off[PairOf(m)] \in until
  BY <1>3, <1>5
<1> HIDE DEF until
<1>6. until # {} => Min(until) \in until /\ \A n \in until : Min(until) <= n
  BY <1>4, LeastIsLeast
<1>7. NextWake(x) \in SUBSET Nat
  BY <1>1, <1>4, <1>6
<1>8. ASSUME NEW m \in idle
      PROVE  \/ x.inFlight[RelayOf[m]] = PerRelay
             \/ \E t \in NextWake(x) : t <= x.off[PairOf(m)]
  <2>1. SUFFICES ASSUME x.off[PairOf(m)] > 0
                 PROVE  \E t \in NextWake(x) : t <= x.off[PairOf(m)]
    BY DEF Idle
  <2>2. x.off[PairOf(m)] \in until
    BY <1>5, <2>1
  <2> QED
    BY <1>1, <1>6, <2>2
<1> QED
  BY <1>7, <1>8

LEMMA BecomesOnTime ==
    ASSUME IsFiniteSet(Post), NEW STATE s, Sound(s), Placed(s), Becomes(Pumped(s))
    PROVE  /\ Placed(Now)' /\ alarm' \in SUBSET Nat /\ NobodyOversleeps'
           /\ Keeps(s.q, q') /\ InTurn(s.q, q')
<1> DEFINE t == Pumped(s)
<1>1. Sound(t) /\ Placed(t) /\ Idle(t.q) /\ Keeps(s.q, t.q) /\ InTurn(s.q, t.q)
  BY PumpIsSound, PumpIsPlaced
<1>2. /\ q' = t.q /\ timer' = t.timer /\ refused' = t.refused /\ wire' = t.wire
      /\ alarm' = NextWake(t.q)
  BY DEF Becomes
<1> HIDE DEF t
<1>3. Placed(Now)'
  BY <1>1, <1>2, NextIsPlaced DEF Placed
<1>4. SoundQueue(t.q) /\ PlacedQueue(t.q)
  BY <1>1 DEF Sound, SoundBut, Placed
<1>5. /\ alarm' \in SUBSET Nat
      /\ \A m \in Queued(q') \ q'.sending :
            \/ q'.inFlight[RelayOf[m]] = PerRelay
            \/ \E n \in alarm' : n <= q'.off[PairOf(m)]
  BY <1>1, <1>2, <1>4, AlarmIsInTime
<1>6. NobodyOversleeps'
  BY <1>5 DEF NobodyOversleeps
<1> QED
  BY <1>1, <1>2, <1>3, <1>5, <1>6

(* What a step may do to the order of the queue.                           *)
InOrder ==
    \A m, n \in Queued(q) :
        q.seq[m] < q.seq[n] =>
            /\ {m, n} \subseteq Queued(q') => q'.seq[m] < q'.seq[n]
            /\ (/\ PairOf(m) = PairOf(n)
                /\ (m \in Background) = (n \in Background)
                /\ n \in q'.sending \ q.sending)
                   => m \in q.sending \cup q'.sending \/ m \notin Queued(q')

LEMMA OrderFollows ==
    ASSUME Placed(Now)', NEW x, Keeps(x, q'), InTurn(x, q'),
           \A m \in Queued(q) : x.seq[m] # 0 => x.seq[m] = q.seq[m],
           x.sending \subseteq q.sending
    PROVE  InOrder
<1> SUFFICES ASSUME NEW m \in Queued(q), NEW n \in Queued(q), q.seq[m] < q.seq[n]
             PROVE  /\ {m, n} \subseteq Queued(q') => q'.seq[m] < q'.seq[n]
                    /\ (/\ PairOf(m) = PairOf(n)
                        /\ (m \in Background) = (n \in Background)
                        /\ n \in q'.sending \ q.sending)
                           => m \in q.sending \cup q'.sending \/ m \notin Queued(q')
  BY DEF InOrder
<1>1. m \in Post /\ n \in Post
  BY DEF Queued
<1>2. /\ m \in Queued(q') => q'.seq[m] = q.seq[m]
      /\ n \in Queued(q') => q'.seq[n] = q.seq[n]
  BY <1>1 DEF Keeps, Queued
<1>3. n \in q'.sending => n \in Queued(q')
  BY DEF Placed, PlacedQueue, Now
<1>4. ASSUME PairOf(m) = PairOf(n), (m \in Background) = (n \in Background),
             n \in q'.sending \ q.sending, m \in Queued(q')
      PROVE  m \in q'.sending
  BY <1>2, <1>3, <1>4 DEF InTurn
<1> QED
  BY <1>2, <1>4

(* A step that sends nothing.                                              *)
LEMMA OrderStays ==
    ASSUME Placed(Now)', Keeps(q, q'), q'.sending \subseteq q.sending
    PROVE  InOrder
<1>1. Keeps(q', q') /\ InTurn(q', q')
  BY DEF Keeps, InTurn
<1>2. \A m \in Queued(q) : q'.seq[m] # 0 => q'.seq[m] = q.seq[m]
  BY DEF Keeps, Queued
<1> QED
  BY <1>1, <1>2, OrderFollows

LEMMA AskOnTime ==
    ASSUME IsFiniteSet(Post), Apart, OnTime, NEW m \in Post, Ask(m)
    PROVE  OnTime' /\ InOrder
<1> DEFINE s == Asked(m)
           x == Added(q, m, Patience[m])
<1>1. /\ fate[m] = "unposted" /\ Becomes(Pumped(s))
      /\ fresh' = [fresh EXCEPT ![m] = SignatureLife]
      /\ UNCHANGED <<road, replied, crashes>>
      /\ calling' = calling \ {m}
  BY DEF Ask, Asked
<1>2. Agree' /\ Agree
  BY AskAgrees DEF OnTime
<1>3. /\ Sound(s) /\ s.q = x
      /\ s.timer = timer /\ s.refused = refused /\ s.wire = wire
  BY <1>1, <1>2, AskedIsSound
<1>4. SoundQueue(q) /\ q.seq[m] = 0 /\ PlacedQueue(q)
  BY <1>1, <1>2, SoundNow, PlacedNow DEF Agree, OnTime
<1>5. Patience[m] \in Nat
  BY PeerPostAssumption
<1>6. /\ PlacedQueue(x) /\ x.sending = q.sending
      /\ \A n \in Queued(q) : x.seq[n] = q.seq[n]
  BY <1>4, <1>5, AddedIsPlaced, AddedIsSound DEF SameWire, Queued
<1> HIDE DEF s, x
<1>7. Placed(s)
  BY <1>3, <1>6, PlacedNow DEF OnTime, Placed
<1>8. /\ Placed(Now)' /\ alarm' \in SUBSET Nat /\ NobodyOversleeps'
      /\ Keeps(x, q') /\ InTurn(x, q')
  BY <1>1, <1>3, <1>7, BecomesOnTime
<1>9. /\ replied' \subseteq Hash /\ fresh' \in [Post -> Nat]
      /\ crashes' \in 0 .. MaxCrashes /\ calling' \subseteq Post
  BY <1>1, PeerPostAssumption DEF OnTime
<1>10. InOrder
  BY <1>6, <1>8, OrderFollows
<1> QED
  BY <1>2, <1>8, <1>9, <1>10 DEF OnTime

LEMMA TimerOnTime ==
    ASSUME IsFiniteSet(Post), Apart, OnTime, NEW slot \in Post, TimerFires(slot)
    PROVE  OnTime' /\ InOrder
<1> DEFINE m == timer[slot].of
           timers == [timer EXCEPT ![slot] = NoTimer]
           calls == GivenUpCalls(m)
           s0 == [q |-> q, waiting |-> waiting, timer |-> timers, row |-> row,
                  refused |-> refused, fate |-> fate, wire |-> calls]
           s == AfterAttempt(s0, m, "noAnswer", 0)
<1>1. /\ timer[slot] # NoTimer /\ UNCHANGED outside
      /\ Becomes(Pumped(s))
  BY TimerEndsAttempt, Zenon
<1>2. Agree' /\ Agree
  BY TimerAgrees DEF OnTime
<1>3. m = slot /\ timer \in [Post -> Timer] /\ q.tries[m] > 0
  BY <1>1, <1>2, SoundNow, PlacedNow DEF OnTime, Agree
<1>4. timers \in [Post -> Timer] /\ \A n \in Post : timers[n] \in {NoTimer, timer[n]}
  BY <1>3 DEF Timer, NoTimer
<1>5. calls \subseteq Call /\ \A a \in calls : \E b \in wire : a.post = b.post
  <2>1. \A a \in Call : [a EXCEPT !.live = FALSE] \in Call
                        /\ [a EXCEPT !.live = FALSE].post = a.post
    BY DEF Call
  <2>2. wire \subseteq Call
    BY PlacedNow DEF OnTime
  <2> HIDE DEF Call
  <2> QED
    BY <2>1, <2>2 DEF GivenUpCalls
<1>6. /\ PlacedQueue(q) /\ refused \subseteq Relay
      /\ \A n \in Post : timers[n] # NoTimer => timers[n].of = n
      /\ \A n \in q.sending \ {m} : timers[n] # NoTimer
  BY <1>3, <1>4, PlacedNow DEF OnTime, PlacedQueue, Queued
<1> HIDE DEF timers, calls
<1>7. Sound(s0)
  <2>1. /\ Sound(Now)
        /\ Now.q = q /\ Now.waiting = waiting /\ Now.timer = timer /\ Now.row = row
        /\ Now.fate = fate /\ Now.wire = wire
    BY <1>2 DEF Agree, Now
  <2> QED
    BY <1>4, <1>5, <2>1, StoppingIsSound DEF Sound
<1>8. s0.q = q /\ s0.timer = timers /\ s0.refused = refused /\ s0.wire = calls
  OBVIOUS
<1> HIDE DEF s0
<1>9. Placed(s) /\ Keeps(q, s.q) /\ s.q.sending \subseteq q.sending
  <2>1. /\ PlacedQueue(s0.q) /\ s0.refused \subseteq Relay /\ s0.wire \subseteq Call
        /\ \A n \in Post : s0.timer[n] # NoTimer => s0.timer[n].of = n
        /\ \A n \in s0.q.sending \ {m} : s0.timer[n] # NoTimer
    BY <1>5, <1>6, <1>8
  <2>2. m \in Post /\ 0 \in Nat
    BY <1>3
  <2> HIDE DEF m
  <2> QED
    BY <1>7, <1>8, <2>1, <2>2, AttemptEndIsPlaced
<1>10. Sound(s)
  BY <1>3, <1>7, AttemptEndsSoundly
<1> HIDE DEF s
<1>11. /\ Placed(Now)' /\ alarm' \in SUBSET Nat /\ NobodyOversleeps'
       /\ Keeps(s.q, q') /\ InTurn(s.q, q')
  BY <1>1, <1>9, <1>10, BecomesOnTime
<1>12. InOrder
  <2>1. \A n \in Queued(q) : s.q.seq[n] # 0 => s.q.seq[n] = q.seq[n]
    BY <1>9 DEF Keeps, Queued
  <2> QED
    BY <1>9, <1>11, <2>1, OrderFollows
<1> QED
  BY <1>1, <1>2, <1>11, <1>12 DEF OnTime, outside

LEMMA RefusalOnTime ==
    ASSUME IsFiniteSet(Post), Apart, OnTime, NEW a \in wire, NEW kind, Refusal(a, kind)
    PROVE  OnTime' /\ InOrder
<1> DEFINE m == a.post
           calls == wire \ {a}
           relays == RefusingAfter(m, kind)
           s0 == [q |-> q, waiting |-> waiting, timer |-> timer, row |-> row,
                  refused |-> relays, fate |-> fate, wire |-> calls]
<1>1. PICK wait \in RetryAfter \cup {0} : Becomes(Pumped(AfterAttempt(s0, m, kind, wait)))
  BY RefusalEndsAttempt, Zenon
<1> DEFINE s == AfterAttempt(s0, m, kind, wait)
<1>2. Agree' /\ Agree /\ UNCHANGED outside /\ wait \in Nat
  <2>1. wait \in Nat
    BY PeerPostAssumption
  <2>2. UNCHANGED outside
    BY DEF Refusal
  <2> QED
    BY <2>1, <2>2, RefusalAgrees DEF OnTime
<1>3. timer \in [Post -> Timer] /\ m \in Post /\ q.tries[m] > 0
  BY <1>2, SoundNow DEF Agree
<1>4. \A n \in Post : timer[n] \in {NoTimer, timer[n]}
  OBVIOUS
<1>5. calls \subseteq Call /\ \A b \in calls : \E c \in wire : b.post = c.post
  BY PlacedNow DEF OnTime
<1>6. /\ PlacedQueue(q) /\ relays \subseteq Relay
      /\ \A n \in Post : timer[n] # NoTimer => timer[n].of = n
      /\ \A n \in q.sending \ {m} : timer[n] # NoTimer
  BY <1>3, PlacedNow, PostQueueAssumption DEF OnTime, RefusingAfter
<1> HIDE DEF calls, relays, m
<1>7. Sound(s0)
  <2>1. /\ Sound(Now)
        /\ Now.q = q /\ Now.waiting = waiting /\ Now.timer = timer /\ Now.row = row
        /\ Now.fate = fate /\ Now.wire = wire
    BY <1>2 DEF Agree, Now
  <2> QED
    BY <1>3, <1>4, <1>5, <2>1, StoppingIsSound DEF Sound
<1>8. s0.q = q /\ s0.timer = timer /\ s0.refused = relays /\ s0.wire = calls
  OBVIOUS
<1>9. Becomes(Pumped(s))
  BY <1>1 DEF s0
<1> HIDE DEF s0
<1>10. Placed(s) /\ Keeps(q, s.q) /\ s.q.sending \subseteq q.sending
  <2>1. /\ PlacedQueue(s0.q) /\ s0.refused \subseteq Relay /\ s0.wire \subseteq Call
        /\ \A n \in Post : s0.timer[n] # NoTimer => s0.timer[n].of = n
        /\ \A n \in s0.q.sending \ {m} : s0.timer[n] # NoTimer
    BY <1>5, <1>6, <1>8
  <2>2. m \in Post /\ wait \in Nat
    BY <1>2, <1>3
  <2> QED
    BY <1>7, <1>8, <2>1, <2>2, AttemptEndIsPlaced
<1>11. Sound(s)
  BY <1>3, <1>7, AttemptEndsSoundly
<1> HIDE DEF s
<1>12. /\ Placed(Now)' /\ alarm' \in SUBSET Nat /\ NobodyOversleeps'
       /\ Keeps(s.q, q') /\ InTurn(s.q, q')
  BY <1>9, <1>10, <1>11, BecomesOnTime
<1>13. InOrder
  <2>1. \A n \in Queued(q) : s.q.seq[n] # 0 => s.q.seq[n] = q.seq[n]
    BY <1>10 DEF Keeps, Queued
  <2> QED
    BY <1>10, <1>12, <2>1, OrderFollows
<1> QED
  BY <1>2, <1>12, <1>13 DEF OnTime, outside

LEMMA ReplyOnTime ==
    ASSUME IsFiniteSet(Post), Apart, OnTime, NEW h \in Hash, Reply(h)
    PROVE  OnTime' /\ InOrder
<1>1. Agree' /\ Agree
  BY ReplyAgrees DEF OnTime
<1>2. UNCHANGED <<replied, fresh, crashes, calling>>
  BY DEF Reply
<1>3. CASE waiting[h] = NoPost
  <2>1. UNCHANGED <<q, timer, alarm, refused, wire>>
    BY <1>3 DEF Reply, memory
  <2>2. Placed(Now)'
    BY <2>1, PlacedNow, NextIsPlaced DEF OnTime
  <2>3. InOrder
    BY <2>1, <2>2, OrderStays DEF Keeps
  <2> QED
    BY <1>1, <1>2, <2>1, <2>2, <2>3 DEF OnTime, NobodyOversleeps
<1>4. CASE waiting[h] # NoPost
  <2> DEFINE kept == [Now EXCEPT !.q = Heard(h)]
             s == Settled(kept, {h}, Told(h))
  <2>1. /\ Becomes(Pumped(s)) /\ Sound(kept)
        /\ kept.q = Heard(h) /\ kept.timer = timer /\ kept.refused = refused
        /\ kept.wire = wire /\ kept.q.seq = q.seq
    BY <1>1, <1>4, ReplySettles, Zenon
  <2> HIDE DEF kept
  <2>2. waiting[h] \in Post /\ SoundQueue(q) /\ PlacedQueue(q)
    BY <1>1, <1>4, SoundNow, PlacedNow DEF Agree, OnTime
  <2>3. PlacedQueue(Heard(h)) /\ Heard(h).sending = q.sending
    <3>1. 0 \in Nat
      OBVIOUS
    <3>2. /\ PlacedQueue(Reached(q, PairOf(waiting[h])))
          /\ Reached(q, PairOf(waiting[h])).sending = q.sending
      BY <2>2, <3>1, BackedOffIsPlaced
    <3> QED
      BY <2>2, <3>2 DEF Heard
  <2>4. Placed(kept)
    BY <2>1, <2>3, PlacedNow DEF OnTime, Placed
  <2>5. SoundBut(kept, {h}) /\ {h} \in SUBSET Hash /\ Told(h) \in Ending
    BY <2>1 DEF Sound, SoundBut, Told, Ending
  <2>6. /\ Sound(s) /\ Placed(s)
        /\ Keeps(kept.q, s.q) /\ s.q.sending \subseteq kept.q.sending
    BY <2>4, <2>5, SettledIsSound, SettledIsPlaced
  <2> HIDE DEF s
  <2>7. /\ Placed(Now)' /\ alarm' \in SUBSET Nat /\ NobodyOversleeps'
        /\ Keeps(s.q, q') /\ InTurn(s.q, q')
    BY <2>1, <2>6, BecomesOnTime
  <2>8. InOrder
    <3>1. \A n \in Queued(q) : s.q.seq[n] # 0 => s.q.seq[n] = q.seq[n]
      BY <2>1, <2>6 DEF Keeps, Queued
    <3> QED
      BY <2>1, <2>3, <2>6, <2>7, <3>1, OrderFollows
  <2> QED
    BY <1>1, <1>2, <2>7, <2>8 DEF OnTime
<1> QED
  BY <1>3, <1>4

LEMMA AcceptanceOnTime ==
    ASSUME Apart, OnTime, NEW a \in wire, CallAccepted(a)
    PROVE  OnTime' /\ InOrder
<1> DEFINE slot == waiting[HashOf[a.post]]
<1>1. /\ wire' \subseteq wire
      /\ UNCHANGED <<q, refused, alarm, replied, fresh, crashes, calling>>
      /\ \/ timer' = timer
         \/ \E g \in Grants :
              slot # NoPost /\ timer' = [timer EXCEPT ![slot] = [of |-> a.post, left |-> g]]
  BY DEF CallAccepted, outside
<1>2. Agree /\ Agree'
  BY AcceptanceAgrees DEF OnTime
<1>3. a.post \in Post /\ timer \in [Post -> Timer] /\ slot \in {a.post, NoPost}
  BY <1>2, SoundNow, PeerPostAssumption DEF Agree, Apart
<1>4. \A m \in Post : timer[m] # NoTimer => timer[m].of = m
  BY PlacedNow DEF OnTime
<1>5. \A m \in Post : /\ timer'[m] # NoTimer => timer'[m].of = m
                      /\ timer[m] # NoTimer => timer'[m] # NoTimer
  <2>1. ASSUME NEW g \in Grants,
               slot # NoPost, timer' = [timer EXCEPT ![slot] = [of |-> a.post, left |-> g]],
               NEW m \in Post
        PROVE  /\ timer'[m] # NoTimer => timer'[m].of = m
               /\ timer[m] # NoTimer => timer'[m] # NoTimer
    <3> DEFINE u == [of |-> a.post, left |-> g]
    <3>1. u.of = a.post /\ NoTimer.of = NoPost
      BY DEF NoTimer
    <3>2. u # NoTimer
      BY <1>3, <3>1, PeerPostAssumption
    <3> HIDE DEF u
    <3>3. timer' = [timer EXCEPT ![slot] = u]
      BY <2>1 DEF u
    <3>4. slot = a.post
      BY <1>3, <2>1
    <3> HIDE DEF slot
    <3> QED
      BY <1>3, <1>4, <3>1, <3>2, <3>3, <3>4
  <2> QED
    BY <1>1, <1>4, <2>1
<1>6. Placed(Now)'
  BY <1>1, <1>5, PlacedNow, NextIsPlaced DEF OnTime, PlacedQueue, Queued
<1>7. InOrder
  BY <1>1, <1>6, OrderStays DEF Keeps
<1> QED
  BY <1>1, <1>2, <1>6, <1>7 DEF OnTime, NobodyOversleeps

LEMMA WakeUpOnTime ==
    ASSUME IsFiniteSet(Post), OnTime, WakeUp
    PROVE  OnTime' /\ InOrder
<1>1. Becomes(Pumped(Now)) /\ UNCHANGED outside
  BY DEF WakeUp
<1>2. Agree' /\ Sound(Now) /\ Placed(Now)
  BY WakeUpAgrees DEF OnTime, Agree
<1>3. Now.q = q
  BY DEF Now
<1>4. /\ Placed(Now)' /\ alarm' \in SUBSET Nat /\ NobodyOversleeps'
      /\ Keeps(q, q') /\ InTurn(q, q')
  BY <1>1, <1>2, <1>3, BecomesOnTime
<1>5. InOrder
  BY <1>4, OrderFollows
<1> QED
  BY <1>1, <1>2, <1>4, <1>5 DEF OnTime, outside

LEMMA OthersOnTime ==
    ASSUME OnTime,
           \/ \E m \in Post : Admit(m) \/ Unsealed(m)
           \/ \E a \in wire : RelayTakes(a)
           \/ \E h \in Hash : TargetReplies(h) \/ RouteEnds(h)
           \/ \E r \in Relay : Reseated(r)
    PROVE  OnTime' /\ InOrder
<1>1. Agree'
  BY OthersAgree DEF OnTime
<1>2. /\ UNCHANGED <<q, timer, alarm, fresh, crashes>>
      /\ refused' \subseteq refused /\ replied' \subseteq Hash /\ calling' \subseteq Post
  BY DEF OnTime, Admit, Unsealed, RelayTakes, TargetReplies, RouteEnds, Reseated, memory, outside
<1>3. wire' \subseteq Call
  <2>1. wire \subseteq Call /\ \A a \in Call : [a EXCEPT !.taken = TRUE] \in Call
    BY PlacedNow DEF OnTime, Call
  <2> HIDE DEF Call
  <2> QED
    BY <2>1 DEF Admit, Unsealed, RelayTakes, TargetReplies, RouteEnds, Reseated, outside
<1>4. Placed(Now)'
  BY <1>2, <1>3, PlacedNow, NextIsPlaced DEF OnTime
<1>5. InOrder
  BY <1>2, <1>4, OrderStays DEF Keeps
<1> QED
  BY <1>1, <1>2, <1>4, <1>5 DEF OnTime, NobodyOversleeps

LEMMA TickOnTime ==
    ASSUME OnTime, Tick
    PROVE  OnTime' /\ InOrder
<1>1. /\ q' = Aged(q, 1) /\ timer' = [m \in Post |-> AgedTimer(timer[m])]
      /\ alarm' = {Later(n, 1) : n \in alarm}
      /\ fresh' = [m \in Post |-> Later(fresh[m], 1)]
      /\ UNCHANGED <<refused, wire, replied, crashes, calling>>
  BY DEF Tick
<1>2. Agree' /\ SoundQueue(q) /\ PlacedQueue(q) /\ timer \in [Post -> Timer]
  BY TickAgrees, SoundNow, PlacedNow DEF OnTime, Agree
<1>3. /\ PlacedQueue(q') /\ q'.seq = q.seq /\ q'.off = LaterOff(q, 1)
      /\ q'.sending = q.sending /\ q'.inFlight = q.inFlight
  BY <1>1, <1>2, AgedIsPlaced, AgedParts
<1>4. /\ \A u \in Timer : AgedTimer(u).of = u.of
      /\ AgedTimer(NoTimer) = NoTimer
  BY DEF AgedTimer, Timer
<1>5. \A m \in Post : /\ timer'[m].of = timer[m].of
                      /\ timer'[m] = NoTimer <=> timer[m] = NoTimer
  <2>1. NoTimer.of = NoPost
    BY DEF NoTimer
  <2>2. \A m \in Post : timer[m] # NoTimer => timer[m].of # NoPost
    BY PlacedNow, PeerPostAssumption DEF OnTime
  <2> QED
    BY <1>1, <1>2, <1>4, <2>1, <2>2
<1>6. Placed(Now)'
  BY <1>1, <1>3, <1>5, PlacedNow, NextIsPlaced DEF OnTime, PlacedQueue, Queued
<1>7. alarm' \in SUBSET Nat /\ fresh' \in [Post -> Nat]
  BY <1>1 DEF OnTime, Later
<1>8. ASSUME NEW m \in Queued(q') \ q'.sending
      PROVE  \/ q'.inFlight[RelayOf[m]] = PerRelay
             \/ \E t \in alarm' : t <= q'.off[PairOf(m)]
  <2>1. m \in Queued(q) \ q.sending /\ PairOf(m) \in Pair
    BY <1>3, PostQueueAssumption DEF Queued, PairOf, Pair
  <2>2. CASE q.inFlight[RelayOf[m]] = PerRelay
    BY <1>3, <2>2
  <2>3. ASSUME NEW t \in alarm, t <= q.off[PairOf(m)]
        PROVE  \E n \in alarm' : n <= q'.off[PairOf(m)]
    <3>1. t \in Nat /\ q.off[PairOf(m)] \in Nat
      BY <1>2, <2>1 DEF OnTime, PlacedQueue
    <3>2. q'.off[PairOf(m)] = Later(q.off[PairOf(m)], 1)
      BY <1>3, <2>1 DEF LaterOff
    <3>3. Later(t, 1) <= Later(q.off[PairOf(m)], 1)
      BY <2>3, <3>1 DEF Later
    <3> QED
      BY <1>1, <3>2, <3>3
  <2> QED
    BY <2>1, <2>2, <2>3 DEF OnTime, NobodyOversleeps
<1>9. NobodyOversleeps'
  BY <1>8 DEF NobodyOversleeps
<1>10. InOrder
  BY <1>3, <1>6, OrderStays DEF Keeps
<1> QED
  BY <1>1, <1>2, <1>6, <1>7, <1>9, <1>10 DEF OnTime

LEMMA CrashOnTime ==
    ASSUME IsFiniteSet(Post), OnTime, Crash
    PROVE  OnTime' /\ InOrder
<1>1. PICK down \in DownTimes :
          /\ q' = Restored(Aged(q, down), {row[h] : h \in Hash} \ {NoPost})
          /\ fresh' = [m \in Post |-> Later(fresh[m], down)]
  BY DEF Crash
<1>2. /\ timer' = [m \in Post |-> NoTimer] /\ alarm' = {0}
      /\ refused' = {} /\ wire' = {} /\ replied' = replied
      /\ crashes < MaxCrashes /\ crashes' = crashes + 1 /\ calling' = {}
  BY DEF Crash
<1>3. Agree' /\ SoundQueue(q) /\ PlacedQueue(q) /\ down \in Nat
  BY CrashAgrees, SoundNow, PlacedNow, PeerPostAssumption DEF OnTime, Agree
<1>4. /\ SoundQueue(Aged(q, down)) /\ PlacedQueue(Aged(q, down))
      /\ Aged(q, down).seq = q.seq
  BY <1>3, AgedParts, AgedIsPlaced
<1>5. PlacedQueue(q') /\ q'.sending = {}
  BY <1>1, <1>4, RestoredIsPlaced
<1>6. Placed(Now)'
  BY <1>2, <1>5, NextIsPlaced
<1>7. fresh' \in [Post -> Nat] /\ crashes' \in 0 .. MaxCrashes
  BY <1>1, <1>2, <1>3, PeerPostAssumption DEF OnTime, Later
<1>8. \A m \in Queued(q') : PairOf(m) \in Pair
  BY PostQueueAssumption DEF Queued, PairOf, Pair
<1>9. \A m \in Queued(q') : 0 <= q'.off[PairOf(m)]
  BY <1>5, <1>8 DEF PlacedQueue
<1>10. NobodyOversleeps'
  BY <1>2, <1>9 DEF NobodyOversleeps
<1>11. Keeps(q, q')
  <2> DEFINE held == {row[h] : h \in Hash} \ {NoPost}
  <2>1. q' = Restored(Aged(q, down), held)
    BY <1>1
  <2> HIDE DEF held
  <2>2. Restored(Aged(q, down), held).seq = Without(Aged(q, down).seq, Post \ held)
    BY <1>4, RestoredParts, ZenonT(40)
  <2> QED
    BY <1>4, <2>1, <2>2 DEF Keeps, Without
<1>12. InOrder
  BY <1>5, <1>6, <1>11, OrderStays
<1> QED
  BY <1>2, <1>3, <1>6, <1>7, <1>10, <1>12 DEF OnTime

-----------------------------------------------------------------------------
(* The theorems.                                                           *)

LEMMA InitAgrees == Init => Agree
<1> SUFFICES ASSUME Init PROVE Agree
  OBVIOUS
<1>1. SoundQueue(q) /\ \A m \in Post : q.seq[m] = 0 /\ q.tries[m] = 0
  BY DEF Init, EmptyQueue, SoundQueue
<1>2. /\ waiting = [h \in Hash |-> NoPost] /\ row = waiting
      /\ timer \in [Post -> Timer] /\ \A m \in Post : timer[m] = NoTimer
      /\ fate \in [Post -> Fate] /\ \A m \in Post : fate[m] = "unposted"
      /\ wire = {} /\ \A h \in Hash : road[h] = "none"
      /\ road \in [Hash -> {"none", "asked", "answered"}]
  BY DEF Init, NoTimer, Timer, Fate
<1>3. Sound(Now)
  BY <1>1, <1>2 DEF Sound, SoundBut, Now
<1> QED
  BY <1>2, <1>3 DEF Agree

LEMMA StepAgrees ==
    ASSUME Apart, Agree, [Next]_vars
    PROVE  Agree' /\ Honest /\ replied \subseteq replied'
<1>1. CASE UNCHANGED vars
  <2>1. UNCHANGED <<q, waiting, timer, row, fate, refused, wire, road, replied>>
    BY <1>1 DEF vars, memory, outside
  <2>2. Sound(Now)'
    BY <2>1, SoundNow, NextIsSound DEF Agree
  <2> QED
    BY <2>1, <2>2 DEF Agree, Honest
<1>2. ASSUME NEW m \in Post, Ask(m)
      PROVE  Agree' /\ Honest /\ replied \subseteq replied'
  BY <1>2, AskAgrees DEF Ask
<1>3. ASSUME NEW m \in Post, TimerFires(m)
      PROVE  Agree' /\ Honest /\ replied \subseteq replied'
  BY <1>3, TimerAgrees DEF TimerFires, outside
<1>4. ASSUME NEW a \in wire, CallRefused(a)
      PROVE  Agree' /\ Honest /\ replied \subseteq replied'
  <2>1. PICK kind \in Answers \cup {"final", "lost"} : Refusal(a, kind)
    BY <1>4 DEF CallRefused
  <2> QED
    BY <2>1, RefusalAgrees DEF Refusal, outside
<1>5. ASSUME NEW a \in wire, CallAccepted(a)
      PROVE  Agree' /\ Honest /\ replied \subseteq replied'
  BY <1>5, AcceptanceAgrees DEF CallAccepted, outside
<1>6. ASSUME WakeUp
      PROVE  Agree' /\ Honest /\ replied \subseteq replied'
  BY <1>6, WakeUpAgrees DEF WakeUp, outside
<1>7. ASSUME \/ \E m \in Post : Admit(m) \/ Unsealed(m)
             \/ \E a \in wire : RelayTakes(a)
             \/ \E h \in Hash : TargetReplies(h) \/ RouteEnds(h)
             \/ \E r \in Relay : Reseated(r)
      PROVE  Agree' /\ Honest /\ replied \subseteq replied'
  BY <1>7, OthersAgree
<1>8. ASSUME NEW h \in Hash, Reply(h)
      PROVE  Agree' /\ Honest /\ replied \subseteq replied'
  BY <1>8, ReplyAgrees DEF Reply
<1>9. ASSUME Tick
      PROVE  Agree' /\ Honest /\ replied \subseteq replied'
  BY <1>9, TickAgrees DEF Tick
<1>10. ASSUME Crash
       PROVE  Agree' /\ Honest /\ replied \subseteq replied'
  BY <1>10, CrashAgrees DEF Crash
<1> QED
  BY <1>1, <1>2, <1>3, <1>4, <1>5, <1>6, <1>7, <1>8, <1>9, <1>10 DEF Next

LEMMA AgreesAlways == ASSUME Apart PROVE Spec => []Agree
<1>1. Agree /\ [Next]_vars => Agree'
  BY StepAgrees
<1> QED
  BY <1>1, InitAgrees, PTL DEF Spec, Safe

(* Whatever happens to the node, its queue, its slots and the rows that a  *)
(* restart reads agree on what is open (peerPost.js, persistOut, settle).  *)
THEOREM OpenIsAlwaysKept == ASSUME Apart PROVE Spec => []OpenIsKept
<1>1. Agree => OpenIsKept
  BY SoundNow, PeerPostAssumption DEF Agree, OpenIsKept, RowsAreOpen, OpenIsQueued, Queued
<1> QED
  BY <1>1, AgreesAlways, PTL

(* No retry is made after its patience is spent (peerPost.js, pump).       *)
THEOREM PatienceBoundsRetries == ASSUME Apart PROVE Spec => NoAttemptPastPatience
<1>1. ASSUME Agree, [Next]_vars
      PROVE  [\A m \in Post : (q'.tries[m] > q.tries[m] /\ q.tries[m] > 0) => q'.left[m] > 0]_vars
  <2>1. Honest /\ q.tries \in [Post -> Nat]
    BY <1>1, StepAgrees, SoundNow DEF Agree
  <2> QED
    BY <2>1 DEF Honest
<1> QED
  BY <1>1, AgreesAlways, PTL DEF NoAttemptPastPatience, Spec, Safe

(* Nothing goes to a relay that refused this node, not even what was       *)
(* queued before it did (peerPost.js, sendAttempt).                        *)
THEOREM RefusingIsLeftAlone == ASSUME Apart PROVE Spec => NothingToRefusing
<1>1. ASSUME Agree, [Next]_vars
      PROVE  [\A m \in Post : q'.tries[m] > q.tries[m] => RelayOf[m] \notin refused']_vars
  <2>1. Honest /\ q.tries \in [Post -> Nat]
    BY <1>1, StepAgrees, SoundNow DEF Agree
  <2> QED
    BY <2>1 DEF Honest
<1> QED
  BY <1>1, AgreesAlways, PTL DEF NothingToRefusing, Spec, Safe

(* Every message ends at most once, and how it ended is true: the part of  *)
(* the promise that needs no fairness (peerPost.js, settle).               *)
THEOREM EndsAreTrue == ASSUME Apart PROVE Spec => Promise!Safe
<1>1. Init => Promise!Init
  BY DEF Init, EmptyQueue, Promise!Init
<1>2. ASSUME Agree, [Next]_vars
      PROVE  [Promise!Step]_(Promise!deliveryVars)
  <2>1. Agree' /\ Honest /\ replied \subseteq replied'
    BY <1>2, StepAgrees
  <2>2. q.tries \in [Post -> Nat] /\ \A m \in Post : fate[m] = "unposted" => q.tries[m] = 0
    BY <1>2, SoundNow DEF Agree
  <2>3. fate' \in [Post -> Fate]
    BY <2>1 DEF Agree, Sound, SoundBut, Now
  <2>4. {m \in Post : q.tries[m] > 0} \subseteq {m \in Post : q'.tries[m] > 0}
    BY <2>1, <2>2 DEF Honest
  <2>5. \A m \in Post : q'.tries[m] > 0 /\ ~(q.tries[m] > 0) => fate'[m] = "open"
    BY <2>1, <2>2 DEF Honest
  <2>6. Promise!Step
    BY <2>1, <2>3, <2>4, <2>5 DEF Promise!Step, Honest
  <2> QED
    BY <2>6
<1> QED
  BY <1>1, <1>2, AgreesAlways, PTL DEF Spec, Safe, Promise!Safe

LEMMA InitOnTime == ASSUME IsFiniteSet(Post), Init PROVE OnTime
<1>1. /\ \A m \in Post : q.seq[m] = 0
      /\ q.sending = {} /\ \A r \in Relay : q.inFlight[r] = 0
      /\ q.inFlight \in [Relay -> Nat] /\ {q.off, q.last, q.step} \subseteq [Pair -> Nat]
  BY DEF Init, EmptyQueue
<1>2. \A r \in Relay : q.inFlight[r] = Cardinality(On(q.sending, r)) /\ q.inFlight[r] <= PerRelay
  <2>1. \A r \in Relay : On(q.sending, r) = {}
    BY <1>1 DEF On
  <2>2. \A r \in Relay : Cardinality(On(q.sending, r)) = 0
    BY <2>1, FS_EmptySet
  <2>3. 0 <= PerRelay
    BY PostQueueAssumption
  <2> QED
    BY <1>1, <2>2, <2>3
<1>3. PlacedQueue(q)
  BY <1>1, <1>2 DEF PlacedQueue, Queued
<1>4. Placed(Now)
  <2>1. /\ Now.q = q /\ Now.timer = timer /\ Now.refused = {} /\ Now.wire = {}
        /\ \A m \in Post : timer[m] = NoTimer
    BY DEF Now, Init
  <2> QED
    BY <1>1, <1>3, <2>1 DEF Placed
<1>5. /\ Queued(q) = {}
      /\ alarm \in SUBSET Nat /\ replied \subseteq Hash
      /\ fresh \in [Post -> Nat] /\ crashes \in 0 .. MaxCrashes /\ calling \subseteq Post
  BY <1>1, PeerPostAssumption DEF Init, Queued
<1> QED
  BY <1>4, <1>5, InitAgrees DEF OnTime, NobodyOversleeps

LEMMA StepOnTime ==
    ASSUME IsFiniteSet(Post), Apart, OnTime, [Next]_vars
    PROVE  OnTime' /\ InOrder
<1>1. CASE UNCHANGED vars
  <2>1. UNCHANGED <<q, timer, alarm, refused, wire, replied, fresh, crashes, calling>>
    BY <1>1 DEF vars, memory, outside
  <2>2. Agree' /\ Placed(Now)'
    BY <2>1, StepAgrees, PlacedNow, NextIsPlaced DEF OnTime
  <2>3. InOrder
    BY <2>1, <2>2, OrderStays DEF Keeps
  <2> QED
    BY <2>1, <2>2, <2>3 DEF OnTime, NobodyOversleeps
<1>2. ASSUME NEW m \in Post, Ask(m) PROVE OnTime' /\ InOrder
  BY <1>2, AskOnTime
<1>3. ASSUME NEW m \in Post, TimerFires(m) PROVE OnTime' /\ InOrder
  BY <1>3, TimerOnTime
<1>4. ASSUME NEW a \in wire, CallRefused(a) PROVE OnTime' /\ InOrder
  BY <1>4, RefusalOnTime DEF CallRefused
<1>5. ASSUME NEW a \in wire, CallAccepted(a) PROVE OnTime' /\ InOrder
  BY <1>5, AcceptanceOnTime
<1>6. ASSUME WakeUp PROVE OnTime' /\ InOrder
  BY <1>6, WakeUpOnTime
<1>7. ASSUME \/ \E m \in Post : Admit(m) \/ Unsealed(m)
             \/ \E a \in wire : RelayTakes(a)
             \/ \E h \in Hash : TargetReplies(h) \/ RouteEnds(h)
             \/ \E r \in Relay : Reseated(r)
      PROVE  OnTime' /\ InOrder
  BY <1>7, OthersOnTime
<1>8. ASSUME NEW h \in Hash, Reply(h) PROVE OnTime' /\ InOrder
  BY <1>8, ReplyOnTime
<1>9. ASSUME Tick PROVE OnTime' /\ InOrder
  BY <1>9, TickOnTime
<1>10. ASSUME Crash PROVE OnTime' /\ InOrder
  BY <1>10, CrashOnTime
<1> QED
  BY <1>1, <1>2, <1>3, <1>4, <1>5, <1>6, <1>7, <1>8, <1>9, <1>10 DEF Next

LEMMA OnTimeAlways ==
    ASSUME Apart, IsFiniteSet(Post) PROVE Spec => []OnTime
<1>1. Init => OnTime
  BY InitOnTime
<1>2. OnTime /\ [Next]_vars => OnTime'
  BY StepOnTime
<1> QED
  BY <1>1, <1>2, PTL DEF Spec, Safe

(* The queue of a relay never stops: every place that is taken is taken by *)
(* an attempt whose timer runs, no relay has more of them than it may, and *)
(* the node wakes no later than anybody who could go (postQueue.js,        *)
(* stopped and nextWakeMs; peerPost.js, wake).                             *)
THEOREM QueueAlwaysGoesOn ==
    ASSUME Apart, IsFiniteSet(Post) PROVE Spec => []QueueGoesOn
<1>1. ASSUME OnTime PROVE QueueGoesOn
  <2>1. Agree /\ PlacedQueue(q)
    BY <1>1, PlacedNow DEF OnTime
  <2>2. TypeOK
    BY <1>1, <2>1, SoundNow, PlacedNow
       DEF OnTime, Agree, SoundQueue, PlacedQueue, Queued, TypeOK, Timer, Call, Fate
  <2>3. ASSUME NEW m \in q.sending
        PROVE  waiting[HashOf[m]] # NoPost /\ timer[waiting[HashOf[m]]].of = m
    <3>1. m \in Post /\ fate[m] = "open" /\ timer[m].of = m
      BY <1>1, <2>1, SoundNow, PlacedNow DEF OnTime, Agree, PlacedQueue, Queued
    <3> QED
      BY <2>1, <3>1, SoundNow, PeerPostAssumption DEF Agree
  <2>4. PlacesComeBack
    BY <2>1, <2>3 DEF PlacesComeBack, PlacedQueue
  <2> QED
    BY <1>1, <2>2, <2>4 DEF OnTime, QueueGoesOn
<1> QED
  BY <1>1, OnTimeAlways, PTL

(* A message keeps the place it was given when it was asked for, and of    *)
(* two of one class to one peer the older is on the wire, or gone, when    *)
(* the younger goes (postQueue.js, order and eligible).                    *)
THEOREM OlderAlwaysGoesFirst ==
    ASSUME Apart, IsFiniteSet(Post) PROVE Spec => OlderGoesFirst
<1>1. ASSUME OnTime, [Next]_vars
      PROVE  [InOrder]_vars
  BY <1>1, StepOnTime
<1>2. [InOrder]_vars => [\A m, n \in Queued(q) :
        q.seq[m] < q.seq[n] =>
            /\ {m, n} \subseteq Queued(q') => q'.seq[m] < q'.seq[n]
            /\ (/\ PairOf(m) = PairOf(n)
                /\ (m \in Background) = (n \in Background)
                /\ n \in q'.sending \ q.sending)
                   => m \in q.sending \cup q'.sending \/ m \notin Queued(q')]_vars
  BY DEF InOrder
<1> QED
  BY <1>1, <1>2, OnTimeAlways, PTL DEF OlderGoesFirst, Spec, Safe
=============================================================================
