--------------------------- MODULE ArrivalsProofs ---------------------------
(***************************************************************************)
(* However many messages, senders and pages there are, whatever the window *)
(* and the floor, and wherever the process ends: a message is acted on     *)
(* once, what the replay index forgets is too old to be let in, a receipt  *)
(* is true, and a page is shown a message once, which waits until then.    *)
(***************************************************************************)
EXTENDS Arrivals, FiniteSetTheorems, SequenceTheorems, TLAPS

(* The part of the state that the proofs are about.                        *)
Shape ==
    /\ now \in Nat
    /\ index \subseteq Message
    /\ acted \in [Message -> Nat]
    /\ kept \in [Message -> {Nothing, "ignored", "delivered"}]
    /\ told \in [Message -> SUBSET {"card", "unsealed", "wontOpen", "ahead", "old",
                                    "again", "receipt"}]
    /\ owed \subseteq Message

(* What was acted on was filed.                                            *)
ActedIsFiled == \A m \in Message : acted[m] > 0 => kept[m] # Nothing

OnceInv ==
    /\ Shape
    /\ ActedIsFiled
    /\ ActedOnce
    /\ ForgottenIsTooOld
    /\ ReceiptIsTrue

(* The index after rows are written keeps whatever is young enough to be   *)
(* let in.                                                                 *)
LEMMA WrittenKeepsTheYoung ==
    ASSUME now \in Nat, NEW S \in SUBSET Message, NEW rows, Written(S, rows)
    PROVE  /\ index' \subseteq S
           /\ \A m \in S : m \in index' \/ At[m] < now - Window
  <1>1. At \in [Message -> Nat] /\ Window \in Nat /\ Backlog \in Nat /\ Window <= Backlog
    BY ArrivalsAssumption
  <1>2. index' = Young(S) \/ index' = S
    BY DEF Written
  <1>. QED  BY <1>1, <1>2 DEF Young

(* A new message was not filed before: what was is in the index, or too    *)
(* old.                                                                    *)
LEMMA NewIsNotFiled ==
    ASSUME OnceInv, NEW m \in Message, Verdict(m) = "new"
    PROVE  kept[m] = Nothing /\ acted[m] = 0
  <1>1. m \notin index /\ ~(At[m] < now - Window)
    BY DEF Verdict, Seen
  <1>2. kept[m] = Nothing
    BY <1>1 DEF OnceInv, ForgottenIsTooOld
  <1>. QED  BY <1>2 DEF OnceInv, ActedIsFiled, Shape

LEMMA InitOnce == Init => OnceInv
  BY DEF Init, OnceInv, Shape, ActedIsFiled, ActedOnce, ForgottenIsTooOld, ReceiptIsTrue, Nothing

LEMMA NextOnce == OnceInv /\ [Next]_vars => OnceInv'
  <1>. SUFFICES ASSUME OnceInv, [Next]_vars PROVE OnceInv'
    OBVIOUS
  <1>. USE DEF OnceInv, Shape, ActedIsFiled, ActedOnce, ForgottenIsTooOld, ReceiptIsTrue
  <1>0. At \in [Message -> Nat] /\ Window \in Nat
    BY ArrivalsAssumption
  <1>1. ASSUME NEW m \in Message, TurnedAway(m) PROVE OnceInv'
    <2>1. Written(index, <<>>) /\ now' = now
      BY <1>1 DEF TurnedAway
    <2>2. index' \subseteq index /\ \A n \in index : n \in index' \/ At[n] < now - Window
      BY <2>1, WrittenKeepsTheYoung
    <2>3. Verdict(m) \in {"card", "unsealed", "wontOpen", "ahead", "old", "again"}
      BY <1>1 DEF TurnedAway, Verdict, Seen
    <2>. QED  BY <1>0, <1>1, <2>2, <2>3 DEF TurnedAway, ram
  <1>2. ASSUME NEW m \in Message, Delivered(m) PROVE OnceInv'
    <2>1. PICK rows : Written(index \cup {m}, rows)
      BY <1>2 DEF Delivered
    <2>2. index' \subseteq index \cup {m}
          /\ \A n \in index \cup {m} : n \in index' \/ At[n] < now - Window
      BY <2>1, WrittenKeepsTheYoung
    <2>3. kept[m] = Nothing /\ acted[m] = 0
      BY <1>2, NewIsNotFiled DEF Delivered
    <2>. QED  BY <1>0, <1>2, <2>2, <2>3 DEF Delivered, Nothing
  <1>3. ASSUME NEW m \in Message, Ignored(m) PROVE OnceInv'
    <2>1. Written(index \cup {m}, <<>>)
      BY <1>3 DEF Ignored
    <2>2. index' \subseteq index \cup {m}
          /\ \A n \in index \cup {m} : n \in index' \/ At[n] < now - Window
      BY <2>1, WrittenKeepsTheYoung
    <2>. QED  BY <1>0, <1>3, <2>2 DEF Ignored, Nothing
  <1>4. ASSUME NEW m \in Message, OverFloor(m) PROVE OnceInv'
    <2>1. Written(index \cup {m}, <<>>)
      BY <1>4 DEF OverFloor
    <2>2. index' \subseteq index \cup {m}
          /\ \A n \in index \cup {m} : n \in index' \/ At[n] < now - Window
      BY <2>1, WrittenKeepsTheYoung
    <2>. QED  BY <1>0, <1>4, <2>2 DEF OverFloor, ram
  <1>5. ASSUME NEW m \in Message, Death(m) PROVE OnceInv'
    <2>1. PICK last \in Deaths :
            /\ Written(index \cup {m}, IF last = "logged" THEN <<Arrival(m)>> ELSE <<>>)
            /\ kept' = [kept EXCEPT ![m] = IF last = "logged" THEN "delivered" ELSE @]
      BY <1>5 DEF Death
    <2>2. index' \subseteq index \cup {m}
          /\ \A n \in index \cup {m} : n \in index' \/ At[n] < now - Window
      BY <2>1, WrittenKeepsTheYoung
    <2>3. kept[m] = Nothing /\ acted[m] = 0
      BY <1>5, NewIsNotFiled DEF Death
    <2>4. /\ kept' \in [Message -> {Nothing, "ignored", "delivered"}]
          /\ \A n \in Message : n # m => kept'[n] = kept[n]
      BY <2>1
    <2>. QED  BY <1>0, <1>5, <2>2, <2>3, <2>4 DEF Death
  <1>6. ASSUME NEW m \in Message, Receipt(m) PROVE OnceInv'
    BY <1>6 DEF Receipt, disc
  <1>7. ASSUME NEW p \in Page, Subscribe(p) PROVE OnceInv'
    <2>1. PICK rows : Written(index, rows)
      BY <1>7 DEF Subscribe
    <2>2. index' \subseteq index /\ \A n \in index : n \in index' \/ At[n] < now - Window
      BY <2>1, WrittenKeepsTheYoung
    <2>. QED  BY <1>0, <1>7, <2>2 DEF Subscribe
  <1>8. ASSUME NEW p \in Page, Unsubscribe(p) PROVE OnceInv'
    BY <1>8 DEF Unsubscribe, disc
  <1>9. ASSUME NEW s \in Sender, BookChanges(s) PROVE OnceInv'
    BY <1>9 DEF BookChanges, disc, ram
  <1>10. CASE Tick
    BY <1>0, <1>10 DEF Tick, disc
  <1>11. CASE Restart
    BY <1>11 DEF Restart, disc
  <1>12. CASE UNCHANGED vars
    BY <1>12 DEF vars, disc, ram
  <1>. QED
    BY <1>1, <1>2, <1>3, <1>4, <1>5, <1>6, <1>7, <1>8, <1>9, <1>10, <1>11, <1>12 DEF Next

LEMMA OnceInvariant == Spec => []OnceInv
  BY InitOnce, NextOnce, PTL DEF Spec

(* However often a message comes and wherever the process ends, the node's *)
(* own listeners are given it once at most (peerPost.js, onRequest).       *)
THEOREM ActedOnceAlways == Spec => []ActedOnce
  BY OnceInvariant, PTL DEF OnceInv

(* A message that the node filed or dropped stays in the replay index until*)
(* it is too old to be let in (nodeStore.js, replay).                      *)
THEOREM ForgottenIsTooOldAlways == Spec => []ForgottenIsTooOld
  BY OnceInvariant, PTL DEF OnceInv

(* A receipt is only sent for what was filed or dropped by the front door  *)
(* (peerPost.js, onRequest).                                               *)
THEOREM ReceiptIsTrueAlways == Spec => []ReceiptIsTrue
  BY OnceInvariant, PTL DEF OnceInv
-----------------------------------------------------------------------------
(* The log, and who was shown what is in it.                               *)

Row == [of : Message, mark : BOOLEAN, at : Nat]

(* A message has one arrival row, and its marks stand after it; who was    *)
(* shown a message has marked its row, and a mark says that somebody was.  *)
OneArrival(rows) ==
    \A i, j \in DOMAIN rows :
        ~rows[i].mark /\ ~rows[j].mark /\ rows[i].of = rows[j].of => i = j

RowsAreFiled(rows, filed) == \A i \in DOMAIN rows : filed[rows[i].of] # Nothing

ShownIsMarked(rows, seen) ==
    \A i \in DOMAIN rows :
        ~rows[i].mark /\ seen[rows[i].of] > 0
            => \E j \in DOMAIN rows : j > i /\ rows[j].mark /\ rows[j].of = rows[i].of

MarksAreShown(rows, seen) == \A i \in DOMAIN rows : rows[i].mark => seen[rows[i].of] > 0

RowsTell(rows, filed, seen) ==
    /\ OneArrival(rows)
    /\ RowsAreFiled(rows, filed)
    /\ ShownIsMarked(rows, seen)
    /\ MarksAreShown(rows, seen)

ShownIsFiled == \A m \in Message : shown[m] > 0 => kept[m] # Nothing

PageInv ==
    /\ OnceInv
    /\ log \in Seq(Row)
    /\ shown \in [Message -> Nat]
    /\ RowsTell(log, kept, shown)
    /\ ShownIsFiled
    /\ ShownOnce

(* The oldest rows go first: what is left of a log tells what it told.     *)
LEMMA ShedKeeps ==
    ASSUME log \in Seq(Row), NEW rows \in Seq(Row), NEW S, Written(S, rows),
           NEW filed, NEW seen, RowsTell(log \o rows, filed, seen)
    PROVE  log' \in Seq(Row) /\ RowsTell(log', filed, seen)
  <1>. DEFINE all == log \o rows
  <1>1. all \in Seq(Row) /\ Len(all) \in Nat /\ DOMAIN all = 1 .. Len(all)
    BY ConcatProperties, LenProperties
  <1>2. RowsTell(all, filed, seen)
    OBVIOUS
  <1>3. PICK gone \in 0 .. Len(all) : log' = SubSeq(all, gone + 1, Len(all))
    BY DEF Written
  <1>. HIDE DEF all
  <1>4. /\ log' \in Seq(Row)
        /\ DOMAIN log' = 1 .. (Len(all) - gone)
        /\ \A i \in DOMAIN log' : log'[i] = all[i + gone]
    BY <1>1, <1>3, SubSeqProperties
  <1>5. \A i \in DOMAIN log' : i + gone \in DOMAIN all
    BY <1>1, <1>4
  <1>6. OneArrival(log')
    <2>. SUFFICES ASSUME NEW i \in DOMAIN log', NEW j \in DOMAIN log',
                         ~log'[i].mark, ~log'[j].mark, log'[i].of = log'[j].of
                  PROVE  i = j
      BY DEF OneArrival
    <2>1. i + gone = j + gone
      BY <1>2, <1>4, <1>5 DEF RowsTell, OneArrival
    <2>. QED  BY <1>4, <2>1
  <1>7. RowsAreFiled(log', filed)
    BY <1>2, <1>4, <1>5 DEF RowsTell, RowsAreFiled
  <1>8. ShownIsMarked(log', seen)
    <2>. SUFFICES ASSUME NEW i \in DOMAIN log', ~log'[i].mark, seen[log'[i].of] > 0
                  PROVE  \E j \in DOMAIN log' : j > i /\ log'[j].mark /\ log'[j].of = log'[i].of
      BY DEF ShownIsMarked
    <2>1. PICK j \in DOMAIN all : j > i + gone /\ all[j].mark /\ all[j].of = log'[i].of
      BY <1>2, <1>4, <1>5 DEF RowsTell, ShownIsMarked
    <2>2. j - gone \in DOMAIN log' /\ j - gone > i /\ log'[j - gone] = all[j]
      BY <1>1, <1>4, <2>1
    <2>. QED  BY <2>1, <2>2
  <1>9. MarksAreShown(log', seen)
    BY <1>2, <1>4, <1>5 DEF RowsTell, MarksAreShown
  <1>. QED  BY <1>4, <1>6, <1>7, <1>8, <1>9 DEF RowsTell

(* Nothing is written but what was there, and more may be filed.           *)
LEMMA NoRows ==
    ASSUME log \in Seq(Row), NEW S, Written(S, <<>>), NEW filed, NEW seen,
           RowsTell(log, filed, seen)
    PROVE  log' \in Seq(Row) /\ RowsTell(log', filed, seen)
  <1>1. log \o <<>> = log /\ <<>> \in Seq(Row)
    BY ConcatEmptySeq
  <1>. QED  BY <1>1, ShedKeeps

(* The row of a message that the log does not know, and its mark.          *)
LEMMA NewRow ==
    ASSUME log \in Seq(Row), NEW m \in Message, now \in Nat,
           NEW filed \in [Message -> {Nothing, "ignored", "delivered"}],
           NEW seen \in [Message -> Nat],
           RowsTell(log, kept, shown), kept[m] = Nothing,
           \A n \in Message \ {m} : filed[n] = kept[n] /\ seen[n] = shown[n],
           filed[m] # Nothing
    PROVE  /\ <<Arrival(m)>> \in Seq(Row)
           /\ <<Arrival(m), Taken(m)>> \in Seq(Row)
           /\ seen[m] = 0 => RowsTell(log \o <<Arrival(m)>>, filed, seen)
           /\ seen[m] > 0 => RowsTell(log \o <<Arrival(m), Taken(m)>>, filed, seen)
  <1>. DEFINE a == Arrival(m)
              t == Taken(m)
              one == log \o <<a>>
              two == log \o <<a, t>>
              n == Len(log)
  <1>1. a \in Row /\ t \in Row /\ ~a.mark /\ t.mark /\ a.of = m /\ t.of = m
    BY DEF Arrival, Taken, Row
  <1>. HIDE DEF a, t
  <1>2. n \in Nat /\ DOMAIN log = 1 .. n
    BY LenProperties
  <1>3. /\ DOMAIN one = 1 .. (n + 1)
        /\ \A i \in 1 .. n : one[i] = log[i]
        /\ one[n + 1] = a
    BY <1>1, <1>2
  <1>4. /\ DOMAIN two = 1 .. (n + 2)
        /\ \A i \in 1 .. n : two[i] = log[i]
        /\ two[n + 1] = a
        /\ two[n + 2] = t
    BY <1>1, <1>2
  <1>5. \A i \in 1 .. n : log[i] \in Row /\ log[i].of \in Message /\ log[i].of # m
    <2>. SUFFICES ASSUME NEW i \in 1 .. n
                  PROVE  log[i] \in Row /\ log[i].of \in Message /\ log[i].of # m
      OBVIOUS
    <2>1. log[i] \in Row
      BY <1>2
    <2>2. kept[log[i].of] # Nothing
      BY <1>2 DEF RowsTell, RowsAreFiled
    <2>. QED  BY <2>1, <2>2 DEF Row
  <1>6. ASSUME seen[m] = 0 PROVE RowsTell(one, filed, seen)
    <2>. HIDE DEF one, n
    <2>1. OneArrival(one)
      <3>. SUFFICES ASSUME NEW i \in DOMAIN one, NEW j \in DOMAIN one,
                           ~one[i].mark, ~one[j].mark, one[i].of = one[j].of
                    PROVE  i = j
        BY DEF OneArrival
      <3>1. i \in 1 .. (n + 1) /\ j \in 1 .. (n + 1)
        BY <1>1, <1>2, <1>3
      <3>2. CASE i \in 1 .. n /\ j \in 1 .. n
        BY <1>2, <1>3, <3>2 DEF RowsTell, OneArrival
      <3>3. CASE i = n + 1 /\ j \in 1 .. n
        BY <1>1, <1>3, <1>5, <3>3
      <3>4. CASE i \in 1 .. n /\ j = n + 1
        BY <1>1, <1>3, <1>5, <3>4
      <3>. QED  BY <1>2, <3>1, <3>2, <3>3, <3>4
    <2>2. RowsAreFiled(one, filed)
      BY <1>1, <1>2, <1>3, <1>5 DEF RowsTell, RowsAreFiled
    <2>3. ShownIsMarked(one, seen)
      <3>. SUFFICES ASSUME NEW i \in DOMAIN one, ~one[i].mark, seen[one[i].of] > 0
                    PROVE  \E j \in DOMAIN one : j > i /\ one[j].mark /\ one[j].of = one[i].of
        BY DEF ShownIsMarked
      <3>1. i # n + 1
        BY <1>1, <1>3, <1>6
      <3>2. i \in 1 .. n
        BY <1>2, <1>3, <3>1
      <3>3. ~log[i].mark /\ shown[log[i].of] > 0
        BY <1>3, <1>5, <3>2
      <3>4. PICK j \in 1 .. n : j > i /\ log[j].mark /\ log[j].of = log[i].of
        BY <1>2, <3>2, <3>3 DEF RowsTell, ShownIsMarked
      <3>5. j \in DOMAIN one /\ one[j] = log[j] /\ one[i] = log[i]
        BY <1>2, <1>3, <3>2
      <3>. QED  BY <3>4, <3>5
    <2>4. MarksAreShown(one, seen)
      BY <1>1, <1>2, <1>3, <1>5 DEF RowsTell, MarksAreShown
    <2>. QED  BY <2>1, <2>2, <2>3, <2>4 DEF RowsTell
  <1>7. ASSUME seen[m] > 0 PROVE RowsTell(two, filed, seen)
    <2>. HIDE DEF two, n
    <2>1. OneArrival(two)
      <3>. SUFFICES ASSUME NEW i \in DOMAIN two, NEW j \in DOMAIN two,
                           ~two[i].mark, ~two[j].mark, two[i].of = two[j].of
                    PROVE  i = j
        BY DEF OneArrival
      <3>1. i \in 1 .. (n + 1) /\ j \in 1 .. (n + 1)
        BY <1>1, <1>2, <1>4
      <3>2. CASE i \in 1 .. n /\ j \in 1 .. n
        BY <1>2, <1>4, <3>2 DEF RowsTell, OneArrival
      <3>3. CASE i = n + 1 /\ j \in 1 .. n
        BY <1>1, <1>4, <1>5, <3>3
      <3>4. CASE i \in 1 .. n /\ j = n + 1
        BY <1>1, <1>4, <1>5, <3>4
      <3>. QED  BY <1>2, <3>1, <3>2, <3>3, <3>4
    <2>2. RowsAreFiled(two, filed)
      BY <1>1, <1>2, <1>4, <1>5 DEF RowsTell, RowsAreFiled
    <2>3. ShownIsMarked(two, seen)
      <3>. SUFFICES ASSUME NEW i \in DOMAIN two, ~two[i].mark, seen[two[i].of] > 0
                    PROVE  \E j \in DOMAIN two : j > i /\ two[j].mark /\ two[j].of = two[i].of
        BY DEF ShownIsMarked
      <3>1. i \in 1 .. (n + 1)
        BY <1>1, <1>2, <1>4
      <3>2. CASE i = n + 1
        <4>1. n + 2 \in DOMAIN two /\ n + 2 > i
          BY <1>2, <1>4, <3>2
        <4>. QED  BY <1>1, <1>4, <3>2, <4>1
      <3>3. CASE i \in 1 .. n
        <4>1. ~log[i].mark /\ shown[log[i].of] > 0
          BY <1>4, <1>5, <3>3
        <4>2. PICK j \in 1 .. n : j > i /\ log[j].mark /\ log[j].of = log[i].of
          BY <1>2, <3>3, <4>1 DEF RowsTell, ShownIsMarked
        <4>3. j \in DOMAIN two /\ two[j] = log[j] /\ two[i] = log[i]
          BY <1>2, <1>4, <3>3, SMTT(30)
        <4>. QED  BY <4>2, <4>3
      <3>. QED  BY <1>2, <3>1, <3>2, <3>3
    <2>4. MarksAreShown(two, seen)
      BY <1>1, <1>2, <1>4, <1>5, <1>7 DEF RowsTell, MarksAreShown
    <2>. QED  BY <2>1, <2>2, <2>3, <2>4 DEF RowsTell
  <1>. QED  BY <1>1, <1>6, <1>7 DEF a, t

(* What waits for a page: one row of a message at most, and of none that   *)
(* somebody was shown.                                                     *)
LEMMA UntakenIsUnseen ==
    ASSUME PageInv
    PROVE  /\ Untaken \subseteq DOMAIN log
           /\ IsFiniteSet(Untaken) /\ Cardinality(Untaken) \in Nat
           /\ \A i \in Untaken : log[i].of \in Message /\ shown[log[i].of] = 0
           /\ \A i, j \in Untaken : log[i].of = log[j].of => i = j
  <1>1. Untaken \subseteq DOMAIN log /\ DOMAIN log = 1 .. Len(log) /\ Len(log) \in Nat
    BY LenProperties DEF PageInv, Untaken
  <1>2. IsFiniteSet(Untaken) /\ Cardinality(Untaken) \in Nat
    <2>1. IsFiniteSet(1 .. Len(log))
      BY <1>1, FS_Interval
    <2>2. IsFiniteSet(Untaken)
      BY <1>1, <2>1, FS_Subset
    <2>. QED  BY <2>2, FS_CardinalityType
  <1>3. ASSUME NEW i \in Untaken PROVE log[i].of \in Message /\ shown[log[i].of] = 0
    <2>1. log[i] \in Row
      BY <1>1, <1>3 DEF PageInv
    <2>2. ~(shown[log[i].of] > 0)
      BY <1>1, <1>3 DEF PageInv, RowsTell, ShownIsMarked, Untaken
    <2>. QED  BY <2>1, <2>2 DEF Row, PageInv
  <1>4. \A i, j \in Untaken : log[i].of = log[j].of => i = j
    BY <1>1 DEF PageInv, RowsTell, OneArrival, Untaken
  <1>. QED  BY <1>1, <1>2, <1>3, <1>4

(* What is shown after the backlog was handed over.                        *)
LEMMA BacklogShown ==
    ASSUME PageInv, NEW m \in Message
    PROVE  /\ \A i \in Untaken : log[i].of = m =>
                Cardinality({j \in Untaken : log[j].of = m}) = 1
           /\ (\A i \in Untaken : log[i].of # m) =>
                Cardinality({j \in Untaken : log[j].of = m}) = 0
  <1>1. ASSUME NEW i \in Untaken, log[i].of = m
        PROVE  Cardinality({j \in Untaken : log[j].of = m}) = 1
    <2>1. {j \in Untaken : log[j].of = m} = {i}
      BY <1>1, UntakenIsUnseen
    <2>. QED  BY <2>1, FS_Singleton
  <1>2. ASSUME \A i \in Untaken : log[i].of # m
        PROVE  Cardinality({j \in Untaken : log[j].of = m}) = 0
    <2>1. {j \in Untaken : log[j].of = m} = {}
      BY <1>2
    <2>. QED  BY <2>1, FS_EmptySet
  <1>. QED  BY <1>1, <1>2

(* A page takes the backlog: the marks that are written, and who has been  *)
(* shown what.                                                             *)
LEMMA BacklogTaken ==
    ASSUME PageInv, NEW order \in OldestFirst(Untaken), NEW seen,
           seen = [m \in Message |-> shown[m] + Cardinality({i \in Untaken : log[i].of = m})]
    PROVE  /\ [i \in DOMAIN order |-> Taken(log[order[i]].of)] \in Seq(Row)
           /\ RowsTell(log \o [i \in DOMAIN order |-> Taken(log[order[i]].of)], kept, seen)
           /\ seen \in [Message -> Nat]
           /\ \A m \in Message : seen[m] <= 1 /\ (seen[m] > 0 => kept[m] # Nothing)
  <1>. DEFINE marks == [i \in DOMAIN order |-> Taken(log[order[i]].of)]
              all == log \o marks
              n == Len(log)
              k == Cardinality(Untaken)
  <1>1. /\ log \in Seq(Row) /\ n \in Nat /\ DOMAIN log = 1 .. n
        /\ k \in Nat /\ Untaken \subseteq 1 .. n
    BY LenProperties, UntakenIsUnseen DEF PageInv
  <1>2. /\ DOMAIN order = 1 .. k
        /\ \A i \in 1 .. k : order[i] \in Untaken
        /\ \A w \in Untaken : \E i \in 1 .. k : order[i] = w
    BY DEF OldestFirst, Surjection
  <1>3. \A i \in 1 .. k : marks[i] = Taken(log[order[i]].of)
    BY <1>2
  <1>4. \A i \in 1 .. k : /\ marks[i] \in Row
                          /\ marks[i].mark
                          /\ marks[i].of = log[order[i]].of
    BY <1>2, <1>3, UntakenIsUnseen DEF Taken, Row, PageInv, OnceInv, Shape
  <1>5. marks \in [1 .. k -> Row]
    BY <1>2, <1>4
  <1>6. marks \in Seq(Row) /\ Len(marks) = k
    BY <1>1, <1>5
  <1>. HIDE DEF marks
  <1>7. /\ DOMAIN all = 1 .. (n + k)
        /\ \A i \in 1 .. n : all[i] = log[i]
        /\ \A i \in 1 .. k : all[n + i] = marks[i]
    BY <1>1, <1>6
  <1>8. \A i \in 1 .. (n + k) : i \in 1 .. n \/ (i - n \in 1 .. k /\ all[i] = marks[i - n])
    BY <1>1, <1>7
  <1>9. /\ seen \in [Message -> Nat]
        /\ \A m \in Message : seen[m] \in {0, 1}
        /\ \A m \in Message : seen[m] > 0 => shown[m] > 0 \/ \E w \in Untaken : log[w].of = m
        /\ \A m \in Message : shown[m] > 0 => seen[m] > 0
        /\ \A w \in Untaken : seen[log[w].of] > 0
    <2>1. ASSUME NEW m \in Message, NEW w \in Untaken, log[w].of = m
          PROVE  seen[m] = 1
      BY <2>1, BacklogShown, UntakenIsUnseen
    <2>2. ASSUME NEW m \in Message, \A w \in Untaken : log[w].of # m
          PROVE  seen[m] = shown[m] /\ shown[m] \in {0, 1}
      BY <2>2, BacklogShown DEF PageInv, ShownOnce
    <2>3. \A m \in Message : seen[m] \in {0, 1}
      BY <2>1, <2>2
    <2>4. seen \in [Message -> Nat]
      BY <2>3
    <2>5. \A m \in Message : shown[m] > 0 => seen[m] > 0
      BY <2>1, <2>2
    <2>6. \A m \in Message : seen[m] > 0 => shown[m] > 0 \/ \E w \in Untaken : log[w].of = m
      BY <2>2
    <2>. QED  BY <2>1, <2>3, <2>4, <2>5, <2>6, UntakenIsUnseen
  <1>. HIDE DEF all, n, k
  <1>10. OneArrival(all)
    <2>. SUFFICES ASSUME NEW i \in DOMAIN all, NEW j \in DOMAIN all,
                         ~all[i].mark, ~all[j].mark, all[i].of = all[j].of
                  PROVE  i = j
      BY DEF OneArrival
    <2>1. i \in 1 .. n /\ j \in 1 .. n
      BY <1>4, <1>7, <1>8
    <2>. QED  BY <1>1, <1>7, <2>1 DEF PageInv, RowsTell, OneArrival
  <1>11. RowsAreFiled(all, kept)
    <2>. SUFFICES ASSUME NEW i \in DOMAIN all PROVE kept[all[i].of] # Nothing
      BY DEF RowsAreFiled
    <2>1. CASE i \in 1 .. n
      BY <1>1, <1>7, <2>1 DEF PageInv, RowsTell, RowsAreFiled
    <2>2. CASE i - n \in 1 .. k /\ all[i] = marks[i - n]
      <3>1. all[i].of = log[order[i - n]].of /\ order[i - n] \in 1 .. n
        BY <1>1, <1>2, <1>4, <2>2
      <3>. QED  BY <1>1, <3>1 DEF PageInv, RowsTell, RowsAreFiled
    <2>. QED  BY <1>7, <1>8, <2>1, <2>2
  <1>12. ShownIsMarked(all, seen)
    <2>. SUFFICES ASSUME NEW i \in DOMAIN all, ~all[i].mark, seen[all[i].of] > 0
                  PROVE  \E j \in DOMAIN all : j > i /\ all[j].mark /\ all[j].of = all[i].of
      BY DEF ShownIsMarked
    <2>1. i \in 1 .. n /\ all[i] = log[i]
      BY <1>4, <1>7, <1>8
    <2>2. log[i] \in Row /\ log[i].of \in Message
      <3>1. log[i] \in Row
        BY <1>1, <2>1
      <3>. QED  BY <3>1 DEF Row
    <2>3. CASE shown[log[i].of] > 0
      <3>1. PICK j \in 1 .. n : j > i /\ log[j].mark /\ log[j].of = log[i].of
        BY <1>1, <2>1, <2>3 DEF PageInv, RowsTell, ShownIsMarked
      <3>2. j \in DOMAIN all /\ all[j] = log[j]
        BY <1>1, <1>7
      <3>. QED  BY <2>1, <3>1, <3>2
    <2>4. CASE \E w \in Untaken : log[w].of = log[i].of
      <3>1. PICK w \in Untaken : log[w].of = log[i].of
        BY <2>4
      <3>2. PICK p \in 1 .. k : order[p] = w
        BY <1>2
      <3>3. n + p \in DOMAIN all /\ n + p > i /\ all[n + p] = marks[p]
        BY <1>1, <1>7, <2>1
      <3>. QED  BY <1>4, <2>1, <3>1, <3>2, <3>3
    <2>. QED  BY <1>9, <2>1, <2>2, <2>3, <2>4
  <1>13. MarksAreShown(all, seen)
    <2>. SUFFICES ASSUME NEW i \in DOMAIN all, all[i].mark PROVE seen[all[i].of] > 0
      BY DEF MarksAreShown
    <2>1. CASE i \in 1 .. n
      <3>0. log[i] \in Row /\ all[i] = log[i]
        BY <1>1, <1>7, <2>1
      <3>1. log[i].mark /\ log[i].of \in Message
        BY <3>0 DEF Row
      <3>2. shown[log[i].of] > 0
        BY <1>1, <2>1, <3>1 DEF PageInv, RowsTell, MarksAreShown
      <3>. QED  BY <1>9, <3>0, <3>1, <3>2
    <2>2. CASE i - n \in 1 .. k /\ all[i] = marks[i - n]
      <3>1. all[i].of = log[order[i - n]].of /\ order[i - n] \in Untaken
        BY <1>2, <1>4, <2>2
      <3>. QED  BY <1>9, <3>1
    <2>. QED  BY <1>7, <1>8, <2>1, <2>2
  <1>14. \A m \in Message : seen[m] <= 1 /\ (seen[m] > 0 => kept[m] # Nothing)
    <2>1. \A w \in Untaken : kept[log[w].of] # Nothing
      BY <1>1 DEF PageInv, RowsTell, RowsAreFiled
    <2>. QED  BY <1>9, <2>1 DEF PageInv, ShownIsFiled
  <1>15. RowsTell(all, kept, seen)
    BY <1>10, <1>11, <1>12, <1>13 DEF RowsTell
  <1>. QED  BY <1>6, <1>9, <1>14, <1>15 DEF all, marks

LEMMA InitPage == Init => PageInv
  BY InitOnce, EmptySeq DEF Init, PageInv, RowsTell, OneArrival, RowsAreFiled, ShownIsMarked,
                            MarksAreShown, ShownIsFiled, ShownOnce

(* Nothing is written, or nothing but what the log held: the cases in which*)
(* a row is never new.                                                     *)
LEMMA QuietKeepsPage ==
    ASSUME PageInv, OnceInv', shown' = shown,
           \/ log' = log
           \/ \E S : Written(S, <<>>),
           \A m \in Message : kept[m] # Nothing => kept'[m] # Nothing
    PROVE  PageInv'
  <1>. DEFINE filed == kept'
  <1>1. RowsTell(log, filed, shown)
    <2>1. \A i \in DOMAIN log : log[i].of \in Message
      <3>1. \A i \in DOMAIN log : log[i] \in Row
        BY ElementOfSeq, LenProperties DEF PageInv
      <3>. QED  BY <3>1 DEF Row
    <2>. QED  BY <2>1 DEF PageInv, RowsTell, RowsAreFiled
  <1>. HIDE DEF filed
  <1>2. log' \in Seq(Row) /\ RowsTell(log', filed, shown)
    BY <1>1, NoRows DEF PageInv
  <1>. QED  BY <1>2 DEF PageInv, ShownIsFiled, ShownOnce, filed

LEMMA DeliveredKeepsPage ==
    ASSUME PageInv, OnceInv', NEW m \in Message, Delivered(m)
    PROVE  PageInv'
  <1>. DEFINE filed == kept'
              seen == shown'
  <1>1. OnceInv /\ now \in Nat /\ kept[m] = Nothing
    BY NewIsNotFiled DEF Delivered, PageInv, OnceInv, Shape
  <1>2. shown[m] = 0
    BY <1>1 DEF PageInv, ShownIsFiled
  <1>3. /\ filed = [kept EXCEPT ![m] = "delivered"]
        /\ seen = [shown EXCEPT ![m] = IF pages = {} THEN @ ELSE @ + 1]
    BY DEF Delivered
  <1>4. /\ filed \in [Message -> {Nothing, "ignored", "delivered"}]
        /\ filed[m] # Nothing
        /\ \A n \in Message \ {m} : filed[n] = kept[n] /\ seen[n] = shown[n]
        /\ seen \in [Message -> Nat]
        /\ seen[m] = IF pages = {} THEN 0 ELSE 1
    BY <1>1, <1>2, <1>3 DEF PageInv, OnceInv, Shape, Nothing
  <1>. HIDE DEF filed, seen
  <1>5. /\ <<Arrival(m)>> \in Seq(Row)
        /\ <<Arrival(m), Taken(m)>> \in Seq(Row)
        /\ seen[m] = 0 => RowsTell(log \o <<Arrival(m)>>, filed, seen)
        /\ seen[m] > 0 => RowsTell(log \o <<Arrival(m), Taken(m)>>, filed, seen)
    BY <1>1, <1>4, NewRow DEF PageInv
  <1>6. log' \in Seq(Row) /\ RowsTell(log', filed, seen)
    <2>1. CASE pages = {}
      <3>1. Written(index \cup {m}, <<Arrival(m)>>)
        BY <2>1 DEF Delivered
      <3>2. RowsTell(log \o <<Arrival(m)>>, filed, seen)
        BY <1>4, <1>5, <2>1
      <3>. QED  BY <1>5, <3>1, <3>2, ShedKeeps DEF PageInv
    <2>2. CASE pages # {}
      <3>1. Written(index \cup {m}, <<Arrival(m), Taken(m)>>)
        BY <2>2 DEF Delivered
      <3>2. RowsTell(log \o <<Arrival(m), Taken(m)>>, filed, seen)
        BY <1>4, <1>5, <2>2
      <3>. QED  BY <1>5, <3>1, <3>2, ShedKeeps DEF PageInv
    <2>. QED  BY <2>1, <2>2
  <1>7. \A n \in Message : seen[n] <= 1 /\ (seen[n] > 0 => filed[n] # Nothing)
    BY <1>4 DEF PageInv, ShownIsFiled, ShownOnce
  <1>. QED  BY <1>4, <1>6, <1>7 DEF PageInv, ShownIsFiled, ShownOnce, filed, seen

LEMMA DeathKeepsPage ==
    ASSUME PageInv, OnceInv', NEW m \in Message, Death(m)
    PROVE  PageInv'
  <1>1. PICK last \in Deaths :
            /\ Written(index \cup {m}, IF last = "logged" THEN <<Arrival(m)>> ELSE <<>>)
            /\ kept' = [kept EXCEPT ![m] = IF last = "logged" THEN "delivered" ELSE @]
    BY DEF Death
  <1>2. OnceInv /\ now \in Nat /\ kept[m] = Nothing /\ shown' = shown
    BY NewIsNotFiled DEF Death, PageInv, OnceInv, Shape
  <1>3. shown[m] = 0
    BY <1>2 DEF PageInv, ShownIsFiled
  <1>4. CASE last # "logged"
    BY <1>1, <1>2, <1>4, QuietKeepsPage DEF PageInv, OnceInv, Shape
  <1>5. CASE last = "logged"
    <2>. DEFINE filed == kept'
    <2>1. /\ filed \in [Message -> {Nothing, "ignored", "delivered"}]
          /\ filed[m] # Nothing
          /\ \A n \in Message \ {m} : filed[n] = kept[n]
      BY <1>1, <1>2, <1>5 DEF PageInv, OnceInv, Shape, Nothing
    <2>. HIDE DEF filed
    <2>2. <<Arrival(m)>> \in Seq(Row) /\ RowsTell(log \o <<Arrival(m)>>, filed, shown)
      BY <1>2, <1>3, <2>1, NewRow DEF PageInv
    <2>3. Written(index \cup {m}, <<Arrival(m)>>)
      BY <1>1, <1>5
    <2>4. log' \in Seq(Row) /\ RowsTell(log', filed, shown)
      BY <2>2, <2>3, ShedKeeps DEF PageInv
    <2>. QED  BY <1>2, <1>3, <2>1, <2>4 DEF PageInv, ShownIsFiled, ShownOnce, filed
  <1>. QED  BY <1>4, <1>5

LEMMA SubscribeKeepsPage ==
    ASSUME PageInv, OnceInv', NEW p \in Page, Subscribe(p)
    PROVE  PageInv'
  <1>. DEFINE seen == shown'
  <1>1. PICK order \in OldestFirst(Untaken) :
            Written(index, [i \in DOMAIN order |-> Taken(log[order[i]].of)])
    BY DEF Subscribe
  <1>2. seen = [m \in Message |-> shown[m] + Cardinality({i \in Untaken : log[i].of = m})]
        /\ kept' = kept
    BY DEF Subscribe
  <1>. HIDE DEF seen
  <1>. DEFINE marks == [i \in DOMAIN order |-> Taken(log[order[i]].of)]
  <1>3. /\ marks \in Seq(Row)
        /\ RowsTell(log \o marks, kept, seen)
        /\ seen \in [Message -> Nat]
        /\ \A m \in Message : seen[m] <= 1 /\ (seen[m] > 0 => kept[m] # Nothing)
    BY <1>2, BacklogTaken
  <1>4. Written(index, marks)
    BY <1>1
  <1>. HIDE DEF marks
  <1>5. log' \in Seq(Row) /\ RowsTell(log', kept, seen)
    BY <1>3, <1>4, ShedKeeps DEF PageInv
  <1>. QED  BY <1>2, <1>3, <1>5 DEF PageInv, ShownIsFiled, ShownOnce, seen

LEMMA NextPage == PageInv /\ [Next]_vars => PageInv'
  <1>. SUFFICES ASSUME PageInv, [Next]_vars PROVE PageInv'
    OBVIOUS
  <1>0. OnceInv' /\ kept \in [Message -> {Nothing, "ignored", "delivered"}]
    BY NextOnce DEF PageInv, OnceInv, Shape
  <1>1. ASSUME NEW m \in Message, TurnedAway(m) PROVE PageInv'
    BY <1>0, <1>1, QuietKeepsPage DEF TurnedAway
  <1>2. ASSUME NEW m \in Message, Delivered(m) PROVE PageInv'
    BY <1>0, <1>2, DeliveredKeepsPage
  <1>3. ASSUME NEW m \in Message, Ignored(m) PROVE PageInv'
    <2>1. \A n \in Message : kept[n] # Nothing => kept'[n] # Nothing
      BY <1>0, <1>3 DEF Ignored, Nothing
    <2>. QED  BY <1>0, <1>3, <2>1, QuietKeepsPage DEF Ignored
  <1>4. ASSUME NEW m \in Message, OverFloor(m) PROVE PageInv'
    BY <1>0, <1>4, QuietKeepsPage DEF OverFloor
  <1>5. ASSUME NEW m \in Message, Death(m) PROVE PageInv'
    BY <1>0, <1>5, DeathKeepsPage
  <1>6. ASSUME NEW m \in Message, Receipt(m) PROVE PageInv'
    BY <1>0, <1>6, QuietKeepsPage DEF Receipt, disc
  <1>7. ASSUME NEW p \in Page, Subscribe(p) PROVE PageInv'
    BY <1>0, <1>7, SubscribeKeepsPage
  <1>8. ASSUME NEW p \in Page, Unsubscribe(p) PROVE PageInv'
    BY <1>0, <1>8, QuietKeepsPage DEF Unsubscribe, disc
  <1>9. ASSUME NEW s \in Sender, BookChanges(s) PROVE PageInv'
    BY <1>0, <1>9, QuietKeepsPage DEF BookChanges, disc
  <1>10. CASE Tick
    BY <1>0, <1>10, QuietKeepsPage DEF Tick, disc
  <1>11. CASE Restart
    BY <1>0, <1>11, QuietKeepsPage DEF Restart, disc
  <1>12. CASE UNCHANGED vars
    BY <1>0, <1>12, QuietKeepsPage DEF vars, disc
  <1>. QED
    BY <1>1, <1>2, <1>3, <1>4, <1>5, <1>6, <1>7, <1>8, <1>9, <1>10, <1>11, <1>12 DEF Next

LEMMA PageInvariant == Spec => []PageInv
  BY InitPage, NextPage, PTL DEF Spec

(* A page is given a message on one occasion, however often it came, which *)
(* rows were shed and wherever the process ended (arrivals.js, subscribe). *)
THEOREM ShownOnceAlways == Spec => []ShownOnce
  BY PageInvariant, PTL DEF PageInv

(* What was filed and no page has seen still waits for one, as long as its *)
(* row is young and in the log (arrivals.js, waiting).                     *)
THEOREM WaitsForAPageAlways == Spec => []WaitsForAPage
  <1>1. PageInv => WaitsForAPage
    <2>. SUFFICES ASSUME PageInv, NEW m \in Message, shown[m] = 0,
                         NEW i \in DOMAIN log, log[i].of = m, log[i].at > now - Backlog
                  PROVE  i \in Untaken
      BY DEF WaitsForAPage
    <2>1. \A j \in DOMAIN log : log[j].mark => log[j].of # m
      BY DEF PageInv, RowsTell, MarksAreShown
    <2>. QED  BY <2>1 DEF Untaken
  <1>. QED  BY <1>1, PageInvariant, PTL

=============================================================================
