-------------------------- MODULE NodeStreamProofs --------------------------
(***************************************************************************)
(* Proofs about the two ends of a stream at the node: what the picture of  *)
(* PresenceNode holds, and how the loop of SseClient keeps its stream.     *)
(*                                                                         *)
(* The picture is right once a stream is quiet.  Until then the line still *)
(* carries what will make it right: the last word about a removed member   *)
(* is "gone" (GoneIsLast), and a contact who is connected is on the        *)
(* picture, or the last word about him is "present", or the answer that    *)
(* is to come names him (OnIsComing).  Streams says so of every stream,    *)
(* and that the question of a stream has one answer at most (OneQuestion). *)
(***************************************************************************)
EXTENDS PresenceNode, SseClient, FiniteSetTheorems, SequenceTheorems, TLAPS

-----------------------------------------------------------------------------
(* What is on a line.                                                      *)

IsWord(l, k, i) == l[i].kind = "presence" /\ l[i].key = k

Silent(l, k) == \A i \in DOMAIN l : ~IsWord(l, k, i)

LastWord(l, k, w) ==
    \E i \in DOMAIN l :
        /\ IsWord(l, k, i)
        /\ l[i].word = w
        /\ \A j \in DOMAIN l : j > i => ~IsWord(l, k, j)

(* The answer to the question of the stream that is open.                  *)
IsNew(l, i) == l[i].kind = "answer" /\ l[i].new

NoneNew(l) == \A i \in DOMAIN l : ~IsNew(l, i)

OneNew(l) == \A i, j \in DOMAIN l : IsNew(l, i) /\ IsNew(l, j) => i = j

Brings(l, k) == \E i \in DOMAIN l : IsNew(l, i) /\ k \in l[i].found

(* m is l without what stands at i.                                        *)
Cut(l, i, m) ==
    /\ l \in Seq(Message) /\ i \in DOMAIN l /\ m \in Seq(Message)
    /\ Len(m) = Len(l) - 1
    /\ \A j \in DOMAIN m : m[j] = IF j < i THEN l[j] ELSE l[j + 1]

LEMMA RemoveAtCuts ==
    ASSUME NEW l \in Seq(Message), NEW i \in DOMAIN l
    PROVE  Cut(l, i, RemoveAt(l, i))
  <1>. DEFINE a == SubSeq(l, 1, i - 1)
              b == SubSeq(l, i + 1, Len(l))
  <1>1. Len(l) \in Nat /\ DOMAIN l = 1 .. Len(l) /\ i \in 1 .. Len(l)
    BY LenProperties
  <1>2. \A j \in 1 .. Len(l) : l[j] \in Message
    BY <1>1
  <1>3. /\ a \in Seq(Message) /\ Len(a) = i - 1
        /\ \A j \in 1 .. i - 1 : a[j] = l[j]
    <2>1. \A j \in 1 .. i - 1 : l[j] \in Message
      BY <1>1, <1>2
    <2>. QED  BY <1>1, <2>1, SubSeqProperties
  <1>4. /\ b \in Seq(Message) /\ Len(b) = Len(l) - i
        /\ \A j \in 1 .. Len(l) - i : b[j] = l[i + j]
    <2>1. \A j \in i + 1 .. Len(l) : l[j] \in Message
      BY <1>1, <1>2
    <2>2. /\ b \in Seq(Message)
          /\ Len(b) = IF i + 1 <= Len(l) THEN Len(l) - (i + 1) + 1 ELSE 0
          /\ \A j \in 1 .. Len(l) - (i + 1) + 1 : b[j] = l[(i + 1) + j - 1]
      BY <1>1, <2>1, SubSeqProperties
    <2>. QED  BY <1>1, <2>2
  <1>. HIDE DEF a, b
  <1>5. /\ a \o b \in Seq(Message) /\ Len(a \o b) = Len(l) - 1
        /\ DOMAIN (a \o b) = 1 .. (Len(l) - 1)
        /\ \A j \in 1 .. (Len(l) - 1) : (a \o b)[j] = IF j < i THEN l[j] ELSE l[j + 1]
    <2>. DEFINE c == a \o b
    <2>1. /\ c \in Seq(Message) /\ Len(c) = Len(a) + Len(b)
          /\ \A j \in 1 .. Len(a) + Len(b) : c[j] = IF j <= Len(a) THEN a[j] ELSE b[j - Len(a)]
      BY <1>3, <1>4, ConcatProperties
    <2>. HIDE DEF c
    <2>2. Len(c) = Len(l) - 1 /\ DOMAIN c = 1 .. (Len(l) - 1)
      BY <1>1, <1>3, <1>4, <2>1, LenProperties
    <2>3. ASSUME NEW j \in 1 .. (Len(l) - 1) PROVE c[j] = IF j < i THEN l[j] ELSE l[j + 1]
      <3>1. CASE j < i
        <4>1. j \in 1 .. i - 1 /\ j \in 1 .. Len(a) + Len(b) /\ j <= Len(a)
          BY <1>1, <1>3, <1>4, <3>1
        <4>. QED  BY <1>3, <2>1, <3>1, <4>1
      <3>2. CASE ~(j < i)
        <4>1. /\ j \in 1 .. Len(a) + Len(b) /\ ~(j <= Len(a))
              /\ j - Len(a) \in 1 .. Len(l) - i /\ i + (j - Len(a)) = j + 1
          BY <1>1, <1>3, <1>4, <3>2
        <4>. QED  BY <1>4, <2>1, <3>2, <4>1
      <3>. QED  BY <3>1, <3>2
    <2>. QED  BY <2>1, <2>2, <2>3 DEF c
  <1>6. RemoveAt(l, i) = a \o b
    BY DEF RemoveAt, a, b
  <1>. QED  BY <1>5, <1>6 DEF Cut

LEMMA TailCuts ==
    ASSUME NEW l \in Seq(Message), l # <<>>
    PROVE  1 \in DOMAIN l /\ Head(l) = l[1] /\ Cut(l, 1, Tail(l))
  <1>1. Len(l) \in Nat /\ Len(l) > 0 /\ DOMAIN l = 1 .. Len(l)
    <2>1. Len(l) # 0
      BY EmptySeq
    <2>. QED  BY <2>1, LenProperties
  <1>2. /\ Tail(l) \in Seq(Message) /\ Len(Tail(l)) = Len(l) - 1
        /\ \A j \in 1 .. Len(Tail(l)) : Tail(l)[j] = l[j + 1]
    BY HeadTailProperties
  <1>3. DOMAIN Tail(l) = 1 .. (Len(l) - 1)
    BY <1>1, <1>2
  <1>. QED  BY <1>1, <1>2, <1>3 DEF Cut

(* Where what is left stood, and where what stood is left.                 *)
LEMMA CutPlaces ==
    ASSUME NEW l, NEW i, NEW m, Cut(l, i, m)
    PROVE  /\ DOMAIN l = 1 .. Len(l) /\ Len(l) \in Nat /\ i \in 1 .. Len(l)
           /\ \A j \in DOMAIN m : \E p \in DOMAIN l : p # i /\ m[j] = l[p]
           /\ \A p \in DOMAIN l : p < i => p \in DOMAIN m /\ m[p] = l[p]
           /\ \A p \in DOMAIN l : p > i => p - 1 \in DOMAIN m /\ m[p - 1] = l[p]
           /\ \A j \in DOMAIN m : j < i => m[j] = l[j] /\ j \in DOMAIN l
           /\ \A j \in DOMAIN m : j >= i => m[j] = l[j + 1] /\ j + 1 \in DOMAIN l
           /\ \A j \in DOMAIN m : j \in Int
  <1>1. Len(l) \in Nat /\ Len(m) = Len(l) - 1 /\ i \in 1 .. Len(l)
        /\ DOMAIN l = 1 .. Len(l) /\ DOMAIN m = 1 .. (Len(l) - 1)
    BY LenProperties DEF Cut
  <1>2. \A j \in DOMAIN m : m[j] = IF j < i THEN l[j] ELSE l[j + 1]
    BY DEF Cut
  <1>3. ASSUME NEW j \in DOMAIN m PROVE \E p \in DOMAIN l : p # i /\ m[j] = l[p]
    <2>1. CASE j < i
      <3>1. j \in DOMAIN l /\ j # i /\ m[j] = l[j]
        BY <1>1, <1>2, <2>1
      <3>. QED  BY <3>1
    <2>2. CASE ~(j < i)
      <3>1. j + 1 \in DOMAIN l /\ j + 1 # i /\ m[j] = l[j + 1]
        BY <1>1, <1>2, <2>2
      <3>. QED  BY <3>1
    <2>. QED  BY <2>1, <2>2
  <1>4. \A p \in DOMAIN l : p < i => p \in DOMAIN m /\ m[p] = l[p]
    BY <1>1, <1>2
  <1>5. \A p \in DOMAIN l : p > i => p - 1 \in DOMAIN m /\ m[p - 1] = l[p]
    <2>. SUFFICES ASSUME NEW p \in DOMAIN l, p > i PROVE p - 1 \in DOMAIN m /\ m[p - 1] = l[p]
      OBVIOUS
    <2>1. p - 1 \in DOMAIN m /\ ~(p - 1 < i) /\ (p - 1) + 1 = p
      BY <1>1
    <2>. QED  BY <1>2, <2>1
  <1>. QED  BY <1>1, <1>2, <1>3, <1>4, <1>5

(* What is not about k, or is about k and was not the last.                *)
LEMMA CutKeepsWords ==
    ASSUME NEW l, NEW i, NEW m, Cut(l, i, m), NEW k
    PROVE  /\ Silent(l, k) => Silent(m, k)
           /\ \A w : LastWord(l, k, w) => \/ LastWord(m, k, w)
                                          \/ IsWord(l, k, i) /\ l[i].word = w
                                             /\ \A j \in DOMAIN l : j > i => ~IsWord(l, k, j)
  <1>. USE CutPlaces
  <1>1. Silent(l, k) => Silent(m, k)
    BY DEF Silent, IsWord
  <1>2. ASSUME NEW w, LastWord(l, k, w)
        PROVE  \/ LastWord(m, k, w)
               \/ IsWord(l, k, i) /\ l[i].word = w /\ \A j \in DOMAIN l : j > i => ~IsWord(l, k, j)
    <2>1. PICK p \in DOMAIN l : /\ IsWord(l, k, p)
                                /\ l[p].word = w
                                /\ \A j \in DOMAIN l : j > p => ~IsWord(l, k, j)
      BY <1>2 DEF LastWord
    <2>2. CASE p = i
      BY <2>1, <2>2
    <2>3. CASE p < i
      <3>1. p \in DOMAIN m /\ m[p] = l[p]
        BY <2>3
      <3>2. ASSUME NEW j \in DOMAIN m, j > p PROVE ~IsWord(m, k, j)
        <4>1. CASE j < i
          BY <2>1, <3>2, <4>1 DEF IsWord
        <4>2. CASE j >= i
          <5>1. m[j] = l[j + 1] /\ j + 1 \in DOMAIN l /\ j + 1 > p
            BY <3>2, <4>2
          <5>. QED  BY <2>1, <5>1 DEF IsWord
        <4>. QED  BY <4>1, <4>2
      <3>3. IsWord(m, k, p) /\ m[p].word = w
        BY <2>1, <3>1 DEF IsWord
      <3>. QED  BY <3>1, <3>2, <3>3 DEF LastWord
    <2>4. CASE p > i
      <3>1. p - 1 \in DOMAIN m /\ m[p - 1] = l[p]
        BY <2>4
      <3>2. ASSUME NEW j \in DOMAIN m, j > p - 1 PROVE ~IsWord(m, k, j)
        <4>1. m[j] = l[j + 1] /\ j + 1 \in DOMAIN l /\ j + 1 > p
          BY <2>4, <3>2
        <4>. QED  BY <2>1, <4>1 DEF IsWord
      <3>3. IsWord(m, k, p - 1) /\ m[p - 1].word = w
        BY <2>1, <3>1 DEF IsWord
      <3>. QED  BY <3>1, <3>2, <3>3 DEF LastWord
    <2>. QED  BY <2>2, <2>3, <2>4
  <1>. QED  BY <1>1, <1>2

(* The first word of all goes: the last one about k is left, or it was the *)
(* only one.                                                               *)
LEMMA FirstWordGoes ==
    ASSUME NEW l, NEW i, NEW m, Cut(l, i, m),
           \A j \in 1 .. i : l[j].kind = "presence" <=> j = i,
           NEW k
    PROVE  /\ Silent(l, k) => Silent(m, k)
           /\ \A w : LastWord(l, k, w) => \/ LastWord(m, k, w)
                                          \/ l[i].key = k /\ l[i].word = w /\ Silent(m, k)
  <1>1. ASSUME NEW w, IsWord(l, k, i), l[i].word = w,
               \A j \in DOMAIN l : j > i => ~IsWord(l, k, j)
        PROVE  Silent(m, k)
    <2>. SUFFICES ASSUME NEW j \in DOMAIN m PROVE ~IsWord(m, k, j)
      BY DEF Silent
    <2>1. PICK p \in DOMAIN l : p # i /\ m[j] = l[p]
      BY CutPlaces
    <2>2. CASE p < i
      BY <2>1, <2>2, CutPlaces DEF IsWord
    <2>3. CASE p > i
      BY <1>1, <2>1, <2>3 DEF IsWord
    <2>. QED  BY <2>1, <2>2, <2>3, CutPlaces
  <1>. QED  BY <1>1, CutKeepsWords DEF IsWord

(* What is no word goes.                                                   *)
LEMMA NoWordGoes ==
    ASSUME NEW l, NEW i, NEW m, Cut(l, i, m), l[i].kind # "presence", NEW k
    PROVE  /\ Silent(l, k) => Silent(m, k)
           /\ \A w : LastWord(l, k, w) => LastWord(m, k, w)
  BY CutKeepsWords DEF IsWord

(* What is left of the answers.                                            *)
LEMMA CutKeepsAnswers ==
    ASSUME NEW l, NEW i, NEW m, Cut(l, i, m)
    PROVE  /\ OneNew(l) => OneNew(m)
           /\ NoneNew(l) => NoneNew(m)
           /\ IsNew(l, i) /\ OneNew(l) => NoneNew(m)
           /\ ~IsNew(l, i) /\ NoneNew(m) => NoneNew(l)
           /\ \A k : ~IsNew(l, i) /\ Brings(l, k) => Brings(m, k)
  <1>1. OneNew(l) => OneNew(m)
    <2>. SUFFICES ASSUME OneNew(l), NEW a \in DOMAIN m, NEW b \in DOMAIN m, IsNew(m, a), IsNew(m, b)
                  PROVE  a = b
      BY DEF OneNew
    <2>. DEFINE at(j) == IF j < i THEN j ELSE j + 1
    <2>1. at(a) \in DOMAIN l /\ at(b) \in DOMAIN l /\ m[a] = l[at(a)] /\ m[b] = l[at(b)]
      BY CutPlaces
    <2>2. at(a) = at(b)
      BY <2>1 DEF OneNew, IsNew
    <2>3. a \in Int /\ b \in Int /\ i \in Int
      BY CutPlaces
    <2>. QED  BY <2>2, <2>3
  <1>2. NoneNew(l) => NoneNew(m)
    BY CutPlaces DEF NoneNew, IsNew
  <1>3. IsNew(l, i) /\ OneNew(l) => NoneNew(m)
    <2>. SUFFICES ASSUME IsNew(l, i), OneNew(l), NEW j \in DOMAIN m, IsNew(m, j) PROVE FALSE
      BY DEF NoneNew
    <2>1. PICK p \in DOMAIN l : p # i /\ m[j] = l[p]
      BY CutPlaces
    <2>2. i \in DOMAIN l
      BY DEF Cut
    <2>. QED  BY <2>1, <2>2 DEF OneNew, IsNew
  <1>4. ASSUME NEW p \in DOMAIN l, p # i PROVE \E j \in DOMAIN m : m[j] = l[p]
    <2>1. CASE p < i
      BY <2>1, CutPlaces
    <2>2. CASE p > i
      BY <2>2, CutPlaces
    <2>. QED  BY <1>4, <2>1, <2>2, CutPlaces
  <1>5. ~IsNew(l, i) /\ NoneNew(m) => NoneNew(l)
    BY <1>4 DEF NoneNew, IsNew
  <1>6. \A k : ~IsNew(l, i) /\ Brings(l, k) => Brings(m, k)
    BY <1>4 DEF Brings, IsNew
  <1>. QED  BY <1>1, <1>2, <1>3, <1>5, <1>6

(* One more message.                                                       *)
LEMMA AppendPlaces ==
    ASSUME NEW l \in Seq(Message), NEW msg \in Message
    PROVE  /\ Append(l, msg) \in Seq(Message)
           /\ Len(l) \in Nat /\ DOMAIN l = 1 .. Len(l)
           /\ DOMAIN Append(l, msg) = 1 .. (Len(l) + 1)
           /\ \A i \in DOMAIN l : Append(l, msg)[i] = l[i]
           /\ Append(l, msg)[Len(l) + 1] = msg
  BY LenProperties, AppendProperties

LEMMA AppendWord ==
    ASSUME NEW l \in Seq(Message), NEW msg \in Message, NEW k
    PROVE  /\ msg.kind = "presence" /\ msg.key = k => LastWord(Append(l, msg), k, msg.word)
           /\ ~(msg.kind = "presence" /\ msg.key = k) =>
                /\ Silent(l, k) => Silent(Append(l, msg), k)
                /\ \A w : LastWord(l, k, w) => LastWord(Append(l, msg), k, w)
  <1>. DEFINE m == Append(l, msg)
              n == Len(l)
  <1>1. /\ n \in Nat /\ DOMAIN l = 1 .. n /\ DOMAIN m = 1 .. (n + 1)
        /\ \A i \in 1 .. n : m[i] = l[i]
        /\ m[n + 1] = msg
    BY AppendPlaces
  <1>. HIDE DEF m, n
  <1>2. ASSUME msg.kind = "presence", msg.key = k PROVE LastWord(m, k, msg.word)
    <2>1. n + 1 \in DOMAIN m /\ IsWord(m, k, n + 1) /\ m[n + 1].word = msg.word
      BY <1>1, <1>2 DEF IsWord
    <2>2. \A j \in DOMAIN m : ~(j > n + 1)
      BY <1>1
    <2>. QED  BY <2>1, <2>2 DEF LastWord
  <1>3. ASSUME ~(msg.kind = "presence" /\ msg.key = k), Silent(l, k) PROVE Silent(m, k)
    <2>. SUFFICES ASSUME NEW j \in DOMAIN m PROVE ~IsWord(m, k, j)
      BY DEF Silent
    <2>1. j \in 1 .. n \/ j = n + 1
      BY <1>1
    <2>. QED  BY <1>1, <1>3, <2>1 DEF Silent, IsWord
  <1>4. ASSUME ~(msg.kind = "presence" /\ msg.key = k), NEW w, LastWord(l, k, w)
        PROVE  LastWord(m, k, w)
    <2>1. PICK p \in DOMAIN l : /\ IsWord(l, k, p)
                                /\ l[p].word = w
                                /\ \A j \in DOMAIN l : j > p => ~IsWord(l, k, j)
      BY <1>4 DEF LastWord
    <2>2. p \in DOMAIN m /\ IsWord(m, k, p) /\ m[p].word = w
      BY <1>1, <2>1 DEF IsWord
    <2>3. ASSUME NEW j \in DOMAIN m, j > p PROVE ~IsWord(m, k, j)
      <3>1. j \in 1 .. n \/ j = n + 1
        BY <1>1
      <3>. QED  BY <1>1, <1>4, <2>1, <2>3, <3>1 DEF IsWord
    <2>. QED  BY <2>2, <2>3 DEF LastWord
  <1>. QED  BY <1>2, <1>3, <1>4 DEF m

LEMMA AppendAnswer ==
    ASSUME NEW l \in Seq(Message), NEW msg \in Message
    PROVE  /\ ~(msg.kind = "answer" /\ msg.new) =>
                /\ OneNew(l) => OneNew(Append(l, msg))
                /\ NoneNew(l) <=> NoneNew(Append(l, msg))
                /\ \A k : Brings(l, k) => Brings(Append(l, msg), k)
           /\ msg.kind = "answer" /\ msg.new /\ NoneNew(l) =>
                /\ OneNew(Append(l, msg))
                /\ ~NoneNew(Append(l, msg))
                /\ \A k \in msg.found : Brings(Append(l, msg), k)
  <1>. DEFINE m == Append(l, msg)
              n == Len(l)
  <1>1. /\ n \in Nat /\ DOMAIN l = 1 .. n /\ DOMAIN m = 1 .. (n + 1)
        /\ \A i \in 1 .. n : m[i] = l[i]
        /\ m[n + 1] = msg
    BY AppendPlaces
  <1>. HIDE DEF m, n
  <1>2. \A j \in DOMAIN m : j \in 1 .. n \/ j = n + 1
    BY <1>1
  <1>3. 1 .. n \subseteq DOMAIN m /\ n + 1 \in DOMAIN m
    BY <1>1
  <1>4. ASSUME ~(msg.kind = "answer" /\ msg.new)
        PROVE  /\ OneNew(l) => OneNew(m)
               /\ NoneNew(l) <=> NoneNew(m)
               /\ \A k : Brings(l, k) => Brings(m, k)
    <2>1. OneNew(l) => OneNew(m)
      BY <1>1, <1>2, <1>4 DEF OneNew, IsNew
    <2>2. NoneNew(l) <=> NoneNew(m)
      BY <1>1, <1>2, <1>3, <1>4 DEF NoneNew, IsNew
    <2>3. \A k : Brings(l, k) => Brings(m, k)
      BY <1>1, <1>3 DEF Brings, IsNew
    <2>. QED  BY <2>1, <2>2, <2>3
  <1>5. ASSUME msg.kind = "answer", msg.new, NoneNew(l)
        PROVE  OneNew(m) /\ ~NoneNew(m) /\ \A k \in msg.found : Brings(m, k)
    <2>1. IsNew(m, n + 1)
      BY <1>1, <1>5 DEF IsNew
    <2>2. \A i \in 1 .. n : ~IsNew(m, i)
      BY <1>1, <1>5 DEF NoneNew, IsNew
    <2>. QED  BY <1>1, <1>2, <1>3, <2>1, <2>2 DEF OneNew, NoneNew, Brings
  <1>. QED  BY <1>4, <1>5 DEF m
-----------------------------------------------------------------------------
(* The state is what it should be.                                         *)

LEMMA Presences == \A k \in Key, w \in {"present", "absent", "gone"} :
                        [kind |-> "presence", key |-> k, word |-> w] \in Message
  BY DEF Message

LEMMA Answer == \A S \in SUBSET Key, b \in BOOLEAN :
                        [kind |-> "answer", found |-> S, new |-> b] \in Message
  BY DEF Message

LEMMA Kinds ==
    ASSUME NEW msg \in Message
    PROVE  /\ msg.kind \in {"presence", "carried", "answer"}
           /\ msg.kind = "presence" => msg.key \in Key /\ msg.word \in {"present", "absent", "gone"}
           /\ msg.kind = "carried" => msg.key \in Key
           /\ msg.kind = "answer" => msg.found \in SUBSET Key /\ msg.new \in BOOLEAN
  BY PresenceNodeAssumption DEF Message

(* What a relay says comes last on the stream.                             *)
LEMMA SaysLast ==
    ASSUME TypeOK, NEW u \in Url, NEW msg \in Message, Says(u, msg)
    PROVE  /\ line' \in [Url -> Seq(Message)]
           /\ u \in Open => line'[u] = Append(line[u], msg)
           /\ u \notin Open => line'[u] = line[u]
           /\ \A v \in Url \ {u} : line'[v] = line[v]
  <1>1. line \in [Url -> Seq(Message)] /\ line[u] \in Seq(Message)
    BY DEF TypeOK
  <1>2. Append(line[u], msg) \in Seq(Message)
    BY <1>1, AppendPlaces
  <1>3. CASE u \in Open
    <2>1. line' = [line EXCEPT ![u] = Append(line[u], msg)]
      BY <1>3 DEF Says
    <2>. QED  BY <1>1, <1>2, <1>3, <2>1
  <1>4. CASE u \notin Open
    BY <1>1, <1>4 DEF Says
  <1>. QED  BY <1>3, <1>4

(* One message is taken off a stream.                                      *)
LEMMA TakesOne ==
    ASSUME TypeOK, NEW u \in Url, NEW i \in DOMAIN line[u], NEW m,
           Cut(line[u], i, m), line' = [line EXCEPT ![u] = m]
    PROVE  /\ line' \in [Url -> Seq(Message)]
           /\ line'[u] = m
           /\ \A v \in Url \ {u} : line'[v] = line[v]
  BY DEF TypeOK, Cut

(* What is said of the keys S replaces what stood, and nothing else.       *)
LEMMA SaidNames ==
    ASSUME TypeOK, NEW u \in Open, NEW S \in SUBSET Key, NEW present \in BOOLEAN,
           byRelay' = Said(u, S, present)
    PROVE  /\ DOMAIN byRelay' = DOMAIN byRelay
           /\ \A v \in DOMAIN byRelay' :
                /\ DOMAIN byRelay'[v] \subseteq Key
                /\ \A k \in DOMAIN byRelay'[v] : byRelay'[v][k] \in BOOLEAN
           /\ \A v \in Url \ {u} : \A k, p : Names(v, k, p)' <=> Names(v, k, p)
           /\ \A p : \A k \in S : Names(u, k, p)' <=> p = present
           /\ \A k, p : k \notin S => (Names(u, k, p)' <=> Names(u, k, p))
  <1>1. u \in DOMAIN byRelay
    BY DEF TypeOK
  <1>2. /\ DOMAIN byRelay' = DOMAIN byRelay
        /\ \A v \in DOMAIN byRelay : v # u => byRelay'[v] = byRelay[v]
        /\ byRelay'[u] = [k \in DOMAIN byRelay[u] \cup S |-> IF k \in S THEN present ELSE byRelay[u][k]]
    BY <1>1 DEF Said, With
  <1>3. /\ DOMAIN byRelay'[u] = DOMAIN byRelay[u] \cup S
        /\ \A k \in S : byRelay'[u][k] = present
        /\ \A k \in DOMAIN byRelay[u] : k \notin S => byRelay'[u][k] = byRelay[u][k]
    BY <1>2
  <1>4. \A v \in DOMAIN byRelay' :
            /\ DOMAIN byRelay'[v] \subseteq Key
            /\ \A k \in DOMAIN byRelay'[v] : byRelay'[v][k] \in BOOLEAN
    <2>. SUFFICES ASSUME NEW v \in DOMAIN byRelay
                  PROVE  /\ DOMAIN byRelay'[v] \subseteq Key
                         /\ \A k \in DOMAIN byRelay'[v] : byRelay'[v][k] \in BOOLEAN
      BY <1>2
    <2>1. CASE v = u
      BY <1>1, <1>3, <2>1 DEF TypeOK
    <2>2. CASE v # u
      BY <1>2, <2>2 DEF TypeOK
    <2>. QED  BY <2>1, <2>2
  <1>. QED  BY <1>1, <1>2, <1>3, <1>4 DEF Names

(* A key is taken off the picture.                                         *)
LEMMA TakenOff ==
    ASSUME TypeOK, NEW u \in Open, NEW key,
           byRelay' = With(byRelay, u, Without(byRelay[u], {key}))
    PROVE  /\ DOMAIN byRelay' = DOMAIN byRelay
           /\ \A v \in DOMAIN byRelay' :
                /\ DOMAIN byRelay'[v] \subseteq Key
                /\ \A k \in DOMAIN byRelay'[v] : byRelay'[v][k] \in BOOLEAN
           /\ \A v \in Url \ {u} : \A k, p : Names(v, k, p)' <=> Names(v, k, p)
           /\ \A p : ~Names(u, key, p)'
           /\ \A k, p : k # key => (Names(u, k, p)' <=> Names(u, k, p))
  <1>1. u \in DOMAIN byRelay
    BY DEF TypeOK
  <1>2. /\ DOMAIN byRelay' = DOMAIN byRelay
        /\ \A v \in DOMAIN byRelay : v # u => byRelay'[v] = byRelay[v]
        /\ byRelay'[u] = [k \in DOMAIN byRelay[u] \ {key} |-> byRelay[u][k]]
    BY <1>1 DEF With, Without, Restrict
  <1>3. /\ DOMAIN byRelay'[u] = DOMAIN byRelay[u] \ {key}
        /\ \A k \in DOMAIN byRelay[u] : k # key => byRelay'[u][k] = byRelay[u][k]
    BY <1>2
  <1>4. \A v \in DOMAIN byRelay' :
            /\ DOMAIN byRelay'[v] \subseteq Key
            /\ \A k \in DOMAIN byRelay'[v] : byRelay'[v][k] \in BOOLEAN
    <2>. SUFFICES ASSUME NEW v \in DOMAIN byRelay
                  PROVE  /\ DOMAIN byRelay'[v] \subseteq Key
                         /\ \A k \in DOMAIN byRelay'[v] : byRelay'[v][k] \in BOOLEAN
      BY <1>2
    <2>1. CASE v = u
      BY <1>1, <1>3, <2>1 DEF TypeOK
    <2>2. CASE v # u
      BY <1>2, <2>2 DEF TypeOK
    <2>. QED  BY <2>1, <2>2
  <1>. QED  BY <1>1, <1>2, <1>3, <1>4 DEF Names

-----------------------------------------------------------------------------
(* What holds of one stream.                                               *)

NewAsks(u) == {a \in asked : a.url = u /\ a.new}

(* The question of a stream has one answer at most, and it is either       *)
(* asked, or answered on the line, or told, or lost.                       *)
OneQuestion(u) ==
    /\ OneNew(line[u])
    /\ \A a, b \in NewAsks(u) : a = b
    /\ NewAsks(u) # {} => NoneNew(line[u])
    /\ u \in told => NewAsks(u) = {} /\ NoneNew(line[u])

(* What is still to come of the question's answer names k, or nothing is.  *)
Due(u, k) ==
    \/ Brings(line[u], k)
    \/ \E a \in NewAsks(u) : ~a.begun \/ k \in a.todo \cup a.found
    \/ u \notin told /\ NoneNew(line[u]) /\ NewAsks(u) = {}

OnIsComing(u) ==
    Cardinality(Key) <= Slots =>
        \A k \in since[u] \cap on[u] :
            \/ LastWord(line[u], k, "present")
            \/ Silent(line[u], k) /\ (Names(u, k, TRUE) \/ Due(u, k))

GoneIsLast(u) ==
    \A k \in Key \ roll[u] :
        \/ LastWord(line[u], k, "gone")
        \/ Silent(line[u], k) /\ ~Names(u, k, FALSE)

StreamInv(u) ==
    /\ since[u] \subseteq book
    /\ on[u] \subseteq roll[u]
    /\ OneQuestion(u)
    /\ u \notin Open => line[u] = <<>> /\ u \notin told /\ NewAsks(u) = {}
    /\ u \in Open => GoneIsLast(u) /\ OnIsComing(u)

Streams == \A u \in Url : StreamInv(u)

(* A step that leaves a stream alone, but for contacts that are dropped.   *)
LEMMA StreamStays ==
    ASSUME NEW u \in Url, StreamInv(u),
           line'[u] = line[u], u \in Open' <=> u \in Open,
           \A k, p : Names(u, k, p)' <=> Names(u, k, p),
           NewAsks(u)' = NewAsks(u),
           roll'[u] = roll[u], on'[u] = on[u],
           since'[u] \subseteq since[u], since'[u] \subseteq book',
           u \in told' <=> u \in told
    PROVE  StreamInv(u)'
  <1>1. OneQuestion(u)' /\ on'[u] \subseteq roll'[u] /\ since'[u] \subseteq book'
    BY DEF StreamInv, OneQuestion
  <1>2. u \notin Open' => line'[u] = <<>> /\ u \notin told' /\ NewAsks(u)' = {}
    BY DEF StreamInv
  <1>3. u \in Open' => GoneIsLast(u)'
    BY DEF StreamInv, GoneIsLast
  <1>4. u \in Open' => OnIsComing(u)'
    BY DEF StreamInv, OnIsComing, Due
  <1>. QED  BY <1>1, <1>2, <1>3, <1>4 DEF StreamInv

(* A word about k comes last: what is known of the others stays.           *)
LEMMA WordComesLast ==
    ASSUME TypeOK, NEW u \in Url, StreamInv(u), NEW key \in Key,
           NEW w \in {"present", "absent", "gone"}, Broadcast(u, key, w),
           streams' = streams, byRelay' = byRelay, asked' = asked, told' = told,
           since' = since, book' = book,
           on'[u] \subseteq roll'[u],
           \A k \in Key \ {key} : k \in roll[u] => k \in roll'[u],
           \A k \in Key \ {key} : k \in on'[u] => k \in on[u],
           key \in roll'[u] \/ w = "gone",
           key \notin on'[u] \/ w = "present"
    PROVE  StreamInv(u)'
  <1>. DEFINE msg == [kind |-> "presence", key |-> key, word |-> w]
  <1>1. msg \in Message /\ msg.kind = "presence" /\ msg.key = key /\ msg.word = w
    BY Presences
  <1>2. Says(u, msg)
    BY DEF Broadcast
  <1>. HIDE DEF msg
  <1>3. Open' = Open /\ NewAsks(u)' = NewAsks(u) /\ \A k, p : Names(u, k, p)' <=> Names(u, k, p)
    BY DEF Open, NewAsks, Names
  <1>4. CASE u \notin Open
    <2>1. line'[u] = line[u]
      BY <1>1, <1>2, <1>4, SaysLast
    <2>. QED  BY <1>3, <1>4, <2>1 DEF StreamInv, OneQuestion
  <1>5. CASE u \in Open
    <2>. DEFINE l == line[u]
                m == line'[u]
    <2>1. l \in Seq(Message) /\ m = Append(l, msg)
      BY <1>1, <1>2, <1>5, SaysLast DEF TypeOK
    <2>. HIDE DEF l, m
    <2>2. /\ LastWord(m, key, w)
          /\ \A k \in Key \ {key} : /\ Silent(l, k) => Silent(m, k)
                                    /\ \A x : LastWord(l, k, x) => LastWord(m, k, x)
      BY <1>1, <2>1, AppendWord
    <2>3. /\ OneNew(l) => OneNew(m)
          /\ NoneNew(l) <=> NoneNew(m)
          /\ \A k : Brings(l, k) => Brings(m, k)
      BY <1>1, <2>1, AppendAnswer
    <2>4. OneQuestion(u)'
      BY <1>3, <2>3 DEF StreamInv, OneQuestion, l, m
    <2>5. GoneIsLast(u)'
      <3>. SUFFICES ASSUME NEW k \in Key, k \notin roll'[u]
                    PROVE  LastWord(m, k, "gone") \/ (Silent(m, k) /\ ~Names(u, k, FALSE))
        BY <1>3 DEF GoneIsLast, m
      <3>1. CASE k = key
        BY <2>2, <3>1
      <3>2. CASE k # key
        <4>1. LastWord(l, k, "gone") \/ (Silent(l, k) /\ ~Names(u, k, FALSE))
          BY <1>5, <3>2 DEF StreamInv, GoneIsLast, l
        <4>. QED  BY <2>2, <3>2, <4>1
      <3>. QED  BY <3>1, <3>2
    <2>6. OnIsComing(u)'
      <3>. SUFFICES ASSUME Cardinality(Key) <= Slots, NEW k \in since[u], k \in on'[u]
                    PROVE  \/ LastWord(m, k, "present")
                           \/ Silent(m, k) /\ (Names(u, k, TRUE) \/ Due(u, k)')
        BY <1>3 DEF OnIsComing, m
      <3>0. k \in Key
        BY DEF TypeOK
      <3>1. CASE k = key
        BY <2>2, <3>1
      <3>2. CASE k # key
        <4>1. \/ LastWord(l, k, "present")
              \/ Silent(l, k) /\ (Names(u, k, TRUE) \/ Due(u, k))
          BY <1>5, <3>0, <3>2 DEF StreamInv, OnIsComing, l
        <4>2. Due(u, k) => Due(u, k)'
          BY <1>3, <2>3 DEF Due, l, m
        <4>. QED  BY <2>2, <3>0, <3>2, <4>1, <4>2
      <3>. QED  BY <3>1, <3>2
    <2>. QED  BY <1>3, <1>5, <2>4, <2>5, <2>6 DEF StreamInv
  <1>. QED  BY <1>4, <1>5

-----------------------------------------------------------------------------
(* Every step leaves the state what it should be.                          *)

LEMMA NextTypeOK == TypeOK /\ [Next]_vars => TypeOK'
  <1>. SUFFICES ASSUME TypeOK, [Next]_vars PROVE TypeOK'
    OBVIOUS
  <1>. DEFINE Ask == [url : Url, begun : BOOLEAN, todo : SUBSET Key, found : SUBSET Key, new : BOOLEAN]
  <1>0. MaxChanges \in Nat /\ MaxLosses \in Nat
    BY PresenceNodeAssumption
  <1>a. Happens => changes' \in 0 .. MaxChanges
    BY <1>0 DEF TypeOK, Happens
  <1>b. streams' = streams => Open' = Open
    BY DEF Open
  <1>c. ASSUME NEW u \in Url, NEW k \in Key, NEW w \in {"present", "absent", "gone"},
               Broadcast(u, k, w)
        PROVE  line' \in [Url -> Seq(Message)]
    BY <1>c, Presences, SaysLast DEF Broadcast
  <1>1. ASSUME NEW u \in Url, NEW k \in Key, Comes(u, k) PROVE TypeOK'
    <2>1. line' \in [Url -> Seq(Message)]
      BY <1>1, <1>c DEF Comes
    <2>. QED  BY <1>1, <1>a, <1>b, <2>1 DEF TypeOK, Comes, node
  <1>2. ASSUME NEW u \in Url, NEW k \in Key, Goes(u, k) PROVE TypeOK'
    <2>1. line' \in [Url -> Seq(Message)]
      BY <1>2, <1>c DEF Goes
    <2>. QED  BY <1>2, <1>a, <1>b, <2>1 DEF TypeOK, Goes, node
  <1>3. ASSUME NEW u \in Url, NEW k \in Key, Removed(u, k) PROVE TypeOK'
    <2>1. line' \in [Url -> Seq(Message)]
      BY <1>3, <1>c DEF Removed
    <2>. QED  BY <1>3, <1>a, <1>b, <2>1 DEF TypeOK, Removed, node
  <1>4. ASSUME NEW u \in Url, NEW k \in Key, Joins(u, k) PROVE TypeOK'
    BY <1>4, <1>a, <1>b DEF TypeOK, Joins, node
  <1>5. ASSUME NEW u \in Url, NEW k \in Key, Carries(u, k) PROVE TypeOK'
    <2>1. [kind |-> "carried", key |-> k] \in Message
      BY <1>5 DEF Carries, Message
    <2>2. line' \in [Url -> Seq(Message)]
      BY <1>5, <2>1, SaysLast DEF Carries
    <2>. QED  BY <1>5, <1>a, <1>b, <2>2 DEF TypeOK, Carries, node, relay
  <1>6. ASSUME NEW a \in asked, Begins(a) PROVE TypeOK'
    <2>1. a \in Ask
      BY DEF TypeOK
    <2>2. [a EXCEPT !.begun = TRUE, !.todo = on[a.url]] \in Ask
      BY <2>1 DEF TypeOK
    <2>. QED  BY <1>6, <1>b, <2>2 DEF TypeOK, Begins, node, relay
  <1>7. ASSUME NEW a \in asked, NEW k \in Key, Walks(a, k) PROVE TypeOK'
    <2>1. a \in Ask
      BY DEF TypeOK
    <2>2. [a EXCEPT !.todo = @ \ {k}, !.found = IF k \in on[a.url] THEN @ \cup {k} ELSE @] \in Ask
      BY <2>1
    <2>. QED  BY <1>7, <1>b, <2>2 DEF TypeOK, Walks, node, relay
  <1>8. ASSUME NEW a \in asked, Answers(a) PROVE TypeOK'
    <2>1. a \in Ask
      BY DEF TypeOK
    <2>2. PICK named \in SUBSET a.found :
            Says(a.url, [kind |-> "answer", found |-> named, new |-> a.new])
      BY <1>8 DEF Answers
    <2>3. line' \in [Url -> Seq(Message)]
      BY <2>1, <2>2, Answer, SaysLast
    <2>. QED  BY <1>8, <1>b, <2>3 DEF TypeOK, Answers, node, relay
  <1>9. ASSUME NEW a \in asked, Misses(a) PROVE TypeOK'
    BY <1>9, <1>b DEF TypeOK, Misses, node, relay
  <1>10. ASSUME NEW u \in Url, OpenTo(u) PROVE TypeOK'
    <2>1. Open' = Open
      BY <1>10 DEF TypeOK, OpenTo, Open
    <2>. QED  BY <1>10, <2>1 DEF TypeOK, OpenTo, relay
  <1>11. ASSUME NEW u \in Url, OnOpen(u) PROVE TypeOK'
    <2>1. Open' = Open \cup {u}
      BY <1>11 DEF TypeOK, OnOpen, Open
    <2>2. /\ DOMAIN byRelay' = Open'
          /\ \A v \in DOMAIN byRelay' :
                /\ DOMAIN byRelay'[v] \subseteq Key
                /\ \A k \in DOMAIN byRelay'[v] : byRelay'[v][k] \in BOOLEAN
      <3>1. byRelay' = With(byRelay, u, <<>>) /\ DOMAIN byRelay = Open
        BY <1>11 DEF OnOpen, TypeOK
      <3>2. DOMAIN byRelay' = Open \cup {u} /\ byRelay'[u] = <<>>
            /\ \A v \in Open : v # u => byRelay'[v] = byRelay[v]
        BY <3>1 DEF With
      <3>3. DOMAIN <<>> = {}
        OBVIOUS
      <3>. QED  BY <2>1, <3>1, <3>2, <3>3 DEF TypeOK
    <2>3. [url |-> u, begun |-> FALSE, todo |-> {}, found |-> {}, new |-> TRUE] \in Ask
      OBVIOUS
    <2>. QED  BY <1>11, <2>2, <2>3 DEF TypeOK, OnOpen, relay
  <1>12. ASSUME NEW u \in Url, OnChange(u) PROVE TypeOK'
    <2>1. PICK i \in 1 .. MaxLine :
            /\ NextChange(u, i)
            /\ byRelay' =
                IF line[u][i].key \notin book \cup DOMAIN byRelay[u] THEN byRelay
                ELSE IF line[u][i].word = "gone"
                THEN With(byRelay, u, Without(byRelay[u], {line[u][i].key}))
                ELSE Said(u, {line[u][i].key}, line[u][i].word = "present")
      BY <1>12 DEF OnChange
    <2>2. u \in Open /\ i \in DOMAIN line[u] /\ line[u] \in Seq(Message)
      BY <2>1 DEF NextChange, TypeOK
    <2>3. Cut(line[u], i, RemoveAt(line[u], i)) /\ line' = [line EXCEPT ![u] = RemoveAt(line[u], i)]
      BY <2>1, <2>2, RemoveAtCuts DEF NextChange
    <2>4. line' \in [Url -> Seq(Message)]
      BY <2>2, <2>3, TakesOne
    <2>5. line[u][i].key \in Key
      <3>1. line[u][i] \in Message /\ i \in 1 .. i
        BY <2>2
      <3>2. line[u][i].kind = "presence"
        BY <2>1, <3>1 DEF NextChange
      <3>. QED  BY <3>1, <3>2, Kinds
    <2>6. /\ DOMAIN byRelay' = DOMAIN byRelay
          /\ \A v \in DOMAIN byRelay' :
                /\ DOMAIN byRelay'[v] \subseteq Key
                /\ \A k \in DOMAIN byRelay'[v] : byRelay'[v][k] \in BOOLEAN
      <3>1. CASE byRelay' = byRelay
        BY <3>1 DEF TypeOK
      <3>2. CASE byRelay' = With(byRelay, u, Without(byRelay[u], {line[u][i].key}))
        BY <2>2, <3>2, TakenOff
      <3>3. CASE byRelay' = Said(u, {line[u][i].key}, line[u][i].word = "present")
        <4>. DEFINE S == {line[u][i].key}
                    p == (line[u][i].word = "present")
        <4>1. S \in SUBSET Key /\ p \in BOOLEAN /\ byRelay' = Said(u, S, p)
          BY <2>5, <3>3
        <4>. HIDE DEF S, p
        <4>. QED  BY <2>2, <4>1, SaidNames
      <3>. QED  BY <2>1, <3>1, <3>2, <3>3
    <2>. QED  BY <1>12, <1>b, <2>4, <2>6 DEF TypeOK, OnChange, relay
  <1>13. ASSUME NEW u \in Url, NEW kind, Hears(u, kind), Taken(u)
         PROVE  u \in Open /\ line' \in [Url -> Seq(Message)] /\ Head(line[u]) \in Message
                /\ Head(line[u]).kind = kind
    <2>1. u \in Open /\ line[u] # <<>> /\ line[u] \in Seq(Message)
      BY <1>13 DEF Hears, TypeOK
    <2>2. 1 \in DOMAIN line[u] /\ Head(line[u]) = line[u][1] /\ Cut(line[u], 1, Tail(line[u]))
      BY <2>1, TailCuts
    <2>3. line' \in [Url -> Seq(Message)]
      BY <1>13, <2>2, TakesOne DEF Taken
    <2>. QED  BY <1>13, <2>1, <2>2, <2>3 DEF Hears
  <1>14. ASSUME NEW u \in Url, Reconciled(u) PROVE TypeOK'
    <2>. DEFINE S == Head(line[u]).found \cap book
    <2>1. u \in Open /\ line' \in [Url -> Seq(Message)]
      BY <1>13, <1>14 DEF Reconciled
    <2>2. S \in SUBSET Key /\ byRelay' = Said(u, S, TRUE)
      BY <1>14 DEF Reconciled, TypeOK
    <2>. HIDE DEF S
    <2>3. /\ DOMAIN byRelay' = DOMAIN byRelay
          /\ \A v \in DOMAIN byRelay' :
                /\ DOMAIN byRelay'[v] \subseteq Key
                /\ \A k \in DOMAIN byRelay'[v] : byRelay'[v][k] \in BOOLEAN
      BY <2>1, <2>2, SaidNames
    <2>4. told' \subseteq Url
      BY <1>14 DEF Reconciled, TypeOK
    <2>. QED  BY <1>14, <1>b, <2>1, <2>3, <2>4 DEF TypeOK, Reconciled, relay
  <1>15. ASSUME NEW u \in Url, Heard(u) PROVE TypeOK'
    <2>. DEFINE S == {Head(line[u]).key} \cap book
    <2>1. u \in Open /\ line' \in [Url -> Seq(Message)]
      BY <1>13, <1>15 DEF Heard
    <2>2. S \in SUBSET Key /\ byRelay' = Said(u, S, TRUE)
      BY <1>15 DEF Heard, TypeOK
    <2>. HIDE DEF S
    <2>3. /\ DOMAIN byRelay' = DOMAIN byRelay
          /\ \A v \in DOMAIN byRelay' :
                /\ DOMAIN byRelay'[v] \subseteq Key
                /\ \A k \in DOMAIN byRelay'[v] : byRelay'[v][k] \in BOOLEAN
      BY <2>1, <2>2, SaidNames
    <2>. QED  BY <1>15, <1>b, <2>1, <2>3 DEF TypeOK, Heard, relay
  <1>16. ASSUME NEW U \in SUBSET Url, Ended(U)
         PROVE  line' \in [Url -> Seq(Message)] /\ asked' \subseteq Ask /\ told' \subseteq Url
    <2>1. line' \in [Url -> Seq(Message)]
      BY <1>16, EmptySeq DEF Ended, TypeOK
    <2>2. \A a \in asked : a \in Ask /\ [a EXCEPT !.new = FALSE] \in Ask
      BY DEF TypeOK
    <2>3. asked' \subseteq Ask
      BY <1>16, <2>2 DEF Ended
    <2>. QED  BY <1>16, <2>1, <2>3 DEF Ended, TypeOK
  <1>17. ASSUME NEW u \in Url, OnClose(u) PROVE TypeOK'
    <2>1. line' \in [Url -> Seq(Message)] /\ asked' \subseteq Ask /\ told' \subseteq Url
      BY <1>16, <1>17 DEF OnClose
    <2>2. Open' = Open \ {u}
      BY <1>17 DEF TypeOK, OnClose, Open
    <2>3. /\ DOMAIN byRelay' = Open'
          /\ \A v \in DOMAIN byRelay' : byRelay'[v] = byRelay[v]
      BY <1>17, <2>2 DEF OnClose, Without, Restrict, TypeOK
    <2>4. \A v \in DOMAIN byRelay' :
             /\ DOMAIN byRelay'[v] \subseteq Key
             /\ \A k \in DOMAIN byRelay'[v] : byRelay'[v][k] \in BOOLEAN
      <3>1. DOMAIN byRelay' \subseteq DOMAIN byRelay
        BY <2>2, <2>3 DEF TypeOK
      <3>. QED  BY <2>3, <3>1 DEF TypeOK
    <2>5. losses' \in 0 .. MaxLosses
      BY <1>0, <1>17 DEF TypeOK, OnClose
    <2>. QED  BY <1>17, <2>1, <2>3, <2>4, <2>5 DEF TypeOK, OnClose, relay
  <1>18. ASSUME Stop PROVE TypeOK'
    <2>1. line' \in [Url -> Seq(Message)] /\ asked' \subseteq Ask /\ told' \subseteq Url
      BY <1>16, <1>18 DEF Stop
    <2>2. Open' = {} /\ byRelay' = <<>> /\ DOMAIN <<>> = {}
      BY <1>18 DEF Stop, Open
    <2>. QED  BY <1>0, <1>18, <2>1, <2>2 DEF TypeOK, Stop, relay
  <1>19. ASSUME NEW k \in Key, AddContact(k) PROVE TypeOK'
    BY <1>19, <1>a, <1>b DEF TypeOK, AddContact, relay
  <1>20. ASSUME NEW k \in Key, DropContact(k) PROVE TypeOK'
    BY <1>20, <1>a, <1>b DEF TypeOK, DropContact, relay
  <1>21. CASE UNCHANGED vars
    BY <1>21, <1>b DEF TypeOK, vars, node, relay
  <1>. QED
    BY <1>1, <1>2, <1>3, <1>4, <1>5, <1>6, <1>7, <1>8, <1>9, <1>10, <1>11, <1>12, <1>14,
       <1>15, <1>17, <1>18, <1>19, <1>20, <1>21 DEF Next

-----------------------------------------------------------------------------
(* Every step keeps every stream: what the relay does.                     *)

LEMMA InitHolds == Init => TypeOK /\ Streams
  <1>. SUFFICES ASSUME Init PROVE TypeOK /\ Streams
    OBVIOUS
  <1>1. Open = {} /\ DOMAIN byRelay = {}
    BY DEF Init, Open
  <1>2. TypeOK
    <2>1. MaxChanges \in Nat /\ MaxLosses \in Nat
      BY PresenceNodeAssumption
    <2>2. line \in [Url -> Seq(Message)]
      BY EmptySeq DEF Init
    <2>. QED  BY <1>1, <2>1, <2>2 DEF Init, TypeOK
  <1>3. ASSUME NEW u \in Url PROVE StreamInv(u)
    <2>1. line[u] = <<>> /\ DOMAIN line[u] = {} /\ u \notin told /\ NewAsks(u) = {} /\ since[u] = {}
      BY DEF Init, NewAsks
    <2>2. on[u] \subseteq roll[u]
      BY DEF Init
    <2>3. OneQuestion(u)
      BY <2>1 DEF OneQuestion, OneNew, NoneNew
    <2>. QED  BY <1>1, <2>1, <2>2, <2>3 DEF StreamInv
  <1>. QED  BY <1>2, <1>3 DEF Streams

(* A word on one stream.                                                   *)
LEMMA WordStreams ==
    ASSUME TypeOK, Streams, NEW u \in Url, NEW key \in Key,
           NEW w \in {"present", "absent", "gone"}, Broadcast(u, key, w),
           UNCHANGED <<node, asked, since, told>>,
           \A v \in Url \ {u} : on'[v] = on[v] /\ roll'[v] = roll[v],
           on'[u] \subseteq roll'[u],
           \A k \in Key \ {key} : k \in roll[u] => k \in roll'[u],
           \A k \in Key \ {key} : k \in on'[u] => k \in on[u],
           key \in roll'[u] \/ w = "gone",
           key \notin on'[u] \/ w = "present"
    PROVE  Streams'
  <1>. SUFFICES ASSUME NEW v \in Url PROVE StreamInv(v)'
    BY DEF Streams
  <1>0. StreamInv(v) /\ streams' = streams /\ byRelay' = byRelay /\ book' = book
    BY DEF Streams, node
  <1>1. CASE v = u
    BY <1>0, <1>1, WordComesLast
  <1>2. CASE v # u
    <2>. DEFINE msg == [kind |-> "presence", key |-> key, word |-> w]
    <2>1. msg \in Message /\ Says(u, msg)
      BY Presences DEF Broadcast
    <2>. HIDE DEF msg
    <2>2. line'[v] = line[v]
      BY <1>2, <2>1, SaysLast
    <2>3. Open' = Open /\ NewAsks(v)' = NewAsks(v) /\ \A k, p : Names(v, k, p)' <=> Names(v, k, p)
      BY <1>0 DEF Open, NewAsks, Names
    <2>4. since'[v] \subseteq since[v] /\ since'[v] \subseteq book'
      BY <1>0 DEF StreamInv
    <2>. QED  BY <1>0, <1>2, <2>2, <2>3, <2>4, StreamStays
  <1>. QED  BY <1>1, <1>2

LEMMA ComesKeeps == ASSUME TypeOK, Streams, NEW u \in Url, NEW k \in Key, Comes(u, k) PROVE Streams'
  <1>1. on[u] \subseteq roll[u] /\ on' = [on EXCEPT ![u] = @ \cup {k}] /\ roll' = roll /\ k \in roll[u]
    BY DEF Comes, Streams, StreamInv
  <1>2. \A v \in Url \ {u} : on'[v] = on[v] /\ roll'[v] = roll[v]
    BY <1>1 DEF TypeOK
  <1>3. on'[u] = on[u] \cup {k} /\ roll'[u] = roll[u]
    BY <1>1 DEF TypeOK
  <1>4. Broadcast(u, k, "present") /\ UNCHANGED <<node, asked, since, told>>
    BY DEF Comes
  <1>. QED  BY <1>1, <1>2, <1>3, <1>4, WordStreams

LEMMA GoesKeeps == ASSUME TypeOK, Streams, NEW u \in Url, NEW k \in Key, Goes(u, k) PROVE Streams'
  <1>1. on[u] \subseteq roll[u] /\ on' = [on EXCEPT ![u] = @ \ {k}] /\ roll' = roll /\ k \in on[u]
    BY DEF Goes, Streams, StreamInv
  <1>2. \A v \in Url \ {u} : on'[v] = on[v] /\ roll'[v] = roll[v]
    BY <1>1 DEF TypeOK
  <1>3. on'[u] = on[u] \ {k} /\ roll'[u] = roll[u]
    BY <1>1 DEF TypeOK
  <1>4. Broadcast(u, k, "absent") /\ UNCHANGED <<node, asked, since, told>>
    BY DEF Goes
  <1>. QED  BY <1>1, <1>2, <1>3, <1>4, WordStreams

LEMMA RemovedKeeps == ASSUME TypeOK, Streams, NEW u \in Url, NEW k \in Key, Removed(u, k) PROVE Streams'
  <1>1. on[u] \subseteq roll[u] /\ on' = [on EXCEPT ![u] = @ \ {k}] /\ roll' = [roll EXCEPT ![u] = @ \ {k}]
    BY DEF Removed, Streams, StreamInv
  <1>2. \A v \in Url \ {u} : on'[v] = on[v] /\ roll'[v] = roll[v]
    BY <1>1 DEF TypeOK
  <1>3. on'[u] = on[u] \ {k} /\ roll'[u] = roll[u] \ {k}
    BY <1>1 DEF TypeOK
  <1>4. Broadcast(u, k, "gone") /\ UNCHANGED <<node, asked, since, told>>
    BY DEF Removed
  <1>. QED  BY <1>1, <1>2, <1>3, <1>4, WordStreams

LEMMA JoinsKeeps == ASSUME TypeOK, Streams, NEW u \in Url, NEW key \in Key, Joins(u, key) PROVE Streams'
  <1>. SUFFICES ASSUME NEW v \in Url PROVE StreamInv(v)'
    BY DEF Streams
  <1>1. /\ StreamInv(v) /\ UNCHANGED <<book, streams, byRelay, line, asked, on, since, told>>
        /\ roll' = [roll EXCEPT ![u] = @ \cup {key}]
    BY DEF Streams, Joins, node
  <1>2. Open' = Open /\ NewAsks(v)' = NewAsks(v) /\ \A k, p : Names(v, k, p)' <=> Names(v, k, p)
    BY <1>1 DEF Open, NewAsks, Names
  <1>3. roll[v] \subseteq roll'[v]
    BY <1>1 DEF TypeOK
  <1>4. OneQuestion(v)' /\ on'[v] \subseteq roll'[v] /\ since'[v] \subseteq book'
    BY <1>1, <1>2, <1>3 DEF StreamInv, OneQuestion
  <1>5. v \in Open => GoneIsLast(v)'
    BY <1>1, <1>2, <1>3 DEF StreamInv, GoneIsLast
  <1>6. v \in Open => OnIsComing(v)'
    BY <1>1, <1>2 DEF StreamInv, OnIsComing, Due
  <1>7. v \notin Open' => line'[v] = <<>> /\ v \notin told' /\ NewAsks(v)' = {}
    BY <1>1, <1>2 DEF StreamInv
  <1>. QED  BY <1>2, <1>4, <1>5, <1>6, <1>7 DEF StreamInv

(* What is no word, nor the answer to the question of the stream, comes.   *)
LEMMA OtherComesLast ==
    ASSUME TypeOK, NEW u \in Url, StreamInv(u), NEW msg \in Message, msg.kind # "presence",
           ~(msg.kind = "answer" /\ msg.new), Says(u, msg),
           UNCHANGED <<node, relay, since, told>>, NewAsks(u)' = NewAsks(u)
    PROVE  StreamInv(u)'
  <1>1. /\ Open' = Open /\ \A k, p : Names(u, k, p)' <=> Names(u, k, p)
        /\ since' = since /\ on' = on /\ roll' = roll /\ book' = book /\ told' = told
    BY DEF Open, Names, node, relay
  <1>2. CASE u \notin Open
    <2>1. line'[u] = line[u]
      BY <1>2, SaysLast
    <2>. QED  BY <1>1, <1>2, <2>1 DEF StreamInv, OneQuestion
  <1>3. CASE u \in Open
    <2>. DEFINE l == line[u]
                m == line'[u]
    <2>1. l \in Seq(Message) /\ m = Append(l, msg)
      BY <1>3, SaysLast DEF TypeOK
    <2>. HIDE DEF l, m
    <2>2. \A k : /\ Silent(l, k) => Silent(m, k)
                 /\ \A x : LastWord(l, k, x) => LastWord(m, k, x)
      BY <2>1, AppendWord
    <2>3. /\ OneNew(l) => OneNew(m)
          /\ NoneNew(l) <=> NoneNew(m)
          /\ \A k : Brings(l, k) => Brings(m, k)
      BY <2>1, AppendAnswer
    <2>4. OneQuestion(u)'
      BY <1>1, <2>3 DEF StreamInv, OneQuestion, l, m
    <2>5. GoneIsLast(u)'
      BY <1>1, <1>3, <2>2 DEF StreamInv, GoneIsLast, l, m
    <2>6. ASSUME NEW k PROVE Due(u, k) => Due(u, k)'
      BY <1>1, <2>3 DEF Due, l, m
    <2>7. OnIsComing(u)'
      BY <1>1, <1>3, <2>2, <2>6 DEF StreamInv, OnIsComing, l, m
    <2>. QED  BY <1>1, <1>3, <2>4, <2>5, <2>7 DEF StreamInv
  <1>. QED  BY <1>2, <1>3

(* A step that leaves another stream alone.                                *)
LEMMA SpeaksElsewhere ==
    ASSUME TypeOK, NEW u \in Url, NEW v \in Url \ {u}, StreamInv(v), NEW msg \in Message,
           Says(u, msg), UNCHANGED <<node, relay, since, told>>, NewAsks(v)' = NewAsks(v)
    PROVE  StreamInv(v)'
  <1>1. line'[v] = line[v]
    BY SaysLast
  <1>2. /\ Open' = Open /\ \A k, p : Names(v, k, p)' <=> Names(v, k, p)
        /\ since' = since /\ on' = on /\ roll' = roll /\ book' = book /\ told' = told
    BY DEF Open, Names, node, relay
  <1>3. since'[v] \subseteq since[v] /\ since'[v] \subseteq book'
    BY <1>2 DEF StreamInv
  <1>. QED  BY <1>1, <1>2, <1>3, StreamStays

LEMMA CarriesKeeps == ASSUME TypeOK, Streams, NEW u \in Url, NEW key \in Key, Carries(u, key) PROVE Streams'
  <1>. SUFFICES ASSUME NEW v \in Url PROVE StreamInv(v)'
    BY DEF Streams
  <1>. DEFINE msg == [kind |-> "carried", key |-> key]
  <1>1. msg \in Message /\ msg.kind = "carried" /\ Says(u, msg)
    BY DEF Carries, Message
  <1>. HIDE DEF msg
  <1>2. StreamInv(v) /\ UNCHANGED <<node, relay, since, told>> /\ NewAsks(v)' = NewAsks(v)
    BY DEF Streams, Carries, NewAsks
  <1>3. CASE v = u
    BY <1>1, <1>2, <1>3, OtherComesLast
  <1>4. CASE v # u
    BY <1>1, <1>2, <1>4, SpeaksElsewhere
  <1>. QED  BY <1>3, <1>4

(* An ask goes on and stands for all it stood for.                         *)
LEMMA AskGoesOn ==
    ASSUME TypeOK, Streams, NEW a \in asked, NEW b, b.url = a.url, b.new = a.new,
           asked' = (asked \ {a}) \cup {b},
           UNCHANGED <<node, line, relay, since, told>>,
           \A k \in on[a.url] : (~a.begun \/ k \in a.todo \cup a.found) =>
                                    (~b.begun \/ k \in b.todo \cup b.found)
    PROVE  Streams'
  <1>. SUFFICES ASSUME NEW v \in Url PROVE StreamInv(v)'
    BY DEF Streams
  <1>1. /\ StreamInv(v) /\ Open' = Open /\ \A k, p : Names(v, k, p)' <=> Names(v, k, p)
        /\ since' = since /\ on' = on /\ roll' = roll /\ book' = book /\ told' = told /\ line' = line
    BY DEF Streams, Open, Names, node, relay
  <1>2. CASE NewAsks(v)' = NewAsks(v)
    <2>1. since'[v] \subseteq since[v] /\ since'[v] \subseteq book'
      BY <1>1 DEF StreamInv
    <2>. QED  BY <1>1, <1>2, <2>1, StreamStays
  <1>3. CASE NewAsks(v)' # NewAsks(v)
    <2>1. a \in NewAsks(v) /\ v = a.url
      BY <1>3 DEF NewAsks
    <2>2. NewAsks(v) = {a}
      BY <1>1, <2>1 DEF StreamInv, OneQuestion
    <2>3. NewAsks(v)' = {b}
      <3>1. b \in NewAsks(v)'
        BY <2>1 DEF NewAsks
      <3>2. \A c \in NewAsks(v)' : c = b
        BY <2>1, <2>2 DEF NewAsks
      <3>. QED  BY <3>1, <3>2
    <2>4. OneQuestion(v)'
      BY <1>1, <2>2, <2>3 DEF StreamInv, OneQuestion
    <2>5. v \in Open
      BY <1>1, <2>2 DEF StreamInv
    <2>6. ASSUME NEW k \in on[v] PROVE Due(v, k) => Due(v, k)'
      BY <1>1, <2>1, <2>2, <2>3 DEF Due
    <2>7. GoneIsLast(v)' /\ OnIsComing(v)'
      BY <1>1, <2>5, <2>6 DEF StreamInv, GoneIsLast, OnIsComing
    <2>. QED  BY <1>1, <2>4, <2>5, <2>7 DEF StreamInv
  <1>. QED  BY <1>2, <1>3

LEMMA BeginsKeeps == ASSUME TypeOK, Streams, NEW a \in asked, Begins(a) PROVE Streams'
  <1>. DEFINE b == [a EXCEPT !.begun = TRUE, !.todo = on[a.url]]
  <1>1. a \in [url : Url, begun : BOOLEAN, todo : SUBSET Key, found : SUBSET Key, new : BOOLEAN]
    BY DEF TypeOK
  <1>2. b.url = a.url /\ b.new = a.new /\ b.todo = on[a.url]
    BY <1>1
  <1>3. asked' = (asked \ {a}) \cup {b} /\ UNCHANGED <<node, line, relay, since, told>>
    BY DEF Begins
  <1>. HIDE DEF b
  <1>. QED  BY <1>2, <1>3, AskGoesOn

LEMMA WalksKeeps == ASSUME TypeOK, Streams, NEW a \in asked, NEW k \in Key, Walks(a, k) PROVE Streams'
  <1>. DEFINE b == [a EXCEPT !.todo = @ \ {k}, !.found = IF k \in on[a.url] THEN @ \cup {k} ELSE @]
  <1>1. a \in [url : Url, begun : BOOLEAN, todo : SUBSET Key, found : SUBSET Key, new : BOOLEAN]
    BY DEF TypeOK
  <1>2. b.url = a.url /\ b.new = a.new /\ b.begun = a.begun /\ b.todo = a.todo \ {k}
        /\ b.found = IF k \in on[a.url] THEN a.found \cup {k} ELSE a.found
    BY <1>1
  <1>3. asked' = (asked \ {a}) \cup {b} /\ UNCHANGED <<node, line, relay, since, told>>
    BY DEF Walks
  <1>. HIDE DEF b
  <1>4. \A x \in on[a.url] : x \in a.todo \cup a.found => x \in b.todo \cup b.found
    BY <1>2
  <1>. QED  BY <1>2, <1>3, <1>4, AskGoesOn

(* An answer names all that was found where it holds all the keys.         *)
LEMMA NamesAll ==
    ASSUME NEW found \in SUBSET Key, NEW named \in SUBSET found, Cardinality(Key) <= Slots,
           Cardinality(named) = IF Cardinality(found) <= Slots THEN Cardinality(found) ELSE Slots
    PROVE  named = found
  <1>1. IsFiniteSet(Key) /\ Slots \in Nat
    BY PresenceNodeAssumption
  <1>2. IsFiniteSet(found) /\ Cardinality(found) <= Cardinality(Key)
    BY <1>1, FS_Subset
  <1>3. Cardinality(found) \in Nat /\ Cardinality(Key) \in Nat
    BY <1>1, <1>2, FS_CardinalityType
  <1>4. Cardinality(named) = Cardinality(found)
    BY <1>1, <1>2, <1>3
  <1>. QED  BY <1>2, <1>4, FS_Subset

LEMMA AnswersKeeps == ASSUME TypeOK, Streams, NEW a \in asked, Answers(a) PROVE Streams'
  <1>. DEFINE u == a.url
  <1>1. PICK named \in SUBSET a.found :
            /\ Cardinality(named) = IF Cardinality(a.found) <= Slots THEN Cardinality(a.found) ELSE Slots
            /\ Says(u, [kind |-> "answer", found |-> named, new |-> a.new])
    BY DEF Answers
  <1>2. a \in [url : Url, begun : BOOLEAN, todo : SUBSET Key, found : SUBSET Key, new : BOOLEAN]
    BY DEF TypeOK
  <1>. DEFINE msg == [kind |-> "answer", found |-> named, new |-> a.new]
  <1>3. msg \in Message /\ msg.kind = "answer" /\ msg.new = a.new /\ msg.found = named /\ Says(u, msg)
    BY <1>1, <1>2, Answer
  <1>. HIDE DEF msg
  <1>4. u \in Url /\ asked' = asked \ {a} /\ u \in Open /\ a.begun /\ a.todo = {}
        /\ UNCHANGED <<node, relay, since, told>>
    BY <1>2 DEF Answers
  <1>. HIDE DEF u
  <1>5. ASSUME NEW v \in Url, v # u \/ ~a.new PROVE NewAsks(v)' = NewAsks(v)
    BY <1>4, <1>5 DEF NewAsks, u
  <1>6. ASSUME NEW v \in Url \ {u} PROVE StreamInv(v)'
    <2>1. StreamInv(v) /\ NewAsks(v)' = NewAsks(v)
      BY <1>5, <1>6 DEF Streams
    <2>. QED  BY <1>3, <1>4, <1>6, <2>1, SpeaksElsewhere
  <1>7. StreamInv(u)'
    <2>1. CASE ~a.new
      <3>1. StreamInv(u) /\ NewAsks(u)' = NewAsks(u)
        BY <1>4, <1>5, <2>1 DEF Streams
      <3>. QED  BY <1>3, <1>4, <2>1, <3>1, OtherComesLast
    <2>2. CASE a.new
      <3>. DEFINE l == line[u]
                  m == line'[u]
      <3>1. l \in Seq(Message) /\ m = Append(l, msg)
        BY <1>3, <1>4, SaysLast DEF TypeOK
      <3>2. /\ StreamInv(u) /\ Open' = Open /\ \A k, p : Names(u, k, p)' <=> Names(u, k, p)
            /\ since' = since /\ on' = on /\ roll' = roll /\ book' = book /\ told' = told
        BY <1>4 DEF Streams, Open, Names, node, relay
      <3>3. NewAsks(u) = {a} /\ NoneNew(l) /\ u \notin told
        <4>1. a \in NewAsks(u)
          BY <2>2 DEF NewAsks, u
        <4>. QED  BY <3>2, <4>1 DEF StreamInv, OneQuestion
      <3>4. NewAsks(u)' = {}
        BY <1>4, <3>3 DEF NewAsks
      <3>. HIDE DEF l, m
      <3>5. \A k : /\ Silent(l, k) => Silent(m, k)
                   /\ \A x : LastWord(l, k, x) => LastWord(m, k, x)
        BY <1>3, <3>1, AppendWord
      <3>6. OneNew(m) /\ \A k \in named : Brings(m, k)
        BY <1>3, <2>2, <3>1, <3>3, AppendAnswer
      <3>7. OneQuestion(u)'
        BY <3>2, <3>3, <3>4, <3>6 DEF OneQuestion, m
      <3>8. GoneIsLast(u)'
        BY <1>4, <3>2, <3>5 DEF StreamInv, GoneIsLast, l, m
      <3>9. ASSUME Cardinality(Key) <= Slots, NEW k, Due(u, k) PROVE Due(u, k)'
        <4>1. named = a.found
          BY <1>1, <1>2, <3>9, NamesAll
        <4>2. k \in a.found
          BY <1>4, <3>3, <3>9 DEF Due, Brings, NoneNew, l
        <4>. QED  BY <3>6, <4>1, <4>2 DEF Due, m
      <3>10. OnIsComing(u)'
        BY <1>4, <3>2, <3>5, <3>9 DEF StreamInv, OnIsComing, l, m
      <3>. QED  BY <1>4, <3>2, <3>7, <3>8, <3>10 DEF StreamInv
    <2>. QED  BY <2>1, <2>2
  <1>. QED  BY <1>6, <1>7 DEF Streams

LEMMA MissesKeeps == ASSUME TypeOK, Streams, NEW a \in asked, Misses(a) PROVE Streams'
  <1>. SUFFICES ASSUME NEW v \in Url PROVE StreamInv(v)'
    BY DEF Streams
  <1>1. /\ StreamInv(v) /\ Open' = Open /\ \A k, p : Names(v, k, p)' <=> Names(v, k, p)
        /\ since' = since /\ on' = on /\ roll' = roll /\ book' = book /\ told' = told /\ line' = line
        /\ asked' = asked \ {a}
    BY DEF Misses, Streams, Open, Names, node, relay
  <1>2. CASE NewAsks(v)' = NewAsks(v)
    <2>1. since'[v] \subseteq since[v] /\ since'[v] \subseteq book'
      BY <1>1 DEF StreamInv
    <2>. QED  BY <1>1, <1>2, <2>1, StreamStays
  <1>3. CASE NewAsks(v)' # NewAsks(v)
    <2>1. a \in NewAsks(v)
      BY <1>1, <1>3 DEF NewAsks
    <2>2. NewAsks(v) = {a} /\ NoneNew(line[v]) /\ v \notin told /\ v \in Open
      BY <1>1, <2>1 DEF StreamInv, OneQuestion
    <2>3. NewAsks(v)' = {}
      BY <1>1, <2>2 DEF NewAsks
    <2>4. OneQuestion(v)'
      BY <1>1, <2>2, <2>3 DEF StreamInv, OneQuestion
    <2>5. \A k : Due(v, k)'
      BY <1>1, <2>2, <2>3 DEF Due
    <2>6. GoneIsLast(v)' /\ OnIsComing(v)'
      BY <1>1, <2>2, <2>5 DEF StreamInv, GoneIsLast, OnIsComing
    <2>. QED  BY <1>1, <2>2, <2>4, <2>6 DEF StreamInv
  <1>. QED  BY <1>2, <1>3

-----------------------------------------------------------------------------
(* What the node does.                                                     *)

LEMMA OpenToKeeps == ASSUME TypeOK, Streams, NEW u \in Url, OpenTo(u) PROVE Streams'
  <1>. SUFFICES ASSUME NEW v \in Url PROVE StreamInv(v)'
    BY DEF Streams
  <1>1. StreamInv(v) /\ UNCHANGED <<book, byRelay, line, asked, roll, on, since, told>>
    BY DEF Streams, OpenTo, relay
  <1>2. Open' = Open
    BY DEF TypeOK, OpenTo, Open
  <1>3. NewAsks(v)' = NewAsks(v) /\ \A k, p : Names(v, k, p)' <=> Names(v, k, p)
    BY <1>1 DEF NewAsks, Names
  <1>4. since'[v] \subseteq since[v] /\ since'[v] \subseteq book'
    BY <1>1 DEF StreamInv
  <1>. QED  BY <1>1, <1>2, <1>3, <1>4, StreamStays

LEMMA OnOpenKeeps == ASSUME TypeOK, Streams, NEW u \in Url, OnOpen(u) PROVE Streams'
  <1>. SUFFICES ASSUME NEW v \in Url PROVE StreamInv(v)'
    BY DEF Streams
  <1>. DEFINE q == [url |-> u, begun |-> FALSE, todo |-> {}, found |-> {}, new |-> TRUE]
  <1>1. /\ StreamInv(v) /\ UNCHANGED <<book, line, roll, on, told>>
        /\ asked' = asked \cup {q}
        /\ since' = [since EXCEPT ![u] = book]
        /\ byRelay' = With(byRelay, u, <<>>)
    BY DEF Streams, OnOpen, relay
  <1>2. q.url = u /\ q.new /\ ~q.begun
    OBVIOUS
  <1>. HIDE DEF q
  <1>3. Open' = Open \cup {u} /\ u \notin Open
    BY DEF TypeOK, OnOpen, Open
  <1>4. CASE v # u
    <2>1. NewAsks(v)' = NewAsks(v)
      BY <1>1, <1>2, <1>4 DEF NewAsks
    <2>2. \A k, p : Names(v, k, p)' <=> Names(v, k, p)
      BY <1>1, <1>4 DEF Names, With
    <2>3. since'[v] \subseteq since[v] /\ since'[v] \subseteq book'
      BY <1>1, <1>4 DEF StreamInv, TypeOK
    <2>. QED  BY <1>1, <1>3, <1>4, <2>1, <2>2, <2>3, StreamStays
  <1>5. CASE v = u
    <2>1. line[v] = <<>> /\ v \notin told /\ NewAsks(v) = {}
      BY <1>1, <1>3, <1>5 DEF StreamInv
    <2>2. DOMAIN line'[v] = {}
      BY <1>1, <2>1
    <2>3. NewAsks(v)' = {q}
      <3>1. \A a \in NewAsks(v)' : a = q
        BY <1>1, <2>1 DEF NewAsks
      <3>2. q \in NewAsks(v)'
        BY <1>1, <1>2, <1>5 DEF NewAsks
      <3>. QED  BY <3>1, <3>2
    <2>4. \A k, p : ~Names(v, k, p)'
      <3>1. byRelay'[u] = <<>> /\ DOMAIN <<>> = {}
        BY <1>1 DEF With
      <3>. QED  BY <1>5, <3>1 DEF Names
    <2>5. OneQuestion(v)'
      BY <1>1, <2>1, <2>2, <2>3 DEF OneQuestion, OneNew, NoneNew
    <2>6. \A k : Silent(line'[v], k)
      BY <2>2 DEF Silent
    <2>7. GoneIsLast(v)'
      BY <2>4, <2>6 DEF GoneIsLast
    <2>8. \A k : Due(v, k)'
      BY <1>2, <2>3 DEF Due
    <2>9. OnIsComing(v)'
      BY <2>6, <2>8 DEF OnIsComing
    <2>10. since'[v] \subseteq book' /\ on'[v] \subseteq roll'[v]
      BY <1>1, <1>5 DEF TypeOK, StreamInv
    <2>. QED  BY <1>3, <1>5, <2>5, <2>7, <2>9, <2>10 DEF StreamInv
  <1>. QED  BY <1>4, <1>5

(* What the first word does to the picture.                                *)
LEMMA Drawn ==
    ASSUME TypeOK, NEW u \in Open, NEW key \in Key, NEW w \in {"present", "absent", "gone"},
           byRelay' = IF key \notin book \cup DOMAIN byRelay[u] THEN byRelay
                      ELSE IF w = "gone" THEN With(byRelay, u, Without(byRelay[u], {key}))
                      ELSE Said(u, {key}, w = "present")
    PROVE  /\ \A v \in Url \ {u} : \A k, p : Names(v, k, p)' <=> Names(v, k, p)
           /\ \A k, p : k # key => (Names(u, k, p)' <=> Names(u, k, p))
           /\ w = "gone" => ~Names(u, key, FALSE)'
           /\ w = "present" /\ key \in book => Names(u, key, TRUE)'
  <1>1. CASE key \notin book \cup DOMAIN byRelay[u]
    BY <1>1 DEF Names
  <1>2. CASE key \in book \cup DOMAIN byRelay[u] /\ w = "gone"
    <2>1. byRelay' = With(byRelay, u, Without(byRelay[u], {key}))
      BY <1>2
    <2>. QED  BY <1>2, <2>1, TakenOff
  <1>3. CASE key \in book \cup DOMAIN byRelay[u] /\ w # "gone"
    <2>. DEFINE S == {key}
                p == (w = "present")
    <2>1. S \in SUBSET Key /\ p \in BOOLEAN /\ byRelay' = Said(u, S, p) /\ key \in S
          /\ (w = "present" => p = TRUE) /\ \A k : k # key => k \notin S
      BY <1>3
    <2>. HIDE DEF S, p
    <2>. QED  BY <1>3, <2>1, SaidNames
  <1>. QED  BY <1>1, <1>2, <1>3

LEMMA OnChangeKeeps == ASSUME TypeOK, Streams, NEW u \in Url, OnChange(u) PROVE Streams'
  <1>1. PICK i \in 1 .. MaxLine :
            /\ NextChange(u, i)
            /\ byRelay' =
                IF line[u][i].key \notin book \cup DOMAIN byRelay[u] THEN byRelay
                ELSE IF line[u][i].word = "gone"
                THEN With(byRelay, u, Without(byRelay[u], {line[u][i].key}))
                ELSE Said(u, {line[u][i].key}, line[u][i].word = "present")
    BY DEF OnChange
  <1>. DEFINE l == line[u]
              m == line'[u]
  <1>k. PICK key, w : key = line[u][i].key /\ w = line[u][i].word
    OBVIOUS
  <1>2. u \in Open /\ i \in DOMAIN l /\ l \in Seq(Message)
        /\ \A j \in 1 .. i : l[j].kind = "presence" <=> j = i
    BY <1>1 DEF NextChange, TypeOK
  <1>3. Cut(l, i, RemoveAt(l, i)) /\ line' = [line EXCEPT ![u] = RemoveAt(l, i)]
    BY <1>1, <1>2, RemoveAtCuts DEF NextChange
  <1>4. Cut(l, i, m) /\ \A v \in Url \ {u} : line'[v] = line[v]
    BY <1>2, <1>3, TakesOne
  <1>5. l[i].kind = "presence" /\ key \in Key /\ w \in {"present", "absent", "gone"}
    <2>1. l[i] \in Message /\ i \in 1 .. i
      BY <1>2
    <2>2. l[i].kind = "presence"
      BY <1>2, <2>1
    <2>. QED  BY <1>k, <2>1, <2>2, Kinds
  <1>6. /\ \A v \in Url \ {u} : \A k, p : Names(v, k, p)' <=> Names(v, k, p)
        /\ \A k, p : k # key => (Names(u, k, p)' <=> Names(u, k, p))
        /\ w = "gone" => ~Names(u, key, FALSE)'
        /\ w = "present" /\ key \in book => Names(u, key, TRUE)'
    <2>1. byRelay' = IF key \notin book \cup DOMAIN byRelay[u] THEN byRelay
                     ELSE IF w = "gone" THEN With(byRelay, u, Without(byRelay[u], {key}))
                     ELSE Said(u, {key}, w = "present")
      BY <1>1, <1>k
    <2>. QED  BY <1>2, <1>5, <2>1, Drawn
  <1>7. /\ Open' = Open /\ \A v \in Url : NewAsks(v)' = NewAsks(v)
        /\ UNCHANGED <<book, roll, on, since, told>>
    BY DEF OnChange, Open, NewAsks, relay
  <1>. HIDE DEF m
  <1>8. ASSUME NEW v \in Url \ {u} PROVE StreamInv(v)'
    <2>1. StreamInv(v) /\ since'[v] \subseteq since[v] /\ since'[v] \subseteq book'
      BY <1>7 DEF Streams, StreamInv
    <2>. QED  BY <1>4, <1>6, <1>7, <2>1, StreamStays
  <1>9. StreamInv(u)'
    <2>1. StreamInv(u)
      BY DEF Streams
    <2>2. \A k : /\ Silent(l, k) => Silent(m, k)
                 /\ \A x : LastWord(l, k, x) => \/ LastWord(m, k, x)
                                                \/ key = k /\ w = x /\ Silent(m, k)
      BY <1>2, <1>4, <1>k, FirstWordGoes
    <2>3. /\ OneNew(l) => OneNew(m)
          /\ NoneNew(l) => NoneNew(m)
          /\ \A k : Brings(l, k) => Brings(m, k)
      <3>1. ~IsNew(l, i)
        BY <1>5 DEF IsNew
      <3>. QED  BY <1>4, <3>1, CutKeepsAnswers
    <2>4. ~Silent(l, key)
      BY <1>2, <1>5, <1>k DEF Silent, IsWord
    <2>. HIDE DEF l
    <2>5. OneQuestion(u)'
      BY <1>7, <2>1, <2>3 DEF StreamInv, OneQuestion, l, m
    <2>6. GoneIsLast(u)'
      <3>. SUFFICES ASSUME NEW k \in Key, k \notin roll[u]
                    PROVE  LastWord(m, k, "gone") \/ (Silent(m, k) /\ ~Names(u, k, FALSE)')
        BY <1>7 DEF GoneIsLast, m
      <3>1. LastWord(l, k, "gone") \/ (Silent(l, k) /\ ~Names(u, k, FALSE))
        BY <1>2, <2>1 DEF StreamInv, GoneIsLast, l
      <3>2. CASE LastWord(l, k, "gone")
        <4>1. LastWord(m, k, "gone") \/ (key = k /\ w = "gone" /\ Silent(m, k))
          BY <2>2, <3>2
        <4>. QED  BY <1>6, <4>1
      <3>3. CASE Silent(l, k) /\ ~Names(u, k, FALSE)
        <4>1. k # key /\ Silent(m, k)
          BY <2>2, <2>4, <3>3
        <4>. QED  BY <1>6, <3>3, <4>1
      <3>. QED  BY <3>1, <3>2, <3>3
    <2>7. ASSUME NEW k, Due(u, k) PROVE Due(u, k)'
      BY <1>7, <2>3, <2>7 DEF Due, l, m
    <2>8. OnIsComing(u)'
      <3>. SUFFICES ASSUME Cardinality(Key) <= Slots, NEW k \in since[u], k \in on[u]
                    PROVE  \/ LastWord(m, k, "present")
                           \/ Silent(m, k) /\ (Names(u, k, TRUE)' \/ Due(u, k)')
        BY <1>7 DEF OnIsComing, m
      <3>0. k \in book
        BY <2>1 DEF StreamInv
      <3>1. \/ LastWord(l, k, "present")
            \/ Silent(l, k) /\ (Names(u, k, TRUE) \/ Due(u, k))
        BY <1>2, <2>1 DEF StreamInv, OnIsComing, l
      <3>. QED  BY <1>6, <2>2, <2>4, <2>7, <3>0, <3>1
    <2>. QED  BY <1>2, <1>7, <2>1, <2>5, <2>6, <2>8 DEF StreamInv
  <1>. QED  BY <1>8, <1>9 DEF Streams

(* What is no word is heard, and S is present.                             *)
LEMMA PresentIsHeard ==
    ASSUME TypeOK, Streams, NEW u \in Open, NEW S \in SUBSET Key, line[u] # <<>>, Taken(u),
           Head(line[u]).kind # "presence",
           byRelay' = Said(u, S, TRUE),
           UNCHANGED <<book, streams, asked, relay, since>>,
           \A v \in Url \ {u} : v \in told' <=> v \in told,
           u \in told' <=> u \in told \/ IsNew(line[u], 1),
           IsNew(line[u], 1) => S = line[u][1].found \cap book
    PROVE  Streams'
  <1>. DEFINE l == line[u]
              m == line'[u]
  <1>1. l \in Seq(Message) /\ l # <<>> /\ u \in Url
    BY DEF TypeOK, Open
  <1>2. 1 \in DOMAIN l /\ Head(l) = l[1] /\ Cut(l, 1, Tail(l)) /\ line' = [line EXCEPT ![u] = Tail(l)]
    <2>1. line' = [line EXCEPT ![u] = Tail(l)]
      BY DEF Taken
    <2>. QED  BY <1>1, <2>1, TailCuts
  <1>3. Cut(l, 1, m) /\ \A v \in Url \ {u} : line'[v] = line[v]
    BY <1>1, <1>2, TakesOne
  <1>4. l[1].kind # "presence"
    BY <1>2
  <1>5. /\ \A v \in Url \ {u} : \A k, p : Names(v, k, p)' <=> Names(v, k, p)
        /\ \A p : \A k \in S : Names(u, k, p)' <=> p = TRUE
        /\ \A k, p : k \notin S => (Names(u, k, p)' <=> Names(u, k, p))
    BY SaidNames
  <1>6. /\ Open' = Open /\ \A v \in Url : NewAsks(v)' = NewAsks(v)
        /\ UNCHANGED <<book, roll, on, since>>
    BY DEF Open, NewAsks, relay
  <1>. HIDE DEF m
  <1>7. ASSUME NEW v \in Url \ {u} PROVE StreamInv(v)'
    <2>1. StreamInv(v) /\ since'[v] \subseteq since[v] /\ since'[v] \subseteq book'
      BY <1>6 DEF Streams, StreamInv
    <2>. QED  BY <1>3, <1>5, <1>6, <2>1, StreamStays
  <1>8. StreamInv(u)'
    <2>1. StreamInv(u)
      BY <1>1 DEF Streams
    <2>2. \A k : /\ Silent(l, k) => Silent(m, k)
                 /\ \A x : LastWord(l, k, x) => LastWord(m, k, x)
      BY <1>3, <1>4, NoWordGoes
    <2>3. /\ OneNew(l) => OneNew(m)
          /\ NoneNew(l) => NoneNew(m)
          /\ IsNew(l, 1) /\ OneNew(l) => NoneNew(m)
          /\ \A k : ~IsNew(l, 1) /\ Brings(l, k) => Brings(m, k)
      BY <1>3, CutKeepsAnswers
    <2>4. IsNew(l, 1) => ~NoneNew(l) /\ NewAsks(u) = {} /\ u \notin told
      BY <1>2, <2>1 DEF NoneNew, StreamInv, OneQuestion
    <2>5. IsNew(l, 1) => \A k : Brings(l, k) => k \in l[1].found
      BY <1>2, <2>1 DEF Brings, StreamInv, OneQuestion, OneNew
    <2>6. IsNew(l, 1) => S = l[1].found \cap book
      OBVIOUS
    <2>7. u \in told' <=> u \in told \/ IsNew(l, 1)
      OBVIOUS
    <2>. HIDE DEF l
    <2>8. OneQuestion(u)'
      <3>1. CASE IsNew(l, 1)
        BY <1>1, <1>6, <2>1, <2>3, <2>4, <3>1 DEF StreamInv, OneQuestion, l, m
      <3>2. CASE ~IsNew(l, 1)
        BY <1>1, <1>6, <2>1, <2>3, <2>7, <3>2 DEF StreamInv, OneQuestion, l, m
      <3>. QED  BY <3>1, <3>2
    <2>9. GoneIsLast(u)'
      <3>. SUFFICES ASSUME NEW k \in Key, k \notin roll[u]
                    PROVE  LastWord(m, k, "gone") \/ (Silent(m, k) /\ ~Names(u, k, FALSE)')
        BY <1>6 DEF GoneIsLast, m
      <3>1. LastWord(l, k, "gone") \/ (Silent(l, k) /\ ~Names(u, k, FALSE))
        BY <2>1 DEF StreamInv, GoneIsLast, l
      <3>2. Names(u, k, FALSE)' => Names(u, k, FALSE)
        BY <1>5
      <3>. QED  BY <2>2, <3>1, <3>2
    <2>10. ASSUME NEW k \in since[u], Due(u, k) PROVE Names(u, k, TRUE)' \/ Due(u, k)'
      <3>1. CASE IsNew(l, 1)
        <4>1. Brings(l, k)
          BY <2>4, <2>10, <3>1 DEF Due, l
        <4>2. k \in S
          BY <2>1, <2>5, <2>6, <3>1, <4>1 DEF StreamInv
        <4>. QED  BY <1>5, <4>2
      <3>2. CASE ~IsNew(l, 1)
        BY <1>1, <1>6, <2>3, <2>7, <2>10, <3>2 DEF Due, l, m
      <3>. QED  BY <3>1, <3>2
    <2>11. OnIsComing(u)'
      <3>. SUFFICES ASSUME Cardinality(Key) <= Slots, NEW k \in since[u], k \in on[u]
                    PROVE  \/ LastWord(m, k, "present")
                           \/ Silent(m, k) /\ (Names(u, k, TRUE)' \/ Due(u, k)')
        BY <1>6 DEF OnIsComing, m
      <3>1. \/ LastWord(l, k, "present")
            \/ Silent(l, k) /\ (Names(u, k, TRUE) \/ Due(u, k))
        BY <2>1 DEF StreamInv, OnIsComing, l
      <3>2. Names(u, k, TRUE) => Names(u, k, TRUE)'
        BY <1>5
      <3>. QED  BY <2>2, <2>10, <3>1, <3>2
    <2>. QED  BY <1>6, <2>1, <2>8, <2>9, <2>11 DEF StreamInv
  <1>. QED  BY <1>7, <1>8 DEF Streams

LEMMA ReconciledKeeps == ASSUME TypeOK, Streams, NEW u \in Url, Reconciled(u) PROVE Streams'
  <1>. DEFINE S == Head(line[u]).found \cap book
  <1>1. u \in Open /\ line[u] # <<>> /\ Head(line[u]).kind = "answer" /\ Taken(u)
        /\ UNCHANGED <<book, streams, asked, relay, since>> /\ byRelay' = Said(u, S, TRUE)
        /\ told' = IF Head(line[u]).new THEN told \cup {u} ELSE told
    BY DEF Reconciled, Hears
  <1>2. Head(line[u]) = line[u][1]
    BY <1>1, TailCuts DEF TypeOK
  <1>3. S \in SUBSET Key
    BY DEF TypeOK
  <1>4. IsNew(line[u], 1) => S = line[u][1].found \cap book
    BY <1>2
  <1>5. IsNew(line[u], 1) <=> Head(line[u]).new
    BY <1>1, <1>2 DEF IsNew
  <1>6. /\ \A v \in Url \ {u} : v \in told' <=> v \in told
        /\ u \in told' <=> u \in told \/ IsNew(line[u], 1)
    BY <1>1, <1>5
  <1>. HIDE DEF S
  <1>. QED  BY <1>1, <1>3, <1>4, <1>6, PresentIsHeard

LEMMA HeardKeeps == ASSUME TypeOK, Streams, NEW u \in Url, Heard(u) PROVE Streams'
  <1>. DEFINE S == {Head(line[u]).key} \cap book
  <1>1. u \in Open /\ line[u] # <<>> /\ Head(line[u]).kind = "carried" /\ Taken(u)
        /\ UNCHANGED <<book, streams, asked, relay, since, told>> /\ byRelay' = Said(u, S, TRUE)
    BY DEF Heard, Hears
  <1>2. Head(line[u]) = line[u][1]
    BY <1>1, TailCuts DEF TypeOK
  <1>3. S \in SUBSET Key
    BY DEF TypeOK
  <1>4. ~IsNew(line[u], 1)
    BY <1>1, <1>2 DEF IsNew
  <1>. HIDE DEF S
  <1>. QED  BY <1>1, <1>3, <1>4, PresentIsHeard

(* The streams of U end, and the relays of U are forgotten.                *)
LEMMA EndedKeeps ==
    ASSUME TypeOK, Streams, NEW U \in SUBSET Url, Ended(U), Open' = Open \ U,
           UNCHANGED <<book, relay, since>>,
           \A v \in Url \ U : \A k, p : Names(v, k, p)' <=> Names(v, k, p)
    PROVE  Streams'
  <1>. SUFFICES ASSUME NEW v \in Url PROVE StreamInv(v)'
    BY DEF Streams
  <1>1. StreamInv(v) /\ UNCHANGED <<book, roll, on, since>>
    BY DEF Streams, relay
  <1>2. \A a \in asked : [a EXCEPT !.new = FALSE].url = a.url /\ ~[a EXCEPT !.new = FALSE].new
    BY DEF TypeOK
  <1>3. asked' = {IF a.url \in U THEN [a EXCEPT !.new = FALSE] ELSE a : a \in asked}
    BY DEF Ended
  <1>4. CASE v \notin U
    <2>1. line'[v] = line[v] /\ (v \in told' <=> v \in told)
      BY <1>4 DEF Ended
    <2>2. NewAsks(v)' = NewAsks(v)
      <3>1. \A a \in NewAsks(v)' : a \in NewAsks(v)
        BY <1>2, <1>3, <1>4 DEF NewAsks
      <3>2. \A a \in NewAsks(v) : a \in NewAsks(v)'
        BY <1>3, <1>4 DEF NewAsks
      <3>. QED  BY <3>1, <3>2
    <2>3. since'[v] \subseteq since[v] /\ since'[v] \subseteq book'
      BY <1>1 DEF StreamInv
    <2>. QED  BY <1>1, <1>4, <2>1, <2>2, <2>3, StreamStays
  <1>5. CASE v \in U
    <2>1. line'[v] = <<>> /\ v \notin told' /\ DOMAIN line'[v] = {}
      BY <1>5 DEF Ended
    <2>2. NewAsks(v)' = {}
      <3>. SUFFICES ASSUME NEW b \in NewAsks(v)' PROVE FALSE
        OBVIOUS
      <3>1. b \in asked' /\ b.url = v /\ b.new
        BY DEF NewAsks
      <3>2. PICK a \in asked : b = IF a.url \in U THEN [a EXCEPT !.new = FALSE] ELSE a
        BY <1>3, <3>1
      <3>. QED  BY <1>2, <1>5, <3>1, <3>2
    <2>3. OneQuestion(v)'
      BY <2>1, <2>2 DEF OneQuestion, OneNew, NoneNew
    <2>. QED  BY <1>1, <1>5, <2>1, <2>2, <2>3 DEF StreamInv
  <1>. QED  BY <1>4, <1>5

LEMMA OnCloseKeeps == ASSUME TypeOK, Streams, NEW u \in Url, OnClose(u) PROVE Streams'
  <1>1. Ended({u}) /\ UNCHANGED <<book, relay, since>> /\ {u} \in SUBSET Url
    BY DEF OnClose
  <1>2. Open' = Open \ {u}
    BY DEF TypeOK, OnClose, Open
  <1>3. \A v \in Url \ {u} : \A k, p : Names(v, k, p)' <=> Names(v, k, p)
    BY DEF OnClose, Names, Without, Restrict
  <1>. QED  BY <1>1, <1>2, <1>3, EndedKeeps

LEMMA StopKeeps == ASSUME TypeOK, Streams, Stop PROVE Streams'
  <1>1. Ended(Url) /\ UNCHANGED <<book, relay, since>> /\ Url \in SUBSET Url
    BY DEF Stop
  <1>2. Open' = Open \ Url
    BY DEF Stop, Open
  <1>. QED  BY <1>1, <1>2, EndedKeeps

LEMMA ContactsKeep ==
    ASSUME TypeOK, Streams, NEW k \in Key, AddContact(k) \/ DropContact(k) PROVE Streams'
  <1>. SUFFICES ASSUME NEW v \in Url PROVE StreamInv(v)'
    BY DEF Streams
  <1>1. StreamInv(v) /\ UNCHANGED <<streams, byRelay, line, asked, roll, on, told>>
    BY DEF Streams, AddContact, DropContact, relay
  <1>2. Open' = Open /\ NewAsks(v)' = NewAsks(v) /\ \A x, p : Names(v, x, p)' <=> Names(v, x, p)
    BY <1>1 DEF Open, NewAsks, Names
  <1>3. since'[v] \subseteq since[v] /\ since'[v] \subseteq book'
    BY <1>1 DEF StreamInv, AddContact, DropContact, TypeOK
  <1>. QED  BY <1>1, <1>2, <1>3, StreamStays

LEMMA NextStreams == TypeOK /\ Streams /\ [Next]_vars => Streams'
  <1>. SUFFICES ASSUME TypeOK, Streams, [Next]_vars PROVE Streams'
    OBVIOUS
  <1>1. CASE UNCHANGED vars
    <2>. SUFFICES ASSUME NEW v \in Url PROVE StreamInv(v)'
      BY DEF Streams
    <2>1. StreamInv(v) /\ UNCHANGED <<book, streams, byRelay, line, asked, roll, on, since, told>>
      BY <1>1 DEF Streams, vars, node, relay
    <2>2. Open' = Open /\ NewAsks(v)' = NewAsks(v) /\ \A k, p : Names(v, k, p)' <=> Names(v, k, p)
      BY <2>1 DEF Open, NewAsks, Names
    <2>3. since'[v] \subseteq since[v] /\ since'[v] \subseteq book'
      BY <2>1 DEF StreamInv
    <2>. QED  BY <2>1, <2>2, <2>3, StreamStays
  <1>. QED
    BY <1>1, ComesKeeps, GoesKeeps, RemovedKeeps, JoinsKeeps, CarriesKeeps, BeginsKeeps,
       WalksKeeps, AnswersKeeps, MissesKeeps, OpenToKeeps, OnOpenKeeps, OnChangeKeeps,
       ReconciledKeeps, HeardKeeps, OnCloseKeeps, StopKeeps, ContactsKeep DEF Next

-----------------------------------------------------------------------------
(* What follows for the picture.                                           *)

LEMMA PictureInvariant == Spec => [](TypeOK /\ Streams)
  <1>1. TypeOK /\ Streams /\ [Next]_vars => (TypeOK /\ Streams)'
    BY NextTypeOK, NextStreams
  <1>. QED  BY <1>1, InitHolds, PTL DEF Spec

(* What the node shows is what the streams it holds have said: a relay     *)
(* that is lost asserts nothing (presenceNode.js, onClose and forget).     *)
THEOREM PictureAlwaysHeld == Spec => []PictureIsHeld
  <1>1. TypeOK => PictureIsHeld
    <2>. SUFFICES ASSUME TypeOK PROVE LostRelayIsSilent
      BY DEF PictureIsHeld
    <2>. SUFFICES ASSUME NEW k \in Key, Dot(k) # "white"
                  PROVE  \E u \in Open : Names(u, k, Dot(k) = "green")
      BY DEF LostRelayIsSilent
    <2>1. \A p : \A u \in Url : Names(u, k, p) => u \in Open
      BY DEF Names, TypeOK
    <2>2. CASE \E u \in Url : Names(u, k, TRUE)
      <3>1. (Dot(k) = "green") = TRUE
        BY <2>2 DEF Dot
      <3>. QED  BY <2>1, <2>2, <3>1
    <2>3. CASE ~\E u \in Url : Names(u, k, TRUE)
      <3>1. (Dot(k) = "green") = FALSE /\ \E u \in Url : Names(u, k, FALSE)
        BY <2>3 DEF Dot
      <3>. QED  BY <2>1, <3>1
    <2>. QED  BY <2>2, <2>3
  <1>. QED  BY <1>1, PictureInvariant, PTL

(* A contact who is connected at a relay that answered the question of its *)
(* stream is green once that stream is quiet, in whatever order the walk,  *)
(* the broadcasts and the packets came (presenceNode.js, reconcile).       *)
THEOREM ConnectedAlwaysGreen == Spec => []ConnectedIsGreen
  <1>1. TypeOK /\ Streams => ConnectedIsGreen
    <2>. SUFFICES ASSUME TypeOK, Streams, NEW u \in told, Quiet(u), Cardinality(Key) <= Slots,
                         NEW k \in since[u] \cap on[u]
                  PROVE  Dot(k) = "green"
      BY DEF ConnectedIsGreen
    <2>1. u \in Url /\ u \in Open /\ line[u] = <<>> /\ DOMAIN line[u] = {}
      BY DEF Quiet, TypeOK
    <2>2. OnIsComing(u) /\ OneQuestion(u)
      BY <2>1 DEF Streams, StreamInv
    <2>3. ~Due(u, k)
      BY <2>1, <2>2 DEF Due, Brings, OneQuestion
    <2>4. Names(u, k, TRUE)
      BY <2>1, <2>2, <2>3 DEF OnIsComing, LastWord
    <2>. QED  BY <2>1, <2>4 DEF Dot
  <1>. QED  BY <1>1, PictureInvariant, PTL

(* Nobody is red on the word of a relay that removed him, once its stream  *)
(* is quiet (presenceNode.js, onChange).                                   *)
THEOREM RemovedNeverAway == Spec => []RemovedIsNotAway
  <1>1. TypeOK /\ Streams => RemovedIsNotAway
    <2>. SUFFICES ASSUME TypeOK, Streams, NEW u \in Url, Quiet(u), NEW k \in Key \ roll[u]
                  PROVE  ~Names(u, k, FALSE)
      BY DEF RemovedIsNotAway
    <2>1. u \in Open /\ line[u] = <<>> /\ DOMAIN line[u] = {}
      BY DEF Quiet
    <2>2. GoneIsLast(u)
      BY <2>1 DEF Streams, StreamInv
    <2>. QED  BY <2>1, <2>2 DEF GoneIsLast, LastWord
  <1>. QED  BY <1>1, PictureInvariant, PTL

-----------------------------------------------------------------------------
(* The loop that keeps one stream (sseClient.js).                          *)

(* What is known of the distances.                                         *)
Distances ==
    /\ First \in Nat /\ First > 0
    /\ Longest \in Nat /\ First <= Longest
    /\ RateLimited \in Nat /\ Longest <= RateLimited
    /\ Idle \in Nat /\ Idle > 0
    /\ \A ms \in Named : ms \in Nat
    /\ None \notin Nat

LEMMA DistancesFit == Distances
  BY SseClientAssumption DEF Distances

(* A distance that the loop may keep.                                      *)
Fits(ms) == \E end \in {Longest, RateLimited} \cup Named : ms \in 0 .. end

(* The loop's state, conjunct by conjunct.                                 *)
LoopInv ==
    /\ phase \in {"dialling", "refused", "open", "waiting", "over"}
    /\ Fits(retryMs)
    /\ timer \in Nat \cup {None}
    /\ idleTimer \in 0 .. Idle \cup {None}
    /\ dead \in BOOLEAN
    /\ reachable \in BOOLEAN
    /\ silence \in 0 .. Longest
    /\ base \in {First} \cup Named
    /\ hint \in Named \cup {None}
    /\ phase \in {"dialling", "refused", "open"} <=> idleTimer # None
    /\ phase = "waiting" <=> timer # None

LEMMA LoopInvIsLoopGoesOn == LoopInv <=> LoopGoesOn
  BY DEF LoopInv, Fits, LoopGoesOn, LoopTypeOK, OneLoop, Calling

LEMMA WhatFits ==
    ASSUME Distances
    PROVE  /\ Fits(First)
           /\ \A ms \in Named : Fits(ms)
           /\ \A ms : Fits(ms) => /\ ms \in Nat
                                  /\ Fits(Less(2 * ms, Longest))
                                  /\ Fits(More(ms, RateLimited))
  <1>. USE DEF Distances, Fits
  <1>1. Fits(First)
    <2>1. First \in 0 .. Longest
      OBVIOUS
    <2>. QED  BY <2>1
  <1>2. ASSUME NEW ms \in Named PROVE Fits(ms)
    <2>1. ms \in 0 .. ms
      OBVIOUS
    <2>. QED  BY <2>1
  <1>3. ASSUME NEW ms, Fits(ms)
        PROVE  /\ ms \in Nat
               /\ Fits(Less(2 * ms, Longest))
               /\ Fits(More(ms, RateLimited))
    <2>1. ms \in Nat
      BY <1>3
    <2>2. Less(2 * ms, Longest) \in 0 .. Longest
      BY <2>1 DEF Less
    <2>3. CASE ms < RateLimited
      <3>1. More(ms, RateLimited) \in 0 .. RateLimited
        BY <2>1, <2>3 DEF More
      <3>. QED  BY <2>1, <2>2, <3>1
    <2>4. CASE ~(ms < RateLimited)
      <3>1. More(ms, RateLimited) = ms
        BY <2>4 DEF More
      <3>. QED  BY <1>3, <2>1, <2>2, <3>1
    <2>. QED  BY <2>3, <2>4
  <1>. QED  BY <1>1, <1>2, <1>3

LEMMA InitLoop ==
    ASSUME Distances, LoopInit
    PROVE  LoopInv
  <1>1. Fits(retryMs) /\ Idle \in 0 .. Idle /\ Idle # None /\ silence \in 0 .. Longest
    BY WhatFits DEF Distances, LoopInit
  <1>. QED  BY <1>1 DEF LoopInit, LoopInv

(* After a loss: the next attempt has its timer, or there is none.         *)
LEMMA RetryGoesOn ==
    ASSUME Distances, LoopInv, ScheduleRetry(retryMs)
    PROVE  LoopInv'
  <1>1. Fits(retryMs') /\ retryMs \in Nat
    BY WhatFits DEF LoopInv, ScheduleRetry
  <1>2. timer' \in Nat
    BY <1>1 DEF ScheduleRetry, Spread
  <1>3. silence' \in 0 .. Longest
    BY DEF Distances, LoopInv, ScheduleRetry, Less
  <1>. QED  BY <1>1, <1>2, <1>3 DEF Distances, LoopInv, ScheduleRetry

LEMMA NoRetryGoesOn ==
    ASSUME Distances, LoopInv, NoRetry
    PROVE  LoopInv'
  BY DEF LoopInv, NoRetry

LEMMA NextLoop ==
    ASSUME Distances, LoopInv, [LoopNext]_loopVars
    PROVE  LoopInv'
  <1>1. CASE Unreachable
    BY <1>1, RetryGoesOn, NoRetryGoesOn DEF Unreachable
  <1>2. CASE Refused
    <2>1. Fits(retryMs') /\ silence' \in 0 .. Longest /\ base' \in {First} \cup Named
      <3>1. CASE retryMs' \in Named /\ base' = retryMs' /\ silence' = 0
        BY <3>1, WhatFits DEF Distances
      <3>2. CASE retryMs' = More(retryMs, RateLimited) /\ silence' = silence /\ base' = base
        BY <3>2, WhatFits DEF LoopInv
      <3>3. CASE retryMs' = retryMs /\ silence' = silence /\ base' = base
        BY <3>3 DEF LoopInv
      <3>. QED  BY <1>2, <3>1, <3>2, <3>3 DEF Refused
    <2>. QED  BY <1>2, <2>1 DEF LoopInv, Refused
  <1>3. CASE RefusalRead
    BY <1>3, RetryGoesOn, NoRetryGoesOn DEF RefusalRead
  <1>4. CASE Opened
    BY <1>4 DEF LoopInv, Opened
  <1>5. CASE StreamEnds
    BY <1>5, RetryGoesOn, NoRetryGoesOn DEF StreamEnds
  <1>6. ASSUME NEW ms \in Named \cup {None}, Bytes(ms) PROVE LoopInv'
    <2>1. Fits(retryMs') /\ base' \in {First} \cup Named
      BY <1>6, WhatFits DEF Bytes
    <2>. QED  BY <1>6, <2>1 DEF Distances, LoopInv, Bytes
  <1>7. CASE IdleFires
    BY <1>7, RetryGoesOn, NoRetryGoesOn DEF IdleFires
  <1>8. CASE TimerFires
    <2>1. Idle \in 0 .. Idle /\ Idle # None /\ timer # None
      BY <1>8 DEF Distances, TimerFires
    <2>2. phase' = "dialling" /\ idleTimer' = Idle /\ timer' = None
      BY <1>8 DEF TimerFires
    <2>. QED  BY <1>8, <2>1, <2>2 DEF LoopInv, TimerFires
  <1>9. CASE Close
    BY <1>9, NoRetryGoesOn DEF Close
  <1>10. CASE GoesDead
    BY <1>10 DEF LoopInv, GoesDead
  <1>11. CASE RelayChanges
    BY <1>11 DEF LoopInv, RelayChanges
  <1>12. CASE Tick
    <2>1. timer' \in Nat \cup {None} /\ (timer' = None <=> timer = None)
      BY <1>12 DEF Distances, LoopInv, Tick, Aged
    <2>2. idleTimer' \in 0 .. Idle \cup {None} /\ (idleTimer' = None <=> idleTimer = None)
      BY <1>12 DEF Distances, LoopInv, Tick, Aged
    <2>. QED  BY <1>12, <2>1, <2>2 DEF LoopInv, Tick
  <1>13. CASE UNCHANGED loopVars
    BY <1>13 DEF LoopInv, loopVars
  <1>. QED
    BY <1>1, <1>2, <1>3, <1>4, <1>5, <1>6, <1>7, <1>8, <1>9, <1>10, <1>11, <1>12, <1>13
    DEF LoopNext

(* Powers of two, from the subsets of a finite set.                        *)
LEMMA PowerDoubles ==
    ASSUME NEW n \in Nat
    PROVE  2 ^ n \in Nat /\ 2 ^ (n + 1) = 2 * 2 ^ n
  <1>. DEFINE S == 1 .. n
              x == n + 1
              T == S \cup {x}
              P == SUBSET S
              Q == {s \cup {x} : s \in P}
  <1>1. IsFiniteSet(S) /\ Cardinality(S) = n
    BY FS_Interval
  <1>2. x \notin S
    OBVIOUS
  <1>. HIDE DEF S, x
  <1>3. IsFiniteSet(P) /\ Cardinality(P) = 2 ^ n /\ Cardinality(P) \in Nat
    BY <1>1, FS_SUBSET, FS_CardinalityType
  <1>4. IsFiniteSet(T) /\ Cardinality(T) = n + 1
    BY <1>1, <1>2, FS_AddElement
  <1>5. Cardinality(SUBSET T) = 2 ^ (n + 1)
    BY <1>4, FS_SUBSET
  <1>6. IsFiniteSet(Q) /\ Cardinality(Q) = Cardinality(P)
    <2>. DEFINE f == [s \in P |-> s \cup {x}]
    <2>1. \A s, t \in P : s \cup {x} = t \cup {x} => s = t
      <3>. SUFFICES ASSUME NEW s \in P, NEW t \in P, s \cup {x} = t \cup {x} PROVE s = t
        OBVIOUS
      <3>1. \A y : y \in s <=> y \in t
        BY <1>2
      <3>. QED  BY <3>1
    <2>2. f \in [P -> Q]
      OBVIOUS
    <2>3. \A q \in Q : \E s \in P : f[s] = q
      OBVIOUS
    <2>4. \A s, t \in P : f[s] = f[t] => s = t
      BY <2>1
    <2>. HIDE DEF f, P, Q
    <2>5. f \in Bijection(P, Q)
      BY <2>2, <2>3, <2>4 DEF Bijection, Injection, Surjection, IsInjective
    <2>6. ExistsBijection(P, Q)
      BY <2>5 DEF ExistsBijection
    <2>. QED  BY <1>3, <2>6, FS_Bijection
  <1>7. SUBSET T = P \cup Q /\ P \cap Q = {}
    <2>1. ASSUME NEW s \in SUBSET T PROVE s \in P \cup Q
      <3>1. CASE x \in s
        <4>1. s \ {x} \in P /\ s = (s \ {x}) \cup {x}
          BY <3>1
        <4>. QED  BY <4>1
      <3>2. CASE x \notin s
        BY <3>2
      <3>. QED  BY <3>1, <3>2
    <2>. QED  BY <1>2, <2>1
  <1>. HIDE DEF P, Q
  <1>8. Cardinality(SUBSET T) = Cardinality(P) + Cardinality(Q)
    <2>1. Cardinality(P \cap Q) = 0
      BY <1>7, FS_EmptySet
    <2>2. Cardinality(P \cup Q) = Cardinality(P) + Cardinality(Q) - Cardinality(P \cap Q)
      BY <1>3, <1>6, FS_Union
    <2>3. Cardinality(P) \in Nat /\ Cardinality(Q) \in Nat
      BY <1>3, <1>6
    <2>4. Cardinality(SUBSET T) = Cardinality(P \cup Q)
      BY <1>7, Zenon
    <2>. QED  BY <2>1, <2>2, <2>3, <2>4
  <1>. QED  BY <1>3, <1>5, <1>6, <1>8

LEMMA InitQuiet ==
    ASSUME Distances, LoopInit
    PROVE  SilenceKeepsAway
  <1>1. 2 ^ 0 = 1
    OBVIOUS
  <1>. QED  BY <1>1 DEF Distances, LoopInit, SilenceKeepsAway, Less

LEMMA RetryKeepsAway ==
    ASSUME Distances, LoopInv, SilenceKeepsAway, ScheduleRetry(retryMs)
    PROVE  SilenceKeepsAway'
  <1>. DEFINE p == 2 ^ silence
              q == 2 ^ silence'
  <1>1. silence \in Nat /\ retryMs \in Nat /\ base \in Nat /\ Longest \in Nat
    BY WhatFits DEF LoopInv, Distances
  <1>2. p \in Nat /\ 2 ^ (silence + 1) = 2 * p
    BY <1>1, PowerDoubles
  <1>3. silence' = silence \/ silence' = silence + 1
    <2>1. silence <= Longest /\ silence' = Less(silence + 1, Longest)
      BY DEF LoopInv, Distances, ScheduleRetry
    <2>. QED  BY <1>1, <2>1 DEF Less
  <1>4. q = p \/ q = 2 * p
    BY <1>2, <1>3
  <1>5. retryMs >= Less(base * p, Longest)
    BY DEF SilenceKeepsAway
  <1>6. retryMs' = Less(2 * retryMs, Longest) /\ base' = base
    BY DEF ScheduleRetry
  <1>. DEFINE x == base * p
              y == base * q
  <1>7. x \in Nat /\ (y = x \/ y = 2 * x)
    BY <1>1, <1>2, <1>4
  <1>8. retryMs >= Less(x, Longest)
    BY <1>5
  <1>. HIDE DEF x, y, p, q
  <1>9. retryMs' >= Less(y, Longest)
    BY <1>1, <1>6, <1>7, <1>8 DEF Less
  <1>. QED  BY <1>6, <1>9 DEF SilenceKeepsAway, x, y, p, q

LEMMA NextQuiet ==
    ASSUME Distances, LoopInv, SilenceKeepsAway, [LoopNext]_loopVars
    PROVE  SilenceKeepsAway'
  <1>1. ASSUME retryMs' \in Nat, base' = retryMs', silence' = 0 PROVE SilenceKeepsAway'
    <2>1. 2 ^ silence' = 1
      BY <1>1
    <2>2. \A n, max \in Nat : n * 1 = n /\ Less(n, max) <= n
      BY DEF Less
    <2>3. Less(retryMs' * 1, Longest) <= retryMs'
      BY <1>1, <2>2 DEF Distances
    <2>. QED  BY <1>1, <2>1, <2>2, <2>3 DEF SilenceKeepsAway
  <1>2. ASSUME UNCHANGED <<retryMs, silence, base>> PROVE SilenceKeepsAway'
    BY <1>2 DEF SilenceKeepsAway
  <1>3. ASSUME NoRetry PROVE SilenceKeepsAway'
    BY <1>2, <1>3 DEF NoRetry
  <1>4. CASE Unreachable
    BY <1>3, <1>4, RetryKeepsAway DEF Unreachable
  <1>5. CASE Refused
    <2>1. CASE retryMs' \in Named /\ base' = retryMs' /\ silence' = 0
      BY <1>1, <2>1 DEF Distances
    <2>2. CASE retryMs' = More(retryMs, RateLimited) /\ UNCHANGED <<silence, base>>
      <3>. DEFINE z == Less(base * 2 ^ silence, Longest)
      <3>1. silence \in Nat /\ retryMs \in Nat /\ base \in Nat
        BY WhatFits DEF LoopInv, Distances
      <3>2. z \in Nat
        BY <3>1, PowerDoubles DEF Distances, Less
      <3>3. retryMs >= z
        BY DEF SilenceKeepsAway
      <3>. HIDE DEF z
      <3>4. retryMs' >= z
        BY <2>2, <3>1, <3>2, <3>3 DEF Distances, More
      <3>. QED  BY <2>2, <3>4 DEF SilenceKeepsAway, z
    <2>3. CASE UNCHANGED <<retryMs, silence, base>>
      BY <1>2, <2>3
    <2>. QED  BY <1>5, <2>1, <2>2, <2>3 DEF Refused
  <1>6. CASE RefusalRead
    BY <1>3, <1>6, RetryKeepsAway DEF RefusalRead
  <1>7. CASE StreamEnds
    BY <1>3, <1>7, RetryKeepsAway DEF StreamEnds
  <1>8. ASSUME NEW ms \in Named \cup {None}, Bytes(ms) PROVE SilenceKeepsAway'
    BY <1>1, <1>8 DEF Distances, Bytes
  <1>9. CASE IdleFires
    BY <1>3, <1>9, RetryKeepsAway DEF IdleFires
  <1>10. CASE Opened \/ TimerFires \/ GoesDead \/ RelayChanges
    BY <1>2, <1>10 DEF Opened, TimerFires, GoesDead, RelayChanges
  <1>11. CASE Close
    BY <1>3, <1>11 DEF Close
  <1>12. CASE Tick \/ UNCHANGED loopVars
    BY <1>2, <1>12 DEF Tick, loopVars
  <1>. QED
    BY <1>4, <1>5, <1>6, <1>7, <1>8, <1>9, <1>10, <1>11, <1>12 DEF LoopNext

(* There is one loop and it never sleeps for good, whatever waits a relay  *)
(* names, 0 included (sseClient.js, run and scheduleRetry).                *)
THEOREM LoopAlwaysGoesOn == LoopSpec => []LoopGoesOn
  <1>1. Distances
    BY DistancesFit
  <1>2. LoopInit => LoopInv
    BY <1>1, InitLoop
  <1>3. LoopInv /\ [LoopNext]_loopVars => LoopInv'
    BY <1>1, NextLoop
  <1>4. LoopInv => LoopGoesOn
    BY LoopInvIsLoopGoesOn
  <1>. QED  BY <1>2, <1>3, <1>4, PTL DEF LoopSpec

(* Every attempt that brings no byte doubles the distance at which the     *)
(* silence began, up to the longest: the first one, or the wait that the   *)
(* relay named last, which may be 0 (sseClient.js, scheduleRetry).         *)
THEOREM SilenceAlwaysKeepsAway == LoopSpec => []SilenceKeepsAway
  <1>1. Distances
    BY DistancesFit
  <1>2. LoopInit => LoopInv /\ SilenceKeepsAway
    BY <1>1, InitLoop, InitQuiet
  <1>3. LoopInv /\ SilenceKeepsAway /\ [LoopNext]_loopVars
            => LoopInv' /\ SilenceKeepsAway'
    BY <1>1, NextLoop, NextQuiet
  <1>. QED  BY <1>2, <1>3, PTL DEF LoopSpec

(* A step of the loop is one of the contract, or none.                     *)
LEMMA StepKeepsContract ==
    ASSUME Distances, LoopInv, [LoopNext]_loopVars
    PROVE  [Contract!Next]_Contract!contractVars
  <1>. DEFINE Goal == [Contract!Next]_Contract!contractVars
  <1>. USE DEF Contract!Next, Contract!contractVars, Contract!Opens,
               Contract!Ends, Contract!Stops, Contract!World
  <1>1. ASSUME phase # "over", NoRetry PROVE Goal
    BY <1>1 DEF LoopInv, NoRetry
  <1>2. ASSUME phase # "over", ScheduleRetry(retryMs) PROVE Goal
    BY <1>2 DEF LoopInv, ScheduleRetry
  <1>3. ASSUME UNCHANGED <<phase, reachable>> PROVE Goal
    BY <1>3
  <1>4. CASE Unreachable
    BY <1>1, <1>2, <1>4 DEF Unreachable
  <1>5. CASE Refused
    BY <1>5 DEF Refused
  <1>6. CASE RefusalRead
    BY <1>1, <1>2, <1>6 DEF RefusalRead
  <1>7. CASE Opened
    BY <1>7 DEF Opened
  <1>8. CASE StreamEnds
    BY <1>1, <1>2, <1>8 DEF StreamEnds
  <1>9. ASSUME NEW ms \in Named \cup {None}, Bytes(ms) PROVE Goal
    BY <1>3, <1>9 DEF Bytes
  <1>10. CASE IdleFires
    BY <1>1, <1>2, <1>10 DEF IdleFires, Calling
  <1>11. CASE TimerFires
    <2>1. phase = "waiting"
      BY <1>11 DEF Distances, LoopInv, TimerFires
    <2>. QED  BY <1>3, <1>11, <2>1 DEF TimerFires
  <1>12. CASE Close
    BY <1>1, <1>12 DEF Close
  <1>13. CASE GoesDead \/ Tick
    BY <1>3, <1>13 DEF GoesDead, Tick
  <1>14. CASE RelayChanges
    BY <1>14 DEF LoopInv, RelayChanges
  <1>15. CASE UNCHANGED loopVars
    BY <1>3, <1>15 DEF loopVars
  <1>. QED
    BY <1>4, <1>5, <1>6, <1>7, <1>8, <1>9, <1>10, <1>11, <1>12, <1>13, <1>14, <1>15
    DEF LoopNext

(* What the caller may rely on holds at every step: the callbacks take     *)
(* turns, and a stream that was closed stays closed (sseClient.js,         *)
(* connect).                                                               *)
THEOREM StreamKeepsItsContract == LoopSpec => Contract!Safe
  <1>1. Distances
    BY DistancesFit
  <1>2. LoopInit => LoopInv /\ Contract!Init
    BY <1>1, InitLoop DEF LoopInit, Contract!Init
  <1>3. LoopInv /\ [LoopNext]_loopVars => LoopInv'
    BY <1>1, NextLoop
  <1>4. LoopInv /\ [LoopNext]_loopVars
            => [Contract!Next]_Contract!contractVars
    BY <1>1, StepKeepsContract
  <1>. QED  BY <1>2, <1>3, <1>4, PTL DEF LoopSpec, Contract!Safe
=============================================================================
