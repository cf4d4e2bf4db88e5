---------------------------- MODULE RelayProofs ----------------------------
(***************************************************************************)
(* Proofs about Presence.tla and, on top of them, about Relay.tla, for any *)
(* people, connections, allowance, requests, held posts and ceilings.      *)
(*                                                                         *)
(* The registry.  A handler changes it in two moves: the one it is about   *)
(* (a stream is registered, or taken out), and then a broadcast, under     *)
(* which further connections are cut and further sinks are deleted.        *)
(* Registered and NoAbsenceOf say of a registry what the invariants say of *)
(* the current one; the lemmas show that the second move keeps them, and   *)
(* the theorem has one step per handler for the first.                     *)
(*                                                                         *)
(* The relay.  Its handlers share three things, and each has an argument   *)
(* of its own.  The registry of streams: a handler of Relay only adds      *)
(* pushes to a handler of Presence or to none.  The held posts: a slot is  *)
(* filled for a post that waited for nothing, and emptied with the post it *)
(* names.  The route table and the answers it owes: every handler files    *)
(* one request, ends some, lets some lapse, or starts again; RouteSteps    *)
(* says which, and the properties of routes follow from that alone.        *)
(***************************************************************************)
EXTENDS Relay, RouteTableProofs

-----------------------------------------------------------------------------
(* The registry of streams (Presence.tla).                                 *)

Socket == [state : SocketState, who : Person]

Conns == [Conn -> Socket]

(* The registry sk names live connections of the members themselves.       *)
Registered(cs, sk) ==
    /\ cs \in Conns
    /\ sk \in [Person -> Conn \cup {NoConn}]
    /\ \A m \in Streaming(sk) : cs[sk[m]].who = m /\ cs[sk[m]].state # "free"

NoAbsenceOf(sk, t) == \A k, m \in Streaming(sk) : t[k][m] # "absent"

Counts(sk) ==
    /\ IsFiniteSet(Streaming(sk))
    /\ Cardinality(Streaming(sk) \ {Owner}) <= Allowed

(* The inductive invariant.                                                *)
IInv ==
    /\ TypeOK
    /\ OnlyMembersAreKnown
    /\ NoFalseAbsence
    /\ Counts(sink)

-----------------------------------------------------------------------------
(* Cutting connections changes neither whose they are nor which exist.     *)
LEMMA CutKeeps ==
    ASSUME NEW cs, NEW sk, Registered(cs, sk), NEW S
    PROVE  Registered(Cut(cs, S), sk)
<1>1. \A c \in Conn : /\ Cut(cs, S)[c] \in [state : SocketState, who : Person]
                      /\ Cut(cs, S)[c].who = cs[c].who
                      /\ cs[c].state # "free" => Cut(cs, S)[c].state # "free"
  BY DEF Cut, Registered, Conns, Socket, SocketState
<1>2. Cut(cs, S) \in Conns
  BY <1>1 DEF Cut, Conns, Socket
<1>3. \A m \in Streaming(sk) : sk[m] \in Conn
  BY DEF Registered, Streaming
<1> QED
  BY <1>1, <1>2, <1>3 DEF Registered

(* A send leaves the connections as they are or cuts one.                  *)
LEMMA SentKeeps ==
    ASSUME NEW cs, NEW sk, Registered(cs, sk), NEW rk, NEW m, NEW after \in Sent(cs, rk, m)
    PROVE  Registered(after, sk)
BY CutKeeps DEF Sent

(* Deleting sinks leaves fewer streams, and each of them as it was.        *)
LEMMA DroppedStreams ==
    ASSUME NEW sk, sk \in [Person -> Conn \cup {NoConn}], NEW D
    PROVE  /\ Dropped(sk, D) \in [Person -> Conn \cup {NoConn}]
           /\ Streaming(Dropped(sk, D)) = Streaming(sk) \ D
           /\ \A m \in Streaming(sk) \ D : Dropped(sk, D)[m] = sk[m]
BY DEF Dropped, Streaming

LEMMA DroppedKeeps ==
    ASSUME NEW cs, NEW sk, Registered(cs, sk), NEW D
    PROVE  Registered(cs, Dropped(sk, D))
BY DroppedStreams DEF Registered

(* A registry with no more streams than one within the allowance is too.   *)
LEMMA FewerCount ==
    ASSUME NEW S, NEW T, T \subseteq S, IsFiniteSet(S),
           Cardinality(S \ {Owner}) <= Allowed
    PROVE  IsFiniteSet(T) /\ Cardinality(T \ {Owner}) <= Allowed
<1>1. IsFiniteSet(T)
  BY FS_Subset
<1>2. IsFiniteSet(S \ {Owner}) /\ T \ {Owner} \subseteq S \ {Owner}
  BY FS_Subset
<1>3. Cardinality(T \ {Owner}) <= Cardinality(S \ {Owner})
  BY <1>2, FS_Subset
<1>4. Cardinality(T \ {Owner}) \in Nat /\ Cardinality(S \ {Owner}) \in Nat
  BY <1>2, FS_Subset, FS_CardinalityType
<1> QED
  BY <1>1, <1>3, <1>4, PresenceAssumption

(* What a broadcast leaves of the words: whoever heard it knows of m what  *)
(* was said, and of anybody else what it knew.                             *)
LEMMA HeardWords ==
    ASSUME told \in [Person -> [Person -> Word]],
           NEW U, NEW m \in Person, NEW word, word \in Word
    PROVE  /\ Heard(U, m, word) \in [Person -> [Person -> Word]]
           /\ \A k \in U, j \in Person : k \in Person =>
                  /\ Heard(U, m, word)[k][m] = word
                  /\ j # m => Heard(U, m, word)[k][j] = told[k][j]
BY DEF Heard

-----------------------------------------------------------------------------
(* The invariant in the terms of the lemmas.                               *)
LEMMA IInvParts ==
    IInv <=> /\ members \subseteq Person
             /\ active \subseteq members
             /\ told \in [Person -> [Person -> Word]]
             /\ Registered(conn, sink)
             /\ Streaming(sink) \subseteq members
             /\ NoAbsenceOf(sink, told)
             /\ Counts(sink)
BY DEF IInv, TypeOK, OnlyMembersAreKnown, NoFalseAbsence, NoAbsenceOf, Registered,
   Conns, Socket, Present

LEMMA CountsDropped ==
    ASSUME NEW sk, sk \in [Person -> Conn \cup {NoConn}], Counts(sk), NEW D
    PROVE  Counts(Dropped(sk, D))
<1>1. Streaming(Dropped(sk, D)) \subseteq Streaming(sk)
  BY DroppedStreams
<1> QED
  BY <1>1, FewerCount DEF Counts

(* The first move of streamOpen(): one more stream, or another one.        *)
LEMMA CountsOpened ==
    ASSUME IInv, NEW m \in Person, NEW c \in Conn,
           sink[m] # NoConn \/ m = Owner \/ ~Full(sink)
    PROVE  Counts([sink EXCEPT ![m] = c])
<1> DEFINE S == Streaming(sink)
           T == Streaming([sink EXCEPT ![m] = c])
<1>1. sink \in [Person -> Conn \cup {NoConn}] /\ IsFiniteSet(S)
      /\ Cardinality(S \ {Owner}) <= Allowed
  BY DEF IInv, TypeOK, Counts
<1>2. T = S \cup {m} /\ (sink[m] # NoConn <=> m \in S)
  BY <1>1, PresenceAssumption DEF Streaming
<1> HIDE DEF S, T
<1>3. IsFiniteSet(T)
  BY <1>1, <1>2, FS_AddElement
<1>4. CASE sink[m] # NoConn \/ m = Owner
  <2>1. T \ {Owner} = S \ {Owner}
    BY <1>2, <1>4
  <2> QED
    BY <1>1, <1>3, <2>1 DEF Counts, S, T
<1>5. CASE sink[m] = NoConn /\ ~Full(sink)
  <2>1. Cardinality(S) \in Nat /\ ~(Cardinality(S) >= Allowed)
    BY <1>1, <1>5, FS_CardinalityType DEF Full, S
  <2>2. Cardinality(T) = Cardinality(S) + 1
    BY <1>1, <1>2, <1>5, FS_AddElement
  <2>3. Cardinality(T) <= Allowed
    BY <2>1, <2>2, PresenceAssumption
  <2>4. /\ Cardinality(T \ {Owner}) <= Cardinality(T)
        /\ IsFiniteSet(T \ {Owner})
    BY <1>3, FS_Subset
  <2>5. Cardinality(T \ {Owner}) \in Nat /\ Cardinality(T) \in Nat
    BY <1>3, <2>4, FS_CardinalityType
  <2> QED
    BY <1>3, <2>3, <2>4, <2>5, PresenceAssumption DEF Counts, T
<1> QED
  BY <1>4, <1>5

LEMMA OpenKeeps ==
    ASSUME IInv, NEW m \in Person, NEW c \in Conn, StreamOpen(m, c)
    PROVE  IInv'
<1> DEFINE sk == [sink EXCEPT ![m] = c]
           cs == [d \in Conn |->
                    IF d = c THEN [state |-> "open", who |-> m]
                    ELSE IF d = sink[m] /\ conn[d].state = "open"
                         THEN [conn[d] EXCEPT !.state = "shut"] ELSE conn[d]]
<1>1. /\ members \subseteq Person /\ active \subseteq members
      /\ told \in [Person -> [Person -> Word]]
      /\ Registered(conn, sink) /\ Streaming(sink) \subseteq members
      /\ NoAbsenceOf(sink, told)
  BY IInvParts
<1>2. PICK cut \in SUBSET OpenIn(cs, {sk[k] : k \in Streaming(sk) \ {m}}) :
         LET lost == Unheard(cs, sk, Person, cut)
         IN  /\ sink' = Dropped(sk, lost)
             /\ conn' \in Sent(Cut(cs, cut), Dropped(sk, lost \cup {m}), Owner)
             /\ told' = [Heard(Streaming(sk) \ lost, m, "present")
                           EXCEPT ![m] = [Fresh EXCEPT ![m] = "present"]]
  BY DEF StreamOpen
<1> DEFINE lost == Unheard(cs, sk, Person, cut)
<1>3. /\ m \in members /\ conn[c].state = "free"
      /\ sink[m] # NoConn \/ m = Owner \/ ~Full(sink)
      /\ active' = active \cup {m} /\ members' = members
  BY DEF StreamOpen
<1>4. sk \in [Person -> Conn \cup {NoConn}] /\ Streaming(sk) = Streaming(sink) \cup {m}
  BY <1>1, PresenceAssumption DEF Registered, Streaming
<1>5. Registered(cs, sk)
  <2>1. cs \in Conns
    BY <1>1 DEF Registered, Conns, Socket, SocketState
  <2>2. ASSUME NEW k \in Streaming(sk)
        PROVE  cs[sk[k]].who = k /\ cs[sk[k]].state # "free"
    <3>1. CASE k = m
      BY <1>1, <3>1 DEF Registered
    <3>2. CASE k # m
      <4>1. k \in Streaming(sink) /\ sk[k] = sink[k] /\ sink[k] \in Conn
        BY <1>1, <1>4, <2>2, <3>2 DEF Registered, Streaming
      <4>2. conn[sink[k]].who = k /\ conn[sink[k]].state # "free" /\ sink[k] # c
        BY <1>1, <1>3, <4>1 DEF Registered
      <4> QED
        BY <1>1, <4>1, <4>2 DEF Registered, Conns, Socket
    <3> QED
      BY <3>1, <3>2
  <2> QED
    BY <1>4, <2>1, <2>2 DEF Registered
<1>6. Registered(conn', sink')
  BY <1>2, <1>5, CutKeeps, SentKeeps, DroppedKeeps
<1>7. Streaming(sink') = Streaming(sk) \ lost
  BY <1>2, <1>4, DroppedStreams
<1>8. Counts(sink')
  BY <1>2, <1>3, <1>4, CountsOpened, CountsDropped
<1> DEFINE U == Streaming(sk) \ lost
           words == Heard(U, m, "present")
<1>9. /\ words \in [Person -> [Person -> Word]]
      /\ \A k, j \in U : k \in Streaming(sink) => words[k][j] # "absent"
  <2>1. "present" \in Word
    BY DEF Word
  <2>2. /\ words \in [Person -> [Person -> Word]]
        /\ \A k \in U, j \in Person : k \in Person =>
               /\ words[k][m] = "present"
               /\ j # m => words[k][j] = told[k][j]
    <3> HIDE DEF U
    <3> QED
      BY <1>1, <2>1, HeardWords
  <2>3. U \subseteq Person /\ U \subseteq Streaming(sink) \cup {m}
    BY <1>4 DEF Streaming
  <2> HIDE DEF U, words
  <2> QED
    BY <1>1, <2>2, <2>3 DEF NoAbsenceOf
<1>10. /\ told' \in [Person -> [Person -> Word]]
       /\ \A j \in Person : told'[m][j] # "absent"
       /\ \A k \in Person \ {m} : told'[k] = words[k]
  <2>1. told' = [words EXCEPT ![m] = [Fresh EXCEPT ![m] = "present"]]
    BY <1>2
  <2> HIDE DEF words
  <2> QED
    BY <1>9, <2>1 DEF Fresh, Word
<1>11. NoAbsenceOf(sink', told')
  <2>1. ASSUME NEW k \in Streaming(sink'), NEW j \in Streaming(sink')
        PROVE  told'[k][j] # "absent"
    <3>1. k \in Person /\ j \in Person
      BY DEF Streaming
    <3>2. k \in U /\ j \in U
      BY <1>7
    <3>3. CASE k = m
      BY <1>10, <3>1, <3>3
    <3>4. CASE k # m
      <4>1. k \in Streaming(sink)
        BY <1>4, <3>2, <3>4
      <4> HIDE DEF words, U
      <4> QED
        BY <1>9, <1>10, <3>1, <3>2, <3>4, <4>1
    <3> QED
      BY <3>3, <3>4
  <2> QED
    BY <2>1 DEF NoAbsenceOf
<1>12. Streaming(sink') \subseteq members' /\ active' \subseteq members'
       /\ members' \subseteq Person
  BY <1>1, <1>3, <1>4, <1>7
<1> QED
  BY <1>6, <1>8, <1>10, <1>11, <1>12 DEF IInv, TypeOK, OnlyMembersAreKnown,
     NoFalseAbsence, NoAbsenceOf, Registered, Conns, Socket, Present

(* The stream of m is out of the registry, if there was one, and everybody *)
(* who is left is told: streamClose() and forgetPeer().                    *)
LEMMA GoneKeeps ==
    ASSUME IInv, NEW m \in Person, NEW cs, NEW cut, NEW lost,
           Registered(cs, [sink EXCEPT ![m] = NoConn]),
           sink' = Dropped([sink EXCEPT ![m] = NoConn], lost),
           conn' \in Sent(Cut(cs, cut), Dropped([sink EXCEPT ![m] = NoConn], lost), Owner),
           told' = Heard(Streaming([sink EXCEPT ![m] = NoConn]) \ lost, m, "absent"),
           members \ {m} \subseteq members', members' \subseteq members,
           active' \subseteq members'
    PROVE  IInv'
<1> DEFINE sk == [sink EXCEPT ![m] = NoConn]
           U == Streaming(sk) \ lost
<1>1. /\ members \subseteq Person /\ told \in [Person -> [Person -> Word]]
      /\ sink \in [Person -> Conn \cup {NoConn}]
      /\ Streaming(sink) \subseteq members
      /\ NoAbsenceOf(sink, told) /\ Counts(sink)
  BY IInvParts DEF Registered
<1>2. /\ sk \in [Person -> Conn \cup {NoConn}]
      /\ Streaming(sk) = Streaming(sink) \ {m}
      /\ sk = Dropped(sink, {m})
  BY <1>1 DEF Streaming, Dropped
<1>3. Registered(conn', sink')
  BY CutKeeps, SentKeeps, DroppedKeeps
<1>4. Streaming(sink') = U
  BY <1>2, DroppedStreams
<1>5. Counts(sink')
  BY <1>1, <1>2, CountsDropped
<1>6. /\ told' \in [Person -> [Person -> Word]]
      /\ \A k, j \in U : told'[k][j] # "absent"
  <2>1. m \notin U /\ U \subseteq Streaming(sink) /\ U \subseteq Person
    BY <1>2 DEF Streaming
  <2>2. "absent" \in Word
    BY DEF Word
  <2> DEFINE words == Heard(U, m, "absent")
  <2>3. /\ words \in [Person -> [Person -> Word]]
        /\ \A k \in U, j \in Person : k \in Person =>
               /\ words[k][m] = "absent"
               /\ j # m => words[k][j] = told[k][j]
    <3> HIDE DEF U
    <3> QED
      BY <1>1, <2>2, HeardWords
  <2>4. told' = words
    OBVIOUS
  <2> HIDE DEF U, words
  <2>5. ASSUME NEW k \in U, NEW j \in U
        PROVE  words[k][j] # "absent"
    <3>1. k \in Person /\ j \in Person /\ j # m
      BY <2>1
    <3>2. words[k][j] = told[k][j]
      BY <2>3, <3>1
    <3>3. told[k][j] # "absent"
      BY <1>1, <2>1 DEF NoAbsenceOf
    <3> QED
      BY <3>2, <3>3
  <2> QED
    BY <2>3, <2>4, <2>5
<1>7. NoAbsenceOf(sink', told')
  <2>1. U \subseteq Streaming(sink)
    BY <1>2
  <2> HIDE DEF U
  <2> QED
    BY <1>4, <1>6, <2>1 DEF NoAbsenceOf
<1>8. Streaming(sink') \subseteq members' /\ members' \subseteq Person
  BY <1>1, <1>2, <1>4
<1> QED
  BY <1>3, <1>5, <1>6, <1>7, <1>8 DEF IInv, TypeOK, OnlyMembersAreKnown,
     NoFalseAbsence, NoAbsenceOf, Registered, Conns, Socket, Present

(* A teardown that starts from connections of which some gave way since.   *)
LEMMA TeardownFromKeeps ==
    ASSUME IInv, NEW c \in Conn, NEW now, Registered(now, sink), TeardownFrom(c, now)
    PROVE  IInv'
<1> DEFINE m  == conn[c].who
           cs == [now EXCEPT ![c] = NoStream]
           sk == [sink EXCEPT ![m] = NoConn]
<1>1. /\ members \subseteq Person /\ active \subseteq members
      /\ told \in [Person -> [Person -> Word]]
      /\ Registered(conn, sink) /\ Streaming(sink) \subseteq members
      /\ NoAbsenceOf(sink, told) /\ Counts(sink)
  BY IInvParts
<1>2. m \in Person /\ members' = members
  BY <1>1 DEF Registered, Conns, Socket, TeardownFrom
<1>3. cs \in Conns
  BY IdentityAssumption DEF Registered, Conns, Socket, NoStream, SocketState, Person
<1>4. ASSUME NEW rk \in [Person -> Conn \cup {NoConn}],
             Streaming(rk) \subseteq Streaming(sink),
             \A k \in Streaming(rk) : rk[k] = sink[k] /\ rk[k] # c
      PROVE  Registered(cs, rk)
  <2>1. \A k \in Streaming(rk) : now[rk[k]].who = k /\ now[rk[k]].state # "free"
                                 /\ rk[k] \in Conn
    BY <1>1, <1>4 DEF Registered, Streaming
  <2>2. \A k \in Streaming(rk) : cs[rk[k]] = now[rk[k]]
    BY <1>1, <1>4, <2>1 DEF Registered, Conns, Socket
  <2> HIDE DEF cs
  <2> QED
    BY <1>3, <1>4, <2>1, <2>2 DEF Registered
<1>5. \A k \in Streaming(sink) : sink[k] = c => k = m
  BY <1>1 DEF Registered
<1>6. CASE m \in members /\ EndsStream(c)
  <2>1. PICK cut \in SUBSET OpenIn(cs, {sk[k] : k \in Streaming(sk)}) :
             LET lost == Unheard(cs, sk, Person, cut)
             IN  /\ sink' = Dropped(sk, lost)
                 /\ conn' \in Sent(Cut(cs, cut), Dropped(sk, lost), Owner)
                 /\ told' = Heard(Streaming(sk) \ lost, m, "absent")
    BY <1>6 DEF TeardownFrom
  <2>2. active' = active \ {m}
    BY <1>6 DEF TeardownFrom
  <2>3. /\ sk \in [Person -> Conn \cup {NoConn}]
        /\ Streaming(sk) \subseteq Streaming(sink)
        /\ \A k \in Streaming(sk) : sk[k] = sink[k] /\ sk[k] # c
    <3>1. sink \in [Person -> Conn \cup {NoConn}]
      BY <1>1 DEF Registered
    <3>2. /\ sk \in [Person -> Conn \cup {NoConn}]
          /\ \A k \in Streaming(sk) : k \in Streaming(sink) /\ k # m /\ sk[k] = sink[k]
      BY <1>2, <3>1 DEF Streaming
    <3> HIDE DEF sk, m
    <3> QED
      BY <1>5, <3>2
  <2>4. Registered(cs, sk)
    BY <1>4, <2>3
  <2> HIDE DEF cs, m
  <2> QED
    BY <1>1, <1>2, <2>1, <2>2, <2>4, GoneKeeps
<1>7. CASE ~(m \in members /\ EndsStream(c))
  <2>1. conn' = cs /\ UNCHANGED <<members, sink, active, told>>
    BY <1>7 DEF TeardownFrom
  <2>2. \A k \in Streaming(sink) : sink[k] # c
    BY <1>1, <1>5, <1>7 DEF EndsStream
  <2>3. Registered(cs, sink)
    <3>1. sink \in [Person -> Conn \cup {NoConn}]
      BY <1>1 DEF Registered
    <3> QED
      BY <1>4, <2>2, <3>1
  <2> HIDE DEF cs
  <2> QED
    BY <1>1, <2>1, <2>3 DEF IInv, TypeOK, OnlyMembersAreKnown,
       NoFalseAbsence, NoAbsenceOf, Registered, Conns, Socket, Present, Counts
<1> QED
  BY <1>6, <1>7

LEMMA TeardownKeeps ==
    ASSUME IInv, NEW c \in Conn, Teardown(c)
    PROVE  IInv'
BY IInvParts, TeardownFromKeeps DEF Teardown

LEMMA ForgetKeeps ==
    ASSUME IInv, NEW m \in Person, ForgetPeer(m)
    PROVE  IInv'
<1> DEFINE sk == [sink EXCEPT ![m] = NoConn]
<1>1. PICK cut \in SUBSET OpenIn(conn, {sk[k] : k \in Streaming(sk)}) :
           LET lost == Unheard(conn, sk, Person, cut)
           IN  /\ sink' = Dropped(sk, lost)
               /\ conn' \in Sent(Cut(conn, cut), Dropped(sk, lost), Owner)
               /\ told' = Heard(Streaming(sk) \ lost, m, "absent")
  BY DEF ForgetPeer
<1>2. members' = members \ {m} /\ active' = active \ {m} /\ active \subseteq members
  BY IInvParts DEF ForgetPeer
<1>3. Registered(conn, sink)
  BY IInvParts
<1>4. sk = Dropped(sink, {m})
  BY <1>3 DEF Registered, Dropped
<1>5. Registered(conn, sk)
  BY <1>3, <1>4, DroppedKeeps
<1> QED
  BY <1>1, <1>2, <1>5, GoneKeeps

(* announceMember(), after a roll that may have gained the member.         *)
LEMMA AnnounceKeeps ==
    ASSUME IInv, NEW m \in Person, NEW cs, Registered(cs, sink), AnnouncesMember(cs, m),
           members \subseteq members', members' \subseteq Person, active' = active
    PROVE  IInv'
<1>1. /\ active \subseteq members /\ told \in [Person -> [Person -> Word]]
      /\ sink \in [Person -> Conn \cup {NoConn}]
      /\ Present \subseteq members /\ Present \subseteq Person
      /\ NoAbsenceOf(sink, told) /\ Counts(sink)
  BY IInvParts DEF Registered, Present, Streaming
<1>2. PICK cut \in SUBSET OpenIn(cs, {sink[k] : k \in Present \ {m}}) :
           LET lost == Unheard(cs, sink, Person \ {m}, cut)
           IN  /\ sink' = Dropped(sink, lost)
               /\ conn' = Cut(cs, cut)
               /\ told' = IF m \in Present
                          THEN Heard(Present \ (lost \cup {m}), m, "present")
                          ELSE told
  BY DEF AnnouncesMember
<1> DEFINE lost == Unheard(cs, sink, Person \ {m}, cut)
           U == Present \ (lost \cup {m})
           words == Heard(U, m, "present")
<1>3. Registered(conn', sink')
  BY <1>2, CutKeeps, DroppedKeeps
<1>4. Streaming(sink') = Present \ lost /\ m \notin lost
  BY <1>1, <1>2, DroppedStreams DEF Present, Unheard
<1>5. Counts(sink')
  BY <1>1, <1>2, CountsDropped
<1>6. CASE m \in Present
  <2>1. "present" \in Word
    BY DEF Word
  <2>2. /\ words \in [Person -> [Person -> Word]]
        /\ \A k \in U, j \in Person : k \in Person =>
               /\ words[k][m] = "present"
               /\ j # m => words[k][j] = told[k][j]
    <3> HIDE DEF U
    <3> QED
      BY <1>1, <2>1, HeardWords
  <2>3. words[m] = told[m]
    BY DEF Heard
  <2>4. told' = words
    BY <1>2, <1>6
  <2> HIDE DEF words
  <2>5. ASSUME NEW k \in Present \ lost, NEW j \in Present \ lost
        PROVE  words[k][j] # "absent"
    <3>1. k \in Person /\ j \in Person /\ told[k][j] # "absent"
      BY <1>1 DEF NoAbsenceOf, Present
    <3>2. CASE k = m
      BY <2>3, <3>1, <3>2
    <3>3. CASE k # m
      <4>1. k \in U
        BY <3>3
      <4> HIDE DEF U
      <4>2. CASE j = m
        BY <2>2, <3>1, <4>1, <4>2
      <4>3. CASE j # m
        <5>1. words[k][j] = told[k][j]
          BY <2>2, <3>1, <4>1, <4>3
        <5> QED
          BY <3>1, <5>1
      <4> QED
        BY <4>2, <4>3
    <3> QED
      BY <3>2, <3>3
  <2>6. told' \in [Person -> [Person -> Word]] /\ NoAbsenceOf(sink', told')
    <3> HIDE DEF lost
    <3> QED
      BY <1>4, <2>2, <2>4, <2>5 DEF NoAbsenceOf
  <2> QED
    BY <1>1, <1>3, <1>4, <1>5, <2>6 DEF IInv, TypeOK, OnlyMembersAreKnown,
       NoFalseAbsence, NoAbsenceOf, Registered, Conns, Socket, Present
<1>7. CASE m \notin Present
  <2>1. told' = told
    BY <1>2, <1>7
  <2>2. NoAbsenceOf(sink', told')
    BY <1>1, <1>4, <2>1 DEF NoAbsenceOf, Present
  <2> QED
    BY <1>1, <1>3, <1>4, <1>5, <2>1, <2>2 DEF IInv, TypeOK, OnlyMembersAreKnown,
       NoFalseAbsence, NoAbsenceOf, Registered, Conns, Socket, Present
<1> QED
  BY <1>6, <1>7

(* A step of the sockets alone.                                            *)
LEMMA SocketKeeps ==
    ASSUME IInv, Registered(conn', sink), UNCHANGED <<members, sink, told>>,
           active' \subseteq members
    PROVE  IInv'
BY IInvParts DEF IInv, TypeOK, OnlyMembersAreKnown, NoFalseAbsence, NoAbsenceOf,
   Registered, Conns, Socket, Present, Counts

-----------------------------------------------------------------------------
LEMMA InitHolds == Init => IInv
<1> SUFFICES ASSUME Init PROVE IInv
  OBVIOUS
<1>1. Owner \in Person /\ Roll \subseteq Person /\ Allowed \in Nat
  BY IdentityAssumption, PresenceAssumption DEF Person
<1>2. sink = [m \in Person |-> NoConn] /\ Streaming(sink) = {}
  BY DEF Init, Streaming
<1>3. Counts(sink)
  <2>1. Streaming(sink) \ {Owner} = {}
    BY <1>2
  <2> QED
    BY <1>1, <1>2, <2>1, FS_EmptySet DEF Counts
<1>4. told \in [Person -> [Person -> Word]]
  BY DEF Init, Fresh, Word
<1>5. Registered(conn, sink)
  BY <1>1, <1>2 DEF Init, NoStream, Registered, Conns, Socket, SocketState
<1> QED
  BY <1>1, <1>2, <1>3, <1>4, <1>5, IInvParts DEF Init, NoAbsenceOf

LEMMA RestartHolds == Restart /\ members \subseteq Person => IInv'
<1> SUFFICES ASSUME Restart, members \subseteq Person PROVE IInv'
  OBVIOUS
<1>1. Owner \in Person /\ Allowed \in Nat
  BY IdentityAssumption, PresenceAssumption DEF Person
<1>2. sink' = [m \in Person |-> NoConn] /\ Streaming(sink') = {}
  BY DEF Restart, Streaming
<1>3. Counts(sink')
  <2>1. Streaming(sink') \ {Owner} = {}
    BY <1>2
  <2> QED
    BY <1>1, <1>2, <2>1, FS_EmptySet DEF Counts
<1>4. told' \in [Person -> [Person -> Word]]
  BY DEF Restart, Fresh, Word
<1>5. Registered(conn', sink')
  BY <1>1, <1>2 DEF Restart, NoStream, Registered, Conns, Socket, SocketState
<1> QED
  BY <1>1, <1>2, <1>3, <1>4, <1>5 DEF Restart, IInv, TypeOK, OnlyMembersAreKnown,
     NoFalseAbsence, NoAbsenceOf, Registered, Conns, Socket, Present

LEMMA StepKeeps == IInv /\ [Next]_presenceVars => IInv'
<1> SUFFICES ASSUME IInv, [Next]_presenceVars PROVE IInv'
  OBVIOUS
<1>1. Registered(conn, sink) /\ active \subseteq members /\ members \subseteq Person
  BY IInvParts
<1>2. ASSUME NEW m \in Person, NEW c \in Conn, StreamOpen(m, c) PROVE IInv'
  BY <1>2, OpenKeeps
<1>3. ASSUME NEW c \in Conn, Teardown(c) PROVE IInv'
  BY <1>3, TeardownKeeps
<1>4. ASSUME NEW c \in Conn, ClientCloses(c) PROVE IInv'
  <2>1. Registered(conn', sink)
    BY <1>1, <1>4 DEF ClientCloses, Registered, Conns, Socket, SocketState
  <2> QED
    BY <1>1, <1>4, <2>1, SocketKeeps DEF ClientCloses
<1>5. ASSUME NEW c \in Conn, Heartbeat(c) PROVE IInv'
  <2>1. Registered(conn', sink)
    BY <1>1, <1>5, CutKeeps DEF Heartbeat
  <2> QED
    BY <1>1, <1>5, <2>1, SocketKeeps DEF Heartbeat
<1>6. ASSUME NEW m \in Person, TakeCard(m) PROVE IInv'
  <2>1. Registered(conn', sink)
    BY <1>1, <1>6, SentKeeps DEF TakeCard
  <2> QED
    BY <1>1, <1>6, <2>1, SocketKeeps DEF TakeCard
<1>7. ASSUME NEW m \in Person, ForgetPeer(m) PROVE IInv'
  BY <1>7, ForgetKeeps
<1>8. ASSUME NEW m \in Person, Claim(m) PROVE IInv'
  <2>1. PICK cs \in Sent(conn, sink, Owner) : AnnouncesMember(cs, m)
    BY <1>8 DEF Claim
  <2>2. Registered(cs, sink)
    BY <1>1, SentKeeps
  <2> QED
    BY <1>1, <1>8, <2>1, <2>2, AnnounceKeeps DEF Claim
<1>9. ASSUME NEW m \in Person, Rename(m) PROVE IInv'
  BY <1>1, <1>9, AnnounceKeeps DEF Rename
<1>10. CASE Restart
  BY <1>1, <1>10, RestartHolds
<1>11. CASE UNCHANGED presenceVars
  BY <1>1, <1>11, SocketKeeps DEF presenceVars
<1> QED
  BY <1>2, <1>3, <1>4, <1>5, <1>6, <1>7, <1>8, <1>9, <1>10, <1>11 DEF Next

THEOREM Inductive == Spec => []IInv
BY InitHolds, StepKeeps, PTL DEF Spec

(* A registered stream is a connection of that very member that was not    *)
(* torn down (presence.js, connect and disconnect), and nobody off the     *)
(* roll keeps one, or a cached row (relay.js, forgetPeer and streamClose). *)
THEOREM RegistryIsSound == Spec => []RegistrySound
<1>1. IInv => RegistrySound
  BY DEF IInv, RegistrySound
<1> QED
  BY <1>1, Inductive, PTL

(* The streams stay within the allowance, but for the owner's              *)
(* (presence.js, connect).                                                 *)
THEOREM AllowanceHolds == Spec => []WithinAllowance
<1>1. IInv => WithinAllowance
  BY DEF IInv, Counts, WithinAllowance, Present
<1> QED
  BY <1>1, Inductive, PTL

(* Nobody on a stream believes absent a member that is on one too, in      *)
(* whatever order streams are closed, cut, replaced, refused and opened    *)
(* again (presence.js, disconnect; relay.js, streamClose).                 *)
THEOREM AbsenceIsTrue == Spec => []NoFalseAbsence
<1>1. IInv => NoFalseAbsence
  BY DEF IInv
<1> QED
  BY <1>1, Inductive, PTL

-----------------------------------------------------------------------------
(* What becomes of one connection.  It is freed by its own teardown and    *)
(* by a restart alone, and one that was cut stays so until then.           *)
GoesOn(a, b) ==
    /\ b \in Socket
    /\ a.state # "free" => b.state # "free"
    /\ a.state = "cut" => b.state = "cut"

LEMMA CutGoesOn ==
    ASSUME NEW cs, NEW d \in Conn, cs[d] \in Socket, NEW S
    PROVE  GoesOn(cs[d], Cut(cs, S)[d])
BY DEF Cut, Socket, SocketState, GoesOn

LEMMA SentGoesOn ==
    ASSUME NEW cs, NEW d \in Conn, cs[d] \in Socket, NEW sk, NEW m, NEW after \in Sent(cs, sk, m)
    PROVE  GoesOn(cs[d], after[d])
<1>1. GoesOn(cs[d], cs[d])
  BY DEF GoesOn
<1> QED
  BY <1>1, CutGoesOn DEF Sent

(* A broadcast and then a word to the owner.                               *)
LEMMA ToldGoesOn ==
    ASSUME NEW cs, NEW d \in Conn, cs[d] \in Socket, NEW S, NEW sk,
           NEW after \in Sent(Cut(cs, S), sk, Owner)
    PROVE  GoesOn(cs[d], after[d])
<1>1. GoesOn(cs[d], Cut(cs, S)[d])
  BY CutGoesOn
<1>2. GoesOn(Cut(cs, S)[d], after[d])
  BY <1>1, SentGoesOn DEF GoesOn
<1> QED
  BY <1>1, <1>2 DEF GoesOn

LEMMA TeardownGoesOn ==
    ASSUME NEW now \in Conns, NEW c \in Conn, TeardownFrom(c, now), NEW d \in Conn, d # c
    PROVE  GoesOn(now[d], conn'[d])
<1> DEFINE cs == [now EXCEPT ![c] = NoStream]
<1>1. cs[d] = now[d] /\ cs[d] \in Socket
  BY DEF Conns, Socket
<1>2. \/ conn' = cs
      \/ \E S, sk : conn' \in Sent(Cut(cs, S), sk, Owner)
  BY DEF TeardownFrom
<1> HIDE DEF cs
<1> QED
  BY <1>1, <1>2, ToldGoesOn DEF GoesOn

LEMMA OpenGoesOn ==
    ASSUME IInv, NEW m \in Person, NEW c \in Conn, StreamOpen(m, c), NEW d \in Conn
    PROVE  GoesOn(conn[d], conn'[d])
<1> DEFINE cs == [e \in Conn |->
                    IF e = c THEN [state |-> "open", who |-> m]
                    ELSE IF e = sink[m] /\ conn[e].state = "open"
                         THEN [conn[e] EXCEPT !.state = "shut"] ELSE conn[e]]
<1>1. conn[c].state = "free" /\ conn[d] \in Socket
  BY DEF StreamOpen, IInv, TypeOK, Socket
<1>2. GoesOn(conn[d], cs[d])
  BY <1>1 DEF GoesOn, Socket, SocketState
<1>3. \E S, sk : conn' \in Sent(Cut(cs, S), sk, Owner)
  BY DEF StreamOpen
<1> HIDE DEF cs
<1>4. GoesOn(cs[d], conn'[d])
  BY <1>2, <1>3, ToldGoesOn DEF GoesOn
<1> QED
  BY <1>2, <1>4 DEF GoesOn

(* The handlers that neither open a stream nor end one's connection.       *)
Minor ==
    \/ \E c \in Conn : ClientCloses(c) \/ Heartbeat(c)
    \/ \E m \in Person : TakeCard(m) \/ ForgetPeer(m) \/ Claim(m) \/ Rename(m)

LEMMA MinorGoesOn ==
    ASSUME IInv, Minor, NEW d \in Conn
    PROVE  GoesOn(conn[d], conn'[d])
<1>1. conn \in Conns /\ conn[d] \in Socket
  BY DEF IInv, TypeOK, Conns, Socket
<1>2. ASSUME NEW cs, cs[d] \in Socket, NEW m, AnnouncesMember(cs, m)
      PROVE  GoesOn(cs[d], conn'[d])
  BY <1>2, CutGoesOn DEF AnnouncesMember
<1>3. ASSUME NEW c \in Conn, ClientCloses(c) PROVE GoesOn(conn[d], conn'[d])
  BY <1>1, <1>3 DEF ClientCloses, Conns, GoesOn, Socket, SocketState
<1>4. ASSUME NEW c \in Conn, Heartbeat(c) PROVE GoesOn(conn[d], conn'[d])
  BY <1>1, <1>4, CutGoesOn DEF Heartbeat
<1>5. ASSUME NEW m \in Person, TakeCard(m) PROVE GoesOn(conn[d], conn'[d])
  BY <1>1, <1>5, SentGoesOn DEF TakeCard
<1>6. ASSUME NEW m \in Person, ForgetPeer(m) PROVE GoesOn(conn[d], conn'[d])
  BY <1>1, <1>6, ToldGoesOn DEF ForgetPeer
<1>7. ASSUME NEW m \in Person, Claim(m) PROVE GoesOn(conn[d], conn'[d])
  <2>1. PICK cs \in Sent(conn, sink, Owner) : AnnouncesMember(cs, m)
    BY <1>7 DEF Claim
  <2>2. GoesOn(conn[d], cs[d])
    BY <1>1, SentGoesOn
  <2>3. GoesOn(cs[d], conn'[d])
    BY <1>2, <2>1, <2>2 DEF GoesOn
  <2> QED
    BY <2>2, <2>3 DEF GoesOn
<1>8. ASSUME NEW m \in Person, Rename(m) PROVE GoesOn(conn[d], conn'[d])
  BY <1>1, <1>2, <1>8 DEF Rename
<1> QED
  BY <1>3, <1>4, <1>5, <1>6, <1>7, <1>8 DEF Minor

LEMMA FreedByTeardown ==
    ASSUME IInv, [Next]_presenceVars,
           NEW d \in Conn, conn[d].state # "free", conn'[d].state = "free"
    PROVE  Teardown(d) \/ Restart
<1>1. conn \in Conns
  BY DEF IInv, TypeOK, Conns, Socket
<1>2. ASSUME GoesOn(conn[d], conn'[d]) PROVE FALSE
  BY <1>2 DEF GoesOn
<1>3. ASSUME NEW m \in Person, NEW c \in Conn, StreamOpen(m, c) PROVE FALSE
  BY <1>2, <1>3, OpenGoesOn
<1>4. ASSUME NEW c \in Conn, Teardown(c), c # d PROVE FALSE
  BY <1>1, <1>2, <1>4, TeardownGoesOn DEF Teardown
<1>5. CASE Minor
  BY <1>2, <1>5, MinorGoesOn
<1>6. CASE UNCHANGED presenceVars
  BY <1>6 DEF presenceVars
<1> QED
  BY <1>3, <1>4, <1>5, <1>6 DEF Next, Minor

(* In the turn in which a member's stream is torn down, everybody whose    *)
(* stream the registry still holds heard that the member is absent         *)
(* (relay.js, streamClose).                                                *)
THEOREM TeardownIsHeard == Spec => TeardownIsAnnounced
<1> DEFINE AllHear ==
             \A m \in Present :
                 (conn[sink[m]].state # "free" /\ conn'[sink[m]].state = "free")
                     => \A k \in Streaming(sink') : told'[k][m] = "absent"
<1>1. ASSUME IInv, [Next]_presenceVars, NEW m \in Present,
             conn[sink[m]].state # "free", conn'[sink[m]].state = "free",
             NEW k \in Streaming(sink')
      PROVE  told'[k][m] = "absent"
  <2> DEFINE sk == [sink EXCEPT ![m] = NoConn]
  <2>1. /\ m \in Person /\ m \in members /\ sink[m] \in Conn /\ conn[sink[m]].who = m
        /\ sink \in [Person -> Conn \cup {NoConn}]
        /\ told \in [Person -> [Person -> Word]]
    BY <1>1, IInvParts DEF Registered, Present, Streaming
  <2>2. ~Restart
    BY <1>1 DEF Restart, Streaming
  <2>3. TeardownFrom(sink[m], conn)
    BY <1>1, <2>1, <2>2, FreedByTeardown DEF Teardown
  <2>4. PICK lost : /\ sink' = Dropped(sk, lost)
                    /\ told' = Heard(Streaming(sk) \ lost, m, "absent")
    BY <2>1, <2>3 DEF TeardownFrom, EndsStream
  <2>5. sk \in [Person -> Conn \cup {NoConn}]
    BY <2>1
  <2> HIDE DEF sk
  <2>6. k \in Streaming(sk) \ lost /\ k \in Person
    BY <1>1, <2>4, <2>5, DroppedStreams DEF Streaming
  <2> DEFINE U == Streaming(sk) \ lost
  <2>7. \A i \in U, j \in Person : i \in Person =>
            /\ Heard(U, m, "absent")[i][m] = "absent"
            /\ j # m => Heard(U, m, "absent")[i][j] = told[i][j]
    <3>1. "absent" \in Word
      BY DEF Word
    <3> HIDE DEF U
    <3> QED
      BY <2>1, <3>1, HeardWords
  <2> QED
    BY <2>1, <2>4, <2>6, <2>7
<1>2. IInv /\ [Next]_presenceVars => [AllHear]_presenceVars
  BY <1>1
<1>3. TeardownIsAnnounced <=> [][AllHear]_presenceVars
  BY DEF TeardownIsAnnounced
<1> HIDE DEF AllHear
<1> QED
  BY <1>2, <1>3, Inductive, PTL DEF Spec

(* Who is dropped from the registry under a broadcast has been cut.        *)
LEMMA LostIsCut ==
    ASSUME NEW cs, NEW sk, NEW to, NEW S, NEW m \in Unheard(cs, sk, to, S),
           sk[m] \in Conn, cs[sk[m]] \in Socket
    PROVE  /\ Cut(cs, S)[sk[m]].state = "cut"
           /\ Cut(cs, S)[sk[m]] \in Socket
BY DEF Unheard, Cut, Socket, SocketState

LEMMA LostStaysCut ==
    ASSUME NEW cs, NEW sk, NEW to, NEW S, NEW m \in Unheard(cs, sk, to, S),
           sk[m] \in Conn, cs[sk[m]] \in Socket,
           NEW rk, NEW after \in Sent(Cut(cs, S), rk, Owner)
    PROVE  after[sk[m]].state = "cut"
BY LostIsCut, SentGoesOn DEF GoesOn

LEMMA OpenLosesCut ==
    ASSUME IInv, NEW k \in Person, NEW c \in Conn, StreamOpen(k, c),
           NEW m \in Present, sink'[m] = NoConn
    PROVE  conn'[sink[m]].state = "cut"
<1> DEFINE sk == [sink EXCEPT ![k] = c]
           cs == [d \in Conn |->
                    IF d = c THEN [state |-> "open", who |-> k]
                    ELSE IF d = sink[k] /\ conn[d].state = "open"
                         THEN [conn[d] EXCEPT !.state = "shut"] ELSE conn[d]]
<1>1. /\ Registered(conn, sink) /\ sink \in [Person -> Conn \cup {NoConn}]
      /\ m \in Person /\ sink[m] \in Conn /\ conn \in Conns
  BY IInvParts DEF Registered, Present, Streaming
<1>2. PICK cut \in SUBSET OpenIn(cs, {sk[j] : j \in Streaming(sk) \ {k}}) :
         /\ sink' = Dropped(sk, Unheard(cs, sk, Person, cut))
         /\ \E rk : conn' \in Sent(Cut(cs, cut), rk, Owner)
  BY DEF StreamOpen
<1>3. m \in Unheard(cs, sk, Person, cut)
  <2>1. sk[m] # NoConn
    BY <1>1, PresenceAssumption
  <2> HIDE DEF sk, cs
  <2> QED
    BY <1>1, <1>2, <2>1 DEF Dropped
<1>4. m # k
  <2> SUFFICES ASSUME m = k PROVE FALSE
    OBVIOUS
  <2>1. sk[m] = c /\ cs[c].state = "open"
    BY <1>1
  <2>2. c \in cut
    BY <1>3, <2>1 DEF Unheard
  <2>3. PICK j \in Streaming(sk) \ {k} : sk[j] = c
    BY <1>2, <2>2 DEF OpenIn
  <2>4. j \in Streaming(sink) /\ sink[j] = c
    BY <1>1, <2>3 DEF Streaming
  <2>5. conn[c].state = "free"
    BY DEF StreamOpen
  <2> QED
    BY <1>1, <2>4, <2>5 DEF Registered
<1>5. sk[m] = sink[m] /\ cs[sink[m]] \in Socket
  BY <1>1, <1>4 DEF Conns, Socket, SocketState
<1> HIDE DEF sk, cs
<1> QED
  BY <1>1, <1>2, <1>3, <1>5, LostStaysCut

(* A stream of m that still works is not dropped when another one goes.    *)
LEMMA GoneLosesCut ==
    ASSUME NEW k \in Person, NEW cs \in Conns, NEW cut, NEW rk,
           sink \in [Person -> Conn \cup {NoConn}],
           sink' = Dropped([sink EXCEPT ![k] = NoConn],
                           Unheard(cs, [sink EXCEPT ![k] = NoConn], Person, cut)),
           conn' \in Sent(Cut(cs, cut), rk, Owner),
           NEW m \in Present, m # k, sink'[m] = NoConn
    PROVE  conn'[sink[m]].state = "cut"
<1> DEFINE sk == [sink EXCEPT ![k] = NoConn]
<1>1. m \in Person /\ sink[m] # NoConn /\ sk[m] = sink[m] /\ sk[m] \in Conn
  BY DEF Present, Streaming
<1>2. cs[sk[m]] \in Socket
  BY <1>1 DEF Conns
<1> HIDE DEF sk
<1>3. m \in Unheard(cs, sk, Person, cut)
  BY <1>1 DEF Dropped, sk
<1> QED
  BY <1>1, <1>2, <1>3, LostStaysCut

LEMMA AnnounceLosesCut ==
    ASSUME NEW k, NEW cs \in Conns, AnnouncesMember(cs, k),
           sink \in [Person -> Conn \cup {NoConn}],
           NEW m \in Present, sink'[m] = NoConn
    PROVE  conn'[sink[m]].state = "cut"
<1>1. PICK cut : /\ sink' = Dropped(sink, Unheard(cs, sink, Person \ {k}, cut))
                 /\ conn' = Cut(cs, cut)
  BY DEF AnnouncesMember
<1>2. m \in Person /\ sink[m] # NoConn /\ sink[m] \in Conn /\ cs[sink[m]] \in Socket
  BY DEF Present, Streaming, Conns
<1>3. m \in Unheard(cs, sink, Person \ {k}, cut)
  BY <1>1, <1>2 DEF Dropped
<1> QED
  BY <1>1, <1>2, <1>3, LostIsCut

(* A stream that works stays in the registry until it is replaced, until   *)
(* its member leaves the roll, or until the process ends: no late event of *)
(* another connection takes it out (presence.js, disconnect).              *)
THEOREM WorkingStay == Spec => WorkingStreamsStay
<1> DEFINE Stays ==
             \A m \in Present :
                 \/ sink'[m] # NoConn
                 \/ m \notin members'
                 \/ conn[sink[m]].state # "open"
                 \/ conn'[sink[m]].state = "cut"
                 \/ Streaming(sink') = {} /\ \A c \in Conn : conn'[c].state = "free"
<1>1. ASSUME IInv, [Next]_presenceVars, NEW m \in Present,
             sink'[m] = NoConn, m \in members', conn[sink[m]].state = "open"
      PROVE  \/ conn'[sink[m]].state = "cut"
             \/ Streaming(sink') = {} /\ \A c \in Conn : conn'[c].state = "free"
  <2>1. /\ Registered(conn, sink) /\ sink \in [Person -> Conn \cup {NoConn}]
        /\ conn \in Conns /\ members \subseteq Person
        /\ m \in Person /\ sink[m] # NoConn /\ conn[sink[m]].who = m
    BY <1>1, IInvParts DEF Registered, Present, Streaming
  <2>2. ASSUME UNCHANGED sink PROVE FALSE
    BY <1>1, <2>1, <2>2
  <2>3. ASSUME NEW k \in Person, NEW c \in Conn, StreamOpen(k, c)
        PROVE  conn'[sink[m]].state = "cut"
    BY <1>1, <2>3, OpenLosesCut
  <2>4. ASSUME NEW c \in Conn, Teardown(c)
        PROVE  conn'[sink[m]].state = "cut"
    <3> DEFINE k == conn[c].who
               cs == [conn EXCEPT ![c] = NoStream]
    <3>1. c # sink[m]
      BY <1>1, <2>4 DEF Teardown, TeardownFrom, TeardownDue
    <3>2. k \in members /\ EndsStream(c)
      BY <2>2, <2>4 DEF Teardown, TeardownFrom
    <3>3. k # m /\ k \in Person
      BY <2>1, <3>1, <3>2 DEF EndsStream
    <3>4. cs \in Conns
      BY <2>1, IdentityAssumption DEF Conns, Socket, NoStream, SocketState, Person
    <3>5. PICK cut : /\ sink' = Dropped([sink EXCEPT ![k] = NoConn],
                                   Unheard(cs, [sink EXCEPT ![k] = NoConn], Person, cut))
                     /\ \E rk : conn' \in Sent(Cut(cs, cut), rk, Owner)
      BY <2>4, <3>2 DEF Teardown, TeardownFrom
    <3> HIDE DEF cs, k
    <3> QED
      BY <1>1, <2>1, <3>3, <3>4, <3>5, GoneLosesCut
  <2>5. CASE Minor
    <3>1. CASE \E c \in Conn : ClientCloses(c) \/ Heartbeat(c)
      BY <2>2, <3>1 DEF ClientCloses, Heartbeat
    <3>2. ASSUME NEW k \in Person, TakeCard(k) PROVE FALSE
      BY <2>2, <3>2 DEF TakeCard
    <3>3. ASSUME NEW k \in Person, ForgetPeer(k) PROVE conn'[sink[m]].state = "cut"
      <4>1. k # m
        BY <1>1, <3>3 DEF ForgetPeer
      <4>2. PICK cut : /\ sink' = Dropped([sink EXCEPT ![k] = NoConn],
                                     Unheard(conn, [sink EXCEPT ![k] = NoConn], Person, cut))
                       /\ \E rk : conn' \in Sent(Cut(conn, cut), rk, Owner)
        BY <3>3 DEF ForgetPeer
      <4> QED
        BY <1>1, <2>1, <4>1, <4>2, GoneLosesCut
    <3>4. ASSUME NEW k \in Person, Claim(k) PROVE conn'[sink[m]].state = "cut"
      <4>1. PICK cs \in Sent(conn, sink, Owner) : AnnouncesMember(cs, k)
        BY <3>4 DEF Claim
      <4>2. cs \in Conns
        BY <2>1, <4>1, SentKeeps DEF Registered
      <4> QED
        BY <1>1, <2>1, <4>1, <4>2, AnnounceLosesCut
    <3>5. ASSUME NEW k \in Person, Rename(k) PROVE conn'[sink[m]].state = "cut"
      BY <1>1, <2>1, <3>5, AnnounceLosesCut DEF Rename
    <3> QED
      BY <2>5, <3>1, <3>2, <3>3, <3>4, <3>5 DEF Minor
  <2>6. CASE Restart
    BY <2>6 DEF Restart, Streaming, NoStream
  <2>7. CASE UNCHANGED presenceVars
    BY <2>2, <2>7 DEF presenceVars
  <2> QED
    BY <1>1, <2>3, <2>4, <2>5, <2>6, <2>7 DEF Next, Minor
<1>2. IInv /\ [Next]_presenceVars => [Stays]_presenceVars
  BY <1>1
<1>3. WorkingStreamsStay <=> [][Stays]_presenceVars
  BY DEF WorkingStreamsStay
<1> HIDE DEF Stays
<1> QED
  BY <1>2, <1>3, Inductive, PTL DEF Spec

-----------------------------------------------------------------------------
(* The relay (Relay.tla).                                                  *)

(* What the relay keeps for a held post.                                   *)
Waiting == {NoPost} \cup [hash : Hash, age : 0 .. MaxTtl]

(* What the held posts satisfy.                                            *)
Held ==
    /\ carried \subseteq Hash
    /\ slot \in [Hash -> Call \cup {NoCall}]
    /\ call \in [Call -> Waiting]
    /\ SlotsAreWaiting

(* What the answers do: none is owed for a route that has had one.         *)
Owed ==
    /\ answered \in [Hash -> 0 .. 1]
    /\ \A h \in Live(pending) : answered[h] = 0

(* The inductive invariant.                                                *)
RelayInv ==
    /\ IInv
    /\ Sound(pending)
    /\ Held
    /\ Owed

(* What a handler does to the table.                                       *)
Grants(h, want) ==
    /\ ~Declines(Swept(pending), h, From[h], To[h], want)
    /\ pending' = Filed(Swept(pending), h, From[h], To[h], want)
    /\ answered' = [answered EXCEPT ![h] = 0]
    /\ To[h] # SelfKey => Working(conn', To[h])

Ends(H, gone) ==
    /\ H \subseteq Live(pending) \cap gone
    /\ pending' = Without(Swept(pending), gone)
    /\ answered' = Counted(H)

Lapses ==
    /\ pending' \in {pending, Swept(pending), Older(pending)}
    /\ UNCHANGED answered

StartsAgain ==
    /\ pending' = EmptyTable
    /\ answered' = [h \in Hash |-> 0]

RouteStep ==
    \/ \E h \in Hash, want \in Budget : Grants(h, want)
    \/ \E H, gone \in SUBSET Hash : Ends(H, gone)
    \/ Lapses
    \/ StartsAgain

-----------------------------------------------------------------------------
LEMMA CountedNone ==
    ASSUME Owed
    PROVE  Counted({}) = answered
<1>1. Counted({}) = [h \in Hash |-> answered[h]]
  BY DEF Counted
<1> QED
  BY <1>1 DEF Owed

LEMMA SweptIsLive ==
    ASSUME Sound(pending)
    PROVE  /\ DOMAIN Swept(pending) = Live(pending)
           /\ Live(pending) \subseteq Hash
BY LiveSwept DEF Sound, WellFormed, Live

(* routes.open() files the request after a push that worked, or nothing.   *)
LEMMA OpenIsStep ==
    ASSUME NEW h \in Hash, NEW want \in Budget, NEW cs, OpenRoute(h, want, cs)
    PROVE  Grants(h, want) \/ Lapses
BY DEF OpenRoute, Grants, Lapses

LEMMA ReplyIsStep ==
    ASSUME RelayInv, NEW h \in Hash, NEW p \in Person, Reply(h, p)
    PROVE  RouteStep
<1>1. h \in Live(pending)
  BY SweptIsLive DEF Reply, RelayInv
<1>2. pending' = Without(Swept(pending), {h})
  BY DEF Reply
<1>3. CASE \E H \in SUBSET {h} : answered' = Counted(H)
  BY <1>1, <1>2, <1>3 DEF RouteStep, Ends
<1>4. CASE UNCHANGED answered
  <2>1. answered' = Counted({})
    BY <1>4, CountedNone DEF RelayInv
  <2> QED
    BY <1>3, <2>1
<1> QED
  BY <1>3, <1>4 DEF Reply

LEMMA AnswerIsStep ==
    ASSUME RelayInv, NEW h \in Hash, AnswerRelay(h)
    PROVE  RouteStep
<1>1. h \in Live(pending) /\ pending' = Without(Swept(pending), {h})
  BY SweptIsLive DEF AnswerRelay, RelayInv
<1>2. answered' = Counted({h}) \/ answered' = Counted({})
  BY CountedNone DEF AnswerRelay, RelayInv
<1> QED
  BY <1>1, <1>2 DEF RouteStep, Ends

(* failRoutesOf() answers only what it releases.                           *)
LEMMA FailIsStep ==
    ASSUME RelayInv, NEW c \in Conn, NEW m \in Person, FailRoutes(c, m)
    PROVE  RouteStep
<1> DEFINE t == Swept(pending)
           gone == RoutesNaming(t, m)
<1>1. PICK H : /\ H \subseteq {h \in DOMAIN t : t[h].target = m}
               /\ answered' = Counted(H)
               /\ pending' = Released(m)
  BY DEF FailRoutes
<1>2. H \subseteq gone /\ gone \subseteq DOMAIN t
  BY <1>1 DEF RoutesNaming
<1>3. DOMAIN t = Live(pending) /\ Live(pending) \subseteq Hash
  BY SweptIsLive DEF RelayInv
<1>4. Ends(H, gone)
  BY <1>1, <1>2, <1>3 DEF Ends, Released
<1> QED
  BY <1>2, <1>3, <1>4 DEF RouteStep

(* Every handler does one of the four things to the routes.                *)
LEMMA RouteSteps ==
    ASSUME RelayInv, [RelayNext]_relayVars
    PROVE  RouteStep
<1>1. ASSUME NEW h \in Hash, NEW want \in Budget, MemberPost(h, want) PROVE RouteStep
  BY <1>1, OpenIsStep DEF MemberPost, RouteStep
<1>2. ASSUME NEW h \in Hash, NEW want \in Budget, AskRelay(h, want) PROVE RouteStep
  <2>1. Grants(h, want) \/ Lapses
    BY <1>2 DEF AskRelay, Grants, Lapses
  <2> QED
    BY <2>1 DEF RouteStep
<1>3. ASSUME NEW h \in Hash, NEW want \in Budget, NEW c \in Call, StrangerPost(h, want, c)
      PROVE RouteStep
  BY <1>3, OpenIsStep DEF StrangerPost, RouteStep
<1>4. ASSUME NEW h \in Hash, NEW p \in Person, Reply(h, p) PROVE RouteStep
  BY <1>4, ReplyIsStep
<1>5. ASSUME NEW h \in Hash, NEW p \in Person, ReplyRefused(h, p) PROVE RouteStep
  BY <1>5 DEF ReplyRefused, RouteStep, Lapses
<1>6. ASSUME NEW h \in Hash, AnswerRelay(h) PROVE RouteStep
  BY <1>6, AnswerIsStep
<1>7. ASSUME NEW c \in Call, HoldTimeout(c) PROVE RouteStep
  BY <1>7 DEF HoldTimeout, RouteStep, Lapses
<1>8. ASSUME NEW m \in Person, NEW c \in Conn, RelayStreamOpen(m, c) PROVE RouteStep
  BY <1>8 DEF RelayStreamOpen, StatusSweeps, RouteStep, Lapses
<1>9. ASSUME NEW c \in Conn, RelayTeardown(c) PROVE RouteStep
  <2>1. conn[c].who \in Person
    BY DEF RelayInv, IInv, TypeOK
  <2> QED
    BY <1>9, <2>1, FailIsStep DEF RelayTeardown, StatusSweeps, RouteStep, Lapses
<1>10. CASE StreamsOnly
  BY <1>10 DEF StreamsOnly, routeVars, RouteStep, Lapses
<1>11. CASE RelayRestart
  BY <1>11 DEF RelayRestart, RouteStep, StartsAgain
<1>12. CASE Tick
  BY <1>12 DEF Tick, RouteStep, Lapses
<1>13. CASE UNCHANGED relayVars
  BY <1>13 DEF relayVars, RouteStep, Lapses
<1> QED
  BY <1>1, <1>2, <1>3, <1>4, <1>5, <1>6, <1>7, <1>8, <1>9, <1>10, <1>11, <1>12, <1>13
     DEF RelayNext

-----------------------------------------------------------------------------
LEMMA TableKept ==
    ASSUME RelayInv, RouteStep
    PROVE  Sound(pending')
<1>1. Sound(Swept(pending)) /\ Sound(pending) /\ Sound(Older(pending))
  BY SoundSwept, SoundOlder DEF RelayInv
<1>2. ASSUME NEW h \in Hash, NEW want \in Budget, Grants(h, want)
      PROVE  Sound(pending')
  <2>1. From[h] \in Id /\ To[h] \in Id
    BY RelayAssumption DEF Person
  <2> QED
    BY <1>1, <1>2, <2>1, SoundFiled DEF Grants
<1>3. ASSUME NEW H, NEW gone, Ends(H, gone)
      PROVE  Sound(pending')
  BY <1>1, <1>3, SoundWithout DEF Ends
<1> QED
  BY <1>1, <1>2, <1>3, SoundEmpty DEF RouteStep, Lapses, StartsAgain

(* A request that is filed owes its first answer; a route that is answered *)
(* is a live one, which had none, and it leaves.                           *)
LEMMA OwedKept ==
    ASSUME RelayInv, RouteStep
    PROVE  Owed'
<1>1. /\ answered \in [Hash -> 0 .. 1]
      /\ \A h \in Live(pending) : answered[h] = 0
      /\ WellFormed(pending)
  BY DEF RelayInv, Owed, Sound
<1>2. ASSUME NEW h \in Hash, NEW want \in Budget, Grants(h, want)
      PROVE  Owed'
  <2>1. Live(pending') \subseteq Live(pending) \cup {h}
    BY <1>2, LiveFiled, LiveSwept DEF Grants
  <2> QED
    BY <1>1, <1>2, <2>1, SweptIsLive DEF Grants, Owed, RelayInv
<1>3. ASSUME NEW H, NEW gone, Ends(H, gone)
      PROVE  Owed'
  <2>1. Live(pending') = Live(pending) \ gone
    BY <1>3, LiveWithout, LiveSwept DEF Ends
  <2>2. /\ \A h \in Hash \ H : answered'[h] = answered[h]
        /\ \A h \in Hash \cap H : answered'[h] \in 0 .. 1
        /\ answered' = [h \in Hash |-> answered'[h]]
    BY <1>1, <1>3 DEF Ends, Counted
  <2>3. H \subseteq gone /\ Live(pending) \subseteq Hash
    BY <1>3, SweptIsLive DEF Ends, RelayInv
  <2> QED
    BY <1>1, <2>1, <2>2, <2>3 DEF Owed
<1>4. CASE Lapses
  <2>1. Live(pending') \subseteq Live(pending)
    BY <1>1, <1>4, LiveSwept, LiveOlder DEF Lapses
  <2> QED
    BY <1>1, <1>4, <2>1 DEF Lapses, Owed
<1>5. CASE StartsAgain
  <2>1. Live(pending') = {}
    BY <1>5 DEF StartsAgain, EmptyTable, Live
  <2> QED
    BY <1>5, <2>1 DEF StartsAgain, Owed
<1> QED
  BY <1>2, <1>3, <1>4, <1>5 DEF RouteStep

-----------------------------------------------------------------------------
(* The held posts.                                                         *)

LEMMA WaitingFacts ==
    /\ NoPost \in Waiting
    /\ NoPost.hash \notin Hash
    /\ \A w \in Waiting : w # NoPost => w.hash \in Hash /\ w.age \in 0 .. MaxTtl
    /\ \A h \in Hash : [hash |-> h, age |-> 0] \in Waiting
BY RelayAssumption, RouterAssumption DEF NoPost, Waiting

(* Settling empties the slot and the post together.                        *)
LEMMA SettlesKeep ==
    ASSUME Held, NEW H, H \subseteq Hash, Settles(H), carried' \subseteq Hash
    PROVE  Held'
<1>1. /\ slot' \in [Hash -> Call \cup {NoCall}]
      /\ \A h \in Hash : slot'[h] # NoCall => h \notin H /\ slot'[h] = slot[h]
  BY DEF Held, Settles
<1>2. /\ call' \in [Call -> Waiting]
      /\ \A d \in Call : (\A h \in H : slot[h] # d) => call'[d] = call[d]
  BY WaitingFacts DEF Held, Settles
<1>3. ASSUME NEW x \in Hash, slot'[x] # NoCall
      PROVE  call'[slot'[x]].hash = x
  <2>1. x \notin H /\ slot'[x] = slot[x] /\ slot[x] \in Call /\ call[slot[x]].hash = x
    BY <1>1, <1>3 DEF Held, SlotsAreWaiting
  <2>2. CASE \A h \in H : slot[h] # slot[x]
    BY <1>2, <2>1, <2>2
  <2>3. ASSUME NEW h \in H, slot[h] = slot[x] PROVE FALSE
    BY <2>1, <2>3, RelayAssumption DEF Held, SlotsAreWaiting
  <2> QED
    BY <2>2, <2>3
<1> QED
  BY <1>1, <1>2, <1>3 DEF Held, SlotsAreWaiting

(* A post of a stranger waits in a slot of its own: who was held for that  *)
(* hash before is not in it any more.                                      *)
LEMMA StrangerKeeps ==
    ASSUME Held, NEW h \in Hash, NEW want \in Budget, NEW c \in Call, StrangerPost(h, want, c)
    PROVE  Held'
<1>1. CASE pending' # Swept(pending)
  <2>1. /\ slot' = [slot EXCEPT ![h] = c]
        /\ call' = [call EXCEPT ![c] = [hash |-> h, age |-> 0]]
        /\ carried' = carried \cup {h}
        /\ call[c].hash \notin Hash
    BY <1>1, WaitingFacts DEF StrangerPost
  <2>2. \A x \in Hash : slot[x] # c
    BY <2>1, RelayAssumption DEF Held, SlotsAreWaiting
  <2>3. call' \in [Call -> Waiting]
    BY <2>1, WaitingFacts DEF Held
  <2>4. ASSUME NEW x \in Hash, slot'[x] # NoCall
        PROVE  call'[slot'[x]].hash = x
    <3>1. CASE x = h
      BY <2>1, <3>1 DEF Held
    <3>2. CASE x # h
      BY <2>1, <2>2, <2>4, <3>2 DEF Held, SlotsAreWaiting
    <3> QED
      BY <3>1, <3>2
  <2> QED
    BY <2>1, <2>3, <2>4 DEF Held, SlotsAreWaiting
<1>2. CASE pending' = Swept(pending)
  BY <1>2, RelayAssumption DEF StrangerPost, Held, SlotsAreWaiting
<1> QED
  BY <1>1, <1>2

LEMMA TimeoutKeeps ==
    ASSUME Held, NEW c \in Call, HoldTimeout(c)
    PROVE  Held'
<1>1. /\ call[c].hash \in Hash
      /\ slot[call[c].hash] = c
  BY WaitingFacts DEF HoldTimeout, HoldDue, Held
<1> QED
  BY <1>1, WaitingFacts, RelayAssumption DEF HoldTimeout, HoldDue, Held, SlotsAreWaiting

LEMMA TickKeeps ==
    ASSUME Held, Tick
    PROVE  Held'
<1>1. ASSUME NEW d \in Call
      PROVE  /\ call'[d] \in Waiting
             /\ call'[d].hash = call[d].hash
  <2>1. call[d] \in Waiting
    BY DEF Held
  <2>2. CASE call[d] = NoPost
    BY <2>1, <2>2 DEF Tick
  <2>3. CASE call[d] # NoPost
    <3>1. call[d] \in [hash : Hash, age : 0 .. MaxTtl]
      BY <2>1, <2>3 DEF Waiting
    <3> QED
      BY <2>1, <2>3, <3>1, RouterAssumption DEF Tick, Waiting
  <2> QED
    BY <2>2, <2>3
<1>2. call' \in [Call -> Waiting]
  BY <1>1 DEF Tick
<1> QED
  BY <1>1, <1>2 DEF Held, Tick, SlotsAreWaiting

LEMMA HeldKept ==
    ASSUME RelayInv, [RelayNext]_relayVars
    PROVE  Held'
<1>1. Held
  BY DEF RelayInv
<1>2. ASSUME UNCHANGED <<slot, call>>, carried' \subseteq Hash
      PROVE  Held'
  BY <1>1, <1>2 DEF Held, SlotsAreWaiting
<1>3. ASSUME NEW h \in Hash, NEW want \in Budget, MemberPost(h, want)
      PROVE  Held'
  BY <1>1, <1>2, <1>3 DEF MemberPost, Held
<1>4. ASSUME NEW h \in Hash, NEW want \in Budget, AskRelay(h, want)
      PROVE  Held'
  BY <1>1, <1>2, <1>4 DEF AskRelay, Held
<1>5. ASSUME NEW h \in Hash, NEW want \in Budget, NEW c \in Call, StrangerPost(h, want, c)
      PROVE  Held'
  BY <1>1, <1>5, StrangerKeeps
<1>6. ASSUME NEW h \in Hash, NEW p \in Person, Reply(h, p)
      PROVE  Held'
  BY <1>1, <1>2, <1>6, SettlesKeep DEF Reply, Held
<1>7. ASSUME NEW h \in Hash, NEW p \in Person, ReplyRefused(h, p)
      PROVE  Held'
  BY <1>1, <1>2, <1>7 DEF ReplyRefused, Held
<1>8. ASSUME NEW h \in Hash, AnswerRelay(h)
      PROVE  Held'
  BY <1>1, <1>2, <1>8 DEF AnswerRelay, Held
<1>9. ASSUME NEW c \in Call, HoldTimeout(c) PROVE Held'
  BY <1>1, <1>9, TimeoutKeeps
<1>10. ASSUME NEW m \in Person, NEW c \in Conn, RelayStreamOpen(m, c) PROVE Held'
  BY <1>1, <1>2, <1>10 DEF RelayStreamOpen, Held
<1>11. ASSUME NEW c \in Conn, RelayTeardown(c) PROVE Held'
  <2>1. CASE FailRoutes(c, conn[c].who)
    <3>1. PICK H : H \subseteq carried /\ Settles(H) /\ carried' = carried
      BY <2>1 DEF FailRoutes
    <3> QED
      BY <1>1, <3>1, SettlesKeep DEF Held
  <2>2. CASE UNCHANGED <<carried, slot, call>>
    BY <1>1, <1>2, <2>2 DEF Held
  <2> QED
    BY <1>11, <2>1, <2>2 DEF RelayTeardown
<1>12. CASE StreamsOnly \/ UNCHANGED relayVars
  BY <1>1, <1>2, <1>12 DEF StreamsOnly, routeVars, relayVars, Held
<1>13. CASE RelayRestart
  BY <1>13, WaitingFacts DEF RelayRestart, Held, SlotsAreWaiting
<1>14. CASE Tick
  BY <1>1, <1>14, TickKeeps
<1> QED
  BY <1>3, <1>4, <1>5, <1>6, <1>7, <1>8, <1>9, <1>10, <1>11, <1>12, <1>13, <1>14
     DEF RelayNext

-----------------------------------------------------------------------------
(* The streams.                                                            *)

(* What a handler that changes no registration leaves of it: connections   *)
(* of which some gave way.                                                 *)
LEMMA PushesKeep ==
    ASSUME IInv, Registered(conn', sink), UNCHANGED <<members, sink, active, told>>
    PROVE  IInv'
BY IInvParts, SocketKeeps

LEMMA StreamsKept ==
    ASSUME RelayInv, [RelayNext]_relayVars
    PROVE  IInv'
<1>1. IInv /\ Registered(conn, sink) /\ members \subseteq Person
  BY IInvParts DEF RelayInv
<1>2. ASSUME NEW h \in Hash, NEW want \in Budget, NEW cs \in Sent(conn, sink, Owner),
             OpenRoute(h, want, cs)
      PROVE  Registered(conn', sink)
  <2>1. Registered(cs, sink)
    BY <1>1, SentKeeps
  <2> QED
    BY <1>2, <2>1, SentKeeps DEF OpenRoute
<1>3. ASSUME NEW h \in Hash, NEW want \in Budget, MemberPost(h, want)
      PROVE  IInv'
  BY <1>1, <1>2, <1>3, PushesKeep DEF MemberPost
<1>4. ASSUME NEW h \in Hash, NEW want \in Budget, AskRelay(h, want)
      PROVE  IInv'
  BY <1>1, <1>4, PushesKeep DEF AskRelay
<1>5. ASSUME NEW h \in Hash, NEW want \in Budget, NEW c \in Call, StrangerPost(h, want, c)
      PROVE  IInv'
  BY <1>1, <1>2, <1>5, PushesKeep DEF StrangerPost
<1>6. ASSUME NEW h \in Hash, NEW p \in Person, Reply(h, p)
      PROVE  IInv'
  <2>1. Registered(conn', sink)
    BY <1>1, <1>6, SentKeeps, CutKeeps DEF Reply
  <2> QED
    BY <1>1, <1>6, <2>1, PushesKeep DEF Reply
<1>7. ASSUME NEW h \in Hash, NEW p \in Person, ReplyRefused(h, p)
      PROVE  IInv'
  BY <1>1, <1>7, SentKeeps, PushesKeep DEF ReplyRefused
<1>8. ASSUME NEW h \in Hash, AnswerRelay(h)
      PROVE  IInv'
  BY <1>1, <1>8, SentKeeps, PushesKeep DEF AnswerRelay
<1>9. ASSUME NEW c \in Call, HoldTimeout(c)
      PROVE  IInv'
  BY <1>1, <1>9, PushesKeep DEF HoldTimeout
<1>10. ASSUME NEW m \in Person, NEW c \in Conn, RelayStreamOpen(m, c)
       PROVE  IInv'
  BY <1>1, <1>10, OpenKeeps DEF RelayStreamOpen
<1>11. ASSUME NEW c \in Conn, RelayTeardown(c)
       PROVE  IInv'
  <2>1. CASE FailRoutes(c, conn[c].who)
    <3>1. PICK S : TeardownFrom(c, Cut(conn, S))
      BY <2>1 DEF FailRoutes
    <3> QED
      BY <1>1, <3>1, CutKeeps, TeardownFromKeeps
  <2>2. CASE Teardown(c)
    BY <1>1, <2>2, TeardownKeeps
  <2> QED
    BY <1>11, <2>1, <2>2 DEF RelayTeardown
<1>12. CASE StreamsOnly
  <2>1. Next
    BY <1>12 DEF StreamsOnly, Next
  <2> QED
    BY <1>1, <2>1, StepKeeps
<1>13. CASE RelayRestart
  BY <1>1, <1>13, RestartHolds DEF RelayRestart
<1>14. CASE Tick \/ UNCHANGED relayVars
  BY <1>1, <1>14, PushesKeep DEF Tick, relayVars
<1> QED
  BY <1>3, <1>4, <1>5, <1>6, <1>7, <1>8, <1>9, <1>10, <1>11, <1>12, <1>13, <1>14
     DEF RelayNext

-----------------------------------------------------------------------------
LEMMA RelayStart ==
    ASSUME RelayInit
    PROVE  RelayInv
<1>1. IInv
  BY InitHolds DEF RelayInit
<1>2. Sound(pending) /\ Live(pending) = {}
  BY SoundEmpty DEF RelayInit, EmptyTable, Live
<1>3. Held
  BY WaitingFacts DEF RelayInit, Held, SlotsAreWaiting
<1>4. Owed
  BY <1>2 DEF RelayInit, Owed
<1> QED
  BY <1>1, <1>2, <1>3, <1>4 DEF RelayInv

LEMMA RelayKept ==
    ASSUME RelayInv, [RelayNext]_relayVars
    PROVE  RelayInv'
<1>1. RouteStep
  BY RouteSteps
<1> QED
  BY <1>1, TableKept, OwedKept, HeldKept, StreamsKept DEF RelayInv

THEOREM RelayInductive == RelaySafe => []RelayInv
<1>1. RelayInit => RelayInv
  BY RelayStart
<1>2. RelayInv /\ [RelayNext]_relayVars => RelayInv'
  BY RelayKept
<1> QED
  BY <1>1, <1>2, PTL DEF RelaySafe

(* Whatever posts, replies, streams and timers do to them in whatever      *)
(* order, the route table stays within its caps (router.js, open), the     *)
(* registry keeps its types (presence.js), and a slot of heldOnPost names  *)
(* a post that waits for that very hash (relay.js, holdOnPost).            *)
THEOREM RelayIsSound == RelaySafe => []RelaySound
<1>1. ASSUME RelayInv PROVE RelaySound
  <2>1. TypeOK /\ WellFormed(pending) /\ Capped(pending)
    BY <1>1 DEF RelayInv, IInv, Sound
  <2>2. Waiting \subseteq [hash : Hash \cup {NoHash}, age : 0 .. MaxTtl]
    BY RouterAssumption DEF Waiting, NoPost
  <2>3. carried \subseteq Hash /\ slot \in [Hash -> Call \cup {NoCall}] /\ SlotsAreWaiting
    BY <1>1 DEF RelayInv, Held
  <2>4. call \in [Call -> [hash : Hash \cup {NoHash}, age : 0 .. MaxTtl]]
    BY <1>1, <2>2 DEF RelayInv, Held
  <2>5. answered \in [Hash -> 0 .. 2]
    BY <1>1 DEF RelayInv, Owed
  <2> QED
    BY <2>1, <2>3, <2>4, <2>5 DEF RelaySound, RelayTypeOK
<1> QED
  BY <1>1, RelayInductive, PTL

(* Nobody is answered twice for one filing of a request: not by the reply  *)
(* of its target and the news that the target stopped reading, not by two  *)
(* replies, not by a held post and a stream (relay.js, routeReply,         *)
(* failRoutesOf and sendSelfAnswer).                                       *)
THEOREM AnswersComeOnce == RelaySafe => []AnsweredOnce
<1>1. ASSUME RelayInv PROVE AnsweredOnce
  <2>1. \A h \in Hash : answered[h] <= 1
    BY <1>1 DEF RelayInv, Owed
  <2> QED
    BY <1>1, <2>1 DEF RelayInv, Owed, AnsweredOnce
<1> QED
  BY <1>1, RelayInductive, PTL

(* No route waits for a reply to a request that its target never got: one  *)
(* is filed only in the turn in which the push to the target's stream      *)
(* worked (router.js, open; relay.js, routePost).                          *)
THEOREM FiledIsDelivered == RelaySafe => FiledWasDelivered
<1> DEFINE Delivered ==
             \A h \in Hash :
                 (h \in Live(pending') /\ h \notin Live(pending) /\ To[h] # SelfKey)
                     => Working(conn', To[h])
<1>1. ASSUME RelayInv, [RelayNext]_relayVars,
             NEW h \in Hash, h \in Live(pending'), h \notin Live(pending), To[h] # SelfKey
      PROVE  Working(conn', To[h])
  <2>1. RouteStep
    BY <1>1, RouteSteps
  <2>2. ASSUME NEW x \in Hash, NEW want \in Budget, Grants(x, want)
        PROVE  Working(conn', To[h])
    <3>1. h = x
      BY <1>1, <2>2, LiveFiled, LiveSwept DEF Grants
    <3> QED
      BY <1>1, <2>2, <3>1 DEF Grants
  <2>3. ASSUME NEW H, NEW gone, Ends(H, gone)
        PROVE  FALSE
    BY <1>1, <2>3, LiveWithout, LiveSwept DEF Ends
  <2>4. CASE Lapses
    BY <1>1, <2>4, LiveSwept, LiveOlder DEF Lapses, RelayInv, Sound
  <2>5. CASE StartsAgain
    BY <1>1, <2>5 DEF StartsAgain, EmptyTable, Live
  <2> QED
    BY <2>1, <2>2, <2>3, <2>4, <2>5 DEF RouteStep
<1>2. RelayInv /\ [RelayNext]_relayVars => [Delivered]_relayVars
  BY <1>1
<1>3. FiledWasDelivered <=> [][Delivered]_relayVars
  BY DEF FiledWasDelivered
<1> HIDE DEF Delivered
<1> QED
  BY <1>2, <1>3, RelayInductive, PTL DEF RelaySafe

-----------------------------------------------------------------------------
(* In the relay too, a connection is freed by its own teardown alone.      *)
LEMMA FreedByItsHook ==
    ASSUME RelayInv, [RelayNext]_relayVars,
           NEW d \in Conn, conn[d].state = "cut", conn'[d].state = "free"
    PROVE  RelayTeardown(d) \/ RelayRestart
<1>1. IInv /\ Registered(conn, sink) /\ conn \in Conns /\ conn[d] \in Socket
  BY IInvParts DEF RelayInv, Registered, Conns
<1>2. ASSUME GoesOn(conn[d], conn'[d]) PROVE FALSE
  BY <1>2 DEF GoesOn
<1>3. ASSUME NEW sk, NEW m, conn' \in Sent(conn, sk, m) PROVE FALSE
  BY <1>1, <1>2, <1>3, SentGoesOn
<1>4. ASSUME UNCHANGED conn PROVE FALSE
  BY <1>4
<1>5. ASSUME NEW h, NEW want, NEW cs \in Sent(conn, sink, Owner), OpenRoute(h, want, cs)
      PROVE  FALSE
  <2>1. GoesOn(conn[d], cs[d])
    BY <1>1, SentGoesOn
  <2>2. GoesOn(cs[d], conn'[d])
    BY <1>5, <2>1, SentGoesOn DEF OpenRoute, GoesOn
  <2> QED
    BY <1>2, <2>1, <2>2 DEF GoesOn
<1>6. ASSUME NEW h \in Hash, NEW want \in Budget, MemberPost(h, want) PROVE FALSE
  BY <1>5, <1>6 DEF MemberPost
<1>7. ASSUME NEW h \in Hash, NEW want \in Budget, AskRelay(h, want) PROVE FALSE
  BY <1>4, <1>7 DEF AskRelay
<1>8. ASSUME NEW h \in Hash, NEW want \in Budget, NEW c \in Call, StrangerPost(h, want, c)
      PROVE  FALSE
  BY <1>5, <1>8 DEF StrangerPost
<1>9. ASSUME NEW h \in Hash, NEW p \in Person, Reply(h, p) PROVE FALSE
  BY <1>1, <1>2, <1>3, <1>9, CutGoesOn DEF Reply
<1>10. ASSUME NEW h \in Hash, NEW p \in Person, ReplyRefused(h, p) PROVE FALSE
  BY <1>3, <1>10 DEF ReplyRefused
<1>11. ASSUME NEW h \in Hash, AnswerRelay(h) PROVE FALSE
  BY <1>3, <1>11 DEF AnswerRelay
<1>12. ASSUME NEW c \in Call, HoldTimeout(c) PROVE FALSE
  BY <1>4, <1>12 DEF HoldTimeout
<1>13. ASSUME NEW m \in Person, NEW c \in Conn, RelayStreamOpen(m, c) PROVE FALSE
  BY <1>1, <1>2, <1>13, OpenGoesOn DEF RelayStreamOpen
<1>14. ASSUME NEW c \in Conn, c # d, RelayTeardown(c) PROVE FALSE
  <2>1. ASSUME NEW S, TeardownFrom(c, Cut(conn, S)) PROVE FALSE
    <3>1. Cut(conn, S) \in Conns
      BY <1>1, CutKeeps DEF Registered
    <3>2. GoesOn(conn[d], Cut(conn, S)[d])
      BY <1>1, CutGoesOn
    <3>3. GoesOn(Cut(conn, S)[d], conn'[d])
      BY <1>14, <2>1, <3>1, TeardownGoesOn
    <3> QED
      BY <1>2, <3>2, <3>3 DEF GoesOn
  <2>2. CASE Teardown(c)
    BY <1>1, <1>2, <1>14, <2>2, TeardownGoesOn DEF Teardown
  <2> QED
    BY <1>14, <2>1, <2>2 DEF RelayTeardown, FailRoutes
<1>15. CASE StreamsOnly
  BY <1>1, <1>2, <1>15, MinorGoesOn DEF StreamsOnly, Minor
<1>16. CASE Tick \/ UNCHANGED relayVars
  BY <1>4, <1>16 DEF Tick, relayVars
<1> QED
  BY <1>6, <1>7, <1>8, <1>9, <1>10, <1>11, <1>12, <1>13, <1>14, <1>15, <1>16 DEF RelayNext

(* What the asker of h hears, in the turn in which failRoutesOf() reads    *)
(* the routes of m.                                                        *)
LEMMA AskerIsTold ==
    ASSUME RelayInv, IInv', NEW m \in members \cap Present,
           conn[sink[m]].state = "cut", FailRoutes(sink[m], m),
           NEW h \in Live(pending), pending[h].target = m, pending[h].requester # m
    PROVE  IF h \in carried
           THEN slot'[h] = NoCall
           ELSE \/ pending[h].requester \notin Streaming(sink')
                \/ ~Working(conn', pending[h].requester)
                \/ answered'[h] = 1
<1> DEFINE t == Swept(pending)
           r == pending[h].requester
           asked == {x \in DOMAIN t : t[x].target = m /\ t[x].requester # m}
           heard == {x \in asked \ carried : t[x].requester \in members}
<1>1. PICK S : /\ TeardownFrom(sink[m], Cut(conn, S))
               /\ Settles(asked \cap carried)
               /\ answered' = Counted(
                      {x \in heard : Working(Cut(conn, S), t[x].requester)}
                      \cup {x \in asked \cap carried : slot[x] # NoCall})
  BY DEF FailRoutes
<1>2. h \in Hash /\ h \in DOMAIN t /\ t[h] = pending[h]
  BY SweptIsLive, LiveSwept DEF RelayInv
<1>3. h \in asked
  BY <1>2
<1>4. CASE h \in carried
  BY <1>1, <1>2, <1>3, <1>4 DEF Settles
<1>5. CASE h \notin carried /\ r \notin members
  <2>1. members' = members
    BY <1>1 DEF TeardownFrom
  <2>2. Streaming(sink') \subseteq members'
    BY DEF IInv, OnlyMembersAreKnown, Present
  <2> QED
    BY <1>5, <2>1, <2>2
<1>6. CASE h \notin carried /\ r \in members /\ Working(Cut(conn, S), r)
  <2>1. answered'[h] = IF answered[h] < 2 THEN answered[h] + 1 ELSE answered[h]
    BY <1>1, <1>2, <1>3, <1>6 DEF Counted
  <2> QED
    BY <1>6, <2>1 DEF RelayInv, Owed
<1>7. CASE h \notin carried /\ r \in members /\ ~Working(Cut(conn, S), r)
  <2> SUFFICES ASSUME sink[r] # NoConn
               PROVE  conn'[sink[r]].state = "cut"
    BY <1>7 DEF Working
  <2>1. Registered(conn, sink) /\ members \subseteq Person
    BY IInvParts DEF RelayInv
  <2>2. /\ sink[r] \in Conn /\ sink[m] \in Conn
        /\ conn[sink[r]].who = r /\ conn[sink[m]].who = m
    BY <1>7, <2>1 DEF Registered, Streaming, Present
  <2>3. sink[r] # sink[m]
    BY <2>2
  <2>4. Cut(conn, S) \in Conns /\ Cut(conn, S)[sink[r]].state = "cut"
    BY <1>7, <2>1, CutKeeps DEF Registered, Working
  <2> QED
    BY <1>1, <2>2, <2>3, <2>4, TeardownGoesOn DEF GoesOn
<1> QED
  BY <1>4, <1>5, <1>6, <1>7

(* A reader that stopped takes its routes along, and who waits for it      *)
(* hears so in the same turn, on the held post or on its stream, unless    *)
(* that has gone too (relay.js, failRoutesOf).                             *)
THEOREM CutIsTold == RelaySafe => CutTellsAskers
<1> DEFINE Told(m) ==
             /\ RoutesNaming(pending', m) = {}
             /\ \A h \in Live(pending) :
                   (pending[h].target = m /\ pending[h].requester # m) =>
                       IF h \in carried
                       THEN slot'[h] = NoCall
                       ELSE \/ pending[h].requester \notin Streaming(sink')
                            \/ ~Working(conn', pending[h].requester)
                            \/ answered'[h] = 1
           AllTold ==
             \A m \in members \cap Present :
                 (/\ conn[sink[m]].state = "cut"
                  /\ conn'[sink[m]].state = "free"
                  /\ Streaming(sink') # {}) => Told(m)
<1>1. ASSUME RelayInv, [RelayNext]_relayVars, NEW m \in members \cap Present,
             conn[sink[m]].state = "cut", conn'[sink[m]].state = "free",
             Streaming(sink') # {}
      PROVE  Told(m)
  <2>1. m \in Person /\ sink[m] \in Conn /\ conn[sink[m]].who = m
    BY <1>1, IInvParts DEF RelayInv, Registered, Present, Streaming
  <2>2. ~RelayRestart
    BY <1>1 DEF RelayRestart, Restart, Streaming
  <2>3. RelayTeardown(sink[m])
    BY <1>1, <2>1, <2>2, FreedByItsHook
  <2>4. FailRoutes(sink[m], m)
    BY <1>1, <2>1, <2>3 DEF RelayTeardown, EndsStream
  <2>5. RoutesNaming(pending', m) = {}
    <3> DEFINE t == Swept(pending)
    <3>1. pending' = Restrict(t, DOMAIN t \ RoutesNaming(t, m))
      BY <2>4 DEF FailRoutes, Released, Without
    <3>2. /\ DOMAIN pending' = DOMAIN t \ RoutesNaming(t, m)
          /\ \A x \in DOMAIN pending' : pending'[x] = t[x]
      BY <3>1 DEF Restrict
    <3> QED
      BY <3>2 DEF RoutesNaming
  <2>6. IInv'
    BY <1>1, StreamsKept
  <2> QED
    BY <1>1, <2>4, <2>5, <2>6, AskerIsTold
<1>2. RelayInv /\ [RelayNext]_relayVars => [AllTold]_relayVars
  BY <1>1
<1>3. CutTellsAskers <=> [][AllTold]_relayVars
  BY DEF CutTellsAskers
<1> HIDE DEF AllTold
<1> QED
  BY <1>2, <1>3, RelayInductive, PTL DEF RelaySafe
=============================================================================
