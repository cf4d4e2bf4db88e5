------------------------------ MODULE Arrivals ------------------------------
(***************************************************************************)
(* What a node does with a request that a relay hands it                   *)
(* (src/spirit/run/spirit/peerPost.js, onRequest), who is given it         *)
(* (arrivals.js), and what its store remembers (nodeStore.js, replay and   *)
(* traffic).                                                               *)
(*                                                                         *)
(* Every request is genuine and for this node, and comes any number of     *)
(* times, over any relay: again because its sender tries again, or because *)
(* somebody who saw it does.  The handler runs to its end without a pause, *)
(* except that the process may end inside it; the reply is sent later.     *)
(* The replay index and the packet log outlive the process.  Whether the   *)
(* file is over its cap is left open at every row written.                 *)
(*                                                                         *)
(* Left out: signatures, the words of a request and of an answer, the      *)
(* bytes a stranger may spend, hits on the shadow roll, a page whose       *)
(* handler throws, and a log that cannot be written.                       *)
(***************************************************************************)
EXTENDS Integers, Sequences, FiniteSets, Functions

CONSTANTS
    Message,
    Sender,
    SenderOf,       \* message -> who signed it
    At,             \* message -> the time inside its seal
    Cards,          \* messages that ask for this node's card
    Plain,          \* messages that came unsealed
    Shut,           \* messages that do not open here
    Page,
    Window,         \* WINDOW_MS
    Backlog,        \* BACKLOG_MS
    Skew,           \* SKEW_MS
    PerMinute,      \* UNKNOWN_PER_MIN
    Deaths,         \* where in the handler the process may end
    MaxTime         \* bound: the clock

ASSUME ArrivalsAssumption ==
    /\ SenderOf \in [Message -> Sender]
    /\ At \in [Message -> Nat]
    /\ {Window, Backlog, Skew, PerMinute, MaxTime} \subseteq Nat
    /\ Window <= Backlog
    /\ Deaths \subseteq {"remembered", "logged"}

VARIABLES
    now,        \* the wall clock, in units longer than the floor's minute
    index,      \* messages in the table `replay`
    log,        \* the rows of the packet log that matter: arrivals and marks
    known,      \* senders the front door lets in
    hits,       \* stranger -> requests counted in this minute
    pages,      \* pages that listen
    owed,       \* requests whose receipt is not sent yet
    kept,       \* message -> what the node did with it: nothing, "ignored" or "delivered"
    acted,      \* message -> times it was given to the node's own listeners
    shown,      \* message -> occasions it was given to pages
    told        \* message -> what its sender was told

disc == <<index, log>>
ram == <<hits, pages, owed>>
vars == <<now, disc, known, ram, kept, acted, shown, told>>

Nothing == "nothing"

Arrival(m) == [of |-> m, mark |-> FALSE, at |-> now]
Taken(m) == [of |-> m, mark |-> TRUE, at |-> now]

Init ==
    /\ now = 0
    /\ index = {}
    /\ log = <<>>
    /\ known \in SUBSET Sender
    /\ hits = [s \in Sender |-> 0]
    /\ pages = {}
    /\ owed = {}
    /\ kept = [m \in Message |-> Nothing]
    /\ acted = [m \in Message |-> 0]
    /\ shown = [m \in Message |-> 0]
    /\ told = [m \in Message |-> {}]

-----------------------------------------------------------------------------
(* The store.                                                              *)

(* Mutant: the index also forgets what is just as old as its window.       *)
YoungOnly(S) == {m \in S : At[m] > now - Backlog}

(* What the sweep of the index leaves.                                     *)
Young(S) == {m \in S : At[m] >= now - Backlog}

(* traffic.add() of rows: past the file's cap the index is swept, and then *)
(* the oldest rows go, never the newest one.                               *)
Written(remembered, rows) ==
    LET all == log \o rows
    IN  \E over \in BOOLEAN, gone \in 0 .. Len(all) :
            /\ gone > 0 => over /\ gone < Len(all)
            /\ index' = IF over THEN Young(remembered) ELSE remembered
            /\ log' = SubSeq(all, gone + 1, Len(all))

(* seen(): the window and the memory are one number.                       *)
Seen(m) ==
    IF At[m] > now + Skew THEN "ahead"
    ELSE IF At[m] < now - Window THEN "old"
    ELSE IF m \in index THEN "again"
    ELSE "new"

(* untaken(): where in the log the arrivals of the last day without a mark *)
(* stand.                                                                  *)
Untaken ==
    {i \in DOMAIN log :
        /\ ~log[i].mark
        /\ log[i].at > now - Backlog
        /\ \A j \in DOMAIN log : log[j].mark => log[j].of # log[i].of}

(* A set of places in the log, oldest first.                               *)
OldestFirst(S) ==
    {order \in Surjection(1 .. Cardinality(S), S) :
        \A i, j \in DOMAIN order : i < j => order[i] < order[j]}

-----------------------------------------------------------------------------
(* A request arrives.                                                      *)

(* What decides before the front door is asked.                            *)
Verdict(m) ==
    IF m \in Cards THEN "card"
    ELSE IF m \in Plain THEN "unsealed"
    ELSE IF m \in Shut THEN "wontOpen"
    ELSE Seen(m)

(* answerCard() and refuse(): answered at once, and that is all.           *)
TurnedAway(m) ==
    /\ Verdict(m) # "new"
    /\ told' = [told EXCEPT ![m] = @ \cup {Verdict(m)}]
    /\ Written(index, <<>>)
    /\ UNCHANGED <<now, known, ram, kept, acted, shown>>

(* Mutant: no page is open, and the message counts as taken.               *)
DeliveredAsTaken(m) ==
    /\ Verdict(m) = "new"
    /\ SenderOf[m] \in known
    /\ Written(index \cup {m}, <<Arrival(m), Taken(m)>>)
    /\ kept' = [kept EXCEPT ![m] = "delivered"]
    /\ acted' = [acted EXCEPT ![m] = @ + 1]
    /\ shown' = [shown EXCEPT ![m] = IF pages = {} THEN @ ELSE @ + 1]
    /\ owed' = owed \cup {m}
    /\ UNCHANGED <<now, known, hits, pages, told>>

(* From somebody known: remembered, logged, given to the node's listeners  *)
(* and to every open page, and marked if there is one.                     *)
Delivered(m) ==
    /\ Verdict(m) = "new"
    /\ SenderOf[m] \in known
    /\ Written(index \cup {m},
               IF pages = {} THEN <<Arrival(m)>> ELSE <<Arrival(m), Taken(m)>>)
    /\ kept' = [kept EXCEPT ![m] = "delivered"]
    /\ acted' = [acted EXCEPT ![m] = @ + 1]
    /\ shown' = [shown EXCEPT ![m] = IF pages = {} THEN @ ELSE @ + 1]
    /\ owed' = owed \cup {m}
    /\ UNCHANGED <<now, known, hits, pages, told>>

(* Mutant: the floor lets one more through.                                *)
IgnoredOneMore(m) ==
    /\ Verdict(m) = "new"
    /\ SenderOf[m] \notin known
    /\ hits[SenderOf[m]] <= PerMinute
    /\ hits' = [hits EXCEPT ![SenderOf[m]] = @ + 1]
    /\ Written(index \cup {m}, <<>>)
    /\ kept' = [kept EXCEPT ![m] = "ignored"]
    /\ owed' = owed \cup {m}
    /\ UNCHANGED <<now, known, pages, acted, shown, told>>

(* From a stranger within the floor: remembered, dropped, and receipted.   *)
Ignored(m) ==
    /\ Verdict(m) = "new"
    /\ SenderOf[m] \notin known
    /\ hits[SenderOf[m]] < PerMinute
    /\ hits' = [hits EXCEPT ![SenderOf[m]] = @ + 1]
    /\ Written(index \cup {m}, <<>>)
    /\ kept' = [kept EXCEPT ![m] = "ignored"]
    /\ owed' = owed \cup {m}
    /\ UNCHANGED <<now, known, pages, acted, shown, told>>

(* Mutant: what the floor stops is receipted as well.                      *)
OverFloorReceipted(m) ==
    /\ Verdict(m) = "new"
    /\ SenderOf[m] \notin known
    /\ hits[SenderOf[m]] >= PerMinute
    /\ Written(index \cup {m}, <<>>)
    /\ owed' = owed \cup {m}
    /\ UNCHANGED <<now, known, hits, pages, kept, acted, shown, told>>

(* From a stranger over the floor: remembered, and nothing is said.        *)
OverFloor(m) ==
    /\ Verdict(m) = "new"
    /\ SenderOf[m] \notin known
    /\ hits[SenderOf[m]] >= PerMinute
    /\ Written(index \cup {m}, <<>>)
    /\ UNCHANGED <<now, known, ram, kept, acted, shown, told>>

(* Mutant: the message is given to the listeners before it is remembered.  *)
DeathUnremembered(m) ==
    /\ Deaths # {}
    /\ Verdict(m) = "new"
    /\ SenderOf[m] \in known
    /\ acted' = [acted EXCEPT ![m] = @ + 1]
    /\ hits' = [s \in Sender |-> 0]
    /\ pages' = {}
    /\ owed' = {}
    /\ UNCHANGED <<now, disc, known, kept, shown, told>>

(* The process ends inside the handler, once the message is remembered or  *)
(* once it is logged: nobody is given it, and its row waits for a page.    *)
Death(m) ==
    /\ Verdict(m) = "new"
    /\ SenderOf[m] \in known
    /\ \E last \in Deaths :
        /\ Written(index \cup {m}, IF last = "logged" THEN <<Arrival(m)>> ELSE <<>>)
        /\ kept' = [kept EXCEPT ![m] = IF last = "logged" THEN "delivered" ELSE @]
    /\ hits' = [s \in Sender |-> 0]
    /\ pages' = {}
    /\ owed' = {}
    /\ UNCHANGED <<now, known, acted, shown, told>>

(* The receipt goes, with or without an answer in it.                      *)
Receipt(m) ==
    /\ m \in owed
    /\ owed' = owed \ {m}
    /\ told' = [told EXCEPT ![m] = @ \cup {"receipt"}]
    /\ UNCHANGED <<now, disc, known, hits, pages, kept, acted, shown>>

-----------------------------------------------------------------------------
(* Pages, the owner, time and the process.                                 *)

(* Mutant: the backlog is handed over and not marked.                      *)
SubscribeUnmarked(p) ==
    /\ p \notin pages
    /\ pages' = pages \cup {p}
    /\ shown' = [m \in Message |->
                    shown[m] + Cardinality({i \in Untaken : log[i].of = m})]
    /\ UNCHANGED <<now, disc, known, hits, owed, kept, acted, told>>

(* subscribe(): what waits is marked first and handed over second.         *)
Subscribe(p) ==
    /\ p \notin pages
    /\ pages' = pages \cup {p}
    /\ \E order \in OldestFirst(Untaken) :
        Written(index, [i \in DOMAIN order |-> Taken(log[order[i]].of)])
    /\ shown' = [m \in Message |->
                    shown[m] + Cardinality({i \in Untaken : log[i].of = m})]
    /\ UNCHANGED <<now, known, hits, owed, kept, acted, told>>

Unsubscribe(p) ==
    /\ p \in pages
    /\ pages' = pages \ {p}
    /\ UNCHANGED <<now, disc, known, hits, owed, kept, acted, shown, told>>

(* The owner adds, removes, blocks or unblocks somebody.                   *)
BookChanges(s) ==
    /\ known' = IF s \in known THEN known \ {s} ELSE known \cup {s}
    /\ UNCHANGED <<now, disc, ram, kept, acted, shown, told>>

Tick ==
    /\ now < MaxTime
    /\ now' = now + 1
    /\ hits' = [s \in Sender |-> 0]
    /\ UNCHANGED <<disc, known, pages, owed, kept, acted, shown, told>>

Restart ==
    /\ hits' = [s \in Sender |-> 0]
    /\ pages' = {}
    /\ owed' = {}
    /\ UNCHANGED <<now, disc, known, kept, acted, shown, told>>

Next ==
    \/ \E m \in Message :
        TurnedAway(m) \/ Delivered(m) \/ Ignored(m) \/ OverFloor(m) \/ Death(m) \/ Receipt(m)
    \/ \E p \in Page : Subscribe(p) \/ Unsubscribe(p)
    \/ \E s \in Sender : BookChanges(s)
    \/ Tick
    \/ Restart

Spec == Init /\ [][Next]_vars

-----------------------------------------------------------------------------
(* Properties.                                                             *)

TypeOK ==
    /\ now \in Nat
    /\ index \subseteq Message
    /\ log \in Seq([of : Message, mark : BOOLEAN, at : Nat])
    /\ known \subseteq Sender
    /\ hits \in [Sender -> 0 .. PerMinute]
    /\ pages \subseteq Page
    /\ owed \subseteq Message
    /\ kept \in [Message -> {Nothing, "ignored", "delivered"}]
    /\ acted \in [Message -> Nat]
    /\ shown \in [Message -> Nat]
    /\ told \in [Message -> SUBSET {"card", "unsealed", "wontOpen", "ahead", "old",
                                    "again", "receipt"}]

(* However often a message comes, over whichever relay, and whenever the   *)
(* process ends, the node's own listeners are given it once at most        *)
(* (peerPost.js, "REMEMBERED BEFORE IT IS DELIVERED": acting on something  *)
(* twice is the one failure that is worse than losing it).                 *)
ActedOnce == \A m \in Message : acted[m] <= 1

(* What the index forgets is refused for its age: a message that the node  *)
(* did anything with is in the index or too old for it (nodeStore.js, "a   *)
(* hash can only be dropped once a message bearing it would be refused for *)
(* age anyway").                                                           *)
ForgottenIsTooOld ==
    \A m \in Message : kept[m] # Nothing => m \in index \/ At[m] < now - Window

(* A page is given a message on one occasion: when it came, or when the    *)
(* first page opened after it (arrivals.js, "a second opening after it     *)
(* gets nothing, because the message already reached the person").         *)
ShownOnce == \A m \in Message : shown[m] <= 1

(* What was filed and no page has seen still waits for one, also when the  *)
(* process ended before anybody was given it, as long as its row is young  *)
(* and not shed (arrivals.js, waiting: no listener of the node's own makes *)
(* it taken).                                                              *)
WaitsForAPage ==
    \A m \in Message :
        kept[m] = "delivered" /\ shown[m] = 0 =>
            \A i \in DOMAIN log : log[i].of = m /\ log[i].at > now - Backlog
                => \E j \in Untaken : log[j].of = m

(* A receipt is only sent for what was filed or dropped by the front door  *)
(* (peerPost.js, "A receipt means this arrived and is filed, and over the  *)
(* floor nothing is filed").                                               *)
ReceiptIsTrue ==
    \A m \in Message : "receipt" \in told[m] \/ m \in owed => kept[m] # Nothing

(* peerPost.js:1382: "this message has already been delivered here".       *)
AgainIsTrue == \A m \in Message : "again" \in told[m] => kept[m] # Nothing
=============================================================================
