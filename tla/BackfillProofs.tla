--------------------------- MODULE BackfillProofs ---------------------------
(***************************************************************************)
(* Proofs that the walk through a room's history keeps the chat in order   *)
(* and leaves nothing behind, for any history, page lengths and restarts.  *)
(*                                                                         *)
(* The order rests on the queue: what is queued is newer than all that the *)
(* portal shows, than the page at hand and than the place the walk is at.  *)
(* That nothing is left behind needs to be said of the page at hand too,   *)
(* and of what the framework cuts off a page: nothing is missing above a   *)
(* message that is shown or queued.                                        *)
(***************************************************************************)
EXTENDS Backfill, SubsequenceTheorems, TLAPS

Places == 0 .. Len(room) \cup {NoToken, EndOfTimeline}

(* A walk that goes on has a place to go on from.                          *)
WalkGoesOn ==
    /\ cursor \in Places /\ page.cursor \in Places
    /\ page.hasMore => page.cursor \in Nat
    /\ pc # "fetch" => ~done

TypeInv == TypeOK /\ WalkGoesOn

QueueIsNewest ==
    /\ Increasing(queue)
    /\ Increasing(page.messages)
    /\ \A q \in ToSet(queue) :
         /\ \A e \in ToSet(shown) \cup ToSet(page.messages) : e < q
         /\ \A n \in {cursor, page.cursor} \cap Nat : n < q

Accounted(e) == e \in ToSet(shown) \cup ToSet(queue) \cup missed

(* With the page the walk has passed e.                                    *)
PagePassed(e) == page.hasMore => page.cursor < e

PageLeavesNothing ==
    /\ pc = "show" => \A m \in ToSet(page.messages), e \in Events : m <= e => PagePassed(e)
    /\ \A e \in Events :
         pc # "fetch" /\ Convertible(e) /\ PagePassed(e)
             => Accounted(e) \/ (pc = "show" /\ e \in ToSet(page.messages))

NoneMissingAbove ==
    \A a \in ToSet(shown) \cup ToSet(queue), e \in Events :
        Convertible(e) /\ a <= e => Accounted(e)

OrderInv == TypeInv /\ ChatOrder /\ QueueIsNewest
LeftInv  == PageLeavesNothing /\ NoneMissingAbove /\ NothingLeftBehind

-----------------------------------------------------------------------------
(* Events of the room, before and after a message.                         *)
LEMMA RoomGrows ==
    ASSUME TypeOK, NEW k \in Kinds, Post(k)
    PROVE  /\ room' \in Seq(Kinds) /\ Len(room) \in Nat /\ Len(room') = Len(room) + 1
           /\ Len(room') <= MaxEvents
           /\ Events' = Events \cup {Len(room) + 1} /\ Len(room) + 1 \notin Events
           /\ room'[Len(room) + 1] = k
           /\ \A e \in Events : room'[e] = room[e]
  <1>1. room \in Seq(Kinds) /\ room' = Append(room, k) /\ Len(room) < MaxEvents
    BY DEF TypeOK, Post
  <1>2. /\ room' \in Seq(Kinds) /\ Len(room) \in Nat /\ Len(room') = Len(room) + 1
        /\ room'[Len(room) + 1] = k
        /\ \A e \in 1 .. Len(room) : room'[e] = room[e]
    BY <1>1, AppendProperties
  <1> QED
    BY <1>1, <1>2, BoundsAssumption DEF Events

LEMMA PageLengths ==
    ASSUME NEW left \in Nat, NEW asked \in AskedCounts, NEW n \in Lengths(left, Count(asked))
    PROVE  n \in 0 .. left /\ (n = 0 => left = 0)
  <1>1. Count(asked) \in Nat \ {0}
    BY CountsAssumption DEF Count
  <1> QED
    BY <1>1 DEF Lengths

(* A page as it is handed to the framework.                                *)
LEMMA PageContents ==
    ASSUME NEW left \in 0 .. Len(room), NEW n \in 0 .. left, NEW broken, room \in Seq(Kinds)
    PROVE  LET messages == Chronological(Converted(Chunk(left, n), broken))
           IN  /\ messages \in Seq(Events) /\ Increasing(messages)
               /\ \A e : e \in ToSet(messages) <=>
                           /\ e \in Events /\ Convertible(e) /\ e \notin broken
                           /\ left - n < e /\ e <= left
  <1> DEFINE c == Chunk(left, n)
             S == {e \in Events : Convertible(e)} \ broken
             k == KeepOnly(c, S)
             m == Reverse(k)
  <1>1. /\ c \in Seq(Events) /\ Len(c) = n
        /\ \A i \in 1 .. n : c[i] = left + 1 - i
    BY DEF Chunk, Events
  <1>2. n \in Nat /\ left \in Nat /\ Len(room) \in Nat /\ n <= left /\ left <= Len(room)
    OBVIOUS
  <1> HIDE DEF c, S
  <1>3. \A e : e \in ToSet(c) <=> e \in Events /\ left - n < e /\ e <= left
    <2>1. \A e : e \in ToSet(c) <=> \E i \in 1 .. n : c[i] = e
      BY <1>1, ElementsOfSeq
    <2>2. \A i \in 1 .. n : left + 1 - i \in Events /\ left - n < left + 1 - i /\ left + 1 - i <= left
      BY <1>2 DEF Events
    <2>3. ASSUME NEW e \in Events, left - n < e, e <= left PROVE e \in ToSet(c)
      <3>1. e \in Nat /\ left + 1 - e \in 1 .. n /\ left + 1 - (left + 1 - e) = e
        BY <1>2, <2>3 DEF Events
      <3> QED
        BY <1>1, <2>1, <3>1
    <2> QED
      BY <1>1, <2>1, <2>2, <2>3
  <1>4. /\ k \in Seq(Events) /\ ToSet(k) = ToSet(c) \cap S
        /\ \A i, j \in 1 .. Len(k) : i < j => k[j] < k[i]
    <2>1. \A i, j \in 1 .. Len(c) : i < j => c[j] < c[i]
      BY <1>1, <1>2
    <2> QED
      BY <1>1, <2>1, DecreasingKept, ElementsOfKept
  <1> HIDE DEF k
  <1>5. /\ m \in Seq(Events) /\ Len(m) = Len(k) /\ Len(k) \in Nat
        /\ \A i \in 1 .. Len(k) : m[i] = k[Len(k) - i + 1]
    BY <1>4, ElementsOfReverse
  <1> HIDE DEF m
  <1>6. Increasing(m)
    <2>1. ASSUME NEW i \in 1 .. Len(m), NEW j \in 1 .. Len(m), i < j PROVE m[i] < m[j]
      <3>1. /\ Len(k) - i + 1 \in 1 .. Len(k) /\ Len(k) - j + 1 \in 1 .. Len(k)
            /\ Len(k) - j + 1 < Len(k) - i + 1
        BY <1>5, <2>1
      <3> QED
        BY <1>4, <1>5, <3>1
    <2> QED
      BY <2>1 DEF Increasing
  <1>7. ToSet(m) = ToSet(k)
    <2>1. /\ \A e : e \in ToSet(m) <=> \E i \in 1 .. Len(k) : m[i] = e
          /\ \A e : e \in ToSet(k) <=> \E i \in 1 .. Len(k) : k[i] = e
      BY <1>4, <1>5, ElementsOfSeq
    <2>2. \A i \in 1 .. Len(k) : /\ Len(k) - i + 1 \in 1 .. Len(k)
                                 /\ Len(k) - (Len(k) - i + 1) + 1 = i
      BY <1>5
    <2>3. \A i \in 1 .. Len(k) : m[Len(k) - i + 1] = k[i]
      BY <1>5, <2>2
    <2> QED
      BY <1>5, <2>1, <2>2, <2>3
  <1>8. m = Chronological(Converted(Chunk(left, n), broken))
    BY DEF Chronological, Converted, c, S, k, m
  <1> QED
    BY <1>3, <1>4, <1>5, <1>6, <1>7, <1>8 DEF S

LEMMA PlacesLeave ==
    /\ LeftBelow(NoToken) = Len(room)
    /\ LeftBelow(EndOfTimeline) = 0
    /\ \A n \in Nat : LeftBelow(n) = n
  BY TokensAssumption DEF LeftBelow

(* What a page that Reddit answers is, and what it leaves.                 *)
Fetched(left, n, broken) ==
    /\ left = LeftBelow(cursor)
    /\ n = 0 => left = 0
    /\ page' \in [messages : Seq(Events), cursor : Tokens, hasMore : BOOLEAN]
    /\ Increasing(page'.messages)
    /\ \A e : e \in ToSet(page'.messages) <=>
                /\ e \in Events /\ Convertible(e) /\ e \notin broken
                /\ left - n < e /\ e <= left
    /\ page'.cursor \in Ends(left - n)
    /\ page'.hasMore <=> page'.cursor \notin {NoToken, EndOfTimeline} /\ n # 0
    /\ missed' = missed \cup broken

LEMMA PageFetched ==
    ASSUME TypeInv, FetchMessages
    PROVE  \E left \in 0 .. Len(room) : \E n \in 0 .. left : \E broken \in SUBSET Events :
              Fetched(left, n, broken)
  <1>1. PICK left : left = LeftBelow(cursor)
    OBVIOUS
  <1>2. left \in 0 .. Len(room) /\ left \in Nat /\ Len(room) \in Nat /\ room \in Seq(Kinds)
    BY <1>1, PlacesLeave DEF TypeInv, TypeOK, WalkGoesOn, Places
  <1>3. PICK asked \in AskedCounts : \E n \in Lengths(left, Count(asked)) :
          \E end \in Ends(left - n), broken \in SUBSET Media(Chunk(left, n)) :
             /\ page' = Answer(end, Chunk(left, n), Converted(Chunk(left, n), broken))
             /\ missed' = missed \cup broken
    BY <1>1 DEF FetchMessages
  <1>4. PICK n \in Lengths(left, Count(asked)) :
          \E end \in Ends(left - n), broken \in SUBSET Media(Chunk(left, n)) :
             /\ page' = Answer(end, Chunk(left, n), Converted(Chunk(left, n), broken))
             /\ missed' = missed \cup broken
    BY <1>3
  <1>5. PICK end \in Ends(left - n), broken \in SUBSET Media(Chunk(left, n)) :
             /\ page' = Answer(end, Chunk(left, n), Converted(Chunk(left, n), broken))
             /\ missed' = missed \cup broken
    BY <1>4
  <1>6. n \in 0 .. left /\ (n = 0 => left = 0)
    BY <1>2, PageLengths
  <1>7. Chunk(left, n) \in Seq(Events) /\ (Chunk(left, n) = <<>> <=> n = 0)
    <2>1. Chunk(left, n) \in Seq(Events) /\ Len(Chunk(left, n)) = n
      BY <1>2, <1>6 DEF Chunk, Events
    <2> QED
      BY <2>1, EmptySeq
  <1>8. broken \in SUBSET Events
    BY <1>7, ElementsOfSeq DEF Media
  <1> DEFINE m == Chronological(Converted(Chunk(left, n), broken))
  <1>9. /\ m \in Seq(Events) /\ Increasing(m)
        /\ \A e : e \in ToSet(m) <=> /\ e \in Events /\ Convertible(e) /\ e \notin broken
                                     /\ left - n < e /\ e <= left
    BY <1>2, <1>6, PageContents
  <1>10. /\ page' = [messages |-> m, cursor |-> end,
                    hasMore |-> HasMoreHistory(end, Chunk(left, n))]
        /\ HasMoreHistory(end, Chunk(left, n)) \in BOOLEAN
    BY <1>5 DEF Answer, HasMoreHistory
  <1> HIDE DEF m
  <1>11. end \in Tokens
    BY <1>2, <1>6 DEF Ends, Tokens
  <1>12. /\ page' \in [messages : Seq(Events), cursor : Tokens, hasMore : BOOLEAN]
         /\ page'.messages = m /\ page'.cursor = end
         /\ page'.hasMore <=> end \notin {NoToken, EndOfTimeline} /\ n # 0
    BY <1>7, <1>9, <1>10, <1>11 DEF HasMoreHistory
  <1>13. Fetched(left, n, broken)
    BY <1>1, <1>5, <1>6, <1>9, <1>12 DEF Fetched
  <1> QED
    BY <1>2, <1>6, <1>8, <1>13

(* The framework keeps of a page what is older than all that is shown.     *)
LEMMA OlderContents ==
    ASSUME TypeOK, ChatOrder, NEW messages \in Seq(Events), Increasing(messages)
    PROVE  /\ Older(messages) \in Seq(Events) /\ Increasing(Older(messages))
           /\ \A e : e \in ToSet(Older(messages)) <=>
                       e \in ToSet(messages) /\ \A d \in ToSet(shown) : e < d
  <1>1. shown \in Seq(Events) /\ shown \in Seq(Nat) /\ ToSet(messages) \subseteq Events
    BY ElementsOfSeq DEF TypeOK, Events
  <1>2. CASE shown = <<>>
    <2>1. ToSet(shown) = {}
      BY <1>1, <1>2, ElementsOfSeq
    <2> QED
      BY <1>2, <2>1 DEF Older
  <1>3. CASE shown # <<>>
    <2> DEFINE S == {e \in Events : e < shown[1]}
    <2>1. Older(messages) = KeepOnly(messages, S)
      BY <1>3 DEF Older
    <2> HIDE DEF S
    <2>2. Older(messages) \in Seq(Events) /\ ToSet(Older(messages)) = ToSet(messages) \cap S
      BY <2>1, ElementsOfKept
    <2>3. Increasing(Older(messages))
      BY <2>1, IncreasingKept
    <2>4. shown[1] \in ToSet(shown) /\ ToSet(shown) \subseteq Nat
      <3>1. 1 \in 1 .. Len(shown)
        BY <1>1, <1>3, EmptySeq
      <3> QED
        BY <1>1, <3>1, ElementsOfSeq
    <2>5. \A d \in ToSet(shown) : shown[1] <= d
      BY <1>1, <1>3, IncreasingTail DEF ChatOrder
    <2>6. \A e \in Events : e \in S <=> \A d \in ToSet(shown) : e < d
      <3>1. \A e \in Events : e \in S <=> e < shown[1]
        BY DEF S
      <3>2. \A e \in Events : e \in Nat
        BY DEF Events
      <3>3. \A e \in Events, d \in ToSet(shown) : e < shown[1] => e < d
        BY <2>4, <2>5, <3>2
      <3> QED
        BY <2>4, <3>1, <3>3
    <2>7. \A e : e \in ToSet(messages) => e \in Events
      BY <1>1
    <2> QED
      BY <2>2, <2>3, <2>6, <2>7
  <1> QED
    BY <1>2, <1>3

-----------------------------------------------------------------------------
LEMMA TypeInvInit == Init => TypeInv
  <1> SUFFICES ASSUME Init PROVE TypeInv
    OBVIOUS
  <1>1. PICK n \in 0 .. InitialEvents : room \in [1 .. n -> Kinds]
    BY DEF Init
  <1>2. room \in Seq(Kinds) /\ Len(room) <= MaxEvents
    BY <1>1, BoundsAssumption
  <1>3. NoPage \in [messages : Seq(Events), cursor : Tokens, hasMore : BOOLEAN]
    BY DEF NoPage, Tokens
  <1>4. TypeOK
    <2>1. /\ cursor = NoToken /\ done = FALSE /\ pc = "fetch" /\ page = NoPage
          /\ queue = <<>> /\ shown = <<>> /\ missed = {} /\ crashes = 0
      BY DEF Init
    <2>2. cursor \in Tokens /\ cursor # EndOfTimeline /\ crashes \in 0 .. MaxCrashes
      BY <2>1, TokensAssumption, BoundsAssumption DEF Tokens
    <2>3. queue \in Seq(Events) /\ shown \in Seq(Events) /\ missed \subseteq Events
      BY <2>1
    <2> QED
      BY <1>2, <1>3, <2>1, <2>2, <2>3 DEF TypeOK
  <1>5. WalkGoesOn
    BY DEF Init, WalkGoesOn, Places, NoPage
  <1> QED
    BY <1>4, <1>5 DEF TypeInv

LEMMA TypeInvStep ==
    ASSUME TypeInv, [Next]_vars, ChatOrder, Increasing(page.messages)
    PROVE  TypeInv'
  <1> USE DEF TypeInv
  <1>1. CASE UNCHANGED vars
    BY <1>1 DEF TypeOK, WalkGoesOn, Places, Events, vars, walk
  <1>2. ASSUME NEW k \in Kinds, Post(k) PROVE TypeInv'
    <2>1. /\ room' \in Seq(Kinds) /\ Len(room') <= MaxEvents
          /\ Events' = Events \cup {Len(room) + 1} /\ Len(room) \in Nat
          /\ Len(room') = Len(room) + 1
      BY <1>2, RoomGrows
    <2>2. /\ page \in [messages : Seq(Events'), cursor : Tokens, hasMore : BOOLEAN]
          /\ queue \in Seq(Events') /\ shown \in Seq(Events') /\ missed \subseteq Events'
      BY <2>1 DEF TypeOK
    <2>3. queue' \in Seq(Events')
      BY <1>2, <2>1, <2>2 DEF Post
    <2>4. Places \subseteq Places'
      BY <2>1 DEF Places
    <2> QED
      BY <1>2, <2>1, <2>2, <2>3, <2>4 DEF Post, TypeOK, WalkGoesOn, walk
  <1>3. CASE FetchMessages
    <2>1. PICK left \in 0 .. Len(room) :
             \E n \in 0 .. left : \E broken \in SUBSET Events : Fetched(left, n, broken)
      BY <1>3, PageFetched
    <2>2. PICK n \in 0 .. left, broken \in SUBSET Events : Fetched(left, n, broken)
      BY <2>1
    <2>3. Events' = Events /\ Places' = Places /\ Len(room) \in Nat /\ room' = room
      BY <1>3 DEF FetchMessages, Events, Places, TypeOK
    <2>4. page'.cursor \in Places
      BY <2>2, <2>3 DEF Fetched, Ends, Places
    <2>5. page'.hasMore => page'.cursor \in Nat
      BY <2>2, <2>3, <2>4 DEF Fetched, Places
    <2>6. TypeOK'
      BY <1>3, <2>2, <2>3 DEF FetchMessages, TypeOK, Fetched
    <2> QED
      BY <1>3, <2>3, <2>4, <2>5, <2>6 DEF FetchMessages, WalkGoesOn
  <1>4. CASE ShowBatch
    <2>1. Older(page.messages) \o shown \in Seq(Events)
      BY OlderContents, ConcatProperties DEF TypeOK
    <2> QED
      BY <1>4, <2>1 DEF ShowBatch, TypeOK, WalkGoesOn, Places, Events
  <1>5. CASE SaveTask
    <2>1. NoPage \in [messages : Seq(Events), cursor : Tokens, hasMore : BOOLEAN]
      BY DEF NoPage, Tokens
    <2>2. page.cursor = EndOfTimeline => ~page.hasMore
      BY TokensAssumption DEF WalkGoesOn
    <2> QED
      BY <1>5, <2>1, <2>2 DEF SaveTask, TypeOK, WalkGoesOn, Places, Events, NoPage
  <1>6. CASE Crash
    <2>1. NoPage \in [messages : Seq(Events), cursor : Tokens, hasMore : BOOLEAN]
      BY DEF NoPage, Tokens
    <2>2. ToSet(queue) \subseteq Events /\ <<>> \in Seq(Events)
      BY ElementsOfSeq DEF TypeOK
    <2>3. crashes' \in 0 .. MaxCrashes
      BY <1>6, BoundsAssumption DEF Crash, TypeOK
    <2> QED
      BY <1>6, <2>1, <2>2, <2>3 DEF Crash, TypeOK, WalkGoesOn, Places, Events, NoPage
  <1>7. CASE ShowLive
    <2>1. Head(queue) \in Events /\ Tail(queue) \in Seq(Events)
      BY <1>7, ElementsOfTail DEF ShowLive, TypeOK
    <2>2. shown' \in Seq(Events)
      <3>1. shown \in Seq(Events) /\ Append(shown, Head(queue)) \in Seq(Events)
        BY <2>1, AppendProperties DEF TypeOK
      <3> QED
        BY <1>7, <3>1 DEF ShowLive
    <2>3. missed' \subseteq Events
      BY <1>7, <2>1 DEF ShowLive, TypeOK
    <2> QED
      BY <1>7, <2>1, <2>2, <2>3 DEF ShowLive, TypeOK, WalkGoesOn, Places, Events, walk
  <1> QED
    BY <1>1, <1>2, <1>3, <1>4, <1>5, <1>6, <1>7 DEF Next, Walk

-----------------------------------------------------------------------------
LEMMA NothingAtHand ==
    NoPage.messages = <<>> /\ NoPage.cursor \notin Nat /\ Increasing(<<>>) /\ ToSet(<<>>) = {}
  <1>1. ToSet(<<>>) = {}
    <2>1. <<>> \in Seq(Nat)
      OBVIOUS
    <2> QED
      BY <2>1, ElementsOfSeq
  <1>2. Increasing(<<>>)
    BY DEF Increasing
  <1> QED
    BY <1>1, <1>2, TokensAssumption DEF NoPage

LEMMA Elements ==
    ASSUME TypeOK
    PROVE  /\ shown \in Seq(Nat) /\ queue \in Seq(Nat) /\ page.messages \in Seq(Nat)
           /\ page.messages \in Seq(Events) /\ Events \subseteq Nat
           /\ ToSet(shown) \subseteq Events /\ ToSet(queue) \subseteq Events
           /\ ToSet(page.messages) \subseteq Events
  <1>1. shown \in Seq(Events) /\ queue \in Seq(Events) /\ page.messages \in Seq(Events)
    BY DEF TypeOK
  <1>2. Events \subseteq Nat
    BY DEF Events
  <1>3. \A s \in Seq(Events) : s \in Seq(Nat)
    BY DEF Events
  <1>4. \A s \in Seq(Events) : ToSet(s) \subseteq Events
    BY ElementsOfSeq
  <1> QED
    BY <1>1, <1>2, <1>3, <1>4

(* The chat stays in order, and the queue stays the newest.                *)
LEMMA OrderStep ==
    ASSUME OrderInv, [Next]_vars
    PROVE  ChatOrder' /\ QueueIsNewest'
  <1> USE DEF ChatOrder, QueueIsNewest
  <1>1. TypeInv /\ TypeOK /\ ChatOrder /\ QueueIsNewest
    BY DEF OrderInv, TypeInv
  <1>2. CASE UNCHANGED vars
    BY <1>1, <1>2 DEF vars, walk
  <1>3. ASSUME NEW k \in Kinds, Post(k) PROVE ChatOrder' /\ QueueIsNewest'
    <2>1. PICK n : n = Len(room) + 1
      OBVIOUS
    <2>2. n \in Nat /\ (\A e \in Events : e < n) /\ \A c \in Places \cap Nat : c < n
      BY <1>1, <2>1, TokensAssumption DEF TypeOK, Events, Places
    <2>3. UNCHANGED <<shown, page, cursor>> /\ queue' \in {queue, Append(queue, n)}
      BY <1>3, <2>1 DEF Post, walk
    <2>4. \A x \in ToSet(shown) \cup ToSet(page.messages) \cup ToSet(queue) : x < n
      BY <1>1, <2>2, Elements
    <2>5. \A c \in {cursor, page.cursor} \cap Nat : c < n
      BY <1>1, <2>2 DEF TypeInv, WalkGoesOn
    <2>6. CASE queue' = queue
      BY <1>1, <2>3, <2>6
    <2>7. CASE queue' = Append(queue, n)
      <3>1. Increasing(queue') /\ ToSet(queue') = ToSet(queue) \cup {n}
        BY <1>1, <2>2, <2>4, <2>7, Elements, IncreasingAppend, ElementsOfAppend
      <3> QED
        BY <1>1, <2>3, <2>4, <2>5, <3>1
    <2> QED
      BY <2>3, <2>6, <2>7
  <1>4. CASE FetchMessages
    <2>1. PICK left \in 0 .. Len(room) :
             \E n \in 0 .. left : \E broken \in SUBSET Events : Fetched(left, n, broken)
      BY <1>1, <1>4, PageFetched
    <2>2. PICK n \in 0 .. left, broken \in SUBSET Events : Fetched(left, n, broken)
      BY <2>1
    <2>3. UNCHANGED <<shown, queue, cursor>>
      BY <1>4 DEF FetchMessages
    <2>4. left \in Nat /\ \A q \in ToSet(queue) : left < q
      <3>1. left \in Nat
        BY <1>1 DEF TypeOK
      <3>2. CASE cursor = NoToken
        <4>1. queue = <<>>
          BY <1>4, <3>2 DEF FetchMessages
        <4> QED
          BY <3>1, <4>1, NothingAtHand
      <3>3. CASE cursor # NoToken
        <4>1. cursor \in Nat
          BY <1>1, <1>4, <3>3 DEF FetchMessages, TypeOK, Tokens
        <4>2. left = cursor
          BY <2>2, <4>1, PlacesLeave DEF Fetched
        <4> QED
          BY <1>1, <4>1, <4>2
      <3> QED
        BY <3>2, <3>3
    <2>5. \A e \in ToSet(page'.messages) : e \in Nat /\ e <= left
      BY <2>2 DEF Fetched, Events
    <2>6. page'.cursor \in Nat => page'.cursor <= left
      BY <2>2, <2>4, TokensAssumption DEF Fetched, Ends
    <2>7. ToSet(queue) \subseteq Nat /\ Increasing(page'.messages)
      BY <1>1, <2>2, Elements DEF Fetched
    <2>8. /\ \A q \in ToSet(queue) : \A e \in ToSet(page'.messages) : e < q
          /\ \A q \in ToSet(queue) : page'.cursor \in Nat => page'.cursor < q
      BY <2>4, <2>5, <2>6, <2>7
    <2> QED
      BY <1>1, <2>3, <2>7, <2>8
  <1>5. CASE ShowBatch
    <2>1. UNCHANGED <<queue, cursor, page>> /\ shown' = Older(page.messages) \o shown
      BY <1>5 DEF ShowBatch
    <2>2. PICK older : older = Older(page.messages)
      OBVIOUS
    <2>3. /\ older \in Seq(Nat) /\ Increasing(older)
          /\ \A e \in ToSet(older) : e \in ToSet(page.messages) /\ \A d \in ToSet(shown) : e < d
      <3>1. older \in Seq(Events) /\ \A s \in Seq(Events) : s \in Seq(Nat)
        BY <1>1, <2>2, Elements, OlderContents DEF Events
      <3> QED
        BY <1>1, <2>2, <3>1, Elements, OlderContents
    <2>4. Increasing(shown') /\ ToSet(shown') = ToSet(older) \cup ToSet(shown)
      BY <1>1, <2>1, <2>2, <2>3, Elements, IncreasingConcat
    <2> QED
      BY <1>1, <2>1, <2>3, <2>4
  <1>6. CASE SaveTask
    <2>1. UNCHANGED <<queue, shown>> /\ page' = NoPage /\ cursor' = page.cursor
      BY <1>6 DEF SaveTask
    <2> QED
      BY <1>1, <2>1, NothingAtHand
  <1>7. CASE Crash
    <2>1. UNCHANGED <<cursor, shown>> /\ page' = NoPage /\ queue' = <<>>
      BY <1>7 DEF Crash
    <2> QED
      BY <1>1, <2>1, NothingAtHand
  <1>8. CASE ShowLive
    <2>1. PICK h : h = Head(queue)
      OBVIOUS
    <2>2. /\ UNCHANGED <<cursor, page>> /\ queue # <<>> /\ queue' = Tail(queue)
          /\ shown' \in {shown, Append(shown, h)}
      BY <1>8, <2>1 DEF ShowLive, walk
    <2>3. /\ Increasing(queue') /\ \A q \in ToSet(queue') : h < q
          /\ ToSet(queue) = ToSet(queue') \cup {h} /\ h \in Nat
      BY <1>1, <2>1, <2>2, Elements, IncreasingTail, ElementsOfTail
    <2>4. Increasing(shown') /\ ToSet(shown') \subseteq ToSet(shown) \cup {h}
      <3>1. \A x \in ToSet(shown) : x < h
        BY <1>1, <2>3
      <3>2. Increasing(Append(shown, h)) /\ ToSet(Append(shown, h)) = ToSet(shown) \cup {h}
        BY <1>1, <2>3, <3>1, Elements, IncreasingAppend, ElementsOfAppend
      <3> QED
        BY <1>1, <2>2, <3>2
    <2> QED
      BY <1>1, <2>2, <2>3, <2>4
  <1> QED
    BY <1>2, <1>3, <1>4, <1>5, <1>6, <1>7, <1>8 DEF Next, Walk

LEMMA OrderInvInit == Init => OrderInv
  <1> SUFFICES ASSUME Init PROVE OrderInv
    OBVIOUS
  <1>1. shown = <<>> /\ queue = <<>> /\ page = NoPage /\ cursor = NoToken
    BY DEF Init
  <1>2. ChatOrder /\ QueueIsNewest
    BY <1>1, NothingAtHand DEF ChatOrder, QueueIsNewest
  <1> QED
    BY <1>2, TypeInvInit DEF OrderInv

LEMMA OrderInvStep == OrderInv /\ [Next]_vars => OrderInv'
  BY TypeInvStep, OrderStep DEF OrderInv, QueueIsNewest

THEOREM OrderInvariance == Spec => []OrderInv
  BY OrderInvInit, OrderInvStep, PTL DEF Spec

(* Type correctness, for any history and limits.                           *)
THEOREM TypeCorrect == Spec => []TypeOK
  <1>1. OrderInv => TypeOK
    BY DEF OrderInv, TypeInv
  <1> QED
    BY <1>1, OrderInvariance, PTL

(* Whatever lengths Reddit gives its pages, wherever the bridge stops and  *)
(* however many messages arrive in between, the portal shows messages in   *)
(* the order they were posted and none twice (backfill.go:52-55).          *)
THEOREM ChatInOrder == Spec => []ChatOrder
  <1>1. OrderInv => ChatOrder
    BY DEF OrderInv
  <1> QED
    BY <1>1, OrderInvariance, PTL

-----------------------------------------------------------------------------
LEMMA OlderShown ==
    ASSUME TypeOK, ChatOrder, Increasing(page.messages)
    PROVE  /\ ToSet(Older(page.messages) \o shown) = ToSet(Older(page.messages)) \cup ToSet(shown)
           /\ \A e : e \in ToSet(Older(page.messages)) <=>
                       e \in ToSet(page.messages) /\ \A d \in ToSet(shown) : e < d
  <1>1. /\ Older(page.messages) \in Seq(Events) /\ Increasing(Older(page.messages))
        /\ \A e : e \in ToSet(Older(page.messages)) <=>
                    e \in ToSet(page.messages) /\ \A d \in ToSet(shown) : e < d
    BY Elements, OlderContents
  <1>2. Older(page.messages) \in Seq(Nat)
    BY <1>1 DEF Events
  <1> QED
    BY <1>1, <1>2, Elements, IncreasingConcat DEF ChatOrder

(* What is accounted for stays so, and what is new is queued.              *)
LEMMA AccountedStays ==
    ASSUME TypeInv, ChatOrder, Increasing(page.messages), [Next]_vars, NEW e, Accounted(e)
    PROVE  Accounted(e)'
  <1>1. TypeOK /\ queue \in Seq(Nat)
    BY Elements DEF TypeInv
  <1>2. CASE FetchMessages \/ SaveTask \/ UNCHANGED vars
    BY <1>2 DEF FetchMessages, SaveTask, vars, walk, Accounted
  <1>3. ASSUME NEW k \in Kinds, Post(k) PROVE Accounted(e)'
    <2>1. ToSet(queue) \subseteq ToSet(queue')
      <3>1. ToSet(Append(queue, Len(room) + 1)) = ToSet(queue) \cup {Len(room) + 1}
        BY <1>1, ElementsOfAppend DEF TypeOK
      <3> QED
        BY <1>3, <3>1 DEF Post
    <2> QED
      BY <1>3, <2>1 DEF Post, Accounted
  <1>4. CASE ShowBatch
    <2>1. ToSet(Older(page.messages) \o shown) = ToSet(Older(page.messages)) \cup ToSet(shown)
      BY <1>1, OlderShown
    <2> QED
      BY <1>4, <2>1 DEF ShowBatch, Accounted
  <1>5. CASE Crash
    BY <1>5 DEF Crash, Accounted
  <1>6. CASE ShowLive
    <2>1. /\ ToSet(queue) = ToSet(Tail(queue)) \cup {Head(queue)}
          /\ ToSet(Append(shown, Head(queue))) = ToSet(shown) \cup {Head(queue)}
      <3>1. queue # <<>> /\ queue \in Seq(Events) /\ shown \in Seq(Events)
        BY <1>1, <1>6 DEF ShowLive, TypeOK
      <3> QED
        BY <3>1, ElementsOfTail, ElementsOfAppend
    <2> QED
      BY <1>6, <2>1 DEF ShowLive, Accounted
  <1> QED
    BY <1>2, <1>3, <1>4, <1>5, <1>6 DEF Next, Walk

(* Events stay as they are; only Post adds one, and queues it.             *)
LEMMA EventsStay ==
    ASSUME TypeInv, [Next]_vars
    PROVE  /\ Events \subseteq Events'
           /\ \A e \in Events : Convertible(e)' <=> Convertible(e)
           /\ \A e \in Events' \ Events :
                /\ e = Len(room) + 1 /\ UNCHANGED <<walk, shown>>
                /\ Convertible(e)' => Accounted(e)'
  <1>1. CASE UNCHANGED room
    BY <1>1 DEF Events, Convertible
  <1>2. ASSUME NEW k \in Kinds, Post(k)
        PROVE  /\ Events \subseteq Events'
               /\ \A e \in Events : Convertible(e)' <=> Convertible(e)
               /\ \A e \in Events' \ Events :
                    /\ e = Len(room) + 1 /\ UNCHANGED <<walk, shown>>
                    /\ Convertible(e)' => Accounted(e)'
    <2>1. PICK n : n = Len(room) + 1
      OBVIOUS
    <2>2. /\ Events' = Events \cup {n} /\ room'[n] = k
          /\ \A e \in Events : room'[e] = room[e]
      BY <1>2, <2>1, RoomGrows DEF TypeInv
    <2>3. k \in {"text", "media"} => n \in ToSet(queue')
      <3>1. ToSet(Append(queue, n)) = ToSet(queue) \cup {n}
        <4>1. queue \in Seq(Nat) /\ n \in Nat
          BY <2>1, Elements DEF TypeInv, TypeOK
        <4> QED
          BY <4>1, ElementsOfAppend
      <3> QED
        BY <1>2, <2>1, <3>1 DEF Post
    <2>4. Convertible(n)' => Accounted(n)'
      BY <2>2, <2>3 DEF Convertible, Accounted
    <2> QED
      BY <1>2, <2>1, <2>2, <2>4 DEF Post, Convertible
  <1>3. CASE Walk \/ ShowLive \/ Crash \/ UNCHANGED vars
    BY <1>1, <1>3 DEF Walk, FetchMessages, ShowBatch, SaveTask, ShowLive, Crash, vars
  <1> QED
    BY <1>2, <1>3 DEF Next

(* Where the walk is, without the tokens of Reddit.                        *)
LEMMA PassedIs ==
    ASSUME TypeOK, NEW e
    PROVE  Passed(e) <=> done \/ (cursor \in Nat /\ cursor < e)
  <1>1. cursor \in Nat \/ cursor = NoToken \/ (cursor = EndOfTimeline /\ done)
    BY DEF TypeOK, Tokens
  <1>2. cursor \in Nat => (LeftBelow(cursor) < e <=> cursor < e) /\ cursor # NoToken
    BY TokensAssumption DEF LeftBelow
  <1> QED
    BY <1>1, <1>2, TokensAssumption DEF Passed

LEMMA PassedNext ==
    ASSUME TypeOK', NEW e
    PROVE  Passed(e)' <=> done' \/ (cursor' \in Nat /\ cursor' < e)
  <1>1. cursor' \in Nat \/ cursor' = NoToken \/ (cursor' = EndOfTimeline /\ done')
    BY DEF TypeOK, Tokens
  <1>2. cursor' \in Nat => (LeftBelow(cursor)' < e <=> cursor' < e) /\ cursor' # NoToken
    BY TokensAssumption DEF LeftBelow
  <1> QED
    BY <1>1, <1>2, TokensAssumption DEF Passed

(* A page in hand leaves nothing behind that was not left before.          *)
LEMMA FetchLeavesNothing ==
    ASSUME OrderInv, LeftInv, FetchMessages
    PROVE  PageLeavesNothing'
  <1>1. TypeInv /\ TypeOK /\ Events' = Events
    BY DEF OrderInv, TypeInv, FetchMessages, Events
  <1>2. PICK left \in 0 .. Len(room) :
           \E n \in 0 .. left : \E broken \in SUBSET Events : Fetched(left, n, broken)
    BY <1>1, PageFetched
  <1>3. PICK n \in 0 .. left, broken \in SUBSET Events : Fetched(left, n, broken)
    BY <1>2
  <1>4. left \in Nat /\ n \in Nat /\ n <= left /\ left - n \in Nat
    BY <1>1 DEF TypeOK
  <1>5. PICK c : c = page'.cursor
    OBVIOUS
  <1>6. /\ (c \in {0, EndOfTimeline, NoToken} /\ left - n = 0) \/ c = left - n
        /\ page'.hasMore <=> c \notin {NoToken, EndOfTimeline} /\ n # 0
        /\ n = 0 => left = 0
    BY <1>3, <1>5 DEF Fetched, Ends
  <1>7. ASSUME NEW e \in Events
        PROVE  (page'.hasMore => c < e) <=> left - n < e
    BY <1>4, <1>6, TokensAssumption DEF Events
  <1>8. ASSUME NEW m \in ToSet(page'.messages), NEW e \in Events, m <= e PROVE left - n < e
    <2>1. m \in Events /\ left - n < m
      BY <1>3 DEF Fetched
    <2> QED
      BY <1>4, <1>8, <2>1 DEF Events
  <1>9. ASSUME NEW e \in Events, Convertible(e), left - n < e
        PROVE  Accounted(e)' \/ e \in ToSet(page'.messages)
    <2>1. CASE e <= left
      <3>1. e \in ToSet(page'.messages) \/ e \in missed'
        BY <1>3, <1>9, <2>1 DEF Fetched
      <3> QED
        BY <3>1 DEF Accounted
    <2>2. CASE ~(e <= left)
      <3>1. cursor # NoToken
        BY <1>3, <2>2, PlacesLeave DEF Fetched, Events
      <3>2. cursor \in Nat
        BY <1>1, <3>1 DEF FetchMessages, TypeOK, Tokens
      <3>3. left = cursor
        BY <1>3, <3>2, PlacesLeave DEF Fetched
      <3>4. cursor < e
        BY <1>4, <2>2, <3>3 DEF Events
      <3>5. Accounted(e)
        BY <1>1, <1>9, <3>2, <3>4, PassedIs DEF LeftInv, NothingLeftBehind, Accounted
      <3> QED
        BY <1>1, <3>5, AccountedStays DEF OrderInv, QueueIsNewest, Next, Walk
    <2> QED
      BY <2>1, <2>2
  <1>10. pc' = "show" /\ room' = room
    BY DEF FetchMessages
  <1> QED
    BY <1>1, <1>5, <1>7, <1>8, <1>9, <1>10 DEF PageLeavesNothing, PagePassed, Convertible

(* Of a page that is shown only what is there already is cut off.          *)
LEMMA BatchIsShown ==
    ASSUME OrderInv, LeftInv, ShowBatch, NEW e \in Events, Convertible(e), PagePassed(e)
    PROVE  Accounted(e)'
  <1>1. TypeInv /\ TypeOK /\ ChatOrder /\ Increasing(page.messages) /\ pc = "show"
    BY DEF OrderInv, TypeInv, QueueIsNewest, ShowBatch
  <1>2. CASE Accounted(e)
    BY <1>1, <1>2, AccountedStays DEF Next, Walk
  <1>3. CASE ~Accounted(e)
    <2>1. e \in ToSet(page.messages)
      BY <1>1, <1>3 DEF LeftInv, PageLeavesNothing
    <2>2. \A d \in ToSet(shown) : e < d
      <3>1. \A d \in ToSet(shown) : ~(d <= e)
        BY <1>3 DEF LeftInv, NoneMissingAbove
      <3> QED
        BY <1>1, <3>1, Elements DEF Events
    <2>3. e \in ToSet(shown')
      BY <1>1, <2>1, <2>2, OlderShown DEF ShowBatch
    <2> QED
      BY <2>3 DEF Accounted
  <1> QED
    BY <1>2, <1>3

LEMMA PageLeavesNothingStep ==
    ASSUME OrderInv, LeftInv, [Next]_vars
    PROVE  PageLeavesNothing'
  <1>1. TypeInv /\ TypeOK /\ ChatOrder /\ Increasing(page.messages)
    BY DEF OrderInv, TypeInv, QueueIsNewest
  <1>2. /\ Events \subseteq Events'
        /\ \A e \in Events : Convertible(e)' <=> Convertible(e)
        /\ \A e \in Events' \ Events : e = Len(room) + 1 /\ (Convertible(e)' => Accounted(e)')
    BY <1>1, EventsStay
  <1>3. CASE UNCHANGED <<pc, page>>
    <2>1. \A e : PagePassed(e)' <=> PagePassed(e)
      BY <1>3 DEF PagePassed
    <2>2. \A e \in Events' \ Events : PagePassed(e)
      <3>1. page.hasMore => page.cursor \in 0 .. Len(room)
        BY <1>1, TokensAssumption DEF TypeInv, WalkGoesOn, Places
      <3>2. page.hasMore => page.cursor < Len(room) + 1
        BY <1>1, <3>1 DEF TypeOK
      <3> QED
        BY <1>2, <3>2 DEF PagePassed
    <2>3. \A e : Accounted(e) => Accounted(e)'
      BY <1>1, AccountedStays
    <2>4. ASSUME NEW m \in ToSet(page'.messages), NEW e \in Events', m <= e, pc' = "show"
          PROVE  PagePassed(e)'
      BY <1>3, <2>1, <2>2, <2>4 DEF LeftInv, PageLeavesNothing
    <2>5. ASSUME NEW e \in Events', pc' # "fetch", Convertible(e)', PagePassed(e)'
          PROVE  Accounted(e)' \/ (pc' = "show" /\ e \in ToSet(page'.messages))
      <3>1. CASE e \in Events
        BY <1>2, <1>3, <2>1, <2>3, <2>5, <3>1 DEF LeftInv, PageLeavesNothing
      <3> QED
        BY <1>2, <2>5, <3>1
    <2> QED
      BY <2>4, <2>5 DEF PageLeavesNothing
  <1>4. CASE ShowBatch
    <2>1. pc' = "save" /\ page' = page /\ Events' = Events
      BY <1>4 DEF ShowBatch, Events
    <2>2. \A e \in Events : Convertible(e) /\ PagePassed(e) => Accounted(e)'
      BY <1>4, BatchIsShown
    <2> QED
      BY <1>2, <2>1, <2>2 DEF PageLeavesNothing, PagePassed
  <1>5. CASE SaveTask \/ Crash
    BY <1>5 DEF SaveTask, Crash, PageLeavesNothing
  <1>6. ASSUME NEW k \in Kinds, Post(k) PROVE UNCHANGED <<pc, page>>
    BY <1>6 DEF Post, walk
  <1>7. ASSUME ShowLive PROVE UNCHANGED <<pc, page>>
    BY <1>7 DEF ShowLive, walk
  <1>8. ASSUME UNCHANGED vars PROVE UNCHANGED <<pc, page>>
    BY <1>8 DEF vars, walk
  <1> QED
    BY <1>3, <1>4, <1>5, <1>6, <1>7, <1>8, FetchLeavesNothing DEF Next, Walk

(* What comes to be shown or queued was so before, is new, or is on a page.*)
LEMMA WhereShownComesFrom ==
    ASSUME TypeInv, ChatOrder, Increasing(page.messages), [Next]_vars,
           NEW a \in ToSet(shown') \cup ToSet(queue')
    PROVE  \/ a \in ToSet(shown) \cup ToSet(queue)
           \/ a = Len(room) + 1
           \/ ShowBatch /\ a \in ToSet(page.messages)
  <1>1. TypeOK /\ queue \in Seq(Nat)
    BY Elements DEF TypeInv
  <1>2. CASE FetchMessages \/ SaveTask \/ UNCHANGED vars
    BY <1>2 DEF FetchMessages, SaveTask, vars
  <1>3. ASSUME NEW k \in Kinds, Post(k)
        PROVE  a \in ToSet(shown) \cup ToSet(queue) \/ a = Len(room) + 1
    <2>1. ToSet(Append(queue, Len(room) + 1)) = ToSet(queue) \cup {Len(room) + 1}
      BY <1>1, ElementsOfAppend DEF TypeOK
    <2> QED
      BY <1>3, <2>1 DEF Post
  <1>4. CASE ShowBatch
    BY <1>1, <1>4, OlderShown DEF ShowBatch
  <1>5. CASE Crash
    BY <1>5, NothingAtHand DEF Crash
  <1>6. CASE ShowLive
    <2>1. /\ ToSet(queue) = ToSet(Tail(queue)) \cup {Head(queue)}
          /\ ToSet(Append(shown, Head(queue))) = ToSet(shown) \cup {Head(queue)}
      <3>1. queue # <<>> /\ queue \in Seq(Events) /\ shown \in Seq(Events)
        BY <1>1, <1>6 DEF ShowLive, TypeOK
      <3> QED
        BY <3>1, ElementsOfTail, ElementsOfAppend
    <2> QED
      BY <1>6, <2>1 DEF ShowLive
  <1> QED
    BY <1>2, <1>3, <1>4, <1>5, <1>6 DEF Next, Walk

LEMMA NoneMissingAboveStep ==
    ASSUME OrderInv, LeftInv, [Next]_vars
    PROVE  NoneMissingAbove'
  <1>1. TypeInv /\ TypeOK /\ ChatOrder /\ Increasing(page.messages)
    BY DEF OrderInv, TypeInv, QueueIsNewest
  <1>2. /\ \A e \in Events : Convertible(e)' <=> Convertible(e)
        /\ \A e \in Events' \ Events : Convertible(e)' => Accounted(e)'
    BY <1>1, EventsStay
  <1>3. ASSUME NEW a \in ToSet(shown') \cup ToSet(queue'), NEW e \in Events, Convertible(e), a <= e
        PROVE  Accounted(e)'
    <2>1. CASE a \in ToSet(shown) \cup ToSet(queue)
      <3>1. Accounted(e)
        BY <1>3, <2>1 DEF LeftInv, NoneMissingAbove
      <3> QED
        BY <1>1, <3>1, AccountedStays
    <2>2. CASE a = Len(room) + 1
      <3>1. ~(a <= e)
        BY <1>1, <2>2 DEF Events, TypeOK
      <3> QED
        BY <1>3, <3>1
    <2>3. CASE ShowBatch /\ a \in ToSet(page.messages)
      <3>1. PagePassed(e)
        BY <1>3, <2>3 DEF ShowBatch, LeftInv, PageLeavesNothing
      <3> QED
        BY <1>3, <2>3, <3>1, BatchIsShown
    <2> QED
      BY <1>1, <2>1, <2>2, <2>3, WhereShownComesFrom
  <1> QED
    BY <1>2, <1>3 DEF NoneMissingAbove

LEMMA NothingLeftBehindStep ==
    ASSUME OrderInv, LeftInv, [Next]_vars
    PROVE  NothingLeftBehind'
  <1>1. TypeInv /\ TypeOK /\ ChatOrder /\ Increasing(page.messages) /\ TypeOK'
    BY OrderInvStep DEF OrderInv, TypeInv, QueueIsNewest
  <1>2. /\ \A e \in Events : Convertible(e)' <=> Convertible(e)
        /\ \A e \in Events' \ Events : Convertible(e)' => Accounted(e)'
    BY <1>1, EventsStay
  <1>3. ASSUME NEW e \in Events, Convertible(e), Passed(e)' PROVE Accounted(e)
    <2>1. CASE UNCHANGED <<cursor, done>>
      <3>1. Passed(e)
        BY <1>1, <1>3, <2>1, PassedIs, PassedNext
      <3> QED
        BY <1>3, <3>1 DEF LeftInv, NothingLeftBehind, Accounted
    <2>2. CASE SaveTask
      <3>1. pc = "save" /\ cursor' = page.cursor /\ done' = ~page.hasMore
        BY <2>2 DEF SaveTask
      <3>2. PagePassed(e)
        BY <1>1, <1>3, <3>1, PassedNext DEF PagePassed
      <3> QED
        BY <1>3, <3>1, <3>2 DEF LeftInv, PageLeavesNothing
    <2>3. ASSUME NEW k \in Kinds, Post(k) PROVE UNCHANGED <<cursor, done>>
      BY <2>3 DEF Post, walk
    <2>4. ASSUME FetchMessages \/ ShowBatch \/ Crash \/ ShowLive
          PROVE  UNCHANGED <<cursor, done>>
      BY <2>4 DEF FetchMessages, ShowBatch, Crash, ShowLive, walk
    <2>5. ASSUME UNCHANGED vars PROVE UNCHANGED <<cursor, done>>
      BY <2>5 DEF vars, walk
    <2> QED
      BY <2>1, <2>2, <2>3, <2>4, <2>5 DEF Next, Walk
  <1>4. \A e : Accounted(e) => Accounted(e)'
    BY <1>1, AccountedStays
  <1>5. \A e \in Events' : Convertible(e)' /\ Passed(e)' => Accounted(e)'
    BY <1>2, <1>3, <1>4
  <1> QED
    BY <1>5 DEF NothingLeftBehind, Accounted

LEMMA LeftInvInit == Init => LeftInv
  <1> SUFFICES ASSUME Init PROVE LeftInv
    OBVIOUS
  <1>1. /\ shown = <<>> /\ queue = <<>> /\ page = NoPage /\ cursor = NoToken
        /\ pc = "fetch" /\ done = FALSE
    BY DEF Init
  <1> QED
    BY <1>1, NothingAtHand
    DEF LeftInv, PageLeavesNothing, NoneMissingAbove, NothingLeftBehind, Passed

LEMMA LeftInvStep == OrderInv /\ LeftInv /\ [Next]_vars => LeftInv'
  BY PageLeavesNothingStep, NoneMissingAboveStep, NothingLeftBehindStep DEF LeftInv

(* Above the place the walk has stored, and everywhere once it has ended,  *)
(* each message is shown or queued, or was one of those that could not be  *)
(* bridged, whatever pages hold nothing to bridge, are short, are asked    *)
(* for twice or overlap what is shown (backfill.go:64-66).                 *)
THEOREM WalkLeavesNothing == Spec => []NothingLeftBehind
  <1>1. Spec => [](OrderInv /\ LeftInv)
    BY OrderInvInit, OrderInvStep, LeftInvInit, LeftInvStep, PTL DEF Spec
  <1>2. OrderInv /\ LeftInv => NothingLeftBehind
    BY DEF LeftInv
  <1> QED
    BY <1>1, <1>2, PTL
=============================================================================
