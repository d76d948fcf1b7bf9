-------------------------- MODULE SyncStreamProofs --------------------------
(***************************************************************************)
(* Proofs about SyncStream, for any rooms, limits, crashes and logins.     *)
(*                                                                         *)
(* The inductive invariant knows three things the properties do not say:   *)
(* what is on its way to a portal belongs to that portal's room; what the  *)
(* token in memory, and the one of a response being handled, leave behind  *)
(* is accounted for as well as what the persisted one does; and a message  *)
(* of the user is stored, orphaned or the newest that its portal waits on. *)
(***************************************************************************)
EXTENDS SyncStream, SubsequenceTheorems

Belongs ==
    /\ \A r \in Rooms : /\ todo[r] \in Seq(RoomEvents(r))
                        /\ queue[r] \in Seq(RoomEvents(r))
                        /\ shown[r] \in Seq(RoomEvents(r))
    /\ pollTodo \in Seq(RoomEvents(pollRoom))
    /\ pollTodo # <<>> => pollRoom \in Rooms

AwaitsItsAnswer(r) ==
    sending[r] = "sent" => OwnInFlight(r) \in RoomEvents(r) /\ stream[OwnInFlight(r)].own

TypeInv == TypeOK /\ Belongs /\ \A r \in Rooms : AwaitsItsAnswer(r)

(* Where a message is that a token for the first n events leaves behind.   *)
LeftBehind(e, n) == e \in 1 .. n /\ Message(e) /\ JoinedBy(stream[e].room, n)
Kept(e) == e \in stored \cup failed \cup ToSet(queue[stream[e].room]) \cup lost \cup omitted

TokensAccounted ==
    /\ \A e \in IDs : LeftBehind(e, saved) => Kept(e)
    /\ \A e \in IDs : LeftBehind(e, nextBatch) => Kept(e)
    /\ upto # 0 => \A e \in IDs : LeftBehind(e, upto) => Kept(e) \/ e \in ToSet(todo[stream[e].room])

OwnAccounted ==
    \A r \in Rooms : \A e \in RoomEvents(r) :
        stream[e].own => \/ e \in stored \cup orphaned
                         \/ sending[r] = "sent" /\ e = OwnInFlight(r)

IInv == TypeInv /\ TokensAccounted /\ OwnAccounted /\ NoEcho

-----------------------------------------------------------------------------
(* What appending one event does to the sets the model is built from.      *)
LEMMA StreamGrows ==
    ASSUME stream \in Seq(Events), NEW ev \in Events, stream' = Append(stream, ev)
    PROVE  /\ stream' \in Seq(Events)
           /\ Len(stream) \in Nat /\ Len(stream') = Len(stream) + 1
           /\ Len(stream) + 1 \notin IDs /\ IDs' = IDs \cup {Len(stream) + 1}
           /\ \A e \in IDs : stream'[e] = stream[e]
           /\ stream'[Len(stream) + 1] = ev
           /\ \A r : RoomEvents(r) \subseteq IDs /\ RoomEvents(r) \subseteq RoomEvents(r)'
           /\ \A r : r # ev.room => RoomEvents(r)' = RoomEvents(r)
           /\ RoomEvents(ev.room)' = RoomEvents(ev.room) \cup {Len(stream) + 1}
  <1> DEFINE n == Len(stream)
  <1>1. /\ stream' \in Seq(Events) /\ n \in Nat /\ Len(stream') = n + 1
        /\ \A e \in 1 .. n : stream'[e] = stream[e]
        /\ stream'[n + 1] = ev
    BY AppendProperties
  <1>2. n + 1 \notin 1 .. n /\ 1 .. (n + 1) = (1 .. n) \cup {n + 1}
    BY <1>1
  <1>3. IDs = 1 .. n /\ IDs' = (1 .. n) \cup {n + 1}
    BY <1>1, <1>2 DEF IDs
  <1> HIDE DEF n
  <1>4. \A r : /\ RoomEvents(r) = {e \in 1 .. n : stream[e].room = r}
              /\ RoomEvents(r)' = {e \in (1 .. n) \cup {n + 1} : stream'[e].room = r}
    BY <1>3 DEF RoomEvents
  <1> QED
    BY <1>1, <1>2, <1>3, <1>4 DEF n

(* What each newest batch is, and how a response or a poll lists it.       *)
LEMMA Listed ==
    ASSUME TypeOK, NEW S, S \subseteq IDs
    PROVE  /\ S \in SUBSET Nat /\ IsFiniteSet(S)
           /\ OldestFirst[S] = InOrder(S)
           /\ OldestFirst[S] \in Seq(S)
           /\ ToSet(OldestFirst[S]) = S
           /\ Len(OldestFirst[S]) = Cardinality(S)
  <1>1. Len(stream) \in Nat /\ Len(stream) <= MaxEvents /\ MaxEvents \in Nat
    BY BoundsAssumption DEF TypeOK
  <1>2. IDs \subseteq 1 .. MaxEvents /\ IDs \subseteq Nat
    BY <1>1 DEF IDs
  <1>3. S \in SUBSET Nat /\ IsFiniteSet(S) /\ S \in SUBSET (1 .. MaxEvents)
    <2>1. IsFiniteSet(1 .. Len(stream))
      BY <1>1, FS_Interval
    <2>2. IsFiniteSet(S)
      BY <2>1, FS_Subset DEF IDs
    <2> QED
      BY <1>2, <2>2
  <1>4. OldestFirst[S] = InOrder(S)
    BY <1>3 DEF OldestFirst
  <1> DEFINE s == InOrder(S)
  <1>5. /\ s \in Seq(S) /\ Len(s) = Cardinality(S)
        /\ \A e \in S : Rank(S, e) \in 1 .. Len(s) /\ s[Rank(S, e)] = e
    BY <1>3, InOrderProperties
  <1> HIDE DEF s
  <1>6. ToSet(s) \in SUBSET S /\ \A x : x \in ToSet(s) <=> \E i \in 1 .. Len(s) : s[i] = x
    BY <1>5, ElementsOfSeq
  <1> QED
    BY <1>3, <1>4, <1>5, <1>6 DEF s

LEMMA TimelineListed ==
    ASSUME TypeOK, NEW r, NEW n
    PROVE  /\ Timeline(r, n) \subseteq News(r, n) /\ News(r, n) \subseteq RoomEvents(r)
           /\ RoomEvents(r) \subseteq IDs
           /\ OldestFirst[Timeline(r, n)] \in Seq(RoomEvents(r))
           /\ ToSet(OldestFirst[Timeline(r, n)]) = Timeline(r, n)
  <1>1. Timeline(r, n) \subseteq News(r, n)
    BY DEF Timeline, Newest
  <1>2. News(r, n) \subseteq RoomEvents(r) /\ RoomEvents(r) \subseteq IDs
    BY DEF News, After, RoomEvents
  <1>3. /\ OldestFirst[Timeline(r, n)] \in Seq(Timeline(r, n))
        /\ ToSet(OldestFirst[Timeline(r, n)]) = Timeline(r, n)
    BY <1>1, <1>2, Listed
  <1> QED
    BY <1>1, <1>2, <1>3, SeqMonotonic

LEMMA ChunkListed ==
    ASSUME TypeOK, NEW r
    PROVE  /\ Chunk(r) = OldestFirst[Newest(RoomEvents(r), BackfillBatchSize)]
           /\ Chunk(r) \in Seq(RoomEvents(r)) /\ Len(Chunk(r)) <= BackfillBatchSize
  <1> DEFINE S == Newest(RoomEvents(r), BackfillBatchSize)
  <1>1. RoomEvents(r) \subseteq IDs
    BY DEF RoomEvents
  <1>2. RoomEvents(r) \in SUBSET Nat /\ IsFiniteSet(RoomEvents(r))
    BY <1>1, Listed
  <1>3. S \in SUBSET RoomEvents(r) /\ Cardinality(S) <= BackfillBatchSize
    BY <1>2, BoundsAssumption, NewestProperties
  <1>4. OldestFirst[S] \in Seq(S) /\ Len(OldestFirst[S]) = Cardinality(S)
    BY <1>1, <1>3, Listed
  <1>5. OldestFirst[S] \in Seq(RoomEvents(r))
    BY <1>3, <1>4, SeqMonotonic
  <1>6. Chunk(r) = OldestFirst[S]
    BY <1>5, ElementsOfReverse DEF Chunk, Oriented
  <1> QED
    BY <1>3, <1>4, <1>5, <1>6

-----------------------------------------------------------------------------
(* The message the portal waits on: it is the newest of the user's there.  *)
LEMMA OwnSame ==
    ASSUME stream \in Seq(Events), NEW ev \in Events, stream' = Append(stream, ev),
           NEW r, ~(ev.own /\ ev.room = r)
    PROVE  OwnInFlight(r)' = OwnInFlight(r)
  <1>1. {e \in RoomEvents(r) : stream[e].own}' = {e \in RoomEvents(r) : stream[e].own}
    <2>1. \A e \in RoomEvents(r) : stream'[e] = stream[e]
      BY StreamGrows
    <2>2. CASE r = ev.room
      <3>1. /\ RoomEvents(r)' = RoomEvents(r) \cup {Len(stream) + 1}
            /\ stream'[Len(stream) + 1] = ev
        BY <2>2, StreamGrows
      <3> QED
        BY <2>1, <2>2, <3>1
    <2>3. CASE r # ev.room
      BY <2>1, <2>3, StreamGrows
    <2> QED
      BY <2>2, <2>3
  <1> QED
    BY <1>1 DEF OwnInFlight

LEMMA OwnNew ==
    ASSUME stream \in Seq(Events), NEW ev \in Events, stream' = Append(stream, ev),
           ev.own
    PROVE  OwnInFlight(ev.room)' = Len(stream) + 1
  <1> DEFINE n == Len(stream)
             S == {e \in RoomEvents(ev.room) : stream[e].own}
  <1>1. n \in Nat /\ IDs = 1 .. n
    BY StreamGrows DEF IDs
  <1>2. S \subseteq 1 .. n
    BY <1>1 DEF RoomEvents
  <1>3. S' = S \cup {n + 1}
    <2>1. /\ RoomEvents(ev.room)' = RoomEvents(ev.room) \cup {n + 1}
          /\ stream'[n + 1] = ev
          /\ \A e \in RoomEvents(ev.room) : stream'[e] = stream[e]
      BY StreamGrows
    <2> HIDE DEF n
    <2> QED
      BY <2>1
  <1> HIDE DEF n, S
  <1>4. n + 1 \in S' /\ \A y \in S' : n + 1 >= y
    BY <1>1, <1>2, <1>3
  <1>5. \A x \in S' : (\A y \in S' : x >= y) => x = n + 1
    BY <1>1, <1>2, <1>3, <1>4
  <1>6. (CHOOSE x \in S' : \A y \in S' : x >= y) = n + 1
    BY <1>4, <1>5
  <1> QED
    BY <1>6 DEF OwnInFlight, Max, S, n

(* Whatever is appended to the stream, what the bridge holds keeps its     *)
(* type, and its room.                                                     *)
LEMMA GrowthKeepsTypes ==
    ASSUME TypeInv, NEW ev \in Events, Len(stream) < MaxEvents,
           stream' = Append(stream, ev),
           pending' \in [Rooms -> BOOLEAN], sending' \in [Rooms -> {"no", "joined", "sent"}],
           UNCHANGED <<tokens, syncing, polled, stored, shown, echoed, queue, history, starts>>
    PROVE  TypeOK' /\ Belongs'
  <1> USE DEF TypeInv, TypeOK, Belongs, tokens, syncing, polled, history, starts
  <1>1. /\ stream' \in Seq(Events)
        /\ Len(stream) \in Nat /\ Len(stream') = Len(stream) + 1
        /\ IDs \subseteq IDs'
        /\ \A r : RoomEvents(r) \subseteq RoomEvents(r)'
    BY StreamGrows
  <1>2. /\ Seq(IDs) \subseteq Seq(IDs')
        /\ \A r : Seq(RoomEvents(r)) \subseteq Seq(RoomEvents(r)')
    BY <1>1, SeqMonotonic
  <1>3. /\ Len(stream') <= MaxEvents
        /\ nextBatch' \in 0 .. Len(stream') /\ saved' \in 0 .. Len(stream')
        /\ upto' \in 0 .. Len(stream')
    BY <1>1, BoundsAssumption
  <1>4. /\ todo' \in [Rooms -> Seq(IDs')] /\ queue' \in [Rooms -> Seq(IDs')]
        /\ shown' \in [Rooms -> Seq(IDs')] /\ pollTodo' \in Seq(IDs')
    BY <1>2
  <1>5. /\ stored' \subseteq IDs' /\ lost' \subseteq IDs' /\ omitted' \subseteq IDs'
        /\ orphaned' \subseteq IDs' /\ echoed' \subseteq IDs' /\ failed' \subseteq IDs'
    BY <1>1
  <1>6. TypeOK'
    BY <1>1, <1>3, <1>4, <1>5
  <1>7. Belongs'
    BY <1>2
  <1> QED
    BY <1>6, <1>7

LEMMA AnswersStayAwaited ==
    ASSUME stream \in Seq(Events), NEW r, AwaitsItsAnswer(r),
           \/ UNCHANGED stream
           \/ \E ev \in Events : ~(ev.own /\ ev.room = r) /\ stream' = Append(stream, ev),
           sending'[r] = "sent" => sending[r] = "sent"
    PROVE  AwaitsItsAnswer(r)'
  <1>1. CASE UNCHANGED stream
    BY <1>1 DEF AwaitsItsAnswer, OwnInFlight, RoomEvents, IDs
  <1>2. ASSUME NEW ev \in Events, ~(ev.own /\ ev.room = r), stream' = Append(stream, ev)
        PROVE  AwaitsItsAnswer(r)'
    <2>1. OwnInFlight(r)' = OwnInFlight(r)
      BY <1>2, OwnSame
    <2>2. /\ RoomEvents(r) \subseteq RoomEvents(r)'
          /\ \A e \in RoomEvents(r) : stream'[e] = stream[e]
      BY <1>2, StreamGrows
    <2> QED
      BY <2>1, <2>2 DEF AwaitsItsAnswer
  <1> QED
    BY <1>1, <1>2

-----------------------------------------------------------------------------
(* Type correctness, one step per action.                                  *)
LEMMA InitialStream ==
    ASSUME Init
    PROVE  /\ stream \in Seq(Events) /\ Len(stream) <= MaxEvents
           /\ \A e \in IDs : stream[e].kind = "join" /\ ~stream[e].own
  <1> USE RoomsAssumption, BoundsAssumption
  <1> DEFINE n == Cardinality(JoinedRooms)
             s == SetToSeq(JoinedRooms)
  <1>1. n \in Nat /\ n <= MaxEvents
    BY FS_CardinalityType
  <1>2. PICK f \in Bijection(1 .. n, JoinedRooms) : TRUE
    BY FS_CardinalityType DEF ExistsBijection
  <1>3. f \in [1 .. n -> JoinedRooms] /\ IsInjective(f)
    BY <1>2 DEF Bijection, Injection, IsInjective
  <1>4. s \in [1 .. n -> JoinedRooms]
    BY <1>3 DEF SetToSeq
  <1> HIDE DEF n, s
  <1>5. Len(s) = n
    BY <1>1, <1>4
  <1>6. InitialJoins = [i \in 1 .. n |-> Event(s[i], "join", FALSE)]
    BY <1>5 DEF InitialJoins, s
  <1>7. \A i \in 1 .. n : /\ Event(s[i], "join", FALSE) \in Events
                          /\ Event(s[i], "join", FALSE).kind = "join"
                          /\ ~Event(s[i], "join", FALSE).own
    BY <1>4 DEF Event, Events
  <1> HIDE DEF Event, Events
  <1>8. InitialJoins \in [1 .. n -> Events]
    BY <1>6, <1>7
  <1>9. InitialJoins \in Seq(Events) /\ Len(InitialJoins) = n
    BY <1>1, <1>8
  <1> QED
    BY <1>1, <1>6, <1>7, <1>9 DEF Init, IDs

LEMMA TypeInvInit == Init => TypeInv
  <1> SUFFICES ASSUME Init PROVE TypeInv
    OBVIOUS
  <1> USE RoomsAssumption, BoundsAssumption
  <1>1. stream \in Seq(Events) /\ Len(stream) <= MaxEvents
    BY InitialStream
  <1>2. TypeOK
    BY <1>1 DEF Init, TypeOK
  <1>3. Belongs /\ \A r \in Rooms : AwaitsItsAnswer(r)
    BY DEF Init, Belongs, AwaitsItsAnswer
  <1> QED
    BY <1>2, <1>3 DEF TypeInv

LEMMA SameStream ==
    ASSUME UNCHANGED stream
    PROVE  IDs' = IDs /\ \A r : RoomEvents(r)' = RoomEvents(r) /\ OwnInFlight(r)' = OwnInFlight(r)
  BY DEF IDs, RoomEvents, OwnInFlight

LEMMA NewEvent ==
    ASSUME NEW r \in Rooms, NEW k \in Kinds \cup OwnKinds \cup {"join"}, NEW mine \in BOOLEAN
    PROVE  /\ Event(r, k, mine) \in Events
           /\ Event(r, k, mine).room = r /\ Event(r, k, mine).kind = k
           /\ Event(r, k, mine).own = mine
  BY KindsAssumption DEF Event, Events

LEMMA EventTyped ==
    ASSUME TypeOK, NEW e \in IDs
    PROVE  /\ stream[e] \in Events /\ stream[e].room \in Rooms
           /\ e \in RoomEvents(stream[e].room)
  <1>1. stream[e] \in Events
    BY DEF TypeOK, IDs
  <1> QED
    BY <1>1 DEF Events, RoomEvents

LEMMA TypeInvStep == ASSUME TypeInv, [Next]_vars PROVE TypeInv'
  <1> USE RoomsAssumption, BoundsAssumption
  <1> USE DEF TypeInv, TypeOK, Belongs, reddit, tokens, syncing, polled, portals, history, starts
  <1>1. ASSUME NEW r \in Rooms, NEW k \in Kinds, Post(r, k) PROVE TypeInv'
    <2>1. Event(r, k, FALSE) \in Events /\ ~Event(r, k, FALSE).own
      BY NewEvent
    <2>2. TypeOK' /\ Belongs'
      BY <1>1, <2>1, GrowthKeepsTypes DEF Post
    <2>3. \A q \in Rooms : AwaitsItsAnswer(q)'
      BY <1>1, <2>1, AnswersStayAwaited DEF Post
    <2> QED
      BY <2>2, <2>3
  <1>2. ASSUME NEW r \in Rooms, AcceptRequest(r) PROVE TypeInv'
    <2>1. Event(r, "join", FALSE) \in Events /\ ~Event(r, "join", FALSE).own
      BY NewEvent
    <2>2. sending' \in [Rooms -> {"no", "joined", "sent"}] /\ pending' \in [Rooms -> BOOLEAN]
      BY <1>2 DEF AcceptRequest
    <2>3. TypeOK' /\ Belongs'
      <3>1. CASE Joined(r)
        BY <1>2, <2>2, <3>1, SameStream DEF AcceptRequest
      <3>2. CASE ~Joined(r)
        BY <1>2, <2>1, <2>2, <3>2, GrowthKeepsTypes DEF AcceptRequest
      <3> QED
        BY <3>1, <3>2
    <2>4. \A q \in Rooms : sending'[q] = "sent" => sending[q] = "sent"
      BY <1>2 DEF AcceptRequest
    <2>5. \/ UNCHANGED stream
          \/ stream' = Append(stream, Event(r, "join", FALSE))
      BY <1>2 DEF AcceptRequest
    <2>6. \A q \in Rooms : AwaitsItsAnswer(q)'
      BY <2>1, <2>4, <2>5, AnswersStayAwaited
    <2> QED
      BY <2>3, <2>6
  <1>3. ASSUME NEW r \in Rooms, NEW k \in OwnKinds, SendMessage(r, k) PROVE TypeInv'
    <2> DEFINE ev == Event(r, k, TRUE)
    <2>1. ev \in Events /\ ev.own /\ ev.room = r
      BY NewEvent
    <2>2. stream' = Append(stream, ev)
      BY <1>3 DEF SendMessage
    <2>3. sending' \in [Rooms -> {"no", "joined", "sent"}] /\ pending' \in [Rooms -> BOOLEAN]
      BY <1>3 DEF SendMessage
    <2> HIDE DEF ev
    <2>4. TypeOK' /\ Belongs'
      BY <1>3, <2>1, <2>2, <2>3, GrowthKeepsTypes DEF SendMessage
    <2>5. ASSUME NEW q \in Rooms PROVE AwaitsItsAnswer(q)'
      <3>1. CASE q = r
        <4>1. OwnInFlight(r)' = Len(stream) + 1
          BY <2>1, <2>2, OwnNew
        <4>2. Len(stream) + 1 \in RoomEvents(r)' /\ stream'[Len(stream) + 1] = ev
          BY <2>1, <2>2, StreamGrows
        <4> QED
          BY <2>1, <3>1, <4>1, <4>2 DEF AwaitsItsAnswer
      <3>2. CASE q # r
        <4>1. sending'[q] = sending[q]
          BY <1>3, <3>2 DEF SendMessage
        <4>2. ~(ev.own /\ ev.room = q)
          BY <2>1, <3>2
        <4> QED
          BY <2>1, <2>2, <4>1, <4>2, AnswersStayAwaited
      <3> QED
        BY <3>1, <3>2
    <2> QED
      BY <2>4, <2>5
  <1>4. ASSUME UNCHANGED stream, \A r \in Rooms : sending'[r] = "sent" => sending[r] = "sent"
        PROVE  \A r \in Rooms : AwaitsItsAnswer(r)'
    BY <1>4, AnswersStayAwaited
  <1>5. CASE SyncResponse
    <2>1. \A r \in Rooms : InTurn(OldestFirst[Timeline(r, nextBatch)]) \in Seq(RoomEvents(r))
      BY TimelineListed DEF InTurn
    <2>2. todo' \in [Rooms -> Seq(IDs)] /\ \A r \in Rooms : todo'[r] \in Seq(RoomEvents(r))
      <3>1. \A r \in Rooms : todo'[r] = InTurn(OldestFirst[Timeline(r, nextBatch)])
        BY <1>5 DEF SyncResponse
      <3>2. \A r \in Rooms : todo'[r] \in Seq(RoomEvents(r)) /\ todo'[r] \in Seq(IDs)
        BY <2>1, <3>1, TimelineListed, SeqMonotonic
      <3>3. todo' = [r \in Rooms |-> todo'[r]]
        BY <1>5 DEF SyncResponse
      <3> QED
        BY <3>2, <3>3
    <2>3. omitted' \subseteq IDs
      <3>1. \A r : News(r, nextBatch) \subseteq IDs
        BY TimelineListed
      <3> QED
        BY <1>5, <3>1 DEF SyncResponse
    <2>4. TypeOK'
      BY <1>5, <2>2, <2>3, SameStream DEF SyncResponse
    <2>5. Belongs'
      BY <1>5, <2>2, SameStream DEF SyncResponse
    <2> QED
      BY <1>4, <1>5, <2>4, <2>5 DEF SyncResponse
  <1>6. ASSUME NEW r \in Rooms, HandleTimelineEvent(r) PROVE TypeInv'
    <2>1. /\ Head(todo[r]) \in RoomEvents(r) /\ Tail(todo[r]) \in Seq(RoomEvents(r))
          /\ Tail(todo[r]) \in Seq(IDs) /\ Head(todo[r]) \in IDs
      BY <1>6, ElementsOfTail DEF HandleTimelineEvent
    <2>2. /\ queue'[r] \in Seq(RoomEvents(r)) /\ queue'[r] \in Seq(IDs)
          /\ Len(queue'[r]) <= MaxQueue
      <3>1. /\ Len(queue[r]) < MaxQueue /\ Len(queue[r]) \in Nat
            /\ queue[r] \in Seq(RoomEvents(r)) \cap Seq(IDs)
        BY <1>6, LenProperties DEF HandleTimelineEvent
      <3>2. /\ Append(queue[r], Head(todo[r])) \in Seq(RoomEvents(r)) \cap Seq(IDs)
            /\ Len(Append(queue[r], Head(todo[r]))) = Len(queue[r]) + 1
        BY <2>1, AppendProperties
      <3>3. queue'[r] \in {queue[r], Append(queue[r], Head(todo[r]))}
        BY <1>6 DEF HandleTimelineEvent
      <3> HIDE DEF TypeInv, TypeOK, Belongs
      <3>4. Len(queue[r]) <= MaxQueue /\ Len(queue[r]) + 1 <= MaxQueue
        BY <3>1, BoundsAssumption
      <3>5. CASE queue'[r] = queue[r]
        BY <3>1, <3>4, <3>5
      <3>6. CASE queue'[r] = Append(queue[r], Head(todo[r]))
        BY <3>2, <3>4, <3>6
      <3> QED
        BY <3>3, <3>5, <3>6
    <2>3. TypeOK' /\ Belongs'
      BY <1>6, <2>1, <2>2, SameStream DEF HandleTimelineEvent
    <2> QED
      BY <1>4, <1>6, <2>3 DEF HandleTimelineEvent
  <1>7. CASE FinishSync
    <2>1. TypeOK' /\ Belongs'
      BY <1>7, SameStream DEF FinishSync
    <2> QED
      BY <1>4, <1>7, <2>1 DEF FinishSync
  <1>8. CASE SaveMetadata
    <2>1. TypeOK' /\ Belongs'
      BY <1>8, SameStream DEF SaveMetadata
    <2> QED
      BY <1>4, <1>8, <2>1 DEF SaveMetadata
  <1>9. ASSUME NEW r \in Rooms, PollPick(r) PROVE TypeInv'
    <2>1. pollTodo' \in Seq(RoomEvents(r))
      BY <1>9 DEF PollPick
    <2>2. TypeOK' /\ Belongs'
      BY <1>9, <2>1, SameStream DEF PollPick
    <2> QED
      BY <1>4, <1>9, <2>2 DEF PollPick
  <1>10. CASE PollFetch
    <2>1. /\ Chunk(pollRoom) \in Seq(RoomEvents(pollRoom))
          /\ Len(Chunk(pollRoom)) <= BackfillBatchSize
      BY ChunkListed
    <2>2. Chunk(pollRoom) \in Seq(IDs)
      <3>1. RoomEvents(pollRoom) \subseteq IDs
        BY DEF RoomEvents
      <3> QED
        BY <2>1, <3>1, SeqMonotonic
    <2>3. TypeOK' /\ Belongs'
      <3>1. CASE Chunk(pollRoom) = <<>>
        BY <1>10, <2>1, <2>2, <3>1, SameStream DEF PollFetch
      <3>2. CASE Chunk(pollRoom) # <<>>
        BY <1>10, <2>1, <2>2, <3>2, SameStream DEF PollFetch
      <3> QED
        BY <3>1, <3>2
    <2> QED
      BY <1>4, <1>10, <2>3 DEF PollFetch
  <1>11. CASE PollError
    <2>1. TypeOK' /\ Belongs'
      BY <1>11, SameStream DEF PollError
    <2> QED
      BY <1>4, <1>11, <2>1 DEF PollError
  <1>12. CASE PollEvent
    <2> DEFINE r == pollRoom
    <2>1. /\ r \in Rooms
          /\ Head(pollTodo) \in RoomEvents(r) /\ Tail(pollTodo) \in Seq(RoomEvents(r))
          /\ Head(pollTodo) \in IDs /\ Tail(pollTodo) \in Seq(IDs)
          /\ Len(Tail(pollTodo)) <= BackfillBatchSize
          /\ Len(pollTodo) = 1 => Tail(pollTodo) = <<>>
      <3>1. pollTodo # <<>> /\ Len(pollTodo) \in Nat
        BY <1>12 DEF PollEvent
      <3>2. Tail(pollTodo) \in Seq(IDs) /\ Len(Tail(pollTodo)) = Len(pollTodo) - 1
        BY <3>1, HeadTailProperties
      <3>3. Len(pollTodo) = 1 => Tail(pollTodo) = <<>>
        BY <3>1, TailOfOne
      <3> QED
        BY <3>1, <3>2, <3>3, ElementsOfTail
    <2>2. /\ queue'[r] \in Seq(RoomEvents(r)) /\ queue'[r] \in Seq(IDs)
          /\ Len(queue'[r]) <= MaxQueue
      <3>1. /\ Len(queue[r]) < MaxQueue /\ Len(queue[r]) \in Nat
            /\ queue[r] \in Seq(RoomEvents(r)) \cap Seq(IDs)
        BY <1>12, <2>1, LenProperties DEF PollEvent
      <3>2. /\ Append(queue[r], Head(pollTodo)) \in Seq(RoomEvents(r)) \cap Seq(IDs)
            /\ Len(Append(queue[r], Head(pollTodo))) = Len(queue[r]) + 1
        BY <2>1, AppendProperties
      <3>3. queue'[r] \in {queue[r], Append(queue[r], Head(pollTodo))}
        BY <1>12, <2>1 DEF PollEvent
      <3> HIDE DEF TypeInv, TypeOK, Belongs
      <3>4. Len(queue[r]) <= MaxQueue /\ Len(queue[r]) + 1 <= MaxQueue
        BY <3>1, BoundsAssumption
      <3>5. CASE queue'[r] = queue[r]
        BY <3>1, <3>4, <3>5
      <3>6. CASE queue'[r] = Append(queue[r], Head(pollTodo))
        BY <3>2, <3>4, <3>6
      <3> QED
        BY <3>3, <3>5, <3>6
    <2>3. TypeOK'
      BY <1>12, <2>1, <2>2, SameStream DEF PollEvent
    <2>4. Belongs'
      <3>1. CASE Tail(pollTodo) = <<>>
        <4>1. pollTodo' = <<>>
          BY <1>12, <3>1 DEF PollEvent
        <4>2. pollTodo' \in Seq(RoomEvents(pollRoom)')
          BY <4>1
        <4>3. \A q \in Rooms : queue'[q] \in Seq(RoomEvents(q))
          BY <1>12, <2>1, <2>2 DEF PollEvent
        <4> QED
          BY <1>12, <4>1, <4>2, <4>3, SameStream DEF PollEvent
      <3>2. CASE Tail(pollTodo) # <<>>
        BY <1>12, <2>1, <2>2, <3>2, SameStream DEF PollEvent
      <3> QED
        BY <3>1, <3>2
    <2> QED
      BY <1>4, <1>12, <2>3, <2>4 DEF PollEvent

  <1>13. ASSUME NEW r \in Rooms, PortalHandle(r) PROVE TypeInv'
    <2>1. /\ Head(queue[r]) \in RoomEvents(r) /\ Tail(queue[r]) \in Seq(RoomEvents(r))
          /\ Head(queue[r]) \in IDs /\ Tail(queue[r]) \in Seq(IDs)
          /\ Len(Tail(queue[r])) <= MaxQueue
      BY <1>13, ElementsOfTail, HeadTailProperties, LenProperties DEF PortalHandle
    <2>2. /\ shown'[r] \in Seq(RoomEvents(r)) /\ shown'[r] \in Seq(IDs)
          /\ shown' \in [Rooms -> Seq(IDs)]
          /\ \A q \in Rooms : q # r => shown'[q] = shown[q]
          /\ stored' \subseteq IDs /\ echoed' \subseteq IDs /\ failed' \subseteq IDs
          /\ pending' \in [Rooms -> BOOLEAN]
      <3>1. /\ pending' \in [Rooms -> BOOLEAN] /\ failed' \subseteq IDs
            /\ stored' \subseteq IDs /\ echoed' \subseteq IDs
        BY <1>13, <2>1 DEF PortalHandle
      <3>2. /\ Append(shown[r], Head(queue[r])) \in Seq(RoomEvents(r))
            /\ Append(shown[r], Head(queue[r])) \in Seq(IDs)
        BY <2>1, AppendProperties
      <3>3. \/ shown' = shown
            \/ shown' = [shown EXCEPT ![r] = Append(@, Head(queue[r]))]
        BY <1>13 DEF PortalHandle
      <3>4. CASE shown' = shown
        BY <3>1, <3>4
      <3>5. CASE shown' = [shown EXCEPT ![r] = Append(@, Head(queue[r]))]
        <4>1. shown'[r] = Append(shown[r], Head(queue[r]))
          BY <3>5
        <4>2. shown' \in [Rooms -> Seq(IDs)] /\ \A q \in Rooms : q # r => shown'[q] = shown[q]
          BY <3>2, <3>5
        <4> QED
          BY <3>1, <3>2, <4>1, <4>2
      <3> QED
        BY <3>3, <3>4, <3>5
    <2>3. TypeOK'
      BY <1>13, <2>1, <2>2, SameStream DEF PortalHandle
    <2>4. Belongs'
      BY <1>13, <2>1, <2>2, SameStream DEF PortalHandle
    <2> QED
      BY <1>4, <1>13, <2>3, <2>4 DEF PortalHandle
  <1>14. ASSUME NEW r \in Rooms, AcceptedOnly(r) PROVE TypeInv'
    <2>1. TypeOK' /\ Belongs'
      BY <1>14, SameStream DEF AcceptedOnly
    <2> QED
      BY <1>4, <1>14, <2>1 DEF AcceptedOnly
  <1>15. ASSUME NEW r \in Rooms, SendStored(r) PROVE TypeInv'
    <2>1. OwnInFlight(r) \in IDs
      BY <1>15 DEF SendStored, AwaitsItsAnswer, RoomEvents
    <2>2. TypeOK' /\ Belongs'
      BY <1>15, <2>1, SameStream DEF SendStored, StoredWithID
    <2> QED
      BY <1>4, <1>15, <2>2 DEF SendStored
  <1>16. ASSUME NEW r \in Rooms, SendUnanswered(r) PROVE TypeInv'
    <2>1. OwnInFlight(r) \in IDs
      BY <1>16 DEF SendUnanswered, AwaitsItsAnswer, RoomEvents
    <2>2. TypeOK' /\ Belongs'
      BY <1>16, <2>1, SameStream DEF SendUnanswered
    <2> QED
      BY <1>4, <1>16, <2>2 DEF SendUnanswered
  <1>17. CASE Crash
    <2>1. \A r \in Rooms : sending[r] = "sent" => OwnInFlight(r) \in IDs
      BY DEF AwaitsItsAnswer, RoomEvents
    <2>2. \A r \in Rooms : ToSet(queue[r]) \subseteq IDs
      BY ElementsOfSeq
    <2>3. lost' \subseteq IDs /\ orphaned' \subseteq IDs
      BY <1>17, <2>1, <2>2 DEF Crash
    <2>4. TypeOK'
      BY <1>17, <2>3, SameStream DEF Crash
    <2>5. Belongs'
      BY <1>17, SameStream DEF Crash
    <2> QED
      BY <1>4, <1>17, <2>4, <2>5 DEF Crash
  <1>18. CASE Relogin
    <2>1. TypeOK'
      BY <1>18, SameStream DEF Relogin
    <2>2. Belongs'
      BY <1>18, SameStream DEF Relogin
    <2> QED
      BY <1>4, <1>18, <2>1, <2>2 DEF Relogin
  <1>19. CASE UNCHANGED vars
    <2>1. TypeOK' /\ Belongs'
      BY <1>19, SameStream DEF vars
    <2> QED
      BY <1>4, <1>19, <2>1 DEF vars
  <1> QED
    BY <1>1, <1>2, <1>3, <1>5, <1>6, <1>7, <1>8, <1>9, <1>10, <1>11, <1>12, <1>13, <1>14, <1>15,
       <1>16, <1>17, <1>18, <1>19 DEF Next, Sync, Poll, User, Send, SendText, SendMedia

-----------------------------------------------------------------------------
(* The events of the stream never change, and so neither does what a token *)
(* leaves behind; a room is joined once.                                   *)
Grown(ev) ==
    /\ stream' = Append(stream, ev)
    /\ ev.kind = "join" => ~Joined(ev.room)
    /\ ev.kind = "join" \/ ev.own \/ ev.kind \in Kinds

LEMMA StreamOnlyGrows ==
    ASSUME TypeOK, [Next]_vars
    PROVE  UNCHANGED stream \/ \E ev \in Events : Grown(ev)
  <1>1. ASSUME NEW r \in Rooms, NEW k \in Kinds, Post(r, k)
        PROVE  Event(r, k, FALSE) \in Events /\ Grown(Event(r, k, FALSE))
    <2>1. /\ Event(r, k, FALSE) \in Events /\ Event(r, k, FALSE).kind = k
          /\ Event(r, k, FALSE).own = FALSE /\ k # "join"
      BY KindsAssumption DEF Event, Events
    <2> QED
      BY <1>1, <2>1 DEF Post, Grown
  <1>2. ASSUME NEW r \in Rooms, AcceptRequest(r)
        PROVE  UNCHANGED stream \/ \E ev \in Events : Grown(ev)
    <2>1. /\ Event(r, "join", FALSE) \in Events
          /\ Event(r, "join", FALSE).room = r /\ Event(r, "join", FALSE).kind = "join"
      BY DEF Event, Events
    <2> QED
      BY <1>2, <2>1 DEF AcceptRequest, Grown
  <1>3. ASSUME NEW r \in Rooms, NEW k \in OwnKinds, SendMessage(r, k)
        PROVE  Event(r, k, TRUE) \in Events /\ Grown(Event(r, k, TRUE))
    <2>1. /\ Event(r, k, TRUE) \in Events /\ Event(r, k, TRUE).kind = k
          /\ Event(r, k, TRUE).own = TRUE /\ k # "join"
      BY KindsAssumption DEF Event, Events
    <2> QED
      BY <1>3, <2>1 DEF SendMessage, Grown
  <1>4. CASE Sync \/ Poll \/ Crash \/ Relogin \/ UNCHANGED vars
    BY <1>4 DEF Sync, SyncResponse, FinishSync, SaveMetadata, HandleTimelineEvent, Poll, PollFetch,
                PollError, PollEvent, PollPick, Crash, Relogin, vars, reddit
  <1>5. ASSUME NEW r \in Rooms, PortalHandle(r) \/ Send(r) PROVE UNCHANGED stream
    BY <1>5 DEF PortalHandle, Send, AcceptedOnly, SendStored, SendUnanswered, reddit
  <1> QED
    BY <1>1, <1>2, <1>3, <1>4, <1>5 DEF Next, User, SendText, SendMedia

LEMMA EventsStay ==
    ASSUME TypeOK, [Next]_vars
    PROVE  /\ IDs \subseteq IDs' /\ Len(stream) <= Len(stream')
           /\ \A e \in IDs : stream'[e] = stream[e]
           /\ \A e \in IDs : Message(e)' <=> Message(e)
           /\ \A r : \A n \in 0 .. Len(stream) : JoinedBy(r, n)' <=> JoinedBy(r, n)
           /\ \A e : \A n \in 0 .. Len(stream) : LeftBehind(e, n)' <=> LeftBehind(e, n)
  <1>1. /\ IDs \subseteq IDs' /\ Len(stream) <= Len(stream')
        /\ \A e \in IDs : stream'[e] = stream[e]
    <2>1. Len(stream) \in Nat /\ stream \in Seq(Events)
      BY DEF TypeOK
    <2>2. CASE UNCHANGED stream
      BY <2>1, <2>2 DEF IDs
    <2>3. ASSUME NEW ev \in Events, Grown(ev)
          PROVE  /\ IDs \subseteq IDs' /\ Len(stream) <= Len(stream')
                 /\ \A e \in IDs : stream'[e] = stream[e]
      <3>1. /\ IDs \subseteq IDs' /\ Len(stream) \in Nat /\ Len(stream') = Len(stream) + 1
            /\ \A e \in IDs : stream'[e] = stream[e]
        BY <2>1, <2>3, StreamGrows DEF Grown
      <3> QED
        BY <3>1
    <2> QED
      BY <2>2, <2>3, StreamOnlyGrows
  <1>2. \A e \in IDs : Message(e)' <=> Message(e)
    BY <1>1 DEF Message
  <1>3. ASSUME NEW n \in 0 .. Len(stream), NEW r PROVE JoinedBy(r, n)' <=> JoinedBy(r, n)
    <2>1. 1 .. n \subseteq IDs
      BY DEF TypeOK, IDs
    <2> QED
      BY <1>1, <2>1 DEF JoinedBy, JoinIn
  <1>4. ASSUME NEW n \in 0 .. Len(stream), NEW e PROVE LeftBehind(e, n)' <=> LeftBehind(e, n)
    <2>1. 1 .. n \subseteq IDs
      BY DEF TypeOK, IDs
    <2>2. CASE e \in 1 .. n
      BY <1>1, <1>2, <1>3, <2>1, <2>2 DEF LeftBehind
    <2>3. CASE e \notin 1 .. n
      BY <2>3 DEF LeftBehind
    <2> QED
      BY <2>2, <2>3
  <1> QED
    BY <1>1, <1>2, <1>3, <1>4

LEMMA KeptStaysKept ==
    ASSUME TypeInv, [Next]_vars, NEW e \in IDs, Message(e), Kept(e)
    PROVE  Kept(e)'
  <1> USE DEF reddit, tokens, syncing, polled, portals, history, starts
  <1>1. stream'[e] = stream[e] /\ stream[e].room \in Rooms
    BY EventTyped, EventsStay DEF TypeInv
  <1>2. ASSUME UNCHANGED <<queue, lost, failed>>, stored \subseteq stored', omitted \subseteq omitted'
        PROVE  Kept(e)'
    BY <1>1, <1>2 DEF Kept
  <1>3. ASSUME NEW r \in Rooms, HandleTimelineEvent(r) PROVE Kept(e)'
    <2>1. Head(todo[r]) \in RoomEvents(r) /\ queue[r] \in Seq(RoomEvents(r))
      BY <1>3, ElementsOfTail DEF HandleTimelineEvent, TypeInv, Belongs
    <2>2. \A q \in Rooms : ToSet(queue[q]) \subseteq ToSet(queue'[q])
      BY <1>3, <2>1, ElementsOfAppend DEF HandleTimelineEvent, TypeInv, TypeOK
    <2> QED
      BY <1>1, <1>3, <2>2 DEF HandleTimelineEvent, Kept
  <1>4. CASE PollEvent
    <2>1. /\ pollRoom \in Rooms /\ Head(pollTodo) \in RoomEvents(pollRoom)
          /\ queue[pollRoom] \in Seq(RoomEvents(pollRoom))
      BY <1>4, ElementsOfTail DEF PollEvent, TypeInv, Belongs
    <2>2. \A q \in Rooms : ToSet(queue[q]) \subseteq ToSet(queue'[q])
      BY <1>4, <2>1, ElementsOfAppend DEF PollEvent, TypeInv, TypeOK
    <2> QED
      BY <1>1, <1>4, <2>2 DEF PollEvent, Kept
  <1>5. ASSUME NEW r \in Rooms, PortalHandle(r) PROVE Kept(e)'
    <2>1. ToSet(queue[r]) = ToSet(Tail(queue[r])) \cup {Head(queue[r])}
      BY <1>5, ElementsOfTail DEF PortalHandle, TypeInv, Belongs
    <2>2. \A q \in Rooms : queue'[q] = IF q = r THEN Tail(queue[r]) ELSE queue[q]
      BY <1>5 DEF PortalHandle, TypeInv, TypeOK
    <2>3. /\ stored \subseteq stored' /\ failed \subseteq failed'
          /\ Message(Head(queue[r])) => Head(queue[r]) \in stored' \cup failed'
      BY <1>5 DEF PortalHandle
    <2> QED
      BY <1>1, <1>5, <2>1, <2>2, <2>3 DEF PortalHandle, Kept
  <1>6. CASE Crash
    BY <1>1, <1>6 DEF Crash, Kept
  <1>7. ASSUME NEW r \in Rooms, NEW k, Post(r, k) \/ SendMessage(r, k) PROVE Kept(e)'
    BY <1>2, <1>7 DEF Post, SendMessage
  <1>8. ASSUME NEW r \in Rooms, AcceptRequest(r) \/ Send(r) PROVE Kept(e)'
    BY <1>2, <1>8 DEF AcceptRequest, Send, AcceptedOnly, SendStored, StoredWithID, SendUnanswered
  <1>9. CASE SyncResponse \/ FinishSync \/ SaveMetadata \/ PollFetch \/ PollError \/ Relogin
    BY <1>2, <1>9 DEF SyncResponse, FinishSync, SaveMetadata, PollFetch, PollError, Relogin
  <1>10. ASSUME NEW r \in Rooms, PollPick(r) PROVE Kept(e)'
    BY <1>2, <1>10 DEF PollPick
  <1>11. CASE UNCHANGED vars
    BY <1>2, <1>11 DEF vars
  <1> QED
    BY <1>3, <1>4, <1>5, <1>6, <1>7, <1>8, <1>9, <1>10, <1>11
       DEF Next, Sync, Poll, User, SendText, SendMedia

LEMMA TokensAccountedStep == ASSUME TypeInv, TokensAccounted, [Next]_vars PROVE TokensAccounted'
  <1> USE DEF reddit, tokens, syncing, polled, portals, history, starts
  <1> DEFINE InTodo(e) == e \in ToSet(todo[stream[e].room])
  <1>1. TypeOK /\ saved \in 0 .. Len(stream) /\ nextBatch \in 0 .. Len(stream)
        /\ upto \in 0 .. Len(stream) /\ Len(stream) \in Nat
    BY DEF TypeInv, TypeOK
  <1>2. ASSUME NEW n \in 0 .. Len(stream), NEW e, LeftBehind(e, n) \/ LeftBehind(e, n)'
        PROVE  LeftBehind(e, n) /\ e \in IDs /\ (Kept(e) => Kept(e)')
    <2>1. LeftBehind(e, n) /\ e \in IDs /\ Message(e)
      BY <1>1, <1>2, EventsStay DEF LeftBehind, IDs
    <2> QED
      BY <2>1, KeptStaysKept
  (* The tokens are taken over from one another; only upto is new.         *)
  <1>3. ASSUME NEW n \in {saved, nextBatch, 0}, NEW e, LeftBehind(e, n)' PROVE Kept(e)'
    <2>1. n \in 0 .. Len(stream)
      BY <1>1
    <2>2. LeftBehind(e, n) /\ e \in IDs /\ (Kept(e) => Kept(e)')
      BY <1>2, <1>3, <2>1
    <2>3. n # 0
      BY <2>2 DEF LeftBehind
    <2> QED
      BY <1>3, <2>2, <2>3 DEF TokensAccounted
  <1>4. CASE SyncResponse
    <2>1. /\ saved' = saved /\ nextBatch' = nextBatch /\ upto' = Len(stream)
          /\ stream' = stream /\ omitted \subseteq omitted'
      BY <1>4 DEF SyncResponse
    <2>2. ASSUME NEW n, n = Len(stream), NEW e, LeftBehind(e, n)'
          PROVE  Kept(e)' \/ e \in ToSet(todo'[stream'[e].room])
      <3> DEFINE r == stream[e].room
      <3>1. LeftBehind(e, n) /\ e \in IDs /\ (Kept(e) => Kept(e)')
        <4>1. n \in 0 .. Len(stream)
          BY <1>1, <2>2
        <4> QED
          BY <1>2, <2>2, <4>1
      <3>2. r \in Rooms /\ e \in RoomEvents(r) /\ Message(e)
        BY <1>1, <3>1, EventTyped DEF LeftBehind
      <3>3. Joined(r)
        BY <2>2, <3>1 DEF LeftBehind, JoinedBy, Joined, RoomEvents, IDs
      <3>4. todo'[r] = OldestFirst[Timeline(r, nextBatch)] /\ ToSet(todo'[r]) = Timeline(r, nextBatch)
        BY <1>1, <1>4, <3>2, TimelineListed DEF SyncResponse, InTurn
      <3> HIDE DEF r
      <3>5. CASE e \in Timeline(r, nextBatch)
        BY <2>1, <3>4, <3>5 DEF r
      <3>6. CASE e \in News(r, nextBatch) \ Timeline(r, nextBatch)
        <4>1. e \in omitted'
          BY <1>4, <3>2, <3>6 DEF SyncResponse
        <4> QED
          BY <4>1 DEF Kept
      <3>7. CASE e \notin News(r, nextBatch)
        <4>1. e <= nextBatch /\ ~JoinIn(After(RoomEvents(r), nextBatch))
          BY <1>1, <3>1, <3>2, <3>3, <3>7 DEF News, After, IDs
        <4>2. JoinedBy(r, nextBatch)
          BY <1>1, <3>3, <4>1 DEF JoinedBy, Joined, JoinIn, After, RoomEvents, IDs
        <4>3. LeftBehind(e, nextBatch)
          BY <1>1, <3>1, <3>2, <4>1, <4>2 DEF LeftBehind, IDs, r
        <4> QED
          BY <3>1, <4>3 DEF TokensAccounted
      <3> QED
        BY <3>5, <3>6, <3>7
    <2>3. \A e \in IDs' : LeftBehind(e, upto)' => Kept(e)' \/ InTodo(e)'
      BY <2>1, <2>2
    <2> QED
      BY <1>3, <2>1, <2>3 DEF TokensAccounted
  (* While a response is handled, an event leaves todo only for its queue. *)
  <1>5. ASSUME \/ UNCHANGED <<upto, todo>>
               \/ \E r \in Rooms : HandleTimelineEvent(r),
               upto # 0
        PROVE  upto' = upto /\ \A e \in IDs' : LeftBehind(e, upto)' => Kept(e)' \/ InTodo(e)'
    <2>1. upto' = upto
      BY <1>5 DEF HandleTimelineEvent
    <2>2. ASSUME NEW n, n = upto, NEW e, LeftBehind(e, n)' PROVE Kept(e)' \/ InTodo(e)'
      <3> DEFINE r == stream[e].room
      <3>1. LeftBehind(e, n) /\ e \in IDs /\ (Kept(e) => Kept(e)')
        BY <1>1, <1>2, <2>2
      <3>2. Message(e) /\ stream'[e] = stream[e] /\ (Kept(e) \/ InTodo(e))
        BY <1>1, <1>5, <2>2, <3>1, EventsStay DEF TokensAccounted, LeftBehind
      <3>3. r \in Rooms
        BY <1>1, <3>1, EventTyped
      <3>4. CASE UNCHANGED <<upto, todo>>
        BY <3>1, <3>2, <3>4
      <3>5. ASSUME NEW q \in Rooms, HandleTimelineEvent(q), InTodo(e) PROVE Kept(e)' \/ InTodo(e)'
        <4>1. todo[q] \in Seq(RoomEvents(q)) /\ queue[q] \in Seq(RoomEvents(q)) /\ todo[q] # <<>>
          BY <3>5 DEF TypeInv, Belongs, HandleTimelineEvent
        <4>2. /\ Head(todo[q]) \in RoomEvents(q)
              /\ ToSet(todo[q]) = ToSet(Tail(todo[q])) \cup {Head(todo[q])}
          BY <4>1, ElementsOfTail
        <4>3. Message(Head(todo[q])) => Head(todo[q]) \in ToSet(queue'[q])
          <5>1. ToSet(Append(queue[q], Head(todo[q]))) = ToSet(queue[q]) \cup {Head(todo[q])}
            BY <4>1, <4>2, ElementsOfAppend
          <5> QED
            BY <3>5, <5>1 DEF HandleTimelineEvent, TypeInv, TypeOK, Message, Queued
        <4>4. todo'[q] = Tail(todo[q]) /\ \A p \in Rooms : p # q => todo'[p] = todo[p]
          BY <3>5 DEF HandleTimelineEvent, TypeInv, TypeOK
        <4> QED
          BY <3>2, <3>3, <3>5, <4>2, <4>3, <4>4 DEF Kept
      <3> QED
        BY <1>5, <3>1, <3>2, <3>4, <3>5
    <2> QED
      BY <2>1, <2>2
  <1>6. CASE UNCHANGED tokens /\ (UNCHANGED <<upto, todo>> \/ \E r \in Rooms : HandleTimelineEvent(r))
    <2>1. saved' = saved /\ nextBatch' = nextBatch
      BY <1>6
    <2>2. upto' = upto
      BY <1>6 DEF HandleTimelineEvent
    <2> QED
      BY <1>3, <1>5, <1>6, <2>1, <2>2 DEF TokensAccounted
  <1>7. CASE FinishSync
    <2>1. upto' = 0 /\ nextBatch' = upto /\ saved' \in {saved, upto} /\ stream' = stream
      BY <1>7 DEF FinishSync
    <2>2. ASSUME NEW n, n = upto, NEW e, LeftBehind(e, n)' PROVE Kept(e)'
      <3>1. LeftBehind(e, n) /\ e \in IDs /\ (Kept(e) => Kept(e)')
        BY <1>1, <1>2, <2>2
      <3>2. stream[e].room \in Rooms
        BY <1>1, <3>1, EventTyped
      <3>3. ToSet(todo[stream[e].room]) = {}
        <4>1. todo[stream[e].room] = <<>>
          BY <1>7, <3>2 DEF FinishSync, BatchHandled
        <4> QED
          BY <3>2, <4>1, ElementsOfSeq DEF TypeInv, Belongs
      <3> QED
        BY <1>7, <2>2, <3>1, <3>3 DEF TokensAccounted, FinishSync
    <2> QED
      BY <1>3, <2>1, <2>2 DEF TokensAccounted
  <1>8. CASE SaveMetadata
    <2>1. saved' = nextBatch /\ nextBatch' = nextBatch /\ upto' = 0
      BY <1>8 DEF SaveMetadata
    <2> QED
      BY <1>3, <2>1 DEF TokensAccounted
  <1>9. CASE Crash \/ Relogin
    <2>1. saved' \in {saved, 0} /\ nextBatch' = saved' /\ upto' = 0
      BY <1>9 DEF Crash, Relogin
    <2> QED
      BY <1>3, <2>1 DEF TokensAccounted
  <1>10. ASSUME NEW r \in Rooms, NEW k, Post(r, k) \/ SendMessage(r, k) PROVE UNCHANGED <<tokens, syncing>>
    BY <1>10 DEF Post, SendMessage
  <1>11. ASSUME NEW r \in Rooms, AcceptRequest(r) \/ Send(r) \/ PortalHandle(r)
         PROVE  UNCHANGED <<tokens, syncing>>
    BY <1>11 DEF AcceptRequest, Send, AcceptedOnly, SendStored, SendUnanswered, PortalHandle
  <1>12. ASSUME Poll \/ UNCHANGED vars PROVE UNCHANGED <<tokens, syncing>>
    BY <1>12 DEF Poll, PollPick, PollFetch, PollError, PollEvent, vars
  <1>13. ASSUME NEW r \in Rooms, HandleTimelineEvent(r) PROVE UNCHANGED tokens
    BY <1>13 DEF HandleTimelineEvent
  <1> QED
    BY <1>4, <1>6, <1>7, <1>8, <1>9, <1>10, <1>11, <1>12, <1>13
       DEF Next, Sync, User, SendText, SendMedia

-----------------------------------------------------------------------------
(* The user's own messages.                                                *)
LEMMA OwnAccountedStep == ASSUME TypeInv, OwnAccounted, [Next]_vars PROVE OwnAccounted'
  <1> USE DEF reddit, tokens, syncing, polled, portals, history, starts
  <1>1. stream \in Seq(Events) /\ \A e \in IDs : stream[e].room \in Rooms
    BY EventTyped DEF TypeInv, TypeOK
  <1>2. sending \in [Rooms -> {"no", "joined", "sent"}]
    BY DEF TypeInv, TypeOK
  (* Nothing of the user's is new, and nobody stops waiting.               *)
  <1>3. ASSUME \/ UNCHANGED stream
               \/ \E ev \in Events : ~ev.own /\ stream' = Append(stream, ev),
               stored \subseteq stored', orphaned \subseteq orphaned',
               \A r \in Rooms : sending[r] = "sent" =>
                    sending'[r] = "sent" \/ OwnInFlight(r) \in stored' \cup orphaned'
        PROVE  OwnAccounted'
    <2>1. \A r : OwnInFlight(r)' = OwnInFlight(r)
      BY <1>1, <1>3, SameStream, OwnSame
    <2>2. \A r : \A e \in RoomEvents(r)' :
             stream'[e].own => e \in RoomEvents(r) /\ stream'[e] = stream[e]
      <3>1. CASE UNCHANGED stream
        BY <3>1, SameStream
      <3>2. ASSUME NEW ev \in Events, ~ev.own, stream' = Append(stream, ev),
                   NEW r, NEW e \in RoomEvents(r)', stream'[e].own
            PROVE  e \in RoomEvents(r) /\ stream'[e] = stream[e]
        <4>1. /\ IDs' = IDs \cup {Len(stream) + 1} /\ stream'[Len(stream) + 1] = ev
              /\ \A i \in IDs : stream'[i] = stream[i]
          BY <1>1, <3>2, StreamGrows
        <4> QED
          BY <3>2, <4>1 DEF RoomEvents
      <3> QED
        BY <1>3, <3>1, <3>2
    <2> QED
      BY <1>1, <1>3, <2>1, <2>2 DEF OwnAccounted
  <1>4. ASSUME NEW r \in Rooms, NEW k \in Kinds, Post(r, k) PROVE OwnAccounted'
    <2>1. Event(r, k, FALSE) \in Events /\ ~Event(r, k, FALSE).own
      BY NewEvent
    <2> QED
      BY <1>3, <1>4, <2>1 DEF Post
  <1>5. ASSUME NEW r \in Rooms, AcceptRequest(r) PROVE OwnAccounted'
    <2>1. Event(r, "join", FALSE) \in Events /\ ~Event(r, "join", FALSE).own
      BY NewEvent
    <2>2. \A q \in Rooms : sending[q] = "sent" => sending'[q] = "sent"
      BY <1>2, <1>5 DEF AcceptRequest
    <2> QED
      BY <1>3, <1>5, <2>1, <2>2 DEF AcceptRequest
  <1>6. ASSUME NEW r \in Rooms, NEW k \in OwnKinds, SendMessage(r, k) PROVE OwnAccounted'
    <2> DEFINE ev == Event(r, k, TRUE)
    <2>1. ev \in Events /\ ev.own /\ ev.room = r
      BY NewEvent
    <2>2. stream' = Append(stream, ev) /\ UNCHANGED <<stored, orphaned>>
      BY <1>6 DEF SendMessage
    <2>3. /\ sending[r] # "sent" /\ sending'[r] = "sent"
          /\ \A q \in Rooms : q # r => sending'[q] = sending[q]
      BY <1>2, <1>6 DEF SendMessage
    <2> HIDE DEF ev
    <2>4. /\ IDs' = IDs \cup {Len(stream) + 1} /\ stream'[Len(stream) + 1] = ev
          /\ \A e \in IDs : stream'[e] = stream[e]
      BY <1>1, <2>1, <2>2, StreamGrows
    <2>5. OwnInFlight(r)' = Len(stream) + 1
      BY <1>1, <2>1, <2>2, OwnNew
    <2>6. \A q : q # r => OwnInFlight(q)' = OwnInFlight(q)
      BY <1>1, <2>1, <2>2, OwnSame
    <2>7. \A q : q # r => RoomEvents(q)' = RoomEvents(q)
      BY <1>1, <2>1, <2>2, StreamGrows
    <2>8. RoomEvents(r)' = RoomEvents(r) \cup {Len(stream) + 1}
      BY <1>1, <2>1, <2>2, StreamGrows
    <2>9. ASSUME NEW q \in Rooms, NEW e \in RoomEvents(q)', stream'[e].own
          PROVE  e \in stored' \cup orphaned' \/ (sending'[q] = "sent" /\ e = OwnInFlight(q)')
      <3>1. CASE q # r
        <4>1. e \in RoomEvents(q) /\ stream'[e] = stream[e]
          BY <2>4, <2>7, <2>9, <3>1 DEF RoomEvents
        <4> QED
          BY <2>2, <2>3, <2>6, <2>9, <3>1, <4>1 DEF OwnAccounted
      <3>2. CASE q = r /\ e \in RoomEvents(r)
        <4>1. stream'[e] = stream[e]
          BY <2>4, <3>2 DEF RoomEvents
        <4> QED
          BY <2>2, <2>3, <2>9, <3>2, <4>1 DEF OwnAccounted
      <3>3. CASE q = r /\ e = Len(stream) + 1
        BY <2>3, <2>5, <3>3
      <3> QED
        BY <2>8, <2>9, <3>1, <3>2, <3>3
    <2> QED
      BY <2>9 DEF OwnAccounted
  <1>7. ASSUME NEW r \in Rooms, PortalHandle(r) PROVE OwnAccounted'
    <2>1. stored \subseteq stored'
      BY <1>7 DEF PortalHandle
    <2> QED
      BY <1>3, <1>7, <2>1 DEF PortalHandle
  <1>8. ASSUME NEW r \in Rooms, Send(r) PROVE OwnAccounted'
    <2>1. \A q \in Rooms : sending[q] = "sent" =>
             sending'[q] = "sent" \/ OwnInFlight(q) \in stored' \cup orphaned'
      BY <1>2, <1>8 DEF Send, AcceptedOnly, SendStored, StoredWithID, SendUnanswered
    <2>2. UNCHANGED stream /\ stored \subseteq stored' /\ orphaned \subseteq orphaned'
      BY <1>8 DEF Send, AcceptedOnly, SendStored, StoredWithID, SendUnanswered
    <2> QED
      BY <1>3, <2>1, <2>2
  <1>9. CASE Crash
    BY <1>3, <1>9 DEF Crash
  <1>10. CASE Sync \/ Poll \/ Relogin \/ UNCHANGED vars
    <2>1. UNCHANGED <<stream, stored, orphaned, sending>>
      BY <1>10 DEF Sync, SyncResponse, FinishSync, SaveMetadata, HandleTimelineEvent, Poll,
                   PollPick, PollFetch, PollError, PollEvent, Relogin, vars
    <2> QED
      BY <1>3, <2>1
  <1> QED
    BY <1>4, <1>5, <1>6, <1>7, <1>8, <1>9, <1>10 DEF Next, User, SendText, SendMedia

LEMMA NoEchoStep == ASSUME TypeInv, OwnAccounted, NoEcho, [Next]_vars PROVE NoEcho'
  <1> USE DEF reddit, tokens, syncing, polled, portals, history, starts
  <1>1. ASSUME echoed' = echoed, orphaned \subseteq orphaned' PROVE NoEcho'
    BY <1>1 DEF NoEcho
  (* A portal that takes up an item waits for no answer: an own message    *)
  (* that it has not stored is one whose answer never came.                *)
  <1>2. ASSUME NEW r \in Rooms, PortalHandle(r) PROVE NoEcho'
    <2> DEFINE e == Head(queue[r])
    <2>1. e \in RoomEvents(r)
      BY <1>2, ElementsOfTail DEF PortalHandle, TypeInv, Belongs
    <2>2. stream[e].own /\ e \notin stored => e \in orphaned
      BY <1>2, <2>1 DEF PortalHandle, OwnAccounted
    <2> QED
      BY <1>2, <2>2 DEF PortalHandle, NoEcho
  <1>3. ASSUME NEW r \in Rooms, NEW k, Post(r, k) \/ SendMessage(r, k) PROVE NoEcho'
    BY <1>1, <1>3 DEF Post, SendMessage
  <1>4. ASSUME NEW r \in Rooms, AcceptRequest(r) \/ Send(r) PROVE NoEcho'
    BY <1>1, <1>4 DEF AcceptRequest, Send, AcceptedOnly, SendStored, SendUnanswered
  <1>5. CASE Sync
    BY <1>1, <1>5 DEF Sync, SyncResponse, FinishSync, SaveMetadata, HandleTimelineEvent
  <1>6. CASE Poll
    BY <1>1, <1>6 DEF Poll, PollPick, PollFetch, PollError, PollEvent
  <1>7. CASE Crash \/ Relogin \/ UNCHANGED vars
    BY <1>1, <1>7 DEF Crash, Relogin, vars
  <1> QED
    BY <1>2, <1>3, <1>4, <1>5, <1>6, <1>7 DEF Next, User, SendText, SendMedia

-----------------------------------------------------------------------------
LEMMA InitIInv == Init => IInv
  <1> SUFFICES ASSUME Init PROVE IInv
    OBVIOUS
  <1>1. TypeInv
    BY TypeInvInit
  <1>2. \A e : ~LeftBehind(e, 0)
    BY DEF LeftBehind
  <1>3. TokensAccounted
    BY <1>2 DEF Init, TokensAccounted
  <1>4. OwnAccounted
    BY InitialStream DEF OwnAccounted, RoomEvents
  <1> QED
    BY <1>1, <1>3, <1>4 DEF IInv, Init, NoEcho

LEMMA NextIInv == IInv /\ [Next]_vars => IInv'
  BY TypeInvStep, TokensAccountedStep, OwnAccountedStep, NoEchoStep DEF IInv

THEOREM Invariance == Spec => []IInv
  BY InitIInv, NextIInv, PTL DEF Spec

(* Type correctness, for any number of rooms and any limits.               *)
THEOREM TypeCorrect == Spec => []TypeOK
  <1>1. IInv => TypeOK
    BY DEF IInv, TypeInv
  <1> QED
    BY <1>1, Invariance, PTL

(* What the persisted token leaves behind was queued, or never sent: it    *)
(* does not matter when the bridge stops, which saves of the token fail or *)
(* how often the user logs in again (sync.go:28-29 and 105-117).           *)
THEOREM TokenNeverAhead == Spec => []TokenBehindQueues
  <1>1. ASSUME IInv PROVE TokenBehindQueues
    <2>1. \A e \in 1 .. saved : e \in IDs
      BY <1>1 DEF IInv, TypeInv, TypeOK, IDs
    <2> QED
      BY <1>1, <2>1 DEF IInv, TokensAccounted, TokenBehindQueues, LeftBehind, Kept
  <1> QED
    BY <1>1, Invariance, PTL

(* Only a message whose answer the bridge never saw comes back as one of   *)
(* somebody else (handlematrix.go:44-46).                                  *)
THEOREM NoEchoes == Spec => []NoEcho
  <1>1. IInv => NoEcho
    BY DEF IInv
  <1> QED
    BY <1>1, Invariance, PTL
=============================================================================
