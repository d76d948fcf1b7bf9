--------------------------- MODULE DeliveryProofs ---------------------------
(***************************************************************************)
(* Proofs that SyncStream keeps both promises of Delivery, for any rooms   *)
(* and limits: in order across restarts when only the sync loop brings     *)
(* messages (keeps = FALSE), and without gaps while the bridge runs and    *)
(* neither a response nor a poll leaves anything out (keeps = TRUE).       *)
(*                                                                         *)
(* Both rest on one invariant.  A portal is owed the messages it has not   *)
(* stored, unless they are media that failed to convert or, after a loss,  *)
(* Reddit will never serve them again.  What is queued, in a response or   *)
(* in a poll never overtakes a message that is owed, and what a token has  *)
(* left behind and is owed is still on its way.                            *)
(***************************************************************************)
EXTENDS SyncStreamProofs

(* A sync since n does not serve e again: it is left behind, and the room  *)
(* was joined before.                                                      *)
Covered(r, e, n) == e <= n /\ JoinedBy(r, n) /\ ~JoinIn(After(RoomEvents(r), n))

(* So many events have come after e that no timeline reaches back to it.   *)
Buried(r, e) == Cardinality(After(RoomEvents(r), e)) >= TimelineLimit

OnItsWay(r) == ToSet(queue[r]) \cup ToSet(todo[r])

Gone(r) == {e \in RoomEvents(r) : Buried(r, e) \/ Covered(r, e, saved)} \ OnItsWay(r)

Owed(r, keeps) == Theirs(r) \ (stored \cup failed \cup IF keeps THEN {} ELSE Gone(r))

(* In s, no element comes before a smaller one of U.                       *)
NoOvertaking(s, U) ==
    \A j \in 1 .. Len(s), e \in U : e < s[j] => \E i \in 1 .. Len(s) : i < j /\ s[i] = e

QueuesInTurn(keeps) ==
    \A r \in Rooms :
        /\ NoOvertaking(queue[r], Owed(r, keeps))
        /\ NoOvertaking(todo[r], Owed(r, keeps) \ ToSet(queue[r]))
        /\ r = pollRoom => NoOvertaking(pollTodo, Owed(r, keeps) \ ToSet(queue[r]))

PassedOnItsWay(keeps) ==
    \A r \in Rooms, e \in IDs, n \in {nextBatch, upto} :
        e \in Owed(r, keeps) /\ Covered(r, e, n) => e \in OnItsWay(r)

ShownBeforeOwed(keeps) ==
    \A r \in Rooms :
        /\ ToSet(shown[r]) \subseteq stored \cap Theirs(r)
        /\ \A g \in ToSet(shown[r]), e \in Owed(r, keeps) : g < e

TokensInTurn ==
    /\ saved <= nextBatch
    /\ upto # 0 => nextBatch <= upto
    /\ upto = 0 => \A r \in Rooms : todo[r] = <<>>

(* Where nothing is kept from the portals but by a loss, the poll is off;  *)
(* where nothing is lost, people post what the poll brings as well.        *)
Settings(keeps) ==
    IF keeps THEN /\ MaxCrashes = 0 /\ "media" \notin Kinds
                  /\ TimelineLimit >= MaxEvents /\ BackfillBatchSize >= MaxEvents
             ELSE ~Polling /\ MaxLogins = 0

OnlyTheSync == pollRoom = NoRoom /\ pollTodo = <<>>
OnlyText == \A r \in Rooms, e \in IDs : e \in Theirs(r) => stream[e].kind = "text"

FailedAreMedia == \A e \in failed : stream[e].kind = "media"

(* What a portal has shown of a stream without gaps are its first messages. *)
ShownAreFirst ==
    \A r \in Rooms :
        /\ Theirs(r) \cap stored \subseteq ToSet(shown[r])
        /\ \A i \in 1 .. Len(shown[r]) : Rank(Theirs(r), shown[r][i]) = i

OrderInv(keeps) ==
    /\ QueuesInTurn(keeps)
    /\ PassedOnItsWay(keeps)
    /\ ShownBeforeOwed(keeps)
    /\ TokensInTurn
    /\ FailedAreMedia
    /\ IF keeps THEN OnlyText ELSE OnlyTheSync

-----------------------------------------------------------------------------
(* NoOvertaking, as the queues change.                                     *)
LEMMA FewerToOvertake ==
    ASSUME NEW s, NEW U, NEW V, NoOvertaking(s, U),
           \A j \in 1 .. Len(s) : \A e \in V : e < s[j] => e \in U
    PROVE  NoOvertaking(s, V)
  BY DEF NoOvertaking

LEMMA TailOvertakesNone ==
    ASSUME NEW A, NEW s \in Seq(A), s # <<>>, NEW U, NoOvertaking(s, U)
    PROVE  /\ \A e \in U : ~(e < Head(s))
           /\ NoOvertaking(Tail(s), U \ {Head(s)})
  <1> DEFINE t == Tail(s)
  <1>1. /\ Head(s) = s[1] /\ Len(s) \in Nat \ {0} /\ Len(t) = Len(s) - 1
        /\ \A i \in 1 .. Len(t) : t[i] = s[i + 1]
    BY HeadTailProperties, EmptySeq
  <1> HIDE DEF t
  <1>2. \A e \in U : ~(e < Head(s))
    BY <1>1 DEF NoOvertaking
  <1>3. ASSUME NEW j \in 1 .. Len(t), NEW e \in U \ {Head(s)}, e < t[j]
        PROVE  \E i \in 1 .. Len(t) : i < j /\ t[i] = e
    <2>1. j + 1 \in 1 .. Len(s) /\ t[j] = s[j + 1]
      BY <1>1
    <2>2. PICK i \in 1 .. Len(s) : i < j + 1 /\ s[i] = e
      BY <1>3, <2>1 DEF NoOvertaking
    <2>3. i # 1
      BY <1>1, <2>2
    <2>4. i - 1 \in 1 .. Len(t) /\ i - 1 < j /\ (i - 1) + 1 = i
      BY <1>1, <2>2, <2>3
    <2>5. t[i - 1] = e
      BY <1>1, <2>2, <2>4
    <2> QED
      BY <2>4, <2>5
  <1> QED
    BY <1>2, <1>3 DEF NoOvertaking, t

LEMMA AppendOvertakesNone ==
    ASSUME NEW A, NEW s \in Seq(A), NEW a \in A, NEW U, NoOvertaking(s, U),
           \A e \in U : e < a => e \in ToSet(s)
    PROVE  NoOvertaking(Append(s, a), U)
  <1> DEFINE t == Append(s, a)
  <1>1. /\ Len(s) \in Nat /\ Len(t) = Len(s) + 1 /\ t[Len(s) + 1] = a
        /\ \A i \in 1 .. Len(s) : t[i] = s[i]
    BY AppendProperties
  <1>2. \A x : x \in ToSet(s) <=> \E i \in 1 .. Len(s) : s[i] = x
    BY ElementsOfSeq
  <1> HIDE DEF t
  <1>3. /\ \A i \in 1 .. Len(s) : i \in 1 .. Len(t) /\ i < Len(s) + 1
        /\ \A j \in 1 .. Len(t) : j \in 1 .. Len(s) \/ j = Len(s) + 1
    BY <1>1
  <1>4. ASSUME NEW j \in 1 .. Len(t), NEW e \in U, e < t[j]
        PROVE  \E i \in 1 .. Len(t) : i < j /\ t[i] = e
    <2>1. CASE j \in 1 .. Len(s)
      BY <1>1, <1>3, <1>4, <2>1 DEF NoOvertaking
    <2>2. CASE j = Len(s) + 1
      <3>1. PICK i \in 1 .. Len(s) : s[i] = e
        BY <1>1, <1>2, <1>4, <2>2
      <3> QED
        BY <1>1, <1>3, <2>2, <3>1
    <2> QED
      BY <1>3, <2>1, <2>2
  <1> QED
    BY <1>4 DEF NoOvertaking, t

LEMMA InOrderOvertakesNone ==
    ASSUME NEW S \in SUBSET Nat, IsFiniteSet(S), NEW U,
           \A e \in U : \A d \in S : e < d => e \in S
    PROVE  NoOvertaking(InOrder(S), U)
  <1> DEFINE s == InOrder(S)
             k(e) == Rank(S, e)
  <1>1. /\ Len(s) \in Nat
        /\ \A i \in 1 .. Len(s) : s[i] \in S
        /\ \A i, j \in 1 .. Len(s) : i < j => s[i] < s[j]
        /\ \A e \in S : k(e) \in 1 .. Len(s) /\ s[k(e)] = e
    BY InOrderProperties
  <1> HIDE DEF s, k
  <1>2. ASSUME NEW j \in 1 .. Len(s), NEW e \in U, e < s[j]
        PROVE  \E i \in 1 .. Len(s) : i < j /\ s[i] = e
    <2>1. e \in S /\ e \in Nat /\ s[j] \in Nat
      BY <1>1, <1>2
    <2>2. k(e) \in 1 .. Len(s) /\ s[k(e)] = e
      BY <1>1, <2>1
    <2>3. CASE j < k(e)
      <3>1. s[j] < e
        BY <1>1, <2>2, <2>3
      <3> QED
        BY <1>2, <2>1, <3>1
    <2>4. CASE j = k(e)
      BY <1>2, <2>1, <2>2, <2>4
    <2>5. CASE k(e) < j
      BY <2>2, <2>5
    <2>6. j < k(e) \/ j = k(e) \/ k(e) < j
      BY <2>2
    <2> QED
      BY <2>3, <2>4, <2>5, <2>6
  <1> QED
    BY <1>2 DEF NoOvertaking, s

-----------------------------------------------------------------------------
(* How rooms, and what is known of an event, change with the stream.       *)
LEMMA RoomsGrow ==
    ASSUME TypeOK, [Next]_vars
    PROVE  /\ \A r : RoomEvents(r) \subseteq RoomEvents(r)' /\ Theirs(r) \subseteq Theirs(r)'
           /\ \A r : RoomEvents(r)' \cap IDs \subseteq RoomEvents(r)
           /\ \A r : Theirs(r)' \cap IDs \subseteq Theirs(r)
           /\ \A r : Joined(r) => \A e \in RoomEvents(r)' \ IDs : stream'[e].kind # "join"
           /\ \A e \in IDs' \ IDs, d \in IDs : d < e
           /\ \A e \in IDs' \ IDs : stream'[e].kind = "join" \/ stream'[e].own \/ stream'[e].kind \in Kinds
  <1>1. IDs \subseteq IDs' /\ \A e \in IDs : stream'[e] = stream[e] /\ (Message(e)' <=> Message(e))
    BY EventsStay
  <1>2. \A r : /\ RoomEvents(r) \subseteq RoomEvents(r)'
              /\ RoomEvents(r)' \cap IDs \subseteq RoomEvents(r)
    BY <1>1 DEF RoomEvents
  <1>3. \A r : RoomEvents(r) \subseteq IDs
    BY DEF RoomEvents
  <1>4. \A r : Theirs(r) \subseteq Theirs(r)' /\ Theirs(r)' \cap IDs \subseteq Theirs(r)
    BY <1>1, <1>2, <1>3 DEF Theirs
  <1>5. CASE UNCHANGED stream
    BY <1>2, <1>4, <1>5 DEF IDs, RoomEvents
  <1>6. ASSUME NEW ev \in Events, Grown(ev)
        PROVE  /\ \A r : Joined(r) => \A e \in RoomEvents(r)' \ IDs : stream'[e].kind # "join"
               /\ \A e \in IDs' \ IDs, d \in IDs : d < e
               /\ \A e \in IDs' \ IDs :
                     stream'[e].kind = "join" \/ stream'[e].own \/ stream'[e].kind \in Kinds
    <2>1. /\ Len(stream) \in Nat /\ IDs' = IDs \cup {Len(stream) + 1}
          /\ stream'[Len(stream) + 1] = ev
      BY <1>6, StreamGrows DEF TypeOK, Grown
    <2>2. \A e \in IDs' \ IDs : e = Len(stream) + 1
      BY <2>1
    <2>3. \A d \in IDs : d < Len(stream) + 1
      BY <2>1 DEF IDs
    <2>4. ASSUME NEW r, Joined(r), NEW e \in RoomEvents(r)' \ IDs PROVE stream'[e].kind # "join"
      <3>1. e \in IDs' \ IDs /\ stream'[e].room = r
        BY <2>4 DEF RoomEvents
      <3> QED
        BY <1>6, <2>1, <2>2, <2>4, <3>1 DEF Grown
    <2>5. \A e \in IDs' \ IDs :
             stream'[e].kind = "join" \/ stream'[e].own \/ stream'[e].kind \in Kinds
      BY <1>6, <2>1, <2>2 DEF Grown
    <2> QED
      BY <2>2, <2>3, <2>4, <2>5
  <1> QED
    BY <1>2, <1>4, <1>5, <1>6, StreamOnlyGrows

LEMMA CoveredStays ==
    ASSUME TypeOK, [Next]_vars, NEW r, NEW e, NEW n \in 0 .. Len(stream)
    PROVE  Covered(r, e, n)' <=> Covered(r, e, n)
  <1>1. JoinedBy(r, n)' <=> JoinedBy(r, n)
    BY EventsStay
  <1>2. JoinedBy(r, n) => Joined(r)
    BY DEF JoinedBy, Joined, JoinIn, RoomEvents, IDs, TypeOK
  <1>3. /\ \A d \in IDs : stream'[d] = stream[d]
        /\ RoomEvents(r) \subseteq RoomEvents(r)' /\ RoomEvents(r)' \cap IDs \subseteq RoomEvents(r)
        /\ RoomEvents(r) \subseteq IDs
    BY EventsStay, RoomsGrow DEF RoomEvents
  <1>4. Joined(r) => (JoinIn(After(RoomEvents(r), n))' <=> JoinIn(After(RoomEvents(r), n)))
    <2>1. Joined(r) => \A d \in RoomEvents(r)' \ IDs : stream'[d].kind # "join"
      BY RoomsGrow
    <2> QED
      BY <1>3, <2>1 DEF JoinIn, After
  <1> QED
    BY <1>1, <1>2, <1>4 DEF Covered

LEMMA CoveredGrows ==
    ASSUME TypeOK, NEW r, NEW e, NEW m \in Nat, NEW n \in Nat, m <= n, e \in Nat, Covered(r, e, m)
    PROVE  Covered(r, e, n)
  <1>1. JoinedBy(r, n) /\ e <= n
    BY DEF Covered, JoinedBy, JoinIn
  <1>2. After(RoomEvents(r), n) \subseteq After(RoomEvents(r), m)
    BY DEF After, RoomEvents, IDs, TypeOK
  <1> QED
    BY <1>1, <1>2 DEF Covered, JoinIn

LEMMA BuriedStays ==
    ASSUME TypeOK, [Next]_vars, NEW r, NEW e, Buried(r, e)
    PROVE  Buried(r, e)'
  <1> DEFINE A == After(RoomEvents(r), e)
             B == After(RoomEvents(r)', e)
  <1>1. Len(stream') \in Nat
    <2>1. Len(stream) \in Nat /\ stream \in Seq(Events)
      BY DEF TypeOK
    <2>2. ASSUME NEW ev \in Events, Grown(ev) PROVE Len(stream') \in Nat
      BY <2>1, <2>2, StreamGrows DEF Grown
    <2> QED
      BY <2>1, <2>2, StreamOnlyGrows
  <1>2. IsFiniteSet(1 .. Len(stream'))
    BY <1>1, FS_Interval
  <1>3. B \subseteq 1 .. Len(stream')
    BY DEF After, RoomEvents, IDs
  <1>4. A \subseteq B
    BY RoomsGrow DEF After
  <1>5. IsFiniteSet(B)
    BY <1>2, <1>3, FS_Subset
  <1>6. IsFiniteSet(A) /\ Cardinality(A) <= Cardinality(B)
    BY <1>4, <1>5, FS_Subset
  <1>7. Cardinality(A) \in Nat /\ Cardinality(B) \in Nat
    BY <1>5, <1>6, FS_CardinalityType
  <1>8. Cardinality(A) >= TimelineLimit
    BY DEF Buried
  <1>9. Cardinality(B) >= TimelineLimit
    <2> HIDE DEF A, B
    <2> QED
      BY <1>6, <1>7, <1>8, BoundsAssumption
  <1> QED
    BY <1>9 DEF Buried, After

-----------------------------------------------------------------------------
(* The parts of the invariant that are about the tokens and the settings.  *)
LEMMA TokensInTurnStep == ASSUME TypeInv, TokensInTurn, [Next]_vars PROVE TokensInTurn'
  <1> USE DEF TokensInTurn, reddit, tokens, syncing, polled, portals, history, starts
  <1>1. saved \in Nat /\ nextBatch \in Nat /\ upto \in Nat /\ Len(stream) \in Nat
    BY DEF TypeInv, TypeOK
  <1>2. CASE UNCHANGED <<tokens, syncing>>
    BY <1>2
  <1>3. CASE SyncResponse
    BY <1>1, <1>3 DEF SyncResponse
  <1>4. ASSUME NEW r \in Rooms, HandleTimelineEvent(r) PROVE TokensInTurn'
    BY <1>4 DEF HandleTimelineEvent
  <1>5. CASE FinishSync
    BY <1>1, <1>5 DEF FinishSync, BatchHandled
  <1>6. CASE SaveMetadata
    BY <1>1, <1>6 DEF SaveMetadata
  <1>7. CASE Crash \/ Relogin
    BY <1>1, <1>7 DEF Crash, Relogin
  <1>8. ASSUME NEW r \in Rooms, NEW k, Post(r, k) \/ SendMessage(r, k) PROVE UNCHANGED <<tokens, syncing>>
    BY <1>8 DEF Post, SendMessage
  <1>9. ASSUME NEW r \in Rooms, AcceptRequest(r) \/ Send(r) \/ PortalHandle(r)
        PROVE  UNCHANGED <<tokens, syncing>>
    BY <1>9 DEF AcceptRequest, Send, AcceptedOnly, SendStored, SendUnanswered, PortalHandle
  <1>10. ASSUME Poll \/ UNCHANGED vars PROVE UNCHANGED <<tokens, syncing>>
    BY <1>10 DEF Poll, PollPick, PollFetch, PollError, PollEvent, vars
  <1> QED
    BY <1>2, <1>3, <1>4, <1>5, <1>6, <1>7, <1>8, <1>9, <1>10
       DEF Next, Sync, User, SendText, SendMedia

LEMMA OnlyTheSyncStep == ASSUME OnlyTheSync, ~Polling, [Next]_vars PROVE OnlyTheSync'
  <1> USE DEF OnlyTheSync, polled
  <1>1. ~Poll
    BY DEF Poll, PollPick, PollFetch, PollError, PollEvent
  <1>2. CASE Sync
    BY <1>2 DEF Sync, SyncResponse, FinishSync, SaveMetadata, HandleTimelineEvent
  <1>3. ASSUME NEW r \in Rooms, NEW k, Post(r, k) \/ SendMessage(r, k) PROVE OnlyTheSync'
    BY <1>3 DEF Post, SendMessage
  <1>4. ASSUME NEW r \in Rooms, AcceptRequest(r) \/ Send(r) \/ PortalHandle(r) PROVE OnlyTheSync'
    BY <1>4 DEF AcceptRequest, Send, AcceptedOnly, SendStored, SendUnanswered, PortalHandle
  <1>5. CASE Crash \/ Relogin \/ UNCHANGED vars
    BY <1>5 DEF Crash, Relogin, vars
  <1> QED
    BY <1>1, <1>2, <1>3, <1>4, <1>5 DEF Next, User, SendText, SendMedia

LEMMA FailedStep ==
    ASSUME [Next]_vars
    PROVE  /\ failed \subseteq failed'
           /\ \/ failed' = failed
              \/ \E r \in Rooms :
                    /\ queue[r] # <<>> /\ stream[Head(queue[r])].kind = "media"
                    /\ failed' = failed \cup {Head(queue[r])}
  <1> USE DEF history
  <1>1. CASE Sync \/ Poll \/ Crash \/ Relogin \/ UNCHANGED vars
    BY <1>1 DEF Sync, SyncResponse, FinishSync, SaveMetadata, HandleTimelineEvent, Poll,
                PollPick, PollFetch, PollError, PollEvent, Crash, Relogin, vars
  <1>2. ASSUME NEW r \in Rooms, NEW k, Post(r, k) \/ SendMessage(r, k) PROVE failed' = failed
    BY <1>2 DEF Post, SendMessage
  <1>3. ASSUME NEW r \in Rooms, AcceptRequest(r) \/ Send(r) PROVE failed' = failed
    BY <1>3 DEF AcceptRequest, Send, AcceptedOnly, SendStored, SendUnanswered
  <1>4. ASSUME NEW r \in Rooms, PortalHandle(r)
        PROVE  \/ failed' = failed
               \/ /\ queue[r] # <<>> /\ stream[Head(queue[r])].kind = "media"
                  /\ failed' = failed \cup {Head(queue[r])}
    BY <1>4 DEF PortalHandle
  <1> QED
    BY <1>1, <1>2, <1>3, <1>4 DEF Next, User, SendText, SendMedia

LEMMA FailedAreMediaStep == ASSUME TypeInv, FailedAreMedia, [Next]_vars PROVE FailedAreMedia'
  <1>1. failed \subseteq IDs /\ \A e \in IDs : stream'[e] = stream[e]
    BY EventsStay DEF TypeInv, TypeOK
  <1>2. CASE failed' = failed
    BY <1>1, <1>2 DEF FailedAreMedia
  <1>3. ASSUME NEW r \in Rooms, queue[r] # <<>>, stream[Head(queue[r])].kind = "media",
               failed' = failed \cup {Head(queue[r])}
        PROVE  FailedAreMedia'
    <2>1. PICK h : h = Head(queue[r])
      OBVIOUS
    <2>2. h \in IDs
      <3>1. queue[r] \in Seq(IDs)
        BY DEF TypeInv, TypeOK
      <3> QED
        BY <1>3, <2>1, <3>1, ElementsOfTail
    <2> QED
      BY <1>1, <1>3, <2>1, <2>2 DEF FailedAreMedia
  <1> QED
    BY <1>2, <1>3, FailedStep

LEMMA OnlyTextStep == ASSUME TypeOK, OnlyText, "media" \notin Kinds, [Next]_vars PROVE OnlyText'
  <1>1. ASSUME NEW r \in Rooms, NEW e \in IDs', e \in Theirs(r)' PROVE stream'[e].kind = "text"
    <2>1. CASE e \in IDs
      <3>1. stream'[e] = stream[e] /\ e \in Theirs(r)
        BY <1>1, <2>1, EventsStay, RoomsGrow
      <3> QED
        BY <2>1, <3>1 DEF OnlyText
    <2>2. CASE e \notin IDs
      <3>1. stream'[e].kind = "join" \/ stream'[e].own \/ stream'[e].kind \in Kinds
        BY <1>1, <2>2, RoomsGrow
      <3>2. stream'[e].kind \in {"text", "media"} /\ ~stream'[e].own
        BY <1>1 DEF Theirs, Message
      <3> QED
        BY <3>1, <3>2
    <2> QED
      BY <2>1, <2>2
  <1> QED
    BY <1>1 DEF OnlyText

-----------------------------------------------------------------------------
(* Nothing that is not owed is owed again.                                 *)
NeverServed(r, e) == Buried(r, e) \/ Covered(r, e, saved)

LEMMA TimelineIsServed ==
    ASSUME TypeInv, TokensInTurn, NEW r, NEW e \in Timeline(r, nextBatch)
    PROVE  ~NeverServed(r, e)
  <1> DEFINE R == RoomEvents(r)
             N == News(r, nextBatch)
  <1>1. /\ e \in N /\ ~(Cardinality(After(N, e)) >= TimelineLimit)
        /\ e \in Nat /\ saved \in Nat /\ nextBatch \in Nat /\ saved <= nextBatch
    <2>1. e \in N /\ Cardinality(After(N, e)) < TimelineLimit /\ N \subseteq IDs
      BY TimelineListed DEF Timeline, Newest, TypeInv
    <2>2. e \in Nat /\ saved \in Nat /\ nextBatch \in Nat
      BY <2>1 DEF IDs, TypeInv, TypeOK
    <2>3. Cardinality(After(N, e)) \in Nat
      <3>1. After(N, e) \subseteq IDs
        BY <2>1 DEF After
      <3> QED
        BY <3>1, Listed, FS_CardinalityType DEF TypeInv
    <2> HIDE DEF N
    <2> QED
      BY <2>1, <2>2, <2>3, BoundsAssumption DEF TokensInTurn
  <1>2. N = R \/ N = After(R, nextBatch)
    BY <1>1 DEF News
  <1>3. After(N, e) = After(R, e)
    BY <1>1, <1>2 DEF After, RoomEvents, IDs
  <1>4. ~Buried(r, e)
    BY <1>1, <1>3 DEF Buried
  <1>5. ASSUME Covered(r, e, saved) PROVE FALSE
    <2>1. Covered(r, e, nextBatch)
      BY <1>1, <1>5, CoveredGrows DEF TypeInv
    <2>2. e <= nextBatch /\ ~JoinIn(After(R, nextBatch))
      BY <2>1 DEF Covered
    <2>3. N = After(R, nextBatch)
      BY <1>1, <2>2 DEF News
    <2> QED
      BY <1>1, <2>2, <2>3 DEF After
  <1> QED
    BY <1>4, <1>5 DEF NeverServed

(* Without the poll, only a sync response puts an event on its way.        *)
LEMMA WayStep ==
    ASSUME TypeInv, TokensInTurn, OnlyTheSync, ~Polling, [Next]_vars,
           NEW r \in Rooms, NEW e \in OnItsWay(r)'
    PROVE  e \in OnItsWay(r) \/ (SyncResponse /\ e \in Timeline(r, nextBatch))
  <1> USE DEF OnItsWay, reddit, tokens, syncing, polled, portals, history, starts
  <1>1. todo[r] \in Seq(RoomEvents(r)) /\ queue[r] \in Seq(RoomEvents(r))
    BY DEF TypeInv, Belongs
  <1>2. todo \in [Rooms -> Seq(IDs)] /\ queue \in [Rooms -> Seq(IDs)]
    BY DEF TypeInv, TypeOK
  <1>3. CASE SyncResponse
    <2>1. queue'[r] = queue[r] /\ todo'[r] = OldestFirst[Timeline(r, nextBatch)]
      BY <1>3 DEF SyncResponse, InTurn
    <2>2. ToSet(todo'[r]) = Timeline(r, nextBatch)
      BY <2>1, TimelineListed DEF TypeInv
    <2> QED
      BY <1>3, <2>1, <2>2
  <1>4. ASSUME NEW q \in Rooms, HandleTimelineEvent(q) PROVE e \in OnItsWay(r)
    <2>1. CASE q # r
      BY <1>2, <1>4, <2>1 DEF HandleTimelineEvent
    <2>2. CASE q = r
      <3>1. /\ Head(todo[r]) \in RoomEvents(r)
            /\ ToSet(todo[r]) = ToSet(Tail(todo[r])) \cup {Head(todo[r])}
        BY <1>1, <1>4, <2>2, ElementsOfTail DEF HandleTimelineEvent
      <3>2. ToSet(Append(queue[r], Head(todo[r]))) = ToSet(queue[r]) \cup {Head(todo[r])}
        BY <1>1, <3>1, ElementsOfAppend
      <3>3. /\ todo'[r] = Tail(todo[r])
            /\ queue'[r] \in {queue[r], Append(queue[r], Head(todo[r]))}
        BY <1>2, <1>4, <2>2 DEF HandleTimelineEvent
      <3> QED
        BY <3>1, <3>2, <3>3
    <2> QED
      BY <2>1, <2>2
  <1>5. ASSUME NEW q \in Rooms, PortalHandle(q) PROVE e \in OnItsWay(r)
    <2>1. queue[r] # <<>> => ToSet(Tail(queue[r])) \subseteq ToSet(queue[r])
      BY <1>1, ElementsOfTail
    <2> QED
      BY <1>2, <1>5, <2>1 DEF PortalHandle
  <1>6. CASE Crash \/ Relogin
    <2>1. todo'[r] = <<>> /\ queue'[r] \in {queue[r], <<>>}
      BY <1>6 DEF Crash, Relogin
    <2>2. ToSet(<<>>) = {}
      BY <1>1, ElementsOfSeq
    <2> QED
      BY <2>1, <2>2
  <1>7. ASSUME UNCHANGED <<queue, todo>> PROVE e \in OnItsWay(r)
    BY <1>7
  <1>8. CASE FinishSync \/ SaveMetadata \/ UNCHANGED vars
    BY <1>7, <1>8 DEF FinishSync, SaveMetadata, vars
  <1>9. ASSUME NEW q \in Rooms, NEW k, Post(q, k) \/ SendMessage(q, k) PROVE e \in OnItsWay(r)
    BY <1>7, <1>9 DEF Post, SendMessage
  <1>10. ASSUME NEW q \in Rooms, AcceptRequest(q) \/ Send(q) PROVE e \in OnItsWay(r)
    BY <1>7, <1>10 DEF AcceptRequest, Send, AcceptedOnly, SendStored, SendUnanswered
  <1>11. ~Poll
    BY DEF OnlyTheSync, Poll, PollPick, PollFetch, PollError, PollEvent
  <1> QED
    BY <1>3, <1>4, <1>5, <1>6, <1>8, <1>9, <1>10, <1>11 DEF Next, Sync, User, SendText, SendMedia

LEMMA SavedGrows ==
    ASSUME TypeInv, TokensInTurn, MaxLogins = 0, [Next]_vars
    PROVE  saved' \in 0 .. Len(stream) /\ saved <= saved'
  <1> USE DEF reddit, tokens, syncing, polled, portals, history, starts
  <1>1. /\ saved \in 0 .. Len(stream) /\ nextBatch \in 0 .. Len(stream) /\ upto \in 0 .. Len(stream)
        /\ Len(stream) \in Nat /\ saved <= nextBatch /\ (upto # 0 => nextBatch <= upto)
    BY DEF TypeInv, TypeOK, TokensInTurn
  <1>2. saved' \in {saved, nextBatch} \/ (upto # 0 /\ saved' = upto)
    <2>1. CASE Sync
      BY <2>1 DEF Sync, SyncResponse, FinishSync, SaveMetadata, HandleTimelineEvent
    <2>2. CASE Poll \/ Crash \/ UNCHANGED vars
      BY <2>2 DEF Poll, PollPick, PollFetch, PollError, PollEvent, Crash, vars
    <2>3. ASSUME NEW r \in Rooms, NEW k, Post(r, k) \/ SendMessage(r, k) PROVE saved' = saved
      BY <2>3 DEF Post, SendMessage
    <2>4. ASSUME NEW r \in Rooms, AcceptRequest(r) \/ Send(r) \/ PortalHandle(r) PROVE saved' = saved
      BY <2>4 DEF AcceptRequest, Send, AcceptedOnly, SendStored, SendUnanswered, PortalHandle
    <2>5. ~Relogin
      BY DEF Relogin, TypeInv, TypeOK
    <2> QED
      BY <2>1, <2>2, <2>3, <2>4, <2>5 DEF Next, User, SendText, SendMedia
  <1> QED
    BY <1>1, <1>2

LEMMA NeverServedStays ==
    ASSUME TypeInv, TokensInTurn, MaxLogins = 0, [Next]_vars,
           NEW r, NEW e \in IDs, NeverServed(r, e)
    PROVE  NeverServed(r, e)'
  <1>1. TypeOK
    BY DEF TypeInv
  <1>2. CASE Buried(r, e)
    BY <1>1, <1>2, BuriedStays DEF NeverServed
  <1>3. CASE Covered(r, e, saved)
    <2>1. /\ saved \in Nat /\ saved' \in Nat /\ saved <= saved' /\ saved' \in 0 .. Len(stream)
          /\ e \in Nat
      BY <1>1, SavedGrows DEF TypeOK, IDs
    <2>2. PICK n \in 0 .. Len(stream) : n = saved'
      BY <2>1
    <2>3. Covered(r, e, n)
      BY <1>1, <1>3, <2>1, <2>2, CoveredGrows
    <2>4. Covered(r, e, n)'
      BY <1>1, <2>3, CoveredStays
    <2> QED
      BY <2>2, <2>4 DEF NeverServed
  <1> QED
    BY <1>2, <1>3 DEF NeverServed

LEMMA StoredStays == ASSUME [Next]_vars PROVE stored \subseteq stored'
  <1> USE DEF portals
  <1>1. CASE Sync
    BY <1>1 DEF Sync, SyncResponse, FinishSync, SaveMetadata, HandleTimelineEvent
  <1>2. CASE Poll \/ Crash \/ Relogin \/ UNCHANGED vars
    BY <1>2 DEF Poll, PollPick, PollFetch, PollError, PollEvent, Crash, Relogin, vars
  <1>3. ASSUME NEW r \in Rooms, NEW k, Post(r, k) \/ SendMessage(r, k) PROVE stored' = stored
    BY <1>3 DEF Post, SendMessage
  <1>4. ASSUME NEW r \in Rooms, AcceptRequest(r) \/ Send(r) \/ PortalHandle(r)
        PROVE  stored \subseteq stored'
    BY <1>4 DEF AcceptRequest, Send, AcceptedOnly, SendStored, StoredWithID, SendUnanswered, PortalHandle
  <1> QED
    BY <1>1, <1>2, <1>3, <1>4 DEF Next, User, SendText, SendMedia

LEMMA OwedStep ==
    ASSUME TypeInv, NEW keeps \in BOOLEAN, Settings(keeps), OrderInv(keeps), [Next]_vars,
           NEW r \in Rooms, NEW e \in IDs, e \in Owed(r, keeps)'
    PROVE  e \in Owed(r, keeps)
  <1>1. /\ e \in Theirs(r) /\ e \in RoomEvents(r) /\ e \in RoomEvents(r)'
        /\ e \notin stored \cup failed
    BY RoomsGrow, StoredStays, FailedStep DEF Owed, Theirs, TypeInv
  <1>2. CASE keeps
    BY <1>1, <1>2 DEF Owed
  <1>3. CASE ~keeps
    <2>1. /\ TokensInTurn /\ OnlyTheSync /\ ~Polling /\ MaxLogins = 0
      BY <1>3 DEF OrderInv, Settings
    <2>2. ASSUME e \in Gone(r) PROVE FALSE
      <3>1. NeverServed(r, e) /\ e \notin OnItsWay(r)
        BY <2>2 DEF Gone, NeverServed
      <3>2. NeverServed(r, e)'
        BY <2>1, <3>1, NeverServedStays
      <3>3. e \notin OnItsWay(r)'
        BY <2>1, <3>1, WayStep, TimelineIsServed
      <3>4. e \in Gone(r)'
        BY <1>1, <3>2, <3>3 DEF Gone, NeverServed
      <3> QED
        BY <1>3, <3>4 DEF Owed
    <2> QED
      BY <1>1, <1>3, <2>2 DEF Owed
  <1> QED
    BY <1>2, <1>3

(* No timeline and no batch leaves out what it has room for.               *)
LEMMA FewAfter ==
    ASSUME TypeOK, NEW S, S \subseteq IDs, NEW e \in IDs
    PROVE  Cardinality(After(S, e)) \in Nat /\ Cardinality(After(S, e)) < MaxEvents
  <1> DEFINE n == Len(stream)
             A == After(S, e)
             I == IDs \ {e}
  <1>1. n \in Nat /\ n <= MaxEvents /\ MaxEvents \in Nat
    BY BoundsAssumption DEF TypeOK
  <1>2. IsFiniteSet(IDs) /\ Cardinality(IDs) = n
    <2> HIDE DEF n
    <2>1. 1 \in Int /\ n \in Int
      BY <1>1
    <2>2. IsFiniteSet(1 .. n) /\ Cardinality(1 .. n) = IF 1 > n THEN 0 ELSE n - 1 + 1
      BY <2>1, FS_Interval
    <2> QED
      BY <1>1, <2>2 DEF IDs, n
  <1>3. IsFiniteSet(I) /\ Cardinality(I) = n - 1
    BY <1>2, FS_RemoveElement
  <1>4. A \subseteq I
    <2>1. \A d \in S : d \in Nat /\ e \in Nat /\ (d > e => d # e)
      BY <1>1 DEF IDs
    <2> QED
      BY <2>1 DEF After
  <1>5. Cardinality(A) \in Nat /\ Cardinality(A) <= Cardinality(I)
    BY <1>3, <1>4, FS_Subset, FS_CardinalityType
  <1> HIDE DEF n, A, I
  <1> QED
    BY <1>1, <1>3, <1>5 DEF A

(* What a response leaves out of what is owed was queued before.           *)
LEMMA ResponseOffersAll ==
    ASSUME TypeInv, NEW keeps \in BOOLEAN, Settings(keeps), OrderInv(keeps), upto = 0,
           NEW r \in Rooms, Joined(r), NEW e \in Owed(r, keeps), e \notin ToSet(queue[r])
    PROVE  e \in Timeline(r, nextBatch)
  <1> DEFINE R == RoomEvents(r)
             N == News(r, nextBatch)
  <1>1. e \in R /\ e \in IDs /\ e \in Nat /\ nextBatch \in Nat
    BY DEF Owed, Theirs, RoomEvents, IDs, TypeInv, TypeOK
  <1>2. e \notin OnItsWay(r)
    <2>1. todo[r] = <<>> /\ todo[r] \in Seq(RoomEvents(r))
      BY DEF OrderInv, TokensInTurn, TypeInv, Belongs
    <2>2. ToSet(todo[r]) = {}
      BY <2>1, ElementsOfSeq
    <2> QED
      BY <2>2 DEF OnItsWay
  <1>3. ~Covered(r, e, nextBatch)
    BY <1>1, <1>2 DEF OrderInv, PassedOnItsWay
  <1>4. e \in N
    <2>1. CASE JoinIn(After(R, nextBatch))
      BY <1>1, <2>1 DEF News
    <2>2. CASE ~JoinIn(After(R, nextBatch)) /\ e > nextBatch
      BY <1>1, <2>2 DEF News, After
    <2>3. CASE ~JoinIn(After(R, nextBatch)) /\ e <= nextBatch
      <3>1. JoinedBy(r, nextBatch)
        BY <1>1, <2>3 DEF Joined, JoinedBy, JoinIn, After, RoomEvents, IDs
      <3> QED
        BY <1>3, <2>3, <3>1 DEF Covered
    <2> QED
      BY <1>1, <2>1, <2>2, <2>3
  <1>5. Cardinality(After(N, e)) \in Nat /\ Cardinality(After(N, e)) < MaxEvents
    BY <1>1, TimelineListed, FewAfter DEF TypeInv
  <1>6. Cardinality(After(N, e)) < TimelineLimit
    <2>1. CASE keeps
      <3>1. TimelineLimit >= MaxEvents
        BY <2>1 DEF Settings
      <3> HIDE DEF N
      <3> QED
        BY <1>5, <3>1, BoundsAssumption
    <2>2. CASE ~keeps
      <3>1. After(N, e) = After(R, e)
        <4>1. N = R \/ N = After(R, nextBatch)
          BY <1>4 DEF News
        <4> QED
          BY <1>1, <1>4, <4>1 DEF After, RoomEvents, IDs
      <3>2. ~Buried(r, e)
        BY <1>1, <1>2, <2>2 DEF Owed, Gone
      <3>3. ~(Cardinality(After(N, e)) >= TimelineLimit)
        BY <3>1, <3>2 DEF Buried
      <3> HIDE DEF N
      <3> QED
        BY <1>5, <3>3, BoundsAssumption
    <2> QED
      BY <2>1, <2>2
  <1> QED
    BY <1>4, <1>6 DEF Timeline, Newest

-----------------------------------------------------------------------------
(* The queues stay in turn, one step per action.                           *)
LEMMA StillInTurn ==
    ASSUME TypeInv, NEW keeps \in BOOLEAN, Settings(keeps), OrderInv(keeps), [Next]_vars,
           NEW r \in Rooms, NEW s \in Seq(IDs), NEW U, NoOvertaking(s, U),
           NEW V, V \subseteq Owed(r, keeps)', V \cap Owed(r, keeps) \subseteq U
    PROVE  NoOvertaking(s, V)
  <1>1. ASSUME NEW j \in 1 .. Len(s), NEW e \in V, e < s[j] PROVE e \in U
    <2>1. s[j] \in IDs /\ s[j] \in Nat
      BY ElementOfSeq DEF IDs
    <2>2. e \in IDs' /\ e \in Nat
      BY DEF Owed, Theirs, RoomEvents, IDs
    <2>3. e \in IDs
      <3>1. CASE e \notin IDs
        <4>1. s[j] < e
          BY <2>1, <2>2, <3>1, RoomsGrow DEF TypeInv
        <4> QED
          BY <1>1, <2>1, <2>2, <4>1
      <3> QED
        BY <3>1
    <2> QED
      BY <2>3, OwedStep
  <1> QED
    BY <1>1, FewerToOvertake

LEMMA QueuesInTurnStep ==
    ASSUME TypeInv, NEW keeps \in BOOLEAN, Settings(keeps), OrderInv(keeps), [Next]_vars
    PROVE  QueuesInTurn(keeps)'
  <1> USE DEF reddit, tokens, syncing, polled, portals, history, starts
  <1> SUFFICES ASSUME NEW r \in Rooms
               PROVE  /\ NoOvertaking(queue'[r], Owed(r, keeps)')
                      /\ NoOvertaking(todo'[r], Owed(r, keeps)' \ ToSet(queue'[r]))
                      /\ r = pollRoom' =>
                            NoOvertaking(pollTodo', Owed(r, keeps)' \ ToSet(queue'[r]))
    BY DEF QueuesInTurn
  <1> DEFINE U == Owed(r, keeps)
             Q == ToSet(queue[r])
             T == ToSet(queue'[r])
  <1>1. /\ NoOvertaking(queue[r], U) /\ NoOvertaking(todo[r], U \ Q)
        /\ r = pollRoom => NoOvertaking(pollTodo, U \ Q)
    BY DEF OrderInv, QueuesInTurn
  <1>2. /\ todo[r] \in Seq(IDs) /\ queue[r] \in Seq(IDs) /\ pollTodo \in Seq(IDs)
        /\ todo[r] \in Seq(RoomEvents(r)) /\ queue[r] \in Seq(RoomEvents(r))
        /\ todo \in [Rooms -> Seq(IDs)] /\ queue \in [Rooms -> Seq(IDs)]
        /\ TypeOK
    BY DEF TypeInv, TypeOK, Belongs
  <1>3. \A V : NoOvertaking(<<>>, V)
    BY DEF NoOvertaking
  <1>4. U' \cap U \subseteq U /\ (U' \ Q) \cap U \subseteq U \ Q
    OBVIOUS
  <1> HIDE DEF U, Q, T
  (* What does not change stays in turn.                                   *)
  <1>5. NoOvertaking(queue[r], U')
    BY <1>1, <1>2, <1>4, StillInTurn DEF U
  <1>6. ASSUME NEW B, (U' \ B) \cap U \subseteq U \ Q
        PROVE  /\ NoOvertaking(todo[r], U' \ B)
               /\ r = pollRoom => NoOvertaking(pollTodo, U' \ B)
    <2> DEFINE V == U' \ B
    <2>1. V \subseteq U' /\ V \cap U \subseteq U \ Q
      BY <1>6
    <2> HIDE DEF V
    <2>2. NoOvertaking(todo[r], V)
      BY <1>1, <1>2, <2>1, StillInTurn DEF U
    <2>3. r = pollRoom => NoOvertaking(pollTodo, V)
      BY <1>1, <1>2, <2>1, StillInTurn DEF U
    <2> QED
      BY <2>2, <2>3 DEF V
  <1>7. ASSUME UNCHANGED queue, todo' \in {todo, [q \in Rooms |-> <<>>]},
               r = pollRoom' => pollTodo' = <<>> \/ UNCHANGED polled
        PROVE  /\ NoOvertaking(queue'[r], U') /\ NoOvertaking(todo'[r], U' \ T)
               /\ r = pollRoom' => NoOvertaking(pollTodo', U' \ T)
    BY <1>3, <1>4, <1>5, <1>6, <1>7 DEF Q, T
  (* An event that joins the queue was in turn where it comes from.        *)
  <1>8. ASSUME NEW src \in Seq(RoomEvents(r)), src # <<>>, NoOvertaking(src, U \ Q),
               NEW queued \in BOOLEAN, Head(src) \in U => queued,
               queue'[r] = IF queued THEN Append(queue[r], Head(src)) ELSE queue[r]
        PROVE  /\ NoOvertaking(queue'[r], U')
               /\ NoOvertaking(Tail(src), U' \ T)
               /\ (U' \ T) \cap U \subseteq U \ Q
    <2>1. /\ Head(src) \in RoomEvents(r) /\ Head(src) \in IDs
          /\ Tail(src) \in Seq(RoomEvents(r)) /\ Tail(src) \in Seq(IDs)
      <3>1. RoomEvents(r) \subseteq IDs
        BY DEF RoomEvents
      <3> QED
        BY <1>8, <3>1, ElementsOfTail, SeqMonotonic
    <2>2. /\ \A e \in U \ Q : ~(e < Head(src))
          /\ NoOvertaking(Tail(src), (U \ Q) \ {Head(src)})
      BY <1>8, TailOvertakesNone
    <2>3. ToSet(Append(queue[r], Head(src))) = Q \cup {Head(src)}
      BY <1>2, <2>1, ElementsOfAppend DEF Q
    <2>4. T = IF queued THEN Q \cup {Head(src)} ELSE Q
      BY <1>8, <2>3 DEF Q, T
    <2>5. NoOvertaking(queue'[r], U')
      <3>1. CASE queued
        <4>1. NoOvertaking(Append(queue[r], Head(src)), U)
          BY <1>1, <1>2, <2>1, <2>2, AppendOvertakesNone DEF Q
        <4>2. Append(queue[r], Head(src)) \in Seq(IDs)
          BY <1>2, <2>1, AppendProperties
        <4> QED
          BY <1>4, <1>8, <3>1, <4>1, <4>2, StillInTurn DEF U
      <3>2. CASE ~queued
        BY <1>5, <1>8, <3>2
      <3> QED
        BY <3>1, <3>2
    <2>6. (U' \ T) \cap U \subseteq (U \ Q) \ {Head(src)}
      BY <1>8, <2>4
    <2>7. NoOvertaking(Tail(src), U' \ T)
      BY <2>1, <2>2, <2>6, StillInTurn DEF U
    <2> QED
      BY <2>5, <2>6, <2>7
  <1>9. ASSUME NEW q \in Rooms, HandleTimelineEvent(q)
        PROVE  /\ NoOvertaking(queue'[r], U') /\ NoOvertaking(todo'[r], U' \ T)
               /\ r = pollRoom' => NoOvertaking(pollTodo', U' \ T)
    <2>1. UNCHANGED polled
      BY <1>9 DEF HandleTimelineEvent
    <2>2. CASE q = r
      <3> DEFINE h == Head(todo[r])
      <3>1. /\ todo[r] # <<>> /\ todo'[r] = Tail(todo[r])
            /\ queue'[r] = IF Queued(h) THEN Append(queue[r], h) ELSE queue[r]
        BY <1>2, <1>9, <2>2 DEF HandleTimelineEvent
      <3>2. h \in U => Queued(h)
        BY DEF U, Owed, Theirs, Message, Queued
      <3>3. Queued(h) \in BOOLEAN
        BY DEF Queued
      <3> HIDE DEF h
      <3>4. /\ NoOvertaking(queue'[r], U') /\ NoOvertaking(Tail(todo[r]), U' \ T)
            /\ (U' \ T) \cap U \subseteq U \ Q
        BY <1>1, <1>2, <1>8, <3>1, <3>2, <3>3 DEF h
      <3> QED
        BY <1>6, <2>1, <3>1, <3>4
    <2>3. CASE q # r
      <3>1. queue'[r] = queue[r] /\ todo'[r] = todo[r]
        BY <1>2, <1>9, <2>3 DEF HandleTimelineEvent
      <3> QED
        BY <1>4, <1>5, <1>6, <2>1, <3>1 DEF Q, T
    <2> QED
      BY <2>2, <2>3
  <1>10. ASSUME PollEvent
         PROVE  /\ NoOvertaking(queue'[r], U') /\ NoOvertaking(todo'[r], U' \ T)
                /\ r = pollRoom' => NoOvertaking(pollTodo', U' \ T)
    <2>1. keeps /\ OnlyText
      BY <1>10 DEF PollEvent, OrderInv, OnlyTheSync
    <2>2. UNCHANGED todo /\ pollTodo # <<>> /\ pollTodo' = Tail(pollTodo) /\ pollRoom' \in {pollRoom, NoRoom}
      BY <1>10 DEF PollEvent
    <2>3. NoRoom \notin Rooms
      BY RoomsAssumption
    <2>4. CASE r = pollRoom
      <3> DEFINE h == Head(pollTodo)
      <3>1. queue'[r] = IF stream[h].kind = "text" THEN Append(queue[r], h) ELSE queue[r]
        BY <1>2, <1>10, <2>4 DEF PollEvent
      <3>2. pollTodo \in Seq(RoomEvents(r))
        BY <2>4 DEF TypeInv, Belongs
      <3>3. h \in U => stream[h].kind = "text"
        BY <2>1 DEF U, Owed, Theirs, RoomEvents, OnlyText
      <3>4. (stream[h].kind = "text") \in BOOLEAN
        OBVIOUS
      <3> HIDE DEF h
      <3>5. /\ NoOvertaking(queue'[r], U') /\ NoOvertaking(Tail(pollTodo), U' \ T)
            /\ (U' \ T) \cap U \subseteq U \ Q
        BY <1>1, <1>8, <2>2, <2>4, <3>1, <3>2, <3>3, <3>4 DEF h
      <3>6. NoOvertaking(todo[r], U' \ T)
        BY <1>6, <3>5
      <3> QED
        BY <2>2, <3>5, <3>6
    <2>5. CASE r # pollRoom
      <3>1. queue'[r] = queue[r]
        BY <1>2, <1>10, <2>5 DEF PollEvent
      <3>2. NoOvertaking(todo[r], U' \ Q) /\ T = Q
        BY <1>4, <1>6, <3>1 DEF Q, T
      <3>3. r # pollRoom'
        BY <2>2, <2>3, <2>5
      <3> QED
        BY <1>5, <2>2, <3>1, <3>2, <3>3
    <2> QED
      BY <2>4, <2>5
  <1>11. ASSUME PollFetch
         PROVE  /\ NoOvertaking(queue'[r], U') /\ NoOvertaking(todo'[r], U' \ T)
                /\ r = pollRoom' => NoOvertaking(pollTodo', U' \ T)
    <2>1. UNCHANGED <<queue, todo>> /\ pollTodo' = Chunk(pollRoom) /\ pollRoom' \in {pollRoom, NoRoom}
      BY <1>11 DEF PollFetch
    <2>2. keeps
      BY <1>11 DEF PollFetch, OrderInv, OnlyTheSync
    <2>3. NoOvertaking(Chunk(r), U \ Q)
      <3> DEFINE R == RoomEvents(r)
                 S == Newest(R, BackfillBatchSize)
      <3>1. R \subseteq IDs /\ S \subseteq R
        BY DEF RoomEvents, Newest
      <3>2. BackfillBatchSize >= MaxEvents
        BY <2>2 DEF Settings
      <3>3. \A e \in R : Cardinality(After(R, e)) < BackfillBatchSize
        <4>1. \A e \in R : Cardinality(After(R, e)) \in Nat /\ Cardinality(After(R, e)) < MaxEvents
          BY <1>2, <3>1, FewAfter
        <4> HIDE DEF R
        <4> QED
          BY <3>2, <4>1, BoundsAssumption
      <3>4. \A e \in U \ Q : e \in S
        BY <3>3 DEF U, Owed, Theirs, Newest
      <3>5. S \in SUBSET Nat /\ IsFiniteSet(S) /\ OldestFirst[S] = InOrder(S)
        BY <1>2, <3>1, Listed
      <3>6. NoOvertaking(InOrder(S), U \ Q)
        BY <3>4, <3>5, InOrderOvertakesNone
      <3> QED
        BY <1>2, <3>5, <3>6, ChunkListed
    <2>4. Chunk(r) \in Seq(IDs)
      <3>1. RoomEvents(r) \subseteq IDs
        BY DEF RoomEvents
      <3> QED
        BY <1>2, <3>1, ChunkListed, SeqMonotonic
    <2>5. NoOvertaking(Chunk(r), U' \ Q)
      BY <1>4, <2>3, <2>4, StillInTurn DEF U
    <2>6. NoOvertaking(todo[r], U' \ Q) /\ T = Q
      BY <1>4, <1>6, <2>1 DEF Q, T
    <2>7. r = pollRoom' => pollTodo' = Chunk(r)
      BY <2>1, RoomsAssumption
    <2> QED
      BY <1>5, <2>1, <2>5, <2>6, <2>7
  <1>12. ASSUME NEW q \in Rooms, PollPick(q)
         PROVE  /\ NoOvertaking(queue'[r], U') /\ NoOvertaking(todo'[r], U' \ T)
                /\ r = pollRoom' => NoOvertaking(pollTodo', U' \ T)
    BY <1>7, <1>12 DEF PollPick
  <1>13. ASSUME NEW q \in Rooms, PortalHandle(q)
         PROVE  /\ NoOvertaking(queue'[r], U') /\ NoOvertaking(todo'[r], U' \ T)
                /\ r = pollRoom' => NoOvertaking(pollTodo', U' \ T)
    <2>1. UNCHANGED <<todo, polled>>
      BY <1>13 DEF PortalHandle
    <2>2. CASE q = r
      <3>1. PICK h : h = Head(queue[r])
        OBVIOUS
      <3>2. /\ queue[r] # <<>> /\ queue'[r] = Tail(queue[r])
            /\ Message(h) => h \in stored' \cup failed'
        BY <1>2, <1>13, <2>2, <3>1 DEF PortalHandle
      <3>3. h \in RoomEvents(r) /\ Tail(queue[r]) \in Seq(IDs) /\ Q = T \cup {h}
        BY <1>2, <3>1, <3>2, ElementsOfTail DEF Q, T
      <3>4. h \notin U'
        <4>1. Message(h)' <=> Message(h)
          BY <1>2, <3>3, EventsStay DEF RoomEvents
        <4>2. h \in U' => Message(h)' /\ h \notin stored' \cup failed'
          BY DEF U, Owed, Theirs
        <4> QED
          BY <3>2, <4>1, <4>2
      <3>5. NoOvertaking(Tail(queue[r]), U \ {h})
        BY <1>1, <1>2, <3>1, <3>2, TailOvertakesNone
      <3>6. NoOvertaking(Tail(queue[r]), U')
        <4>1. U' \cap U \subseteq U \ {h}
          BY <3>4
        <4> QED
          BY <3>3, <3>5, <4>1, StillInTurn DEF U
      <3>7. (U' \ T) \cap U \subseteq U \ Q
        BY <3>3, <3>4
      <3> QED
        BY <1>6, <2>1, <3>2, <3>6, <3>7
    <2>3. CASE q # r
      <3>1. queue'[r] = queue[r]
        BY <1>2, <1>13, <2>3 DEF PortalHandle
      <3> QED
        BY <1>4, <1>5, <1>6, <2>1, <3>1 DEF Q, T
    <2> QED
      BY <2>2, <2>3
  <1>14. ASSUME SyncResponse
         PROVE  /\ NoOvertaking(queue'[r], U') /\ NoOvertaking(todo'[r], U' \ T)
                /\ r = pollRoom' => NoOvertaking(pollTodo', U' \ T)
    <2> DEFINE L == Timeline(r, nextBatch)
    <2>1. UNCHANGED <<queue, polled>> /\ upto = 0 /\ todo'[r] = OldestFirst[L]
      BY <1>14 DEF SyncResponse, InTurn
    <2>2. L \subseteq IDs /\ L \subseteq News(r, nextBatch)
      BY <1>2, TimelineListed
    <2>3. L \in SUBSET Nat /\ IsFiniteSet(L) /\ OldestFirst[L] = InOrder(L)
      BY <1>2, <2>2, Listed
    <2>4. \A e \in U \ Q, d \in L : e \in L
      <3>1. L # {} => Joined(r)
        BY <2>2 DEF News
      <3> QED
        BY <2>1, <3>1, ResponseOffersAll DEF U, Q
    <2>5. OldestFirst[L] \in Seq(IDs)
      <3>1. OldestFirst[L] \in Seq(L)
        BY <1>2, <2>2, Listed
      <3> QED
        BY <2>2, <3>1, SeqMonotonic
    <2> HIDE DEF L
    <2>6. NoOvertaking(OldestFirst[L], U \ Q)
      BY <2>3, <2>4, InOrderOvertakesNone
    <2>7. NoOvertaking(OldestFirst[L], U' \ Q)
      <3>1. (U' \ Q) \cap U \subseteq U \ Q /\ U' \ Q \subseteq U'
        OBVIOUS
      <3> QED
        BY <2>5, <2>6, <3>1, StillInTurn DEF U
    <2>8. T = Q /\ (r = pollRoom => NoOvertaking(pollTodo, U' \ Q))
      BY <1>4, <1>6, <2>1 DEF Q, T
    <2> QED
      BY <1>5, <2>1, <2>7, <2>8
  <1>15. ASSUME Crash
         PROVE  /\ NoOvertaking(queue'[r], U') /\ NoOvertaking(todo'[r], U' \ T)
                /\ r = pollRoom' => NoOvertaking(pollTodo', U' \ T)
    <2>1. queue'[r] = <<>> /\ todo'[r] = <<>> /\ pollTodo' = <<>>
      BY <1>15 DEF Crash
    <2> QED
      BY <1>3, <2>1
  <1>16. ASSUME FinishSync \/ SaveMetadata \/ PollError \/ Relogin \/ UNCHANGED vars
         PROVE  /\ NoOvertaking(queue'[r], U') /\ NoOvertaking(todo'[r], U' \ T)
                /\ r = pollRoom' => NoOvertaking(pollTodo', U' \ T)
    BY <1>7, <1>16 DEF FinishSync, SaveMetadata, PollError, Relogin, vars
  <1>17. ASSUME NEW q \in Rooms, NEW k, Post(q, k) \/ SendMessage(q, k)
         PROVE  /\ NoOvertaking(queue'[r], U') /\ NoOvertaking(todo'[r], U' \ T)
                /\ r = pollRoom' => NoOvertaking(pollTodo', U' \ T)
    BY <1>7, <1>17 DEF Post, SendMessage
  <1>18. ASSUME NEW q \in Rooms, AcceptRequest(q) \/ Send(q)
         PROVE  /\ NoOvertaking(queue'[r], U') /\ NoOvertaking(todo'[r], U' \ T)
                /\ r = pollRoom' => NoOvertaking(pollTodo', U' \ T)
    BY <1>7, <1>18 DEF AcceptRequest, Send, AcceptedOnly, SendStored, SendUnanswered
  <1>19. /\ NoOvertaking(queue'[r], U') /\ NoOvertaking(todo'[r], U' \ T)
         /\ r = pollRoom' => NoOvertaking(pollTodo', U' \ T)
    BY <1>9, <1>10, <1>11, <1>12, <1>13, <1>14, <1>15, <1>16, <1>17, <1>18
       DEF Next, Sync, Poll, User, SendText, SendMedia
  <1> QED
    BY <1>19 DEF U, T

-----------------------------------------------------------------------------
(* What is owed and on its way stays so, except where the bridge starts    *)
(* over from a token that has not left it behind.                          *)
LEMMA OwedStaysOnItsWay ==
    ASSUME TypeInv, NEW keeps \in BOOLEAN, Settings(keeps), OrderInv(keeps), [Next]_vars,
           ~Crash, ~Relogin, NEW r \in Rooms, NEW e \in OnItsWay(r), e \in Owed(r, keeps)'
    PROVE  e \in OnItsWay(r)'
  <1> USE DEF OnItsWay, reddit, tokens, syncing, polled, portals, history, starts
  <1>1. /\ todo[r] \in Seq(RoomEvents(r)) /\ queue[r] \in Seq(RoomEvents(r))
        /\ todo \in [Rooms -> Seq(IDs)] /\ queue \in [Rooms -> Seq(IDs)]
    BY DEF TypeInv, TypeOK, Belongs
  <1>2. Message(e)' /\ e \notin stored' \cup failed'
    BY DEF Owed, Theirs
  <1>3. e \in IDs /\ Message(e)
    <2>1. e \in RoomEvents(r)
      BY <1>1, ElementsOfSeq
    <2> QED
      BY <1>2, <2>1, EventsStay DEF RoomEvents, TypeInv
  <1>4. ASSUME UNCHANGED <<queue, todo>> PROVE e \in OnItsWay(r)'
    BY <1>4
  <1>5. CASE SyncResponse
    <2>1. todo[r] = <<>>
      BY <1>5 DEF SyncResponse, OrderInv, TokensInTurn
    <2>2. ToSet(todo[r]) = {}
      BY <1>1, <2>1, ElementsOfSeq
    <2> QED
      BY <1>5, <2>2 DEF SyncResponse
  <1>6. ASSUME NEW q \in Rooms, HandleTimelineEvent(q) PROVE e \in OnItsWay(r)'
    <2>1. CASE q # r
      BY <1>1, <1>6, <2>1 DEF HandleTimelineEvent
    <2>2. CASE q = r
      <3>1. /\ Head(todo[r]) \in RoomEvents(r)
            /\ ToSet(todo[r]) = ToSet(Tail(todo[r])) \cup {Head(todo[r])}
        BY <1>1, <1>6, <2>2, ElementsOfTail DEF HandleTimelineEvent
      <3>2. ToSet(Append(queue[r], Head(todo[r]))) = ToSet(queue[r]) \cup {Head(todo[r])}
        BY <1>1, <3>1, ElementsOfAppend
      <3>3. /\ todo'[r] = Tail(todo[r])
            /\ queue'[r] = IF Queued(Head(todo[r])) THEN Append(queue[r], Head(todo[r])) ELSE queue[r]
        BY <1>1, <1>6, <2>2 DEF HandleTimelineEvent
      <3>4. Queued(e)
        BY <1>3 DEF Message, Queued
      <3> QED
        BY <3>1, <3>2, <3>3, <3>4
    <2> QED
      BY <2>1, <2>2
  <1>7. ASSUME NEW q \in Rooms, PortalHandle(q) PROVE e \in OnItsWay(r)'
    <2>1. CASE q # r
      BY <1>1, <1>7, <2>1 DEF PortalHandle
    <2>2. CASE q = r
      <3>1. queue[r] # <<>> /\ queue'[r] = Tail(queue[r]) /\ UNCHANGED todo
        BY <1>1, <1>7, <2>2 DEF PortalHandle
      <3>2. ToSet(queue[r]) = ToSet(Tail(queue[r])) \cup {Head(queue[r])}
        BY <1>1, <3>1, ElementsOfTail
      <3>3. e # Head(queue[r])
        BY <1>2, <1>3, <1>7, <2>2 DEF PortalHandle
      <3> QED
        BY <3>1, <3>2, <3>3
    <2> QED
      BY <2>1, <2>2
  <1>8. CASE PollEvent
    <2>1. CASE r # pollRoom
      BY <1>1, <1>8, <2>1 DEF PollEvent
    <2>2. CASE r = pollRoom
      <3>1. Head(pollTodo) \in RoomEvents(r)
        BY <1>8, <2>2, ElementsOfTail DEF PollEvent, TypeInv, Belongs
      <3>2. ToSet(Append(queue[r], Head(pollTodo))) = ToSet(queue[r]) \cup {Head(pollTodo)}
        BY <1>1, <3>1, ElementsOfAppend
      <3>3. UNCHANGED todo /\ queue'[r] \in {queue[r], Append(queue[r], Head(pollTodo))}
        BY <1>1, <1>8, <2>2 DEF PollEvent
      <3> QED
        BY <3>2, <3>3
    <2> QED
      BY <2>1, <2>2
  <1>9. CASE FinishSync \/ SaveMetadata \/ PollFetch \/ PollError \/ UNCHANGED vars
    BY <1>4, <1>9 DEF FinishSync, SaveMetadata, PollFetch, PollError, vars
  <1>10. ASSUME NEW q \in Rooms, NEW k, Post(q, k) \/ SendMessage(q, k) PROVE e \in OnItsWay(r)'
    BY <1>4, <1>10 DEF Post, SendMessage
  <1>11. ASSUME NEW q \in Rooms, AcceptRequest(q) \/ Send(q) \/ PollPick(q) PROVE e \in OnItsWay(r)'
    BY <1>4, <1>11 DEF AcceptRequest, Send, AcceptedOnly, SendStored, SendUnanswered, PollPick
  <1> QED
    BY <1>5, <1>6, <1>7, <1>8, <1>9, <1>10, <1>11 DEF Next, Sync, Poll, User, SendText, SendMedia

LEMMA PassedOnItsWayStep ==
    ASSUME TypeInv, NEW keeps \in BOOLEAN, Settings(keeps), OrderInv(keeps), [Next]_vars
    PROVE  PassedOnItsWay(keeps)'
  <1> USE DEF reddit, tokens, syncing, polled, portals, history, starts
  <1> SUFFICES ASSUME NEW r \in Rooms, NEW e \in IDs', NEW n \in {nextBatch', upto'},
                      e \in Owed(r, keeps)', Covered(r, e, n)'
               PROVE  e \in OnItsWay(r)'
    BY DEF PassedOnItsWay
  <1>1. /\ TypeOK /\ Len(stream) \in Nat
        /\ {saved, nextBatch, upto, Len(stream), 0} \subseteq 0 .. Len(stream)
    BY DEF TypeInv, TypeOK
  <1>2. e \in Nat \ {0} /\ e <= n
    BY DEF Covered, IDs
  <1>3. n # 0
    BY <1>2
  <1>4. ASSUME n \in 0 .. Len(stream)
        PROVE  e \in IDs /\ e \in Owed(r, keeps) /\ Covered(r, e, n)
    <2>1. e \in IDs
      BY <1>1, <1>2, <1>4 DEF IDs
    <2> QED
      BY <1>1, <1>4, <2>1, OwedStep, CoveredStays
  <1>5. ASSUME n \in {nextBatch, upto}, ~Crash, ~Relogin PROVE e \in OnItsWay(r)'
    <2>1. e \in IDs /\ e \in Owed(r, keeps) /\ Covered(r, e, n)
      BY <1>1, <1>4, <1>5
    <2>2. e \in OnItsWay(r)
      BY <1>5, <2>1 DEF OrderInv, PassedOnItsWay
    <2> QED
      BY <1>5, <2>2, OwedStaysOnItsWay
  <1>6. SyncResponse \/ FinishSync => ~Crash /\ ~Relogin
    <2>1. crashes \in Nat /\ logins \in Nat
      BY <1>1, BoundsAssumption DEF TypeOK
    <2> QED
      BY <2>1 DEF SyncResponse, FinishSync, Crash, Relogin
  <1>7. CASE SyncResponse
    <2>1. nextBatch' = nextBatch /\ upto' = Len(stream) /\ upto = 0 /\ UNCHANGED queue
      BY <1>7 DEF SyncResponse
    <2>2. CASE n = nextBatch
      BY <1>5, <1>6, <1>7, <2>2
    <2>3. CASE n = Len(stream)
      <3>1. e \in Owed(r, keeps) /\ JoinedBy(r, n)
        BY <1>1, <1>4, <2>3 DEF Covered
      <3>2. Joined(r)
        BY <2>3, <3>1 DEF JoinedBy, Joined, RoomEvents, IDs
      <3>3. CASE e \in ToSet(queue[r])
        BY <2>1, <3>3 DEF OnItsWay
      <3>4. CASE e \notin ToSet(queue[r])
        <4>1. e \in Timeline(r, nextBatch)
          BY <2>1, <3>1, <3>2, <3>4, ResponseOffersAll
        <4>2. todo'[r] = OldestFirst[Timeline(r, nextBatch)]
          BY <1>7 DEF SyncResponse, InTurn
        <4>3. e \in ToSet(todo'[r])
          BY <1>1, <4>1, <4>2, TimelineListed
        <4> QED
          BY <4>3 DEF OnItsWay
      <3> QED
        BY <3>3, <3>4
    <2> QED
      BY <2>1, <2>2, <2>3
  <1>8. CASE FinishSync
    <2>1. n = upto
      BY <1>3, <1>8 DEF FinishSync
    <2> QED
      BY <1>1, <1>3, <1>5, <1>6, <1>8, <2>1
  (* The loss of a queue: what the token has left behind is not served     *)
  (* again.                                                                *)
  <1>9. CASE Crash
    <2>1. ~keeps
      BY <1>9 DEF Crash, Settings, TypeInv, TypeOK
    <2>2. n = saved' /\ queue'[r] = <<>> /\ todo'[r] = <<>>
      BY <1>3, <1>9 DEF Crash
    <2>3. e \notin Gone(r)' /\ e \in RoomEvents(r)'
      BY <2>1 DEF Owed, Theirs
    <2>4. Covered(r, e, saved)'
      BY <2>2
    <2> QED
      BY <2>3, <2>4 DEF Gone
  <1>10. CASE Relogin
    <2>1. n = 0
      BY <1>10 DEF Relogin
    <2> QED
      BY <1>3, <2>1
  <1>11. ASSUME UNCHANGED <<nextBatch, upto>>, ~Crash, ~Relogin PROVE e \in OnItsWay(r)'
    BY <1>5, <1>11
  <1>12. ASSUME NEW q \in Rooms, NEW k, Post(q, k) \/ SendMessage(q, k)
         PROVE  UNCHANGED <<nextBatch, upto>>
    BY <1>12 DEF Post, SendMessage
  <1>13. ASSUME NEW q \in Rooms,
                AcceptRequest(q) \/ Send(q) \/ PortalHandle(q) \/ HandleTimelineEvent(q)
         PROVE  UNCHANGED <<nextBatch, upto>>
    BY <1>13 DEF AcceptRequest, Send, AcceptedOnly, SendStored, SendUnanswered, PortalHandle,
                 HandleTimelineEvent
  <1>14. ASSUME Poll \/ SaveMetadata \/ UNCHANGED vars PROVE UNCHANGED <<nextBatch, upto>>
    BY <1>14 DEF Poll, PollPick, PollFetch, PollError, PollEvent, SaveMetadata, vars
  <1> QED
    BY <1>7, <1>8, <1>9, <1>10, <1>11, <1>12, <1>13, <1>14 DEF Next, Sync, User, SendText, SendMedia

LEMMA ShownBeforeOwedStep ==
    ASSUME TypeInv, NEW keeps \in BOOLEAN, Settings(keeps), OrderInv(keeps), [Next]_vars
    PROVE  ShownBeforeOwed(keeps)'
  <1> USE DEF reddit, tokens, syncing, polled, portals, history, starts
  <1>1. ASSUME NEW r \in Rooms
        PROVE  /\ ToSet(shown[r]) \subseteq stored' \cap Theirs(r)'
               /\ \A g \in ToSet(shown[r]), e \in Owed(r, keeps)' : g < e
    <2>1. /\ ToSet(shown[r]) \subseteq stored \cap Theirs(r)
          /\ \A g \in ToSet(shown[r]), e \in Owed(r, keeps) : g < e
      BY DEF OrderInv, ShownBeforeOwed
    <2>2. stored \subseteq stored' /\ Theirs(r) \subseteq Theirs(r)' /\ Theirs(r) \subseteq IDs
      BY StoredStays, RoomsGrow DEF TypeInv, Theirs, RoomEvents
    <2>3. ASSUME NEW g \in ToSet(shown[r]), NEW e \in Owed(r, keeps)' PROVE g < e
      <3>1. g \in IDs /\ e \in IDs'
        BY <2>1, <2>2 DEF Owed, Theirs, RoomEvents
      <3>2. CASE e \in IDs
        BY <2>1, <3>2, OwedStep
      <3>3. CASE e \notin IDs
        BY <3>1, <3>3, RoomsGrow DEF TypeInv
      <3> QED
        BY <3>2, <3>3
    <2> QED
      BY <2>1, <2>2, <2>3
  <1>2. CASE UNCHANGED shown
    BY <1>1, <1>2 DEF ShownBeforeOwed
  <1>3. ASSUME NEW q \in Rooms, PortalHandle(q) PROVE ShownBeforeOwed(keeps)'
    <2>1. CASE UNCHANGED shown
      BY <1>2, <2>1
    <2>2. CASE ~UNCHANGED shown
      <3>1. PICK f : f = Head(queue[q])
        OBVIOUS
      <3>2. /\ queue[q] # <<>> /\ Message(f) /\ ~stream[f].own /\ f \in stored'
            /\ shown' = [shown EXCEPT ![q] = Append(@, f)]
        BY <1>3, <2>2, <3>1 DEF PortalHandle
      <3>3. queue[q] \in Seq(RoomEvents(q)) /\ shown[q] \in Seq(RoomEvents(q))
            /\ shown \in [Rooms -> Seq(IDs)] /\ TypeOK
        BY DEF TypeInv, TypeOK, Belongs
      <3>4. f \in RoomEvents(q) /\ f \in IDs
        BY <3>1, <3>2, <3>3, ElementsOfTail DEF RoomEvents
      <3>5. f \in Theirs(q)'
        BY <3>2, <3>3, <3>4, RoomsGrow DEF Theirs
      <3>6. ToSet(shown'[q]) = ToSet(shown[q]) \cup {f} /\ \A r \in Rooms \ {q} : shown'[r] = shown[r]
        BY <3>2, <3>3, <3>4, ElementsOfAppend
      <3>7. ASSUME NEW e \in Owed(q, keeps)' PROVE f < e
        <4>1. e \in IDs' /\ e \notin stored'
          BY DEF Owed, Theirs, RoomEvents
        <4>2. CASE e \in IDs
          <5>1. e \in Owed(q, keeps)
            BY <4>2, OwedStep
          <5>2. ~(e < f)
            BY <3>1, <3>2, <3>3, <5>1, TailOvertakesNone DEF OrderInv, QueuesInTurn
          <5>3. e # f /\ e \in Nat /\ f \in Nat
            BY <3>2, <3>4, <4>1, <4>2 DEF IDs
          <5> QED
            BY <5>2, <5>3
        <4>3. CASE e \notin IDs
          BY <3>3, <3>4, <4>1, <4>3, RoomsGrow
        <4> QED
          BY <4>2, <4>3
      <3> QED
        BY <1>1, <3>2, <3>5, <3>6, <3>7 DEF ShownBeforeOwed
    <2> QED
      BY <2>1, <2>2
  <1>4. CASE Sync \/ Poll \/ Crash \/ Relogin \/ UNCHANGED vars
    <2>1. UNCHANGED shown
      BY <1>4 DEF Sync, SyncResponse, FinishSync, SaveMetadata, HandleTimelineEvent, Poll,
                  PollPick, PollFetch, PollError, PollEvent, Crash, Relogin, vars
    <2> QED
      BY <1>2, <2>1
  <1>5. ASSUME NEW r \in Rooms, NEW k, Post(r, k) \/ SendMessage(r, k) PROVE UNCHANGED shown
    BY <1>5 DEF Post, SendMessage
  <1>6. ASSUME NEW r \in Rooms, AcceptRequest(r) \/ Send(r) PROVE UNCHANGED shown
    BY <1>6 DEF AcceptRequest, Send, AcceptedOnly, SendStored, SendUnanswered
  <1> QED
    BY <1>2, <1>3, <1>4, <1>5, <1>6 DEF Next, User, SendText, SendMedia

-----------------------------------------------------------------------------
LEMMA OrderInvInit ==
    ASSUME Init, NEW keeps \in BOOLEAN, Settings(keeps)
    PROVE  OrderInv(keeps)
  <1>1. \A V : NoOvertaking(<<>>, V)
    BY DEF NoOvertaking
  <1>2. QueuesInTurn(keeps)
    BY <1>1 DEF Init, QueuesInTurn
  <1>3. PassedOnItsWay(keeps)
    BY DEF Init, PassedOnItsWay, Covered, IDs
  <1>4. ShownBeforeOwed(keeps)
    <2>1. ASSUME NEW r \in Rooms PROVE ToSet(shown[r]) = {}
      <3>1. shown[r] = <<>> /\ shown[r] \in Seq({})
        BY DEF Init
      <3> QED
        BY <3>1, ElementsOfSeq
    <2> QED
      BY <2>1 DEF ShownBeforeOwed
  <1>5. TokensInTurn /\ OnlyTheSync /\ FailedAreMedia
    BY DEF Init, TokensInTurn, OnlyTheSync, FailedAreMedia
  <1>6. OnlyText
    BY InitialStream DEF OnlyText, Theirs, Message
  <1> QED
    BY <1>2, <1>3, <1>4, <1>5, <1>6 DEF OrderInv

LEMMA OrderInvStep ==
    ASSUME TypeInv, NEW keeps \in BOOLEAN, Settings(keeps), OrderInv(keeps), [Next]_vars
    PROVE  OrderInv(keeps)'
  <1>1. QueuesInTurn(keeps)' /\ PassedOnItsWay(keeps)' /\ ShownBeforeOwed(keeps)'
    BY QueuesInTurnStep, PassedOnItsWayStep, ShownBeforeOwedStep
  <1>2. TokensInTurn' /\ FailedAreMedia'
    BY TokensInTurnStep, FailedAreMediaStep DEF OrderInv
  <1>3. keeps => OnlyText'
    BY OnlyTextStep DEF OrderInv, Settings, TypeInv
  <1>4. ~keeps => OnlyTheSync'
    BY OnlyTheSyncStep DEF OrderInv, Settings
  <1> QED
    BY <1>1, <1>2, <1>3, <1>4 DEF OrderInv

-----------------------------------------------------------------------------
(* What a step does to the two variables of Delivery.                      *)
LEMMA RanksStay ==
    ASSUME TypeOK, [Next]_vars, NEW r, NEW g \in IDs
    PROVE  Rank(Theirs(r)', g) = Rank(Theirs(r), g)
  <1>1. /\ Theirs(r) \subseteq IDs /\ Theirs(r)' \subseteq IDs' /\ g \in Nat
        /\ \A e \in IDs' : e \in Nat
    BY DEF Theirs, RoomEvents, IDs
  <1>2. \A e \in Theirs(r)' : e <= g => e \in Theirs(r)
    <2>1. \A e \in Theirs(r)' : e \notin IDs => g < e
      BY <1>1, RoomsGrow
    <2>2. \A e \in Theirs(r)' : g < e => ~(e <= g)
      BY <1>1
    <2> QED
      BY <1>1, <2>1, <2>2, RoomsGrow
  <1>3. UpTo(Theirs(r)', g) = UpTo(Theirs(r), g)
    BY <1>2, RoomsGrow DEF UpTo
  <1> QED
    BY <1>3 DEF Rank

LEMMA ShownStays ==
    ASSUME TypeInv, [Next]_vars, UNCHANGED shown
    PROVE  UNCHANGED Shown
  <1>1. ASSUME NEW r \in Rooms PROVE ShownTheirs(r)' = ShownTheirs(r)
    <2>1. shown[r] \in Seq(IDs) /\ shown'[r] = shown[r]
      BY DEF TypeInv, TypeOK
    <2>2. \A i \in 1 .. Len(shown[r]) : shown[r][i] \in IDs
      BY <2>1, ElementOfSeq
    <2>3. \A i \in 1 .. Len(shown[r]) :
             Rank(Theirs(r)', shown'[r][i]) = Rank(Theirs(r), shown[r][i])
      BY <2>1, <2>2, RanksStay DEF TypeInv
    <2> QED
      BY <2>1, <2>3 DEF ShownTheirs
  <1> QED
    BY <1>1 DEF Shown

LEMMA PostedStays ==
    ASSUME \A r \in Rooms : Theirs(r)' = Theirs(r)
    PROVE  UNCHANGED Posted
  BY DEF Posted

LEMMA SameTheirs ==
    ASSUME UNCHANGED stream
    PROVE  \A r : Theirs(r)' = Theirs(r)
  BY SameStream DEF Theirs, Message

(* Only a message of somebody else counts.                                 *)
LEMMA PostedGrows ==
    ASSUME TypeInv, [Next]_vars, NEW ev \in Events, stream' = Append(stream, ev)
    PROVE  \/ UNCHANGED Posted
           \/ \E r \in Rooms : Posted' = [Posted EXCEPT ![r] = @ + 1]
  <1> DEFINE n == Len(stream) + 1
             q == ev.room
             Counts == ev.kind \in {"text", "media"} /\ ~ev.own
  <1>1. /\ stream'[n] = ev /\ n \notin IDs /\ q \in Rooms
        /\ \A e \in IDs : stream'[e] = stream[e]
        /\ \A r : r # q => RoomEvents(r)' = RoomEvents(r)
        /\ RoomEvents(q)' = RoomEvents(q) \cup {n}
        /\ \A r : RoomEvents(r) \subseteq IDs
    <2>1. stream \in Seq(Events) /\ q \in Rooms
      BY DEF TypeInv, TypeOK, Events
    <2> QED
      BY <2>1, StreamGrows
  <1> HIDE DEF n, q
  <1>2. \A r \in Rooms : r # q => Theirs(r)' = Theirs(r)
    BY <1>1 DEF Theirs, Message
  <1>3. CASE ~Counts
    <2>1. Theirs(q)' = Theirs(q)
      BY <1>1, <1>3 DEF Theirs, Message
    <2> QED
      BY <1>2, <2>1, PostedStays
  <1>4. CASE Counts
    <2>1. Theirs(q)' = Theirs(q) \cup {n} /\ n \notin Theirs(q)
      BY <1>1, <1>4 DEF Theirs, Message
    <2>2. IsFiniteSet(Theirs(q))
      BY <1>1, Listed DEF Theirs, TypeInv
    <2>3. Cardinality(Theirs(q)') = Cardinality(Theirs(q)) + 1
      BY <2>1, <2>2, FS_AddElement
    <2>4. Posted' = [Posted EXCEPT ![q] = @ + 1]
      BY <1>1, <1>2, <2>3 DEF Posted
    <2> QED
      BY <1>1, <2>4
  <1> QED
    BY <1>3, <1>4

(* A portal shows one message, or the step shows none.                     *)
Shows(r, f) ==
    /\ PortalHandle(r) /\ queue[r] # <<>> /\ f = Head(queue[r]) /\ f \in Theirs(r) \ (stored \cup failed)
    /\ UNCHANGED stream /\ stored' = stored \cup {f}
    /\ shown' = [shown EXCEPT ![r] = Append(@, f)]

LEMMA ShowsOrNot ==
    ASSUME TypeInv, [Next]_vars
    PROVE  \/ UNCHANGED shown /\ \A r : Theirs(r)' \cap stored' \subseteq stored \cup failed
           \/ \E r \in Rooms, f \in IDs : Shows(r, f)
  <1> USE DEF reddit, tokens, syncing, polled, portals, history, starts
  <1> DEFINE Hides == UNCHANGED shown /\ \A r : Theirs(r)' \cap stored' \subseteq stored \cup failed
  <1>1. ASSUME NEW r \in Rooms, PortalHandle(r)
        PROVE  Hides \/ \E f \in IDs : Shows(r, f)
    <2>1. PICK f : f = Head(queue[r])
      OBVIOUS
    <2>2. f \in RoomEvents(r) /\ f \in IDs
      <3>1. queue[r] \in Seq(RoomEvents(r)) /\ queue[r] # <<>>
        BY <1>1 DEF PortalHandle, TypeInv, Belongs
      <3>2. f \in RoomEvents(r)
        BY <2>1, <3>1, ElementsOfTail
      <3> QED
        BY <3>2 DEF RoomEvents
    <2>3. \A q : Theirs(q)' = Theirs(q)
      BY <1>1, SameTheirs DEF PortalHandle
    <2>4. CASE UNCHANGED <<stored, shown>>
      BY <2>4
    <2>5. CASE /\ Message(f) /\ f \notin stored /\ stored' = stored \cup {f}
               /\ shown' = IF stream[f].own \/ f \in failed THEN shown
                           ELSE [shown EXCEPT ![r] = Append(@, f)]
      <3>1. CASE stream[f].own
        <4>1. \A q : f \notin Theirs(q)
          BY <3>1 DEF Theirs
        <4> QED
          BY <2>3, <2>5, <3>1, <4>1
      <3>2. CASE f \in failed
        BY <2>5, <3>2
      <3>3. CASE ~stream[f].own /\ f \notin failed
        BY <1>1, <2>1, <2>2, <2>5, <3>3 DEF PortalHandle, Shows, Theirs
      <3> QED
        BY <3>1, <3>2, <3>3
    <2> QED
      BY <1>1, <2>1, <2>4, <2>5 DEF PortalHandle
  <1>2. CASE Sync \/ Poll \/ Crash \/ Relogin \/ UNCHANGED vars
    BY <1>2 DEF Sync, SyncResponse, FinishSync, SaveMetadata, HandleTimelineEvent, Poll,
                PollPick, PollFetch, PollError, PollEvent, Crash, Relogin, vars
  <1>3. ASSUME NEW r \in Rooms, NEW k, Post(r, k) \/ SendMessage(r, k) PROVE Hides
    BY <1>3 DEF Post, SendMessage
  <1>4. ASSUME NEW r \in Rooms, AcceptRequest(r) \/ AcceptedOnly(r) \/ SendUnanswered(r)
        PROVE  Hides
    BY <1>4 DEF AcceptRequest, AcceptedOnly, SendUnanswered
  <1>5. ASSUME NEW r \in Rooms, SendStored(r) PROVE Hides
    <2>1. PICK e : e = OwnInFlight(r)
      OBVIOUS
    <2>2. stored' = stored \cup {e} /\ UNCHANGED shown /\ UNCHANGED stream
      BY <1>5, <2>1 DEF SendStored, StoredWithID
    <2>3. \A q : e \notin Theirs(q)
      BY <1>5, <2>1 DEF SendStored, TypeInv, AwaitsItsAnswer, Theirs
    <2> QED
      BY <2>2, <2>3, SameTheirs
  <1> HIDE DEF Hides
  <1>6. Hides \/ \E r \in Rooms, f \in IDs : Shows(r, f)
    BY <1>1, <1>2, <1>3, <1>4, <1>5 DEF Next, User, Send, SendText, SendMedia, Hides
  <1> QED
    BY <1>6 DEF Hides

LEMMA ShownAppended ==
    ASSUME TypeInv, [Next]_vars, NEW r \in Rooms, NEW f \in IDs, Shows(r, f)
    PROVE  /\ Shown' = [Shown EXCEPT ![r] = Append(@, Rank(Theirs(r), f))]
           /\ UNCHANGED Posted
  <1>1. UNCHANGED Posted
    BY SameTheirs, PostedStays DEF Shows
  <1>2. shown \in [Rooms -> Seq(IDs)] /\ shown[r] \in Seq(IDs)
    BY DEF TypeInv, TypeOK
  <1>3. shown'[r] = Append(shown[r], f) /\ \A q \in Rooms \ {r} : shown'[q] = shown[q]
    BY <1>2 DEF Shows
  <1>4. \A q : Theirs(q)' = Theirs(q)
    BY SameTheirs DEF Shows
  <1>5. \A q \in Rooms \ {r} : ShownTheirs(q)' = ShownTheirs(q)
    BY <1>3, <1>4 DEF ShownTheirs
  <1>6. ShownTheirs(r)' = Append(ShownTheirs(r), Rank(Theirs(r), f))
    <2> DEFINE s == shown[r]
               n == Len(s)
               T == Theirs(r)
    <2>1. /\ n \in Nat /\ Len(Append(s, f)) = n + 1 /\ Append(s, f)[n + 1] = f
          /\ \A i \in 1 .. n : Append(s, f)[i] = s[i]
      BY <1>2, AppendProperties
    <2>2. ShownTheirs(r)' = [i \in 1 .. n + 1 |-> Rank(T, Append(s, f)[i])]
      BY <1>3, <1>4, <2>1 DEF ShownTheirs
    <2>3. ShownTheirs(r) = [i \in 1 .. n |-> Rank(T, s[i])]
      BY DEF ShownTheirs
    <2> HIDE DEF s, n, T
    <2>4. [i \in 1 .. n + 1 |-> Rank(T, Append(s, f)[i])] =
             Append([i \in 1 .. n |-> Rank(T, s[i])], Rank(T, f))
      BY <2>1
    <2> QED
      BY <2>2, <2>3, <2>4 DEF T
  <1> QED
    BY <1>1, <1>5, <1>6 DEF Shown

(* What is shown is newer than anything shown before.                      *)
LEMMA NewerThanShown ==
    ASSUME TypeInv, NEW keeps \in BOOLEAN, OrderInv(keeps),
           NEW r \in Rooms, NEW f \in IDs, Shows(r, f)
    PROVE  /\ f \in Owed(r, keeps)
           /\ \A g \in ToSet(shown[r]) : g \in Theirs(r) /\ g < f
           /\ \A e \in Owed(r, keeps) : ~(e < f)
  <1>1. queue[r] \in Seq(IDs) /\ queue[r] # <<>> /\ f = Head(queue[r])
    BY DEF TypeInv, TypeOK, Shows
  <1>2. f \in ToSet(queue[r])
    BY <1>1, ElementsOfTail
  <1>3. f \in Owed(r, keeps)
    BY <1>2 DEF Owed, Gone, OnItsWay, Shows
  <1>4. \A e \in Owed(r, keeps) : ~(e < f)
    BY <1>1, TailOvertakesNone DEF OrderInv, QueuesInTurn
  <1> QED
    BY <1>3, <1>4 DEF OrderInv, ShownBeforeOwed

LEMMA TheirsListed ==
    ASSUME TypeOK, NEW r
    PROVE  Theirs(r) \in SUBSET Nat /\ IsFiniteSet(Theirs(r)) /\ Theirs(r) \subseteq IDs
  <1>1. Theirs(r) \subseteq IDs
    BY DEF Theirs, RoomEvents
  <1> QED
    BY <1>1, Listed

(* Where people post only texts, none of their messages fails to convert.  *)
LEMMA NoneFailed ==
    ASSUME OrderInv(TRUE), NEW r \in Rooms
    PROVE  Theirs(r) \cap failed = {}
  BY DEF OrderInv, OnlyText, FailedAreMedia, Theirs, RoomEvents

(* Without losses it is the one that follows what has been shown.          *)
LEMMA NextInTurn ==
    ASSUME TypeInv, OrderInv(TRUE), ShownAreFirst, NEW r \in Rooms, NEW f \in IDs, Shows(r, f)
    PROVE  Rank(Theirs(r), f) = Len(shown[r]) + 1
  <1> DEFINE T == Theirs(r)
             s == shown[r]
             m == Len(s)
             k(e) == Rank(T, e)
  <1>1. /\ s \in Seq(IDs) /\ m \in Nat
        /\ \A i \in 1 .. m : s[i] \in ToSet(s) /\ k(s[i]) = i
        /\ \A x \in ToSet(s) : \E i \in 1 .. m : s[i] = x
        /\ T \cap stored \subseteq ToSet(s)
    <2>1. s \in Seq(IDs)
      BY DEF TypeInv, TypeOK
    <2> QED
      BY <2>1, ElementsOfSeq DEF ShownAreFirst
  <1>2. /\ Cardinality(T) \in Nat
        /\ \A e \in T : k(e) \in 1 .. Cardinality(T)
        /\ \A d, e \in T : d < e => k(d) < k(e)
        /\ \A i \in 1 .. Cardinality(T) : \E e \in T : k(e) = i
        /\ \A e \in T : e \in Nat
    BY TheirsListed, RankProperties DEF TypeInv
  <1>3. /\ f \in T /\ \A g \in ToSet(s) : g \in T /\ g < f
        /\ \A e \in T \ stored : ~(e < f)
    BY NewerThanShown, NoneFailed DEF Shows, Owed
  <1> HIDE DEF T, s, m, k
  <1>4. k(f) > m
    <2>1. CASE m = 0
      BY <1>2, <1>3, <2>1
    <2>2. CASE m # 0
      <3>1. m \in 1 .. m
        BY <1>1, <2>2
      <3>2. k(s[m]) = m /\ k(s[m]) < k(f)
        BY <1>1, <1>2, <1>3, <3>1
      <3> QED
        BY <1>1, <1>2, <1>3, <3>2
    <2> QED
      BY <2>1, <2>2
  <1>5. ~(k(f) > m + 1)
    <2> SUFFICES ASSUME k(f) > m + 1 PROVE FALSE
      OBVIOUS
    <2>1. m + 1 \in 1 .. Cardinality(T)
      BY <1>1, <1>2, <1>3
    <2>2. PICK e \in T : k(e) = m + 1
      BY <1>2, <2>1
    <2>3. e # f /\ ~(f < e)
      <3>1. e # f
        BY <1>1, <1>2, <1>3, <2>2
      <3>2. f < e => k(f) < k(e)
        BY <1>2, <1>3
      <3> QED
        BY <1>1, <1>2, <1>3, <2>2, <3>1, <3>2
    <2>4. e < f
      BY <1>2, <1>3, <2>3
    <2>5. e \in ToSet(s)
      BY <1>1, <1>3, <2>4
    <2>6. PICK i \in 1 .. m : s[i] = e
      BY <1>1, <2>5
    <2> QED
      BY <1>1, <2>2, <2>6
  <1>6. k(f) = m + 1
    BY <1>1, <1>2, <1>3, <1>4, <1>5
  <1> QED
    BY <1>6 DEF T, s, m, k

LEMMA ShownAreFirstStep ==
    ASSUME TypeInv, OrderInv(TRUE), ShownAreFirst, [Next]_vars
    PROVE  ShownAreFirst'
  <1>1. \A r : Theirs(r)' \cap IDs \subseteq Theirs(r)
    BY RoomsGrow DEF TypeInv
  <1>2. stored \subseteq IDs /\ failed \subseteq IDs /\ shown \in [Rooms -> Seq(IDs)]
    BY DEF TypeInv, TypeOK
  <1>3. ASSUME UNCHANGED shown, \A r : Theirs(r)' \cap stored' \subseteq stored \cup failed
        PROVE  ShownAreFirst'
    <2>1. ASSUME NEW r \in Rooms PROVE Theirs(r)' \cap stored' \subseteq ToSet(shown'[r])
      BY <1>1, <1>2, <1>3, NoneFailed DEF ShownAreFirst
    <2>2. ASSUME NEW r \in Rooms, NEW i \in 1 .. Len(shown[r])
          PROVE  Rank(Theirs(r)', shown'[r][i]) = i
      <3>1. shown[r][i] \in IDs /\ Rank(Theirs(r), shown[r][i]) = i
        BY <1>2, ElementOfSeq DEF ShownAreFirst
      <3> QED
        BY <1>3, <3>1, RanksStay DEF TypeInv
    <2> QED
      BY <1>3, <2>1, <2>2 DEF ShownAreFirst
  <1>4. ASSUME NEW q \in Rooms, NEW f \in IDs, Shows(q, f)
        PROVE  ShownAreFirst'
    <2>1. \A r : Theirs(r)' = Theirs(r)
      BY <1>4, SameTheirs DEF Shows
    <2>2. /\ stored' = stored \cup {f} /\ f \in Theirs(q)
          /\ shown'[q] = Append(shown[q], f) /\ \A r \in Rooms \ {q} : shown'[r] = shown[r]
      BY <1>2, <1>4 DEF Shows
    <2>3. \A r \in Rooms \ {q} : f \notin Theirs(r)
      BY <2>2 DEF Theirs, RoomEvents
    <2>4. ASSUME NEW r \in Rooms \ {q}
          PROVE  /\ Theirs(r)' \cap stored' \subseteq ToSet(shown'[r])
                 /\ \A i \in 1 .. Len(shown'[r]) : Rank(Theirs(r)', shown'[r][i]) = i
      BY <2>1, <2>2, <2>3 DEF ShownAreFirst
    <2>5. Theirs(q)' \cap stored' \subseteq ToSet(shown'[q])
      <3>1. ToSet(shown'[q]) = ToSet(shown[q]) \cup {f}
        BY <1>2, <2>2, ElementsOfAppend
      <3> QED
        BY <2>1, <2>2, <3>1 DEF ShownAreFirst
    <2>6. ASSUME NEW i \in 1 .. Len(shown'[q]) PROVE Rank(Theirs(q)', shown'[q][i]) = i
      <3>1. /\ Len(shown[q]) \in Nat /\ Len(shown'[q]) = Len(shown[q]) + 1
            /\ shown'[q][Len(shown[q]) + 1] = f
            /\ \A j \in 1 .. Len(shown[q]) : shown'[q][j] = shown[q][j]
        BY <1>2, <2>2, AppendProperties
      <3>2. CASE i = Len(shown[q]) + 1
        BY <1>4, <2>1, <3>1, <3>2, NextInTurn
      <3>3. CASE i \in 1 .. Len(shown[q])
        BY <2>1, <3>1, <3>3 DEF ShownAreFirst
      <3> QED
        BY <3>1, <3>2, <3>3
    <2> QED
      BY <2>4, <2>5, <2>6 DEF ShownAreFirst
  <1> QED
    BY <1>3, <1>4, ShowsOrNot

LEMMA ShownAreFirstInit == ASSUME Init PROVE ShownAreFirst
  BY DEF Init, ShownAreFirst

-----------------------------------------------------------------------------
(* Both instances of Delivery start where the bridge does.                 *)
LEMMA NothingPostedInit ==
    ASSUME Init
    PROVE  Posted = [r \in Rooms |-> 0] /\ Shown = [r \in Rooms |-> <<>>]
  <1>1. ASSUME NEW r \in Rooms PROVE Cardinality(Theirs(r)) = 0
    <2>1. Theirs(r) = {}
      BY InitialStream DEF Theirs, RoomEvents, Message
    <2> QED
      BY <2>1, FS_EmptySet
  <1>2. ASSUME NEW r \in Rooms PROVE ShownTheirs(r) = <<>>
    <2>1. shown[r] = <<>>
      BY DEF Init
    <2> QED
      BY <2>1 DEF ShownTheirs
  <1> QED
    BY <1>1, <1>2 DEF Posted, Shown

(* Each step posts one message, shows a newer one, or does neither.        *)
LEMMA PostsOrShows ==
    ASSUME TypeInv, NEW keeps \in BOOLEAN, OrderInv(keeps), [Next]_vars
    PROVE  \/ UNCHANGED <<Posted, Shown>>
           \/ /\ \E r \in Rooms : Posted' = [Posted EXCEPT ![r] = @ + 1]
              /\ UNCHANGED Shown
           \/ \E r \in Rooms : \E f \in IDs :
                 /\ Shows(r, f) /\ UNCHANGED Posted
                 /\ Rank(Theirs(r), f) \in 1 .. Posted[r]
                 /\ \A i \in 1 .. Len(Shown[r]) : Shown[r][i] < Rank(Theirs(r), f)
                 /\ Shown' = [Shown EXCEPT ![r] = Append(@, Rank(Theirs(r), f))]
  <1>1. CASE UNCHANGED shown
    <2>1. UNCHANGED Shown
      BY <1>1, ShownStays
    <2>2. CASE UNCHANGED stream
      BY <2>1, <2>2, SameTheirs, PostedStays
    <2>3. ASSUME NEW ev \in Events, Grown(ev)
          PROVE  \/ UNCHANGED Posted
                 \/ \E r \in Rooms : Posted' = [Posted EXCEPT ![r] = @ + 1]
      BY <2>3, PostedGrows DEF Grown
    <2> QED
      BY <2>1, <2>2, <2>3, StreamOnlyGrows DEF TypeInv
  <1>2. ASSUME NEW r \in Rooms, NEW f \in IDs, Shows(r, f)
        PROVE  /\ UNCHANGED Posted
               /\ Rank(Theirs(r), f) \in 1 .. Posted[r]
               /\ \A i \in 1 .. Len(Shown[r]) : Shown[r][i] < Rank(Theirs(r), f)
               /\ Shown' = [Shown EXCEPT ![r] = Append(@, Rank(Theirs(r), f))]
    <2>1. /\ \A e \in Theirs(r) : Rank(Theirs(r), e) \in 1 .. Posted[r]
          /\ \A d, e \in Theirs(r) : d < e => Rank(Theirs(r), d) < Rank(Theirs(r), e)
      BY TheirsListed, RankProperties DEF TypeInv, Posted
    <2>2. f \in Theirs(r) /\ \A g \in ToSet(shown[r]) : g \in Theirs(r) /\ g < f
      BY <1>2, NewerThanShown DEF Shows
    <2>3. ASSUME NEW i \in 1 .. Len(Shown[r]) PROVE Shown[r][i] < Rank(Theirs(r), f)
      <3>1. shown[r] \in Seq(IDs)
        BY DEF TypeInv, TypeOK
      <3>2. i \in 1 .. Len(shown[r]) /\ Shown[r][i] = Rank(Theirs(r), shown[r][i])
        BY <3>1 DEF Shown, ShownTheirs
      <3>3. shown[r][i] \in ToSet(shown[r])
        BY <3>1, <3>2, ElementsOfSeq
      <3> QED
        BY <2>1, <2>2, <3>2, <3>3
    <2> QED
      BY <1>2, <2>1, <2>2, <2>3, ShownAppended
  <1> QED
    BY <1>1, <1>2, ShowsOrNot

(* Where only the sync loop brings messages and the user logs in once, the *)
(* portals show what people post in order and never twice, whichever       *)
(* restarts, lost queues, limited timelines and failed saves of the token  *)
(* there are (sync.go:28-29, 105-117); but for media that failed to        *)
(* convert, which a later response can bring again and which then comes    *)
(* after newer messages (media.go:48-56, 82-85).                           *)
THEOREM InOrderAcrossRestarts ==
    ASSUME ~Polling, MaxLogins = 0
    PROVE  Spec => ShownInOrder
  <1>1. Settings(FALSE)
    BY DEF Settings
  <1>2. Init => TypeInv /\ OrderInv(FALSE)
    BY <1>1, TypeInvInit, OrderInvInit
  <1>3. TypeInv /\ OrderInv(FALSE) /\ [Next]_vars => (TypeInv /\ OrderInv(FALSE))'
    BY <1>1, TypeInvStep, OrderInvStep
  <1>4. Init => Ordered!Init
    BY NothingPostedInit DEF Ordered!Init
  <1>5. TypeInv /\ OrderInv(FALSE) /\ [Next]_vars => [Ordered!Next]_(Ordered!vars)
    <2> SUFFICES ASSUME TypeInv, OrderInv(FALSE), [Next]_vars
                 PROVE  [Ordered!Next]_(Ordered!vars)
      OBVIOUS
    <2> QED
      BY PostsOrShows
      DEF Ordered!Next, Ordered!Post, Ordered!Show, Ordered!Newer, Ordered!vars
  <1> QED
    BY <1>2, <1>3, <1>4, <1>5, PTL DEF Spec, ShownInOrder, Ordered!Spec

(* While the bridge runs, people post nothing but texts (and events that   *)
(* are never bridged) and no response or poll is cut short, sync and poll  *)
(* together show every text once, in order and without gaps, although      *)
(* both bring it, chats are accepted in between and logins start the sync  *)
(* over (pendingpoll.go:75 and 88-89, login.go:183-200).                   *)
THEOREM WithoutGaps ==
    ASSUME MaxCrashes = 0, "media" \notin Kinds,
           TimelineLimit >= MaxEvents, BackfillBatchSize >= MaxEvents
    PROVE  Spec => ShownWithoutGaps
  <1> DEFINE GInv == TypeInv /\ OrderInv(TRUE) /\ ShownAreFirst
  <1>1. Settings(TRUE)
    BY DEF Settings
  <1>2. Init => GInv
    BY <1>1, TypeInvInit, OrderInvInit, ShownAreFirstInit
  <1>3. GInv /\ [Next]_vars => GInv'
    BY <1>1, TypeInvStep, OrderInvStep, ShownAreFirstStep
  <1>4. Init => Gapless!Init
    BY NothingPostedInit DEF Gapless!Init
  <1>5. GInv /\ [Next]_vars => [Gapless!Next]_(Gapless!vars)
    <2> SUFFICES ASSUME GInv, [Next]_vars
                 PROVE  [Gapless!Next]_(Gapless!vars)
      OBVIOUS
    <2>1. \A r \in Rooms : Len(Shown[r]) = Len(shown[r])
      BY DEF Shown, ShownTheirs, TypeInv, TypeOK
    <2>2. \A r \in Rooms : \A f \in IDs :
             Shows(r, f) => Rank(Theirs(r), f) = Len(Shown[r]) + 1
      BY <2>1, NextInTurn
    <2> QED
      BY <2>2, PostsOrShows
      DEF Gapless!Next, Gapless!Post, Gapless!Show, Gapless!Newer, Gapless!vars
  <1> HIDE DEF GInv
  <1> QED
    BY <1>2, <1>3, <1>4, <1>5, PTL DEF Spec, ShownWithoutGaps, Gapless!Spec
=============================================================================
