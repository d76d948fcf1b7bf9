----------------------------- MODULE SyncStream -----------------------------
(***************************************************************************)
(* How messages travel between Reddit and the portals of one login: the    *)
(* sync loop with its persisted next_batch token (sync.go), the poll of    *)
(* unaccepted chats (pendingpoll.go) and the messages the user sends       *)
(* (handlematrix.go), across restarts of the bridge.                       *)
(*                                                                         *)
(* Reddit's side is a single stream of events; the index of an event is    *)
(* its event ID, and a next_batch token is a length of the stream.  A room *)
(* is joined once its "join" event is in the stream, an invite before.     *)
(*                                                                         *)
(* The portals are the bridge framework's and are not part of src/: each   *)
(* handles its queue and the user's messages one at a time, drops an event *)
(* whose ID is stored, and keeps what is stored across a restart; queues   *)
(* live in memory.                                                         *)
(***************************************************************************)
EXTENDS Naturals, Sequences, FiniteSets, SequencesExt, Subsequences

CONSTANTS
    Rooms,
    JoinedRooms,        \* those accepted before the story begins
    NoRoom,
    Kinds,              \* kinds of messages people post: text, media, other
    OwnKinds,           \* kinds of messages the user sends: text, media
    TimelineLimit,      \* events of one room in one sync response, Reddit's choice
    Polling,            \* the config option pending_request_poll_interval is not 0
    BackfillBatchSize,  \* the config option: events of one poll
    MaxEvents,          \* bounds the stream
    MaxQueue,           \* bounds a portal's queue
    MaxCrashes,         \* bounds the restarts
    MaxLogins           \* bounds the logins after the first

ASSUME RoomsAssumption ==
    JoinedRooms \subseteq Rooms /\ IsFiniteSet(JoinedRooms) /\ NoRoom \notin Rooms
ASSUME KindsAssumption ==
    Kinds \subseteq {"text", "media", "other"} /\ OwnKinds \subseteq {"text", "media"}
ASSUME BoundsAssumption ==
    /\ Polling \in BOOLEAN
    /\ TimelineLimit \in Nat \ {0} /\ BackfillBatchSize \in Nat \ {0}
    /\ MaxEvents \in Nat /\ Cardinality(JoinedRooms) <= MaxEvents
    /\ MaxQueue \in Nat \ {0} /\ MaxCrashes \in Nat /\ MaxLogins \in Nat

VARIABLES
    stream,     \* Reddit: every event, oldest first
    nextBatch,  \* meta().NextBatch in memory
    saved,      \* the same in the database
    upto,       \* next_batch of the response being handled, or 0
    todo,       \* the events of that response not handled yet, per room
    pollRoom,   \* the portal the poll is at
    pollTodo,   \* the events of that portal's poll not handled yet
    pending,    \* the portal's MessageRequest flag
    queue,      \* events queued for each portal
    sending,    \* how far the portal is with a message of the user
    stored,     \* event IDs in the message table
    shown,      \* the messages of other people each portal shows, in portal order,
                \* but for media that failed to convert when first handled
    echoed,     \* the user's own messages that portals show as remote ones
    lost,       \* history: events in a queue when the bridge stopped
    omitted,    \* history: events a sync response left out of a limited timeline
    orphaned,   \* history: own messages whose answer never reached the bridge
    failed,     \* history: media messages that have failed to convert
    crashes,
    logins

reddit  == <<stream>>
tokens  == <<nextBatch, saved>>
syncing == <<upto, todo>>
polled  == <<pollRoom, pollTodo>>
portals == <<pending, sending, stored, shown, echoed>>
history == <<lost, omitted, orphaned, failed>>
starts  == <<crashes, logins>>
vars    == <<reddit, tokens, syncing, polled, portals, queue, history, starts>>

-----------------------------------------------------------------------------
Event(r, k, mine) == [room |-> r, kind |-> k, own |-> mine]
Events == [room : Rooms, kind : {"text", "media", "other", "join"}, own : BOOLEAN]
IDs    == 1 .. Len(stream)

(* Events as a sequence; a function, so that TLC sorts each set only once. *)
OldestFirst == [S \in SUBSET (1 .. MaxEvents) |-> InOrder(S)]

RoomEvents(r) == {e \in IDs : stream[e].room = r}
JoinIn(S)     == \E e \in S : stream[e].kind = "join"
Joined(r)     == JoinIn(RoomEvents(r))

(* What a sync since n has to say of a room: nothing before the user joins *)
(* it, all of it when the join itself is news, what is new otherwise.      *)
News(r, n) ==
    IF ~Joined(r) THEN {}
    ELSE IF JoinIn(After(RoomEvents(r), n)) THEN RoomEvents(r)
    ELSE After(RoomEvents(r), n)

Timeline(r, n) == Newest(News(r, n), TimelineLimit)

(* The event types handleTimelineEvent queues: messages of a known type,   *)
(* and the member event that resyncs the chat.                             *)
Queued(e) == stream[e].kind \in {"text", "media", "join"}
Message(e) == stream[e].kind \in {"text", "media"}

InitialJoins ==
    LET s == SetToSeq(JoinedRooms) IN [i \in 1 .. Len(s) |-> Event(s[i], "join", FALSE)]

Init ==
    /\ stream = InitialJoins
    /\ nextBatch = 0 /\ saved = 0 /\ upto = 0
    /\ todo = [r \in Rooms |-> <<>>]
    /\ pollRoom = NoRoom /\ pollTodo = <<>>
    /\ pending = [r \in Rooms |-> r \notin JoinedRooms]
    /\ queue = [r \in Rooms |-> <<>>]
    /\ sending = [r \in Rooms |-> "no"]
    /\ stored = {}
    /\ shown = [r \in Rooms |-> <<>>] /\ echoed = {}
    /\ lost = {} /\ omitted = {} /\ orphaned = {} /\ failed = {}
    /\ crashes = 0 /\ logins = 0

-----------------------------------------------------------------------------
(* Other people.                                                           *)

Post(r, k) ==
    /\ Len(stream) < MaxEvents
    /\ stream' = Append(stream, Event(r, k, FALSE))
    /\ UNCHANGED <<tokens, syncing, polled, portals, queue, history, starts>>

-----------------------------------------------------------------------------
(* The sync loop.  A failed request changes nothing and is sent again with *)
(* the same token.                                                         *)

(* Timeline events are handled oldest first, as they come; and the wrong   *)
(* way round.                                                              *)
Backwards(s) == Reverse(s)
InTurn(s) == s

SyncResponse ==
    /\ upto = 0
    /\ Len(stream) > nextBatch
    /\ upto' = Len(stream)
    /\ todo' = [r \in Rooms |-> InTurn(OldestFirst[Timeline(r, nextBatch)])]
    /\ omitted' = omitted \cup
         UNION {News(r, nextBatch) \ Timeline(r, nextBatch) : r \in Rooms}
    /\ UNCHANGED <<reddit, tokens, polled, portals, queue, lost, orphaned, failed, starts>>

(* Each event of the response goes to its portal's queue, or nowhere.      *)
HandleTimelineEvent(r) ==
    /\ todo[r] # <<>>
    /\ Len(queue[r]) < MaxQueue
    /\ todo' = [todo EXCEPT ![r] = Tail(@)]
    /\ queue' = [queue EXCEPT ![r] = IF Queued(Head(todo[r])) THEN Append(@, Head(todo[r])) ELSE @]
    /\ UNCHANGED <<reddit, tokens, upto, polled, portals, history, starts>>

(* The token is taken over when all of them have; and as soon as the       *)
(* response is there.                                                      *)
TakenOverEarly == TRUE
BatchHandled == \A r \in Rooms : todo[r] = <<>>

(* UserLogin.Save may fail, which is only logged.                          *)
FinishSync ==
    /\ upto # 0
    /\ BatchHandled
    /\ nextBatch' = upto
    /\ saved' \in {saved, upto}
    /\ upto' = 0
    /\ UNCHANGED <<reddit, todo, polled, portals, queue, history, starts>>

(* A token refresh saves the same metadata.                                *)
SaveMetadata ==
    /\ upto = 0 /\ saved # nextBatch
    /\ saved' = nextBatch
    /\ UNCHANGED <<reddit, nextBatch, syncing, polled, portals, queue, history, starts>>

-----------------------------------------------------------------------------
(* The poll of unaccepted chats.                                           *)

(* pollPendingOnce goes on to portals marked as requests; and to none.     *)
PollsNothing(r) == FALSE
Polls(r) == pending[r]

PollPick(r) ==
    /\ Polling
    /\ pollRoom = NoRoom /\ pollTodo = <<>>
    /\ Polls(r)
    /\ pollRoom' = r
    /\ UNCHANGED <<reddit, tokens, syncing, pollTodo, portals, queue, history, starts>>

(* /messages answers newest first: the chunk is turned round before it is  *)
(* queued; and the chunk as it came.                                       *)
AsItCame(s) == s
Oriented(s) == Reverse(s)

(* One batch of the newest events; and a request without the limit.        *)
ChunkOfAll(r) == Oriented(Reverse(OldestFirst[RoomEvents(r)]))
Chunk(r) == Oriented(Reverse(OldestFirst[Newest(RoomEvents(r), BackfillBatchSize)]))

PollFetch ==
    /\ pollRoom # NoRoom /\ pollTodo = <<>>
    /\ pollTodo' = Chunk(pollRoom)
    /\ pollRoom' = IF Chunk(pollRoom) = <<>> THEN NoRoom ELSE pollRoom
    /\ UNCHANGED <<reddit, tokens, syncing, portals, queue, history, starts>>

PollError ==
    /\ pollRoom # NoRoom /\ pollTodo = <<>>
    /\ pollRoom' = NoRoom
    /\ UNCHANGED <<reddit, tokens, syncing, pollTodo, portals, queue, history, starts>>

(* Only text is queued from a poll.                                        *)
PollEvent ==
    /\ pollTodo # <<>>
    /\ Len(queue[pollRoom]) < MaxQueue
    /\ queue' = [queue EXCEPT ![pollRoom] =
                   IF stream[Head(pollTodo)].kind = "text" THEN Append(@, Head(pollTodo)) ELSE @]
    /\ pollTodo' = Tail(pollTodo)
    /\ pollRoom' = IF Len(pollTodo) = 1 THEN NoRoom ELSE pollRoom
    /\ UNCHANGED <<reddit, tokens, syncing, portals, history, starts>>

-----------------------------------------------------------------------------
(* A portal takes the next item of its queue.  A resync of a joined chat   *)
(* clears the request flag unless its requests fail; a message is bridged  *)
(* unless its ID is stored.  An image has to be fetched from Reddit and    *)
(* uploaded first (convertRedditMedia): when that fails the framework      *)
(* stores nothing, and should the message be served again it is bridged    *)
(* then, after newer ones.                                                 *)
PortalHandle(r) ==
    /\ sending[r] = "no"
    /\ queue[r] # <<>>
    /\ queue' = [queue EXCEPT ![r] = Tail(@)]
    /\ LET e == Head(queue[r]) IN
         \/ /\ ~Message(e)
            /\ pending' \in {pending, [pending EXCEPT ![r] = FALSE]}
            /\ UNCHANGED <<stored, shown, echoed, failed>>
         \/ /\ Message(e) /\ e \in stored
            /\ UNCHANGED <<pending, stored, shown, echoed, failed>>
         \/ /\ stream[e].kind = "media" /\ e \notin stored
            /\ failed' = failed \cup {e}
            /\ UNCHANGED <<pending, stored, shown, echoed>>
         \/ /\ Message(e) /\ e \notin stored
            /\ stored' = stored \cup {e}
            /\ echoed' = IF stream[e].own THEN echoed \cup {e} ELSE echoed
            /\ shown' = IF stream[e].own \/ e \in failed THEN shown
                        ELSE [shown EXCEPT ![r] = Append(@, e)]
            /\ UNCHANGED <<pending, failed>>
    /\ UNCHANGED <<reddit, tokens, syncing, polled, sending, lost, omitted, orphaned, starts>>

(* HandleMatrixAcceptMessageRequest: the user accepts a request, or        *)
(* replies to one, and the bridge joins the room.                          *)
AcceptRequest(r) ==
    /\ sending[r] = "no" /\ pending[r]
    /\ IF Joined(r) THEN UNCHANGED stream
       ELSE Len(stream) < MaxEvents /\ stream' = Append(stream, Event(r, "join", FALSE))
    /\ sending' = [sending EXCEPT ![r] = "joined"]
    /\ UNCHANGED <<tokens, syncing, polled, pending, stored, shown, echoed, queue, history, starts>>

(* The framework notes that the chat is accepted, and that is all.         *)
AcceptedOnly(r) ==
    /\ sending[r] = "joined"
    /\ pending' = [pending EXCEPT ![r] = FALSE]
    /\ sending' = [sending EXCEPT ![r] = "no"]
    /\ UNCHANGED <<reddit, tokens, syncing, polled, stored, shown, echoed, queue, history, starts>>

(* HandleMatrixMessage: Reddit has the message, a text or an image that    *)
(* sendMatrixMedia has uploaded to Reddit before.  What fails on the way   *)
(* to that changes nothing.                                                *)
SendMessage(r, k) ==
    /\ sending[r] = IF pending[r] THEN "joined" ELSE "no"
    /\ Len(stream) < MaxEvents
    /\ stream' = Append(stream, Event(r, k, TRUE))
    /\ pending' = [pending EXCEPT ![r] = FALSE]
    /\ sending' = [sending EXCEPT ![r] = "sent"]
    /\ UNCHANGED <<tokens, syncing, polled, stored, shown, echoed, queue, history, starts>>

SendText(r) == "text" \in OwnKinds /\ SendMessage(r, "text")
SendMedia(r) == "media" \in OwnKinds /\ SendMessage(r, "media")

OwnInFlight(r) == Max({e \in RoomEvents(r) : stream[e].own})

(* Its event ID is stored with the portal; or an answer without the ID.    *)
StoredWithoutID(r) == stored
StoredWithID(r) == stored \cup {OwnInFlight(r)}

SendStored(r) ==
    /\ sending[r] = "sent"
    /\ stored' = StoredWithID(r)
    /\ sending' = [sending EXCEPT ![r] = "no"]
    /\ UNCHANGED <<reddit, tokens, syncing, polled, pending, shown, echoed, queue, history, starts>>

(* Or the answer is lost, and the user is told that the message was too.   *)
SendUnanswered(r) ==
    /\ sending[r] = "sent"
    /\ orphaned' = orphaned \cup {OwnInFlight(r)}
    /\ sending' = [sending EXCEPT ![r] = "no"]
    /\ UNCHANGED <<reddit, tokens, syncing, polled, pending, stored, shown, echoed, queue,
                   lost, omitted, failed, starts>>

-----------------------------------------------------------------------------
(* The bridge stops at any point and starts again from its database.       *)
Crash ==
    /\ crashes < MaxCrashes
    /\ crashes' = crashes + 1
    /\ nextBatch' = saved
    /\ upto' = 0 /\ todo' = [r \in Rooms |-> <<>>]
    /\ pollRoom' = NoRoom /\ pollTodo' = <<>>
    /\ queue' = [r \in Rooms |-> <<>>]
    /\ sending' = [r \in Rooms |-> "no"]
    /\ lost' = lost \cup UNION {ToSet(queue[r]) : r \in Rooms}
    /\ orphaned' = orphaned \cup {OwnInFlight(r) : r \in {q \in Rooms : sending[q] = "sent"}}
    /\ UNCHANGED <<reddit, saved, pending, stored, shown, echoed, omitted, failed, logins>>

(* SubmitUserInput with credentials that Reddit accepts for this account:  *)
(* the login is saved with new metadata, which has no next_batch, and its  *)
(* new client starts where a first login does.  The framework stops the    *)
(* old client; the portals are not affected.  Any other input changes      *)
(* nothing.                                                                *)
Relogin ==
    /\ logins < MaxLogins
    /\ logins' = logins + 1
    /\ nextBatch' = 0 /\ saved' = 0
    /\ upto' = 0 /\ todo' = [r \in Rooms |-> <<>>]
    /\ pollRoom' = NoRoom /\ pollTodo' = <<>>
    /\ UNCHANGED <<reddit, portals, queue, history, crashes>>

-----------------------------------------------------------------------------
Sync == SyncResponse \/ FinishSync \/ SaveMetadata \/ \E r \in Rooms : HandleTimelineEvent(r)
Poll == PollFetch \/ PollError \/ PollEvent \/ \E r \in Rooms : PollPick(r)
Send(r) == AcceptedOnly(r) \/ SendStored(r) \/ SendUnanswered(r)
User(r) == AcceptRequest(r) \/ SendText(r) \/ SendMedia(r)

Next ==
    \/ \E r \in Rooms, k \in Kinds : Post(r, k)
    \/ Sync \/ Poll
    \/ \E r \in Rooms : PortalHandle(r) \/ User(r) \/ Send(r)
    \/ Crash \/ Relogin

Spec == Init /\ [][Next]_vars

(* The goroutines and the portals keep running; Reddit answers a sync that *)
(* is sent again and again, and a poll likewise; and each tick of the      *)
(* ticker visits every pending portal.                                     *)
Fairness ==
    /\ WF_vars(SyncResponse) /\ WF_vars(FinishSync)
    /\ \A r \in Rooms :
         /\ SF_vars(HandleTimelineEvent(r)) /\ WF_vars(PortalHandle(r)) /\ WF_vars(Send(r))
         /\ SF_vars(PollPick(r))
    /\ SF_vars(PollFetch) /\ SF_vars(PollEvent)

FairSpec == Spec /\ Fairness

-----------------------------------------------------------------------------
(* Every variable keeps its type; a poll asks for one batch at most.       *)
TypeOK ==
    /\ stream \in Seq(Events) /\ Len(stream) <= MaxEvents
    /\ nextBatch \in 0 .. Len(stream) /\ saved \in 0 .. Len(stream) /\ upto \in 0 .. Len(stream)
    /\ todo \in [Rooms -> Seq(IDs)]
    /\ pollRoom \in Rooms \cup {NoRoom}
    /\ pollTodo \in Seq(IDs) /\ Len(pollTodo) <= BackfillBatchSize
    /\ pending \in [Rooms -> BOOLEAN]
    /\ queue \in [Rooms -> Seq(IDs)] /\ \A r \in Rooms : Len(queue[r]) <= MaxQueue
    /\ sending \in [Rooms -> {"no", "joined", "sent"}]
    /\ stored \subseteq IDs /\ lost \subseteq IDs /\ omitted \subseteq IDs /\ orphaned \subseteq IDs
    /\ shown \in [Rooms -> Seq(IDs)] /\ echoed \subseteq IDs /\ failed \subseteq IDs
    /\ crashes \in 0 .. MaxCrashes /\ logins \in 0 .. MaxLogins

JoinedBy(r, n) == JoinIn({i \in 1 .. n : stream[i].room = r})

(* The persisted token never runs ahead of the queues (sync.go:28-29 and   *)
(* 105-117): of a room joined when it was issued, each message it has left *)
(* behind is in the portal, in its queue, was in the queue when the bridge *)
(* stopped, was never in a timeline Reddit sent, or is media that failed   *)
(* to convert.                                                             *)
TokenBehindQueues ==
    \A e \in 1 .. saved :
        Message(e) /\ JoinedBy(stream[e].room, saved)
            => e \in stored \cup failed \cup ToSet(queue[stream[e].room]) \cup lost \cup omitted

(* The echo of a message the user sent is not bridged back (README.md      *)
(* "Deduplication", handlematrix.go:44-46), whether it comes by sync or by *)
(* poll, before or after the answer to the send: only a message whose      *)
(* answer the bridge never saw can come back as a remote one.              *)
NoEcho == echoed \subseteq orphaned

(* A message of somebody else in a bridged chat, accepted or not, is shown *)
(* in its portal sooner or later: README.md "Unaccepted chats are          *)
(* invisible to /sync" says the poll is there so that nothing posted       *)
(* before the reply is silently dropped.                                   *)
Due(e) == e \in IDs /\ Message(e) /\ ~stream[e].own
EveryMessageShown ==
    \A e \in 1 .. MaxEvents : Due(e) ~> (e \in IDs /\ e \in stored)

(* The number of each message of other people within its room.             *)
Theirs(r) == {e \in RoomEvents(r) : Message(e) /\ ~stream[e].own}
ShownTheirs(r) == [i \in 1 .. Len(shown[r]) |-> Rank(Theirs(r), shown[r][i])]

Shown  == [r \in Rooms |-> ShownTheirs(r)]
Posted == [r \in Rooms |-> Cardinality(Theirs(r))]

Ordered == INSTANCE Delivery WITH Lossless <- FALSE, posted <- Posted, shown <- Shown
Gapless == INSTANCE Delivery WITH Lossless <- TRUE, posted <- Posted, shown <- Shown

(* The sync loop keeps the promise of Delivery across restarts: a response *)
(* served again after a crash, or after a token that could not be saved,   *)
(* neither repeats nor reorders what the portal shows (sync.go:28-29).     *)
(* Media that failed to convert is left out of account: when it is served  *)
(* again it may convert, and is shown after newer messages.                *)
(* Only without the poll: it can bring back, out of turn, what a crash     *)
(* dropped from a queue, when the crash also left a joined chat flagged.   *)
ShownInOrder == Ordered!Spec

(* While the bridge is not restarted, sync and poll together show each     *)
(* text in order, once and without gaps, whenever the chat is accepted     *)
(* (pendingpoll.go:75 and 88-89) and although another login starts the     *)
(* sync over (login.go:183-200).                                           *)
ShownWithoutGaps == Gapless!Spec
=============================================================================
