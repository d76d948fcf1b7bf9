------------------------------ MODULE Backfill ------------------------------
(***************************************************************************)
(* The walk through the history of one room: FetchMessages (backfill.go),  *)
(* the tokens of Reddit's /messages (redditchat/client.go) and the         *)
(* conversion of what is on a page (media.go), while new messages arrive   *)
(* live (sync.go).                                                         *)
(*                                                                         *)
(* The walk itself is the bridge framework's: it asks for a page from the  *)
(* cursor of the last one, cuts off what is not older than the oldest      *)
(* message in the portal, prepends the rest and stores the new cursor,     *)
(* each a step of its own, until a page says that there is no more.  A     *)
(* request that fails is made again with the same cursor, and the first    *)
(* one waits for the messages queued for the portal.                       *)
(*                                                                         *)
(* An event is its number in the room, oldest first.  A token n stands for *)
(* the place below which n events are left.                                *)
(***************************************************************************)
EXTENDS Naturals, Sequences, FiniteSets, SequencesExt, Subsequences

CONSTANTS
    NoToken,            \* no pagination token: at first, and when Reddit gives none
    EndOfTimeline,      \* "t0_0"
    AskedCounts,        \* how many messages the framework asks for, 0 to leave it open
    BackfillBatchSize,  \* the config option, 50 unless it is positive
    InitialEvents,      \* bounds the history there is when the walk begins
    MaxEvents,          \* bounds the events of the room
    MaxCrashes          \* bounds the restarts

ASSUME TokensAssumption ==
    NoToken # EndOfTimeline /\ NoToken \notin Nat /\ EndOfTimeline \notin Nat
ASSUME CountsAssumption ==
    AskedCounts \subseteq Nat /\ AskedCounts # {} /\ BackfillBatchSize \in Nat \ {0}
ASSUME BoundsAssumption ==
    MaxEvents \in Nat /\ InitialEvents \in 0 .. MaxEvents /\ MaxCrashes \in Nat

VARIABLES
    room,       \* Reddit: the kind of each event of the room
    cursor,     \* the walk, as stored: where it goes on
    done,       \* and whether it has ended
    pc,         \* what the walk does next: "fetch", "show" or "save"
    page,       \* the answer of FetchMessages at hand
    queue,      \* live messages queued for the portal
    shown,      \* what the portal shows, top to bottom
    missed,     \* history: media not converted, and what a stop left in the queue
    crashes

walk == <<cursor, done, pc, page>>
vars == <<room, walk, queue, shown, missed, crashes>>

-----------------------------------------------------------------------------
Kinds  == {"text", "media", "other"}
Events == 1 .. Len(room)
Tokens == Nat \cup {NoToken, EndOfTimeline}

Convertible(e) == room[e] \in {"text", "media"}
Media(s)       == {e \in ToSet(s) : room[e] = "media"}

NoPage == [messages |-> <<>>, cursor |-> NoToken, hasMore |-> FALSE]

Init ==
    /\ room \in UNION {[1 .. n -> Kinds] : n \in 0 .. InitialEvents}
    /\ cursor = NoToken /\ done = FALSE
    /\ pc = "fetch" /\ page = NoPage
    /\ queue = <<>> /\ shown = <<>> /\ missed = {}
    /\ crashes = 0

-----------------------------------------------------------------------------
(* Reddit.                                                                 *)

(* Without a token the newest events come first; t0_0 is the beginning.    *)
LeftBelow(from) ==
    CASE from = NoToken       -> Len(room)
      [] from = EndOfTimeline -> 0
      [] OTHER                -> from

(* A page is never empty while events are left and some are asked for, but *)
(* may be shorter than asked.                                              *)
Lengths(left, count) == IF left = 0 \/ count = 0 THEN {0}
                        ELSE 1 .. (IF count < left THEN count ELSE left)

(* Newest first.                                                           *)
Chunk(left, n) == [i \in 1 .. n |-> left + 1 - i]

(* The beginning of a room is marked by t0_0, by no token at all, or not.  *)
Ends(left) == IF left = 0 THEN {0, EndOfTimeline, NoToken} ELSE {left}

-----------------------------------------------------------------------------
(* HasMoreHistory; and two ways to get it wrong: by the token alone, and   *)
(* by any token.                                                           *)
MoreByToken(end, chunk) == end \notin {NoToken, EndOfTimeline}
MoreByChunk(end, chunk) == end # NoToken /\ chunk # <<>>
HasMoreHistory(end, chunk) == end \notin {NoToken, EndOfTimeline} /\ chunk # <<>>

(* The page turned round; and left as it came.                             *)
AsItCame(messages) == messages
Chronological(messages) == Reverse(messages)

(* The framework's count, or the configured one.                           *)
Count(asked) == IF asked <= 0 THEN BackfillBatchSize ELSE asked

(* convertBackfillEvent: no other events than messages, and no media that  *)
(* could not be downloaded from Reddit and uploaded again.                 *)
Converted(chunk, broken) == KeepOnly(chunk, {e \in Events : Convertible(e)} \ broken)

(* Whether there is more is asked of the chunk; and of what is bridged.    *)
AnswerOfBridged(end, chunk, messages) ==
    [messages |-> Chronological(messages), cursor |-> end,
     hasMore |-> HasMoreHistory(end, messages)]
Answer(end, chunk, messages) ==
    [messages |-> Chronological(messages), cursor |-> end,
     hasMore |-> HasMoreHistory(end, chunk)]

FetchMessages ==
    /\ pc = "fetch" /\ ~done
    /\ cursor = NoToken => queue = <<>>
    /\ \E asked \in AskedCounts :
       \E n \in Lengths(LeftBelow(cursor), Count(asked)) :
       LET chunk == Chunk(LeftBelow(cursor), n)
       IN  \E end \in Ends(LeftBelow(cursor) - n), broken \in SUBSET Media(chunk) :
             /\ page' = Answer(end, chunk, Converted(chunk, broken))
             /\ missed' = missed \cup broken
    /\ pc' = "show"
    /\ UNCHANGED <<room, cursor, done, queue, shown, crashes>>

-----------------------------------------------------------------------------
(* The framework.                                                          *)

Older(messages) ==
    IF shown = <<>> THEN messages ELSE KeepOnly(messages, {e \in Events : e < shown[1]})

ShowBatch ==
    /\ pc = "show"
    /\ shown' = Older(page.messages) \o shown
    /\ pc' = "save"
    /\ UNCHANGED <<room, cursor, done, page, queue, missed, crashes>>

SaveTask ==
    /\ pc = "save"
    /\ cursor' = page.cursor /\ done' = ~page.hasMore
    /\ page' = NoPage
    /\ pc' = "fetch"
    /\ UNCHANGED <<room, queue, shown, missed, crashes>>

(* The bridge stops at any point: the page and the queue are forgotten.    *)
Crash ==
    /\ crashes < MaxCrashes
    /\ crashes' = crashes + 1
    /\ pc' = "fetch" /\ page' = NoPage
    /\ queue' = <<>> /\ missed' = missed \cup ToSet(queue)
    /\ UNCHANGED <<room, cursor, done, shown>>

-----------------------------------------------------------------------------
(* A new message, which the sync loop queues if it is of a known type      *)
(* (handleTimelineEvent) ...                                               *)
Post(k) ==
    /\ Len(room) < MaxEvents
    /\ room' = Append(room, k)
    /\ queue' = IF k \in {"text", "media"} THEN Append(queue, Len(room) + 1) ELSE queue
    /\ UNCHANGED <<walk, shown, missed, crashes>>

(* ... and the portal shows, unless it has it already.                     *)
ShowLive ==
    /\ queue # <<>>
    /\ queue' = Tail(queue)
    /\ \/ /\ shown' = IF Head(queue) \in ToSet(shown) THEN shown ELSE Append(shown, Head(queue))
          /\ UNCHANGED missed
       \/ /\ room[Head(queue)] = "media" /\ Head(queue) \notin ToSet(shown)
          /\ missed' = missed \cup {Head(queue)}
          /\ UNCHANGED shown
    /\ UNCHANGED <<room, walk, crashes>>

-----------------------------------------------------------------------------
Walk == FetchMessages \/ ShowBatch \/ SaveTask

Next ==
    \/ \E k \in Kinds : Post(k)
    \/ Walk \/ ShowLive \/ Crash

Spec == Init /\ [][Next]_vars

(* The framework goes on with a walk that has not ended and with what it   *)
(* has queued, and Reddit answers a page that is asked for again and again. *)
FairSpec == Spec /\ WF_vars(Walk) /\ WF_vars(ShowLive)

-----------------------------------------------------------------------------
(* Every variable keeps its type; and t0_0 is never a place from which the *)
(* walk goes on (redditchat/client.go:144-149).                            *)
TypeOK ==
    /\ room \in Seq(Kinds) /\ Len(room) <= MaxEvents
    /\ cursor \in Tokens /\ done \in BOOLEAN
    /\ cursor = EndOfTimeline => done
    /\ pc \in {"fetch", "show", "save"}
    /\ page \in [messages : Seq(Events), cursor : Tokens, hasMore : BOOLEAN]
    /\ queue \in Seq(Events) /\ shown \in Seq(Events) /\ missed \subseteq Events
    /\ crashes \in 0 .. MaxCrashes

(* The portal shows messages once and in the order they were posted,       *)
(* although pages come newest first, are served again after a stop and     *)
(* overlap with live messages (backfill.go:52-55).                         *)
ChatOrder == Increasing(shown)

(* The walk leaves nothing behind: a message above the stored cursor is    *)
(* shown or queued, or it was media that failed or was queued when the     *)
(* bridge stopped; so is every message once the walk has ended, although   *)
(* pages may hold nothing to bridge (backfill.go:64-66).                   *)
Passed(e) == done \/ (cursor # NoToken /\ e > LeftBelow(cursor))
NothingLeftBehind ==
    \A e \in Events :
        Convertible(e) /\ Passed(e) => e \in ToSet(shown) \cup ToSet(queue) \cup missed

(* The walk ends, whichever way Reddit marks the beginning of the room     *)
(* (backfill.go:64-66, redditchat/client.go:144-149).                      *)
WalkEnds == <>done
=============================================================================
