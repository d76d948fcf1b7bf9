------------------------------ MODULE Discovery ------------------------------
(***************************************************************************)
(* Which Reddit chats get a portal, and whether the portal is marked as a  *)
(* message request: the handling of a sync response (sync.go), the         *)
(* reconciliation after the first one (reconcile.go), the two sources of   *)
(* chat info (chatinfo.go) and the acceptance of a request                 *)
(* (handlematrix.go).                                                      *)
(*                                                                         *)
(* What the next sync would report of a chat is the set news: a sync is    *)
(* incremental, so each item is reported once, and account data only when  *)
(* it changed.  The portals belong to the bridge framework, which handles  *)
(* the items queued for a portal one at a time.                            *)
(***************************************************************************)
EXTENDS Naturals, Sequences, FiniteSets

CONSTANTS
    Rooms,
    InitiallyJoined,    \* chats accepted before the login
    SyncCap,            \* Reddit's bound on the rooms of one sync, 20
    BridgeHiddenChats,  \* config option
    BridgeSpamChats,    \* config option
    Failing,            \* what may fail: "check", "list" and "info" are requests,
                        \* "save" is the saving of the sync token
    MaxQueue,           \* bounds a portal's queue
    MaxRestarts         \* bounds the reconnections

ASSUME RoomsAssumption == InitiallyJoined \subseteq Rooms
ASSUME OptionsAssumption ==
    /\ BridgeHiddenChats \in BOOLEAN /\ BridgeSpamChats \in BOOLEAN
    /\ Failing \subseteq {"check", "list", "info", "save"}
ASSUME BoundsAssumption ==
    SyncCap \in Nat \ {0} /\ MaxQueue \in Nat /\ MaxQueue > 1 /\ MaxRestarts \in Nat

VARIABLES
    membership,     \* Reddit: the user's membership
    hidden,         \* Reddit: com.reddit.hidden_chat, "Ignore"
    spam,           \* Reddit: the newest com.reddit.invite_spam_status, or that
                    \* it says spam but is "buried" under too many later events
    news,           \* Reddit: what the next sync has to report
    unsaved,        \* and what it would report again since the saved token
    resp,           \* the part of the sync response not handled yet
    step,           \* where the sync loop is
    synced,         \* syncedRoomSet of the response
    reconciled,     \* the sync loop's local
    missing,        \* joined rooms the reconciliation has still to look at
    resync,         \* and those it has still to resync
    queue,          \* items queued for each portal
    portal,         \* the portal exists
    pending,        \* its MessageRequest flag
    refused,        \* history: chats dismissed or found spam before anything was bridged,
                    \* as long as Reddit's answers still say so
    missed,         \* history: chats of which news was missed and that were not resynced since
    restarts

reddit  == <<membership, hidden, spam, news, unsaved>>
loop    == <<resp, step, synced, reconciled, missing, resync>>
portals == <<portal, pending>>
history == <<refused, missed>>
vars    == <<reddit, loop, queue, portals, history, restarts>>

-----------------------------------------------------------------------------
News  == {"invite", "state", "message", "account"}
Items == {"invite", "info", "refresh", "message"}
Steps == {"sync", "handle", "list", "missing", "resync"}

Invited(r) == membership[r] = "invite"
Joined(r)  == membership[r] = "join"

Nothing == [r \in Rooms |-> {}]

(* Nothing of the chat has reached the bridge's side of the sync loop.     *)
Untouched(r) == ~portal[r] /\ queue[r] = <<>> /\ resp[r] = {}
Refuse(r) == refused' = IF Untouched(r) THEN refused \cup {r} ELSE refused

Init ==
    /\ membership = [r \in Rooms |-> IF r \in InitiallyJoined THEN "join" ELSE "none"]
    /\ hidden \in [Rooms -> BOOLEAN] /\ \A r \in Rooms : hidden[r] => Joined(r)
    /\ spam = [r \in Rooms |-> "unverified"]
    /\ news = [r \in Rooms |-> IF Joined(r)
                 THEN {"state"} \cup (IF hidden[r] THEN {"account"} ELSE {}) ELSE {}]
    /\ unsaved = Nothing /\ resp = Nothing
    /\ step = "sync" /\ synced = {} /\ reconciled = FALSE
    /\ missing = {} /\ resync = {}
    /\ queue = [r \in Rooms |-> <<>>]
    /\ portal = [r \in Rooms |-> FALSE]
    /\ pending = [r \in Rooms |-> FALSE]
    /\ refused = {r \in Rooms : hidden[r]} /\ missed = {}
    /\ restarts = 0

-----------------------------------------------------------------------------
(* Reddit, and the user on Reddit.                                         *)

ToldOf(r, items) == news' = [news EXCEPT ![r] = @ \cup items]

Invite(r) ==
    /\ membership[r] = "none"
    /\ membership' = [membership EXCEPT ![r] = "invite"]
    /\ ToldOf(r, {"invite"})
    /\ UNCHANGED <<hidden, spam, unsaved, loop, queue, portals, history, restarts>>

(* The verdict comes some time after the chat; an unaccepted chat's        *)
(* timeline is not in any sync.                                            *)
Verdict(r) ==
    /\ Invited(r) /\ spam[r] = "unverified"
    /\ spam' = [spam EXCEPT ![r] = "spam"]
    /\ Refuse(r)
    /\ UNCHANGED <<membership, hidden, news, unsaved, loop, queue, portals, missed, restarts>>

(* Later events of the chat push the verdict out of the newest 30 that     *)
(* IsSpamChat asks for.                                                    *)
BuryVerdict(r) ==
    /\ Invited(r) /\ spam[r] = "spam"
    /\ spam' = [spam EXCEPT ![r] = "buried"]
    /\ refused' = IF hidden[r] THEN refused ELSE refused \ {r}
    /\ UNCHANGED <<membership, hidden, news, unsaved, loop, queue, portals, missed, restarts>>

Hide(r) ==
    /\ membership[r] # "none" /\ ~hidden[r]
    /\ hidden' = [hidden EXCEPT ![r] = TRUE]
    /\ ToldOf(r, IF Joined(r) THEN {"account"} ELSE {})
    /\ Refuse(r)
    /\ UNCHANGED <<membership, spam, unsaved, loop, queue, portals, missed, restarts>>

(* Something about an unaccepted chat changes, and sync reports it again.  *)
Touch(r) ==
    /\ Invited(r)
    /\ ToldOf(r, {"invite"})
    /\ UNCHANGED <<membership, hidden, spam, unsaved, loop, queue, portals, history, restarts>>

Message(r) ==
    /\ Joined(r)
    /\ ToldOf(r, {"message"})
    /\ UNCHANGED <<membership, hidden, spam, unsaved, loop, queue, portals, history, restarts>>

(* The user replies on Reddit's own client.                                *)
AcceptOnReddit(r) ==
    /\ Invited(r) /\ ~hidden[r]
    /\ membership' = [membership EXCEPT ![r] = "join"]
    /\ news' = [news EXCEPT ![r] = {"state"}]
    /\ refused' = refused \ {r}
    /\ UNCHANGED <<hidden, spam, unsaved, loop, queue, portals, missed, restarts>>

-----------------------------------------------------------------------------
(* The sync loop.                                                          *)

(* As many as the cap allows of the rooms with news; the others are passed *)
(* over by the token all the same.  What would be reported again after a   *)
(* restart is noted as long as there can be one.                           *)
Capped(all, some) ==
    some \subseteq all /\ Cardinality(some) = IF Cardinality(all) > SyncCap THEN SyncCap
                                              ELSE Cardinality(all)
Told(m) == {r \in Rooms : membership[r] = m /\ news[r] # {}}

SyncResponse ==
    /\ step = "sync"
    /\ \E S \in SUBSET Rooms :
         /\ Capped(Told("invite"), S \cap Told("invite"))
         /\ Capped(Told("join"), S \cap Told("join"))
         /\ S \subseteq Told("invite") \cup Told("join")
         /\ S # {} \/ ~reconciled
         /\ resp' = [r \in Rooms |-> IF r \in S THEN news[r] ELSE {}]
         /\ synced' = IF reconciled THEN {} ELSE S
         /\ missed' = missed \cup {r \in Rooms \ S : news[r] # {}}
    /\ news' = Nothing
    /\ unsaved' = IF restarts = MaxRestarts THEN Nothing
                  ELSE [r \in Rooms |-> unsaved[r] \cup news[r]]
    /\ step' = "handle"
    /\ UNCHANGED <<membership, hidden, spam, reconciled, missing, resync, queue, portals,
                   refused, restarts>>

Enqueue(r, items) ==
    /\ Len(queue[r]) + Len(items) <= MaxQueue
    /\ queue' = [queue EXCEPT ![r] = @ \o items]

(* A request that says whether the chat is hidden, or spam as far as its   *)
(* newest events tell; an error counts as no, and so does the option that  *)
(* bridges such chats anyway.                                              *)
CheckAnswers(truth) == {truth} \cup (IF "check" \in Failing THEN {FALSE} ELSE {})
HiddenAnswers(r) == IF BridgeHiddenChats THEN {FALSE} ELSE CheckAnswers(hidden[r])
SpamAnswers(r)   == IF BridgeSpamChats THEN {FALSE} ELSE CheckAnswers(spam[r] = "spam")

(* shouldSkipRequest: an existing portal is left alone; and the check of   *)
(* the spam status only.                                                   *)
SpamCheckOnly(r) == IF portal[r] THEN {FALSE} ELSE SpamAnswers(r)
SkipAnswers(r) ==
    IF portal[r] THEN {FALSE}
    ELSE {h \/ s : h \in HiddenAnswers(r), s \in SpamAnswers(r)}

HandleInvite(r) ==
    /\ step = "handle" /\ "invite" \in resp[r]
    /\ resp' = [resp EXCEPT ![r] = {}]
    /\ \E skip \in SkipAnswers(r) :
         IF skip THEN UNCHANGED queue ELSE Enqueue(r, <<"invite">>)
    /\ UNCHANGED <<reddit, step, synced, reconciled, missing, resync, portals, history, restarts>>

(* IsHiddenChatInSync sees the flag only if this response carries it.      *)
SkipsJoined(r) == ~BridgeHiddenChats /\ "account" \in resp[r] /\ ~portal[r]

(* The items of a joined room: a resync for state events, in the timeline  *)
(* or outside it, and its messages; and the same without the resync.       *)
MessagesOnly(r) == IF "message" \in resp[r] THEN <<"message">> ELSE <<>>
JoinedItems(r) ==
    (IF "state" \in resp[r] THEN <<"info">> ELSE <<>>) \o
    (IF "message" \in resp[r] THEN <<"message">> ELSE <<>>)

HandleJoinedRoom(r) ==
    /\ step = "handle" /\ resp[r] # {} /\ "invite" \notin resp[r]
    /\ resp' = [resp EXCEPT ![r] = {}]
    /\ IF SkipsJoined(r) THEN UNCHANGED queue ELSE Enqueue(r, JoinedItems(r))
    /\ UNCHANGED <<reddit, step, synced, reconciled, missing, resync, portals, history, restarts>>

(* The loop goes on to the next request with the new token, which is saved *)
(* only now, and the save may fail.                                        *)
SyncAgain ==
    /\ step' = "sync"
    /\ unsaved' \in {Nothing} \cup (IF "save" \in Failing THEN {unsaved} ELSE {})

(* The response is handled; the first of a connection is followed by the   *)
(* reconciliation.                                                         *)
FinishSync ==
    /\ step = "handle"
    /\ \A r \in Rooms : resp[r] = {}
    /\ IF reconciled THEN SyncAgain ELSE step' = "list" /\ UNCHANGED unsaved
    /\ reconciled' = TRUE
    /\ UNCHANGED <<membership, hidden, spam, news, resp, synced, missing, resync, queue, portals,
                   history, restarts>>

-----------------------------------------------------------------------------
(* reconcileJoinedRooms: list, bridge what is missing, resync the rest.    *)

(* The joined rooms the response did not cover; and those it did.          *)
CoveredRooms == {r \in Rooms : Joined(r)} \cap synced
UncoveredRooms == {r \in Rooms : Joined(r)} \ synced

JoinedRooms ==
    /\ step = "list"
    /\ step' = "missing"
    /\ missing' = UncoveredRooms
    /\ resync' = {r \in Rooms : Joined(r)}
    /\ UNCHANGED <<reddit, resp, synced, reconciled, queue, portals, history, restarts>>

JoinedRoomsFails ==
    /\ step = "list" /\ "list" \in Failing
    /\ SyncAgain
    /\ UNCHANGED <<membership, hidden, spam, news, resp, synced, reconciled, missing, resync, queue,
                   portals, history, restarts>>

ReconcileMissing(r) ==
    /\ step = "missing" /\ r \in missing
    /\ missing' = missing \ {r}
    /\ IF portal[r] THEN UNCHANGED queue
       ELSE \E h \in HiddenAnswers(r) : IF h THEN UNCHANGED queue ELSE Enqueue(r, <<"info">>)
    /\ UNCHANGED <<reddit, resp, step, synced, reconciled, resync, portals, history, restarts>>

ReconcileExisting(r) ==
    /\ step = "resync" /\ r \in resync
    /\ resync' = resync \ {r}
    /\ IF portal[r] THEN Enqueue(r, <<"refresh">>) /\ missed' = missed \ {r}
                    ELSE UNCHANGED <<queue, missed>>
    /\ UNCHANGED <<reddit, resp, step, synced, reconciled, missing, portals, refused, restarts>>

ReconcileNext ==
    /\ \/ step = "missing" /\ missing = {} /\ step' = "resync" /\ UNCHANGED unsaved
       \/ step = "resync" /\ resync = {} /\ SyncAgain
    /\ UNCHANGED <<membership, hidden, spam, news, resp, synced, reconciled, missing, resync, queue,
                   portals, history, restarts>>

-----------------------------------------------------------------------------
(* A portal takes the next item of its queue.                              *)

(* chatInfoFromInviteState is the snapshot of the sync response, always a  *)
(* request; getChatInfo asks Reddit now, and a 403 means a request.        *)
MarkedBy(r, item) == IF item = "invite" THEN TRUE ELSE ~Joined(r)

(* A "refresh" does not create a portal.  A message creates one with the   *)
(* info of getChatInfo, and changes nothing of an existing one.            *)
NeedsInfo(r, item) == IF portal[r] THEN item # "message" ELSE item # "refresh"

PortalHandle(r) ==
    /\ queue[r] # <<>>
    /\ queue' = [queue EXCEPT ![r] = Tail(@)]
    /\ IF NeedsInfo(r, Head(queue[r]))
         THEN \/ /\ portal' = [portal EXCEPT ![r] = TRUE]
                 /\ pending' = [pending EXCEPT ![r] = MarkedBy(r, Head(queue[r]))]
                 /\ UNCHANGED missed
              \/ /\ "info" \in Failing /\ Head(queue[r]) # "invite"
                 /\ missed' = missed \cup {r}
                 /\ UNCHANGED portals
         ELSE UNCHANGED <<portals, missed>>
    /\ UNCHANGED <<reddit, loop, refused, restarts>>

(* The user accepts or answers a request in the portal: the room is joined *)
(* on Reddit, and the framework clears the flag.                           *)
AcceptInPortal(r) ==
    /\ portal[r] /\ pending[r]
    /\ membership' = [membership EXCEPT ![r] = "join"]
    /\ news' = [news EXCEPT ![r] = IF Joined(r) THEN @ ELSE {"state"}]
    /\ pending' = [pending EXCEPT ![r] = FALSE]
    /\ UNCHANGED <<hidden, spam, unsaved, loop, queue, portal, history, restarts>>

(* The bridge is restarted: the queues are lost, and the first sync is an  *)
(* incremental one since the saved token, which reports all over again     *)
(* what no saved token has left behind.                                    *)
Restart ==
    /\ restarts < MaxRestarts
    /\ restarts' = restarts + 1
    /\ news' = [r \in Rooms |-> news[r] \cup
                  IF Joined(r) THEN unsaved[r] \ {"invite"} ELSE unsaved[r]]
    /\ unsaved' = Nothing /\ resp' = Nothing
    /\ step' = "sync" /\ synced' = {} /\ reconciled' = FALSE
    /\ missing' = {} /\ resync' = {}
    /\ queue' = [r \in Rooms |-> <<>>]
    /\ missed' = missed \cup {r \in Rooms : queue[r] # <<>>}
    /\ UNCHANGED <<membership, hidden, spam, portals, refused>>

-----------------------------------------------------------------------------
Reddit == \E r \in Rooms :
    \/ Invite(r) \/ Verdict(r) \/ BuryVerdict(r) \/ Hide(r)
    \/ Touch(r) \/ Message(r) \/ AcceptOnReddit(r)

Loop ==
    \/ SyncResponse \/ FinishSync \/ JoinedRooms \/ JoinedRoomsFails \/ ReconcileNext
    \/ \E r \in Rooms :
         HandleInvite(r) \/ HandleJoinedRoom(r) \/ ReconcileMissing(r) \/ ReconcileExisting(r)

Next ==
    \/ Reddit \/ Loop \/ Restart
    \/ \E r \in Rooms : PortalHandle(r) \/ AcceptInPortal(r)

Spec == Init /\ [][Next]_vars

(* The sync loop and the portals keep running.                             *)
FairSpec == Spec /\ WF_vars(Loop) /\ \A r \in Rooms : WF_vars(PortalHandle(r))

-----------------------------------------------------------------------------
(* Every variable keeps its type, and the reconciliation looks for missing *)
(* chats only among those the sync did not cover.                          *)
TypeOK ==
    /\ membership \in [Rooms -> {"none", "invite", "join"}]
    /\ hidden \in [Rooms -> BOOLEAN]
    /\ spam \in [Rooms -> {"unverified", "spam", "buried"}]
    /\ news \in [Rooms -> SUBSET News] /\ unsaved \in [Rooms -> SUBSET News]
    /\ resp \in [Rooms -> SUBSET News]
    /\ step \in Steps
    /\ synced \subseteq Rooms /\ missing \subseteq Rooms /\ resync \subseteq Rooms
    /\ missing \cap synced = {}
    /\ reconciled \in BOOLEAN
    /\ queue \in [Rooms -> Seq(Items)] /\ \A r \in Rooms : Len(queue[r]) <= MaxQueue
    /\ portal \in [Rooms -> BOOLEAN] /\ pending \in [Rooms -> BOOLEAN]
    /\ refused \subseteq Rooms /\ missed \subseteq Rooms
    /\ restarts \in 0 .. MaxRestarts

(* A request that was dismissed or classified as spam before the bridge    *)
(* heard of it does not get a portal, however often sync reports it again, *)
(* as long as the checks are answered (sync.go:159-190) and the verdict is *)
(* among the events that IsSpamChat reads (client.go:299-313): one it does *)
(* not reach ends the refusal, unless the request was dismissed as well.   *)
RefusedRequestsStayOut == \A r \in refused : Invited(r) => ~portal[r]

(* README.md "Chats dismissed after being accepted carry the same flag,    *)
(* and for those it arrives in sync account data", and                     *)
(* README.md "Dismissing is also permanent: a new message does not clear   *)
(* com.reddit.hidden_chat, so someone you ignored cannot push their way    *)
(* back into your Matrix account by messaging again".                      *)
DismissedStaysOut == \A r \in refused : hidden[r] => ~portal[r]

(* Every accepted chat that is not dismissed gets its portal, although     *)
(* sync leaves out all rooms beyond its cap and a restart may lose what    *)
(* was queued (reconcile.go:13-21).                                        *)
JoinedChatsBridged ==
    \A r \in Rooms : (Joined(r) /\ ~hidden[r]) ~> (portal[r] \/ hidden[r])

(* A portal whose chat is accepted does not stay marked as a request: the  *)
(* invite snapshot of an earlier sync may be handled after the acceptance  *)
(* and set the mark again, but then the join's own resync is on its way    *)
(* behind it (chatinfo.go:47-52 and 125-130, sync.go:209-218 and 265-275), *)
(* unless the bridge missed news of the chat, which the next reconnection  *)
(* makes up for, or the user dismissed it (reconcile.go:13-21).            *)
EndsResynced(s) ==
    \E i \in 1 .. Len(s) :
        s[i] \in {"info", "refresh"} /\ \A j \in i + 1 .. Len(s) : s[j] # "invite"
ResyncOnItsWay(r) == "state" \in news[r] \cup resp[r] \/ EndsResynced(queue[r])
StaleMarkHeals ==
    \A r \in Rooms :
        portal[r] /\ pending[r] /\ Joined(r) /\ ~hidden[r] /\ r \notin missed => ResyncOnItsWay(r)
=============================================================================
