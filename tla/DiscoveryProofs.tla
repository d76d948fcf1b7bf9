-------------------------- MODULE DiscoveryProofs --------------------------
(***************************************************************************)
(* Proofs about Discovery, for any set of chats, any sync cap, any bounds  *)
(* and any number of reconnections.                                        *)
(*                                                                         *)
(* That a refused request gets no portal needs more than the property: an  *)
(* unaccepted chat must not be in the hands of the code paths that bridge  *)
(* without asking (a joined room of the response, the reconciliation's     *)
(* list, an item already queued).                                          *)
(***************************************************************************)
EXTENDS Discovery, TLAPS

(* The reconciliation's list is only in use while it is being walked.      *)
MissingInUse == step # "missing" => missing = {}

TypeInv == TypeOK /\ MissingInUse

LEMMA EnqueueTyped ==
    ASSUME queue \in [Rooms -> Seq(Items)], \A q \in Rooms : Len(queue[q]) <= MaxQueue,
           NEW r \in Rooms, NEW items \in Seq(Items), Enqueue(r, items)
    PROVE  queue' \in [Rooms -> Seq(Items)] /\ \A q \in Rooms : Len(queue'[q]) <= MaxQueue
  <1>1. queue' = [queue EXCEPT ![r] = queue[r] \o items] /\ queue[r] \in Seq(Items)
    BY DEF Enqueue
  <1>2. queue[r] \o items \in Seq(Items)
    BY <1>1
  <1>3. Len(queue[r] \o items) <= MaxQueue
    BY <1>1, BoundsAssumption DEF Enqueue
  <1>4. queue' \in [Rooms -> Seq(Items)]
    BY <1>1, <1>2
  <1>5. ASSUME NEW q \in Rooms PROVE Len(queue'[q]) <= MaxQueue
    <2>1. CASE q = r
      BY <1>1, <1>3, <2>1
    <2>2. CASE q # r
      BY <1>1, <2>2
    <2> QED
      BY <2>1, <2>2
  <1> QED
    BY <1>4, <1>5

LEMMA JoinedItemsTyped == ASSUME NEW r \in Rooms PROVE JoinedItems(r) \in Seq(Items)
  <1>1. <<>> \in Seq(Items) /\ <<"info">> \in Seq(Items) /\ <<"message">> \in Seq(Items)
    BY DEF Items
  <1> QED
    BY <1>1 DEF JoinedItems

LEMMA TypeInit == Init => TypeInv
  <1> SUFFICES ASSUME Init PROVE TypeInv
    OBVIOUS
  <1> USE RoomsAssumption, BoundsAssumption
  <1>1. membership \in [Rooms -> {"none", "invite", "join"}]
    BY DEF Init
  <1>2. /\ news \in [Rooms -> SUBSET News] /\ resp \in [Rooms -> SUBSET News]
        /\ unsaved \in [Rooms -> SUBSET News]
    BY DEF Init, News, Nothing
  <1>3. queue \in [Rooms -> Seq(Items)] /\ \A r \in Rooms : Len(queue[r]) <= MaxQueue
    BY DEF Init
  <1>4. hidden \in [Rooms -> BOOLEAN] /\ refused \subseteq Rooms /\ missed \subseteq Rooms
    BY DEF Init
  <1>5. spam \in [Rooms -> {"unverified", "spam", "buried"}]
    BY DEF Init
  <1>6. portal \in [Rooms -> BOOLEAN] /\ pending \in [Rooms -> BOOLEAN]
    BY DEF Init
  <1>7. /\ step \in Steps /\ synced = {} /\ missing = {} /\ resync = {}
        /\ restarts \in 0 .. MaxRestarts
    BY DEF Init, Steps
  <1>8. reconciled \in BOOLEAN
    BY Zenon DEF Init
  <1> QED
    BY <1>1, <1>2, <1>3, <1>4, <1>5, <1>6, <1>7, <1>8 DEF TypeInv, TypeOK, MissingInUse

LEMMA SyncAgainTyped ==
    ASSUME TypeOK, SyncAgain
    PROVE  step' = "sync" /\ unsaved' \in [Rooms -> SUBSET News]
  <1>1. Nothing \in [Rooms -> SUBSET News]
    BY DEF Nothing
  <1> QED
    BY <1>1 DEF SyncAgain, TypeOK

LEMMA TypeStep == ASSUME TypeInv, [Next]_vars PROVE TypeInv'
  <1> USE RoomsAssumption, BoundsAssumption
  <1> USE DEF TypeInv, TypeOK, MissingInUse, reddit, loop, portals, history
  <1>1. ASSUME NEW r \in Rooms, Invite(r) PROVE TypeInv'
    BY <1>1 DEF Invite, ToldOf, News
  <1>2. ASSUME NEW r \in Rooms, Verdict(r) PROVE TypeInv'
    <2>1. refused' \subseteq Rooms
      BY <1>2 DEF Verdict, Refuse
    <2> QED
      BY <1>2, <2>1 DEF Verdict
  <1>3. ASSUME NEW r \in Rooms, Hide(r) PROVE TypeInv'
    <2>1. refused' \subseteq Rooms
      BY <1>3 DEF Hide, Refuse
    <2>2. news' \in [Rooms -> SUBSET News]
      BY <1>3 DEF Hide, ToldOf, News
    <2> QED
      BY <1>3, <2>1, <2>2 DEF Hide
  <1>4. ASSUME NEW r \in Rooms, Touch(r) PROVE TypeInv'
    BY <1>4 DEF Touch, ToldOf, News
  <1>5. ASSUME NEW r \in Rooms, Message(r) PROVE TypeInv'
    BY <1>5 DEF Message, ToldOf, News
  <1>6. ASSUME NEW r \in Rooms, AcceptOnReddit(r) PROVE TypeInv'
    BY <1>6 DEF AcceptOnReddit, News
  <1>20. ASSUME NEW r \in Rooms, BuryVerdict(r) PROVE TypeInv'
    BY <1>20 DEF BuryVerdict
  <1>7. CASE SyncResponse
    <2>1. /\ resp' \in [Rooms -> SUBSET News] /\ news' \in [Rooms -> SUBSET News]
          /\ synced' \subseteq Rooms /\ step' = "handle" /\ missing = {}
      BY <1>7 DEF SyncResponse, Nothing
    <2>2. unsaved' \in [Rooms -> SUBSET News]
      BY <1>7 DEF SyncResponse, Nothing
    <2> QED
      BY <1>7, <2>1, <2>2 DEF SyncResponse, Steps
  <1>8. CASE FinishSync
    <2>1. step' \in {"sync", "list"} /\ unsaved' \in [Rooms -> SUBSET News]
      BY <1>8, SyncAgainTyped DEF FinishSync
    <2> QED
      BY <1>8, <2>1 DEF FinishSync, Steps
  <1>9. CASE JoinedRooms
    BY <1>9 DEF JoinedRooms, UncoveredRooms, Steps
  <1>10. CASE JoinedRoomsFails
    <2>1. step' = "sync" /\ unsaved' \in [Rooms -> SUBSET News]
      BY <1>10, SyncAgainTyped DEF JoinedRoomsFails
    <2> QED
      BY <1>10, <2>1 DEF JoinedRoomsFails, Steps
  <1>11. CASE ReconcileNext
    <2>1. step' \in {"sync", "resync"} /\ unsaved' \in [Rooms -> SUBSET News] /\ missing = {}
      BY <1>11, SyncAgainTyped DEF ReconcileNext
    <2> QED
      BY <1>11, <2>1 DEF ReconcileNext, Steps
  <1>12. ASSUME NEW r \in Rooms, HandleInvite(r) PROVE TypeInv'
    <2>1. CASE UNCHANGED queue
      BY <1>12, <2>1 DEF HandleInvite
    <2>2. CASE Enqueue(r, <<"invite">>)
      <3>1. <<"invite">> \in Seq(Items)
        BY DEF Items
      <3> QED
        BY <1>12, <2>2, <3>1, EnqueueTyped DEF HandleInvite
    <2> QED
      BY <1>12, <2>1, <2>2 DEF HandleInvite
  <1>13. ASSUME NEW r \in Rooms, HandleJoinedRoom(r) PROVE TypeInv'
    <2>1. CASE UNCHANGED queue
      BY <1>13, <2>1 DEF HandleJoinedRoom
    <2>2. CASE Enqueue(r, JoinedItems(r))
      BY <1>13, <2>2, JoinedItemsTyped, EnqueueTyped DEF HandleJoinedRoom
    <2> QED
      BY <1>13, <2>1, <2>2 DEF HandleJoinedRoom
  <1>14. ASSUME NEW r \in Rooms, ReconcileMissing(r) PROVE TypeInv'
    <2>1. CASE UNCHANGED queue
      BY <1>14, <2>1 DEF ReconcileMissing
    <2>2. CASE Enqueue(r, <<"info">>)
      <3>1. <<"info">> \in Seq(Items)
        BY DEF Items
      <3> QED
        BY <1>14, <2>2, <3>1, EnqueueTyped DEF ReconcileMissing
    <2> QED
      BY <1>14, <2>1, <2>2 DEF ReconcileMissing
  <1>15. ASSUME NEW r \in Rooms, ReconcileExisting(r) PROVE TypeInv'
    <2>1. CASE UNCHANGED queue
      BY <1>15, <2>1 DEF ReconcileExisting
    <2>2. CASE Enqueue(r, <<"refresh">>)
      <3>1. <<"refresh">> \in Seq(Items)
        BY DEF Items
      <3> QED
        BY <1>15, <2>2, <3>1, EnqueueTyped DEF ReconcileExisting
    <2> QED
      BY <1>15, <2>1, <2>2 DEF ReconcileExisting
  <1>16. ASSUME NEW r \in Rooms, PortalHandle(r) PROVE TypeInv'
    <2>1. queue' \in [Rooms -> Seq(Items)] /\ \A q \in Rooms : Len(queue'[q]) <= MaxQueue
      <3>1. Tail(queue[r]) \in Seq(Items) /\ Len(Tail(queue[r])) <= MaxQueue
        BY <1>16 DEF PortalHandle
      <3> QED
        BY <1>16, <3>1 DEF PortalHandle
    <2>2. MarkedBy(r, Head(queue[r])) \in BOOLEAN
      BY DEF MarkedBy
    <2>3. portal' \in [Rooms -> BOOLEAN] /\ pending' \in [Rooms -> BOOLEAN]
      BY <1>16, <2>2, Zenon DEF PortalHandle
    <2> QED
      BY <1>16, <2>1, <2>3 DEF PortalHandle
  <1>17. ASSUME NEW r \in Rooms, AcceptInPortal(r) PROVE TypeInv'
    BY <1>17 DEF AcceptInPortal, News
  <1>18. CASE Restart
    <2>1. news' \in [Rooms -> SUBSET News]
      BY <1>18 DEF Restart
    <2>2. queue' \in [Rooms -> Seq(Items)] /\ \A q \in Rooms : Len(queue'[q]) <= MaxQueue
      BY <1>18 DEF Restart
    <2>3. resp' \in [Rooms -> SUBSET News] /\ unsaved' \in [Rooms -> SUBSET News]
      BY <1>18 DEF Restart, Nothing
    <2>4. /\ step' \in Steps /\ synced' = {} /\ missing' = {} /\ resync' = {}
          /\ restarts' \in 0 .. MaxRestarts
      BY <1>18 DEF Restart, Steps
    <2>5. reconciled' \in BOOLEAN
      BY <1>18, Zenon DEF Restart
    <2> QED
      BY <1>18, <2>1, <2>2, <2>3, <2>4, <2>5 DEF Restart
  <1>19. CASE UNCHANGED vars
    BY <1>19 DEF vars
  <1> QED
    BY <1>1, <1>2, <1>3, <1>4, <1>5, <1>6, <1>7, <1>8, <1>9, <1>10, <1>11, <1>12, <1>13,
       <1>14, <1>15, <1>16, <1>17, <1>18, <1>19, <1>20 DEF Next, Reddit, Loop

(* Every variable keeps its type, a portal's queue its bound, and the      *)
(* reconciliation looks for missing chats only among those the sync did    *)
(* not cover: its list is empty whenever synced changes.                   *)
THEOREM DiscoveryTypeCorrect == Spec => []TypeOK
  <1>1. TypeInv => TypeOK
    BY DEF TypeInv
  <1> QED
    BY TypeInit, TypeStep, <1>1, PTL DEF Spec

-----------------------------------------------------------------------------
(* What a request can be in the hands of.                                  *)
RequestsReportedAsInvites ==
    \A r \in Rooms : Invited(r) =>
        news[r] \subseteq {"invite"} /\ unsaved[r] \subseteq {"invite"} /\ resp[r] \subseteq {"invite"}

NothingOfStrangers ==
    \A r \in Rooms : membership[r] = "none" =>
        news[r] = {} /\ unsaved[r] = {} /\ resp[r] = {} /\ r \notin refused

MissingAreJoined == \A r \in missing : Joined(r)

(* The checks, if they are answered, say so.                               *)
Unwanted(r) == hidden[r] \/ spam[r] = "spam"

RefusedOutOfReach ==
    \A r \in refused : Invited(r) => Unwanted(r) /\ ~portal[r] /\ queue[r] = <<>>

RequestInv ==
    /\ RequestsReportedAsInvites
    /\ NothingOfStrangers
    /\ MissingAreJoined
    /\ RefusedOutOfReach

LEMMA RequestInit == Init => RequestInv
  BY RoomsAssumption DEF Init, RequestInv, RequestsReportedAsInvites, NothingOfStrangers,
     MissingAreJoined, RefusedOutOfReach, Invited, Joined, Nothing, Unwanted

(* With every check answered and both options off, an unwanted chat with   *)
(* no portal is skipped.                                                   *)
LEMMA UnwantedIsSkipped ==
    ASSUME "check" \notin Failing, ~BridgeHiddenChats, ~BridgeSpamChats, TypeOK,
           NEW r \in Rooms, Unwanted(r), ~portal[r],
           NEW skip \in SkipAnswers(r)
    PROVE  skip
  <1>1. HiddenAnswers(r) = {hidden[r]} /\ SpamAnswers(r) = {spam[r] = "spam"}
    BY DEF HiddenAnswers, SpamAnswers, CheckAnswers
  <1>2. SkipAnswers(r) = {h \/ s : h \in HiddenAnswers(r), s \in SpamAnswers(r)}
    BY DEF SkipAnswers
  <1>3. PICK h \in HiddenAnswers(r), s \in SpamAnswers(r) : skip = (h \/ s)
    BY <1>2
  <1>4. (h <=> hidden[r]) /\ (s <=> spam[r] = "spam")
    BY <1>1, <1>3, Zenon
  <1> QED
    BY <1>3, <1>4 DEF Unwanted

LEMMA RequestStep ==
    ASSUME "check" \notin Failing, ~BridgeHiddenChats, ~BridgeSpamChats,
           TypeInv, RequestInv, [Next]_vars
    PROVE  RequestInv'
  <1> USE DEF RequestInv, RequestsReportedAsInvites, NothingOfStrangers, MissingAreJoined,
              RefusedOutOfReach, Invited, Joined, Unwanted, TypeInv, TypeOK, reddit, loop, portals, history
  <1>1. ASSUME NEW r \in Rooms, Invite(r) PROVE RequestInv'
    BY <1>1 DEF Invite, ToldOf
  <1>2. ASSUME NEW r \in Rooms, Verdict(r) PROVE RequestInv'
    <2>1. CASE Untouched(r)
      BY <1>2, <2>1 DEF Verdict, Refuse, Untouched
    <2>2. CASE ~Untouched(r)
      BY <1>2, <2>2 DEF Verdict, Refuse
    <2> QED
      BY <2>1, <2>2
  <1>3. ASSUME NEW r \in Rooms, Hide(r) PROVE RequestInv'
    <2>1. CASE Untouched(r)
      BY <1>3, <2>1 DEF Hide, Refuse, ToldOf, Untouched
    <2>2. CASE ~Untouched(r)
      BY <1>3, <2>2 DEF Hide, Refuse, ToldOf
    <2> QED
      BY <2>1, <2>2
  <1>4. ASSUME NEW r \in Rooms, Touch(r) PROVE RequestInv'
    BY <1>4 DEF Touch, ToldOf
  <1>5. ASSUME NEW r \in Rooms, Message(r) PROVE RequestInv'
    BY <1>5 DEF Message, ToldOf
  <1>6. ASSUME NEW r \in Rooms, AcceptOnReddit(r) PROVE RequestInv'
    BY <1>6 DEF AcceptOnReddit
  <1>18. ASSUME NEW r \in Rooms, BuryVerdict(r) PROVE RequestInv'
    BY <1>18 DEF BuryVerdict
  <1>7. CASE SyncResponse
    BY <1>7 DEF SyncResponse, Nothing
  <1>8. CASE FinishSync \/ JoinedRoomsFails \/ ReconcileNext
    <2>1. \A r \in Rooms : unsaved'[r] \subseteq unsaved[r]
      BY <1>8 DEF FinishSync, JoinedRoomsFails, ReconcileNext, SyncAgain, Nothing
    <2> QED
      BY <1>8, <2>1 DEF FinishSync, JoinedRoomsFails, ReconcileNext
  <1>9. CASE JoinedRooms
    BY <1>9 DEF JoinedRooms, UncoveredRooms
  <1>10. ASSUME NEW r \in Rooms, HandleInvite(r) PROVE RequestInv'
    <2>1. PICK skip \in SkipAnswers(r) :
            IF skip THEN UNCHANGED queue ELSE Enqueue(r, <<"invite">>)
      BY <1>10 DEF HandleInvite
    <2>2. CASE r \in refused /\ Invited(r)
      <3>1. skip
        BY <2>2, UnwantedIsSkipped
      <3> QED
        BY <1>10, <2>1, <3>1 DEF HandleInvite
    <2>3. CASE ~(r \in refused /\ Invited(r))
      <3>1. \A q \in Rooms \ {r} : queue'[q] = queue[q]
        BY <2>1 DEF Enqueue
      <3> QED
        BY <1>10, <2>3, <3>1 DEF HandleInvite
    <2> QED
      BY <2>2, <2>3
  <1>11. ASSUME NEW r \in Rooms, HandleJoinedRoom(r) PROVE RequestInv'
    <2>1. ~Invited(r)
      BY <1>11 DEF HandleJoinedRoom
    <2>2. \A q \in Rooms \ {r} : queue'[q] = queue[q]
      BY <1>11 DEF HandleJoinedRoom, Enqueue
    <2> QED
      BY <1>11, <2>1, <2>2 DEF HandleJoinedRoom
  <1>12. ASSUME NEW r \in Rooms, ReconcileMissing(r) PROVE RequestInv'
    <2>1. ~Invited(r)
      BY <1>12 DEF ReconcileMissing
    <2>2. \A q \in Rooms \ {r} : queue'[q] = queue[q]
      BY <1>12 DEF ReconcileMissing, Enqueue
    <2> QED
      BY <1>12, <2>1, <2>2 DEF ReconcileMissing
  <1>13. ASSUME NEW r \in Rooms, ReconcileExisting(r) PROVE RequestInv'
    <2>1. \A q \in Rooms : portal[q] \/ queue'[q] = queue[q]
      BY <1>13 DEF ReconcileExisting, Enqueue
    <2> QED
      BY <1>13, <2>1 DEF ReconcileExisting
  <1>14. ASSUME NEW r \in Rooms, PortalHandle(r) PROVE RequestInv'
    <2>1. ~(r \in refused /\ Invited(r))
      BY <1>14 DEF PortalHandle
    <2>2. \A q \in Rooms \ {r} : queue'[q] = queue[q] /\ portal'[q] = portal[q]
      BY <1>14 DEF PortalHandle
    <2> QED
      BY <1>14, <2>1, <2>2 DEF PortalHandle
  <1>15. ASSUME NEW r \in Rooms, AcceptInPortal(r) PROVE RequestInv'
    BY <1>15 DEF AcceptInPortal
  <1>16. CASE Restart
    BY <1>16 DEF Restart, Nothing
  <1>17. CASE UNCHANGED vars
    BY <1>17 DEF vars
  <1> QED
    BY <1>1, <1>2, <1>3, <1>4, <1>5, <1>6, <1>7, <1>8, <1>9, <1>10, <1>11, <1>12, <1>13,
       <1>14, <1>15, <1>16, <1>17, <1>18 DEF Next, Reddit, Loop

(* As long as the checks are answered and the options that bridge such     *)
(* chats are off, a request that was dismissed before the bridge heard of  *)
(* it, or classified as spam by an event still in reach of IsSpamChat,     *)
(* gets no portal, through any number of repeated reports,                 *)
(* reconciliations and restarts (sync.go:159-190, client.go:299-313).      *)
THEOREM RefusedRequestsNeverBridged ==
    ASSUME "check" \notin Failing, ~BridgeHiddenChats, ~BridgeSpamChats
    PROVE  Spec => []RefusedRequestsStayOut
  <1>1. TypeInv /\ RequestInv => RefusedRequestsStayOut
    BY DEF RequestInv, RefusedOutOfReach, RefusedRequestsStayOut
  <1>2. TypeInv /\ RequestInv /\ [Next]_vars => (TypeInv /\ RequestInv)'
    BY TypeStep, RequestStep
  <1>3. Init => TypeInv /\ RequestInv
    BY TypeInit, RequestInit
  <1> QED
    BY <1>1, <1>2, <1>3, PTL DEF Spec

-----------------------------------------------------------------------------
(* What makes a stale mark heal.  A snapshot of the invite may be in the   *)
(* response being handled, or queued, after the chat was accepted: it will *)
(* set the mark once more, so the resync has to be behind it.              *)
RespInUse == step # "handle" => \A r \in Rooms : resp[r] = {}

AccountMeansHidden ==
    \A r \in Rooms : "account" \in news[r] \cup unsaved[r] \cup resp[r] => hidden[r]

(* What is in the response would be reported again.                        *)
RespUnsaved == \A r \in Rooms : restarts # MaxRestarts => resp[r] \subseteq unsaved[r]

NoInviteNews == \A r \in Rooms : Joined(r) => "invite" \notin news[r]

(* The join that came while the snapshot was in a response is still news.  *)
JoinBehindSnapshot ==
    \A r \in Rooms : Joined(r) /\ "invite" \in resp[r] => "state" \in news[r]

HasInvite(s) == \E i \in 1 .. Len(s) : s[i] = "invite"
MayBeMarked(r) == (portal[r] /\ pending[r]) \/ HasInvite(queue[r])

ResyncBehindSnapshot ==
    \A r \in Rooms :
        Joined(r) /\ ~hidden[r] /\ r \notin missed /\ MayBeMarked(r) => ResyncOnItsWay(r)

MarkInv ==
    /\ RespInUse
    /\ AccountMeansHidden
    /\ RespUnsaved
    /\ NoInviteNews
    /\ JoinBehindSnapshot
    /\ ResyncBehindSnapshot

(* Queueing what is no snapshot keeps what was queued for a resync, and    *)
(* brings no snapshot.                                                     *)
LEMMA AppendKeeps ==
    ASSUME NEW s \in Seq(Items), NEW t \in Seq(Items), ~HasInvite(t)
    PROVE  /\ EndsResynced(s) => EndsResynced(s \o t)
           /\ HasInvite(s \o t) => HasInvite(s)
  <1>1. /\ Len(s \o t) = Len(s) + Len(t)
        /\ \A i \in 1 .. Len(s) : (s \o t)[i] = s[i]
        /\ \A i \in Len(s) + 1 .. Len(s) + Len(t) : (s \o t)[i] = t[i - Len(s)]
    OBVIOUS
  <1>2. \A i \in Len(s) + 1 .. Len(s) + Len(t) : (s \o t)[i] # "invite"
    <2> TAKE i \in Len(s) + 1 .. Len(s) + Len(t)
    <2>1. i - Len(s) \in 1 .. Len(t)
      OBVIOUS
    <2> QED
      BY <1>1, <2>1 DEF HasInvite
  <1>3. ASSUME EndsResynced(s) PROVE EndsResynced(s \o t)
    <2>1. PICK i \in 1 .. Len(s) :
            s[i] \in {"info", "refresh"} /\ \A j \in i + 1 .. Len(s) : s[j] # "invite"
      BY <1>3 DEF EndsResynced
    <2>2. i \in 1 .. Len(s \o t) /\ (s \o t)[i] \in {"info", "refresh"}
      BY <1>1, <2>1
    <2>3. \A j \in i + 1 .. Len(s \o t) : (s \o t)[j] # "invite"
      BY <1>1, <1>2, <2>1
    <2> QED
      BY <2>2, <2>3 DEF EndsResynced
  <1>4. HasInvite(s \o t) => HasInvite(s)
    BY <1>1, <1>2 DEF HasInvite
  <1> QED
    BY <1>3, <1>4

(* A queued resync ends the queue resynced.                                *)
LEMMA AppendResync ==
    ASSUME NEW s \in Seq(Items), NEW t \in Seq(Items), ~HasInvite(t), Len(t) > 0,
           t[1] \in {"info", "refresh"}
    PROVE  EndsResynced(s \o t)
  <1>1. /\ Len(s) + 1 \in 1 .. Len(s \o t)
        /\ (s \o t)[Len(s) + 1] = t[1]
    OBVIOUS
  <1>2. \A j \in Len(s) + 2 .. Len(s \o t) : (s \o t)[j] # "invite"
    <2> TAKE j \in Len(s) + 2 .. Len(s \o t)
    <2>1. j - Len(s) \in 1 .. Len(t) /\ (s \o t)[j] = t[j - Len(s)]
      OBVIOUS
    <2> QED
      BY <2>1 DEF HasInvite
  <1> QED
    BY <1>1, <1>2 DEF EndsResynced

(* Taking the first item loses a queued resync only if no snapshot is left *)
(* behind it.                                                              *)
LEMMA TailKeeps ==
    ASSUME NEW s \in Seq(Items), s # <<>>
    PROVE  /\ HasInvite(Tail(s)) => HasInvite(s)
           /\ EndsResynced(s) /\ HasInvite(Tail(s)) => EndsResynced(Tail(s))
           /\ EndsResynced(s) /\ Head(s) \notin {"info", "refresh"} => EndsResynced(Tail(s))
           /\ Head(s) = "invite" => HasInvite(s)
  <1>1. /\ Len(Tail(s)) = Len(s) - 1 /\ Len(s) > 0 /\ Head(s) = s[1]
        /\ \A i \in 1 .. Len(s) - 1 : Tail(s)[i] = s[i + 1]
    OBVIOUS
  <1>2. HasInvite(Tail(s)) => HasInvite(s)
    BY <1>1 DEF HasInvite
  <1>3. ASSUME EndsResynced(s), HasInvite(Tail(s)) \/ Head(s) \notin {"info", "refresh"}
        PROVE  EndsResynced(Tail(s))
    <2>1. PICK i \in 1 .. Len(s) :
            s[i] \in {"info", "refresh"} /\ \A j \in i + 1 .. Len(s) : s[j] # "invite"
      BY <1>3 DEF EndsResynced
    <2>2. i # 1
      <3>1. CASE HasInvite(Tail(s))
        <4>1. PICK j \in 1 .. Len(Tail(s)) : Tail(s)[j] = "invite"
          BY <3>1 DEF HasInvite
        <4>2. s[j + 1] = "invite" /\ j + 1 \in 2 .. Len(s)
          BY <1>1, <4>1
        <4> QED
          BY <2>1, <4>2
      <3>2. CASE Head(s) \notin {"info", "refresh"}
        BY <1>1, <2>1, <3>2
      <3> QED
        BY <1>3, <3>1, <3>2
    <2>3. i - 1 \in 1 .. Len(Tail(s)) /\ Tail(s)[i - 1] = s[i]
      BY <1>1, <2>1, <2>2
    <2>4. \A j \in i .. Len(Tail(s)) : Tail(s)[j] # "invite"
      BY <1>1, <2>1
    <2> QED
      BY <2>1, <2>3, <2>4 DEF EndsResynced
  <1>4. Head(s) = "invite" => HasInvite(s)
    BY <1>1 DEF HasInvite
  <1> QED
    BY <1>2, <1>3, <1>4

LEMMA MarkInit == Init => MarkInv
  BY RoomsAssumption DEF Init, MarkInv, RespInUse, AccountMeansHidden, NoInviteNews,
     RespUnsaved, JoinBehindSnapshot, ResyncBehindSnapshot, MayBeMarked, HasInvite, Joined, Nothing

(* An action that queues items without a snapshot for one chat and leaves  *)
(* Reddit, the marks and the history alone keeps the resync on its way, if *)
(* it takes no join out of the response without queueing the resync.       *)
LEMMA QueueingKeeps ==
    ASSUME TypeInv, ResyncBehindSnapshot, NEW r \in Rooms, NEW t \in Seq(Items),
           ~HasInvite(t), Enqueue(r, t), UNCHANGED <<reddit, portals>>,
           \A q \in Rooms \ {r} : resp'[q] = resp[q],
           missed \subseteq missed' \cup {r},
           \/ EndsResynced(queue[r] \o t)
           \/ missed' = missed /\ (resp'[r] = resp[r] \/ "state" \notin resp[r])
    PROVE  ResyncBehindSnapshot'
  <1> USE DEF TypeInv, TypeOK, ResyncBehindSnapshot, MayBeMarked, ResyncOnItsWay, Joined,
              reddit, portals
  <1>1. /\ queue[r] \in Seq(Items)
        /\ queue'[r] = queue[r] \o t
        /\ \A q \in Rooms \ {r} : queue'[q] = queue[q]
    BY DEF Enqueue
  <1>2. HasInvite(queue'[r]) => HasInvite(queue[r])
    BY <1>1, AppendKeeps
  <1>3. EndsResynced(queue[r]) => EndsResynced(queue'[r])
    BY <1>1, AppendKeeps
  <1>4. ASSUME NEW q \in Rooms, q # r, (Joined(q) /\ ~hidden[q] /\ q \notin missed /\ MayBeMarked(q))'
        PROVE  ResyncOnItsWay(q)'
    BY <1>1, <1>4
  <1>5. ASSUME (Joined(r) /\ ~hidden[r] /\ r \notin missed /\ MayBeMarked(r))'
        PROVE  ResyncOnItsWay(r)'
    <2>1. CASE EndsResynced(queue[r] \o t)
      BY <1>1, <2>1
    <2>2. CASE (resp'[r] = resp[r] \/ "state" \notin resp[r]) /\ missed' = missed
      BY <1>1, <1>2, <1>3, <1>5, <2>2
    <2> QED
      BY <2>1, <2>2
  <1> QED
    BY <1>4, <1>5

LEMMA MarkStep == ASSUME TypeInv, MarkInv, [Next]_vars PROVE MarkInv'
  <1> USE DEF MarkInv, RespInUse, AccountMeansHidden, RespUnsaved, NoInviteNews, JoinBehindSnapshot,
              TypeInv, TypeOK, Joined, reddit, loop, portals, history
  <1> DEFINE Rest ==
        RespInUse /\ AccountMeansHidden /\ RespUnsaved /\ NoInviteNews /\ JoinBehindSnapshot
  <1>1. ASSUME NEW r \in Rooms, Invite(r) \/ Touch(r) \/ Message(r) PROVE MarkInv'
    <2>1. PICK items \in {{"invite"}, {"message"}} :
            /\ news' = [news EXCEPT ![r] = news[r] \cup items]
            /\ items = {"invite"} => ~Joined(r)' /\ ~Joined(r)
      BY <1>1 DEF Invite, Touch, Message, ToldOf, Invited
    <2>2. /\ UNCHANGED <<hidden, spam, unsaved, loop, queue, portals, history, restarts>>
          /\ \A q \in Rooms : Joined(q)' => Joined(q)
      BY <1>1 DEF Invite, Touch, Message
    <2>3. Rest'
      BY <2>1, <2>2
    <2>4. ResyncBehindSnapshot'
      BY <2>1, <2>2 DEF ResyncBehindSnapshot, MayBeMarked, ResyncOnItsWay
    <2> QED
      BY <2>3, <2>4
  <1>2. ASSUME NEW r \in Rooms, Verdict(r) PROVE MarkInv'
    BY <1>2 DEF Verdict, ResyncBehindSnapshot, MayBeMarked, ResyncOnItsWay
  <1>14. ASSUME NEW r \in Rooms, BuryVerdict(r) PROVE MarkInv'
    BY <1>14 DEF BuryVerdict, ResyncBehindSnapshot, MayBeMarked, ResyncOnItsWay
  <1>3. ASSUME NEW r \in Rooms, Hide(r) PROVE MarkInv'
    <2>1. Rest'
      BY <1>3 DEF Hide, ToldOf
    <2>2. ResyncBehindSnapshot'
      BY <1>3 DEF Hide, ToldOf, ResyncBehindSnapshot, MayBeMarked, ResyncOnItsWay
    <2> QED
      BY <2>1, <2>2
  <1>4. ASSUME NEW r \in Rooms, AcceptOnReddit(r) \/ AcceptInPortal(r) PROVE MarkInv'
    <2>1. /\ \A q \in Rooms \ {r} : news'[q] = news[q] /\ pending'[q] = pending[q]
                                      /\ (Joined(q)' <=> Joined(q))
          /\ UNCHANGED <<hidden, unsaved, loop, queue, portal, missed, restarts>>
      BY <1>4 DEF AcceptOnReddit, AcceptInPortal
    <2>2. \/ news'[r] = {"state"}
          \/ news'[r] = news[r] /\ Joined(r) /\ ~pending'[r]
      BY <1>4 DEF AcceptOnReddit, AcceptInPortal
    <2>3. RespInUse' /\ AccountMeansHidden' /\ RespUnsaved'
      <3>1. ASSUME NEW q \in Rooms, "account" \in news'[q] PROVE "account" \in news[q]
        <4>1. CASE q = r
          BY <2>2, <3>1, <4>1
        <4>2. CASE q # r
          BY <2>1, <3>1, <4>2
        <4> QED
          BY <4>1, <4>2
      <3> QED
        BY <2>1, <3>1
    <2>4. NoInviteNews' /\ JoinBehindSnapshot'
      <3>1. "invite" \notin news'[r] /\ (Joined(r)' /\ "invite" \in resp[r] => "state" \in news'[r])
        BY <2>1, <2>2
      <3>2. \A q \in Rooms \ {r} : Joined(q)' => Joined(q)
        BY <2>1
      <3> QED
        BY <2>1, <3>1, <3>2
    <2>5. ResyncBehindSnapshot'
      BY <2>1, <2>2 DEF ResyncBehindSnapshot, MayBeMarked, ResyncOnItsWay
    <2> QED
      BY <2>3, <2>4, <2>5
  <1>5. CASE SyncResponse
    <2>1. PICK S \in SUBSET Rooms :
            /\ resp' = [r \in Rooms |-> IF r \in S THEN news[r] ELSE {}]
            /\ missed' = missed \cup {r \in Rooms \ S : news[r] # {}}
      BY <1>5 DEF SyncResponse
    <2>2. Rest'
      BY <1>5, <2>1 DEF SyncResponse, Nothing
    <2>3. ResyncBehindSnapshot'
      BY <1>5, <2>1 DEF SyncResponse, Nothing, ResyncBehindSnapshot, MayBeMarked, ResyncOnItsWay
    <2> QED
      BY <2>2, <2>3
  <1>6. CASE FinishSync \/ JoinedRooms \/ JoinedRoomsFails \/ ReconcileNext
    <2>3. /\ UNCHANGED <<membership, hidden, news, resp, restarts>>
          /\ step = "handle" => \A r \in Rooms : resp[r] = {}
          /\ \A r \in Rooms : unsaved'[r] \subseteq unsaved[r]
      BY <1>6 DEF FinishSync, JoinedRooms, JoinedRoomsFails, ReconcileNext, SyncAgain, Nothing
    <2>1. Rest'
      BY <2>3
    <2>2. ResyncBehindSnapshot'
      BY <1>6 DEF FinishSync, JoinedRooms, JoinedRoomsFails, ReconcileNext, ResyncBehindSnapshot,
                  MayBeMarked, ResyncOnItsWay
    <2> QED
      BY <2>1, <2>2
  <1>7. ASSUME NEW r \in Rooms, HandleInvite(r) PROVE MarkInv'
    <2>1. Rest'
      BY <1>7 DEF HandleInvite
    <2>2. \A q \in Rooms \ {r} : queue'[q] = queue[q]
      BY <1>7 DEF HandleInvite, Enqueue
    <2>3. Joined(r) => "state" \in news[r]
      BY <1>7 DEF HandleInvite
    <2>4. ResyncBehindSnapshot'
      BY <1>7, <2>2, <2>3 DEF HandleInvite, ResyncBehindSnapshot, MayBeMarked, ResyncOnItsWay
    <2> QED
      BY <2>1, <2>4
  <1>8. ASSUME NEW r \in Rooms, HandleJoinedRoom(r) PROVE MarkInv'
    <2>1. Rest'
      BY <1>8 DEF HandleJoinedRoom
    <2>2. CASE SkipsJoined(r)
      <3>1. hidden[r] /\ UNCHANGED queue
        BY <1>8, <2>2 DEF HandleJoinedRoom, SkipsJoined
      <3> QED
        BY <1>8, <2>1, <3>1 DEF HandleJoinedRoom, ResyncBehindSnapshot, MayBeMarked, ResyncOnItsWay
    <2>3. CASE ~SkipsJoined(r)
      <3>1. Enqueue(r, JoinedItems(r)) /\ JoinedItems(r) \in Seq(Items)
        BY <1>8, <2>3, JoinedItemsTyped DEF HandleJoinedRoom
      <3>2. ~HasInvite(JoinedItems(r))
        BY DEF JoinedItems, HasInvite
      <3>3. "state" \in resp[r] => EndsResynced(queue[r] \o JoinedItems(r))
        <4>1. ASSUME "state" \in resp[r]
              PROVE  Len(JoinedItems(r)) > 0 /\ JoinedItems(r)[1] \in {"info", "refresh"}
          BY <4>1 DEF JoinedItems
        <4> QED
          BY <3>1, <3>2, <4>1, AppendResync
      <3>4. ResyncBehindSnapshot'
        BY <1>8, <3>1, <3>2, <3>3, QueueingKeeps DEF HandleJoinedRoom
      <3> QED
        BY <2>1, <3>4
    <2> QED
      BY <2>2, <2>3
  <1>9. ASSUME NEW r \in Rooms, ReconcileMissing(r) PROVE MarkInv'
    <2>1. Rest'
      BY <1>9 DEF ReconcileMissing
    <2>2. CASE UNCHANGED queue
      BY <1>9, <2>1, <2>2 DEF ReconcileMissing, ResyncBehindSnapshot, MayBeMarked, ResyncOnItsWay
    <2>3. CASE Enqueue(r, <<"info">>)
      <3>1. <<"info">> \in Seq(Items) /\ ~HasInvite(<<"info">>)
        BY DEF Items, HasInvite
      <3>2. ResyncBehindSnapshot'
        BY <1>9, <2>3, <3>1, QueueingKeeps DEF ReconcileMissing
      <3> QED
        BY <2>1, <3>2
    <2> QED
      BY <1>9, <2>2, <2>3 DEF ReconcileMissing
  <1>10. ASSUME NEW r \in Rooms, ReconcileExisting(r) PROVE MarkInv'
    <2>1. Rest'
      BY <1>10 DEF ReconcileExisting
    <2>2. CASE ~portal[r]
      BY <1>10, <2>1, <2>2
         DEF ReconcileExisting, ResyncBehindSnapshot, MayBeMarked, ResyncOnItsWay
    <2>3. CASE portal[r]
      <3>1. Enqueue(r, <<"refresh">>) /\ missed' = missed \ {r}
        BY <1>10, <2>3 DEF ReconcileExisting
      <3>2. <<"refresh">> \in Seq(Items) /\ ~HasInvite(<<"refresh">>)
        BY DEF Items, HasInvite
      <3>3. EndsResynced(queue[r] \o <<"refresh">>)
        <4>1. Len(<<"refresh">>) > 0 /\ <<"refresh">>[1] = "refresh"
          OBVIOUS
        <4> QED
          BY <3>2, <4>1, AppendResync
      <3>4. /\ UNCHANGED <<reddit, portals>> /\ resp' = resp
            /\ missed \subseteq missed' \cup {r}
        BY <1>10, <3>1 DEF ReconcileExisting
      <3>5. ResyncBehindSnapshot'
        <4>1. \A q \in Rooms \ {r} : resp'[q] = resp[q]
          BY <3>4
        <4> HIDE DEF MarkInv, RespInUse, AccountMeansHidden, NoInviteNews, JoinBehindSnapshot,
                     TypeInv, TypeOK, Joined, reddit, loop, portals, history
        <4>2. TypeInv /\ ResyncBehindSnapshot
          BY DEF MarkInv
        <4> QED
          BY <3>1, <3>2, <3>3, <3>4, <4>1, <4>2, QueueingKeeps
      <3> QED
        BY <2>1, <3>5
    <2> QED
      BY <2>2, <2>3
  <1>11. ASSUME NEW r \in Rooms, PortalHandle(r) PROVE MarkInv'
    <2>1. Rest'
      BY <1>11 DEF PortalHandle
    <2> DEFINE item == Head(queue[r])
    <2>2. /\ queue[r] \in Seq(Items) /\ queue[r] # <<>> /\ queue'[r] = Tail(queue[r])
          /\ \A q \in Rooms \ {r} :
               queue'[q] = queue[q] /\ portal'[q] = portal[q] /\ pending'[q] = pending[q]
      BY <1>11 DEF PortalHandle
    <2>3. ASSUME NEW q \in Rooms, q # r,
                 (Joined(q) /\ ~hidden[q] /\ q \notin missed /\ MayBeMarked(q))'
          PROVE  ResyncOnItsWay(q)'
      BY <1>11, <2>2, <2>3 DEF PortalHandle, ResyncBehindSnapshot, MayBeMarked, ResyncOnItsWay
    <2>4. ASSUME (Joined(r) /\ ~hidden[r] /\ r \notin missed /\ MayBeMarked(r))'
          PROVE  ResyncOnItsWay(r)'
      <3>1. Joined(r) /\ ~hidden[r] /\ r \notin missed
        BY <1>11, <2>4 DEF PortalHandle
      <3>2. \/ HasInvite(Tail(queue[r]))
            \/ portal[r] /\ pending[r] /\ item \notin {"info", "refresh"}
            \/ item = "invite"
        <4>1. HasInvite(Tail(queue[r])) \/ (portal'[r] /\ pending'[r])
          BY <2>2, <2>4 DEF MayBeMarked
        <4>2. item \in Items
          BY <2>2
        <4>3. CASE pending' = [pending EXCEPT ![r] = MarkedBy(r, item)]
          BY <2>4, <3>1, <4>1, <4>3 DEF MarkedBy
        <4>4. CASE missed' = missed \cup {r}
          BY <2>4, <4>4
        <4>5. CASE ~NeedsInfo(r, item) /\ UNCHANGED portals
          BY <4>1, <4>2, <4>5 DEF NeedsInfo, Items
        <4> QED
          BY <1>11, <4>3, <4>4, <4>5 DEF PortalHandle
      <3>3. MayBeMarked(r)
        BY <2>2, <3>2, TailKeeps DEF MayBeMarked
      <3>4. ResyncOnItsWay(r)
        BY <3>1, <3>3 DEF ResyncBehindSnapshot
      <3>5. EndsResynced(queue[r]) => EndsResynced(Tail(queue[r]))
        BY <2>2, <3>2, TailKeeps
      <3> QED
        BY <1>11, <2>2, <3>4, <3>5 DEF PortalHandle, ResyncOnItsWay
    <2>5. ResyncBehindSnapshot'
      BY <2>3, <2>4 DEF ResyncBehindSnapshot
    <2> QED
      BY <2>1, <2>5
  <1>12. CASE Restart
    <2>1. Rest'
      BY <1>12 DEF Restart, Nothing
    <2>2. \A r \in Rooms : queue'[r] = <<>> /\ (r \notin missed' => queue[r] = <<>>)
      BY <1>12 DEF Restart
    <2>3. \A r \in Rooms : Joined(r) /\ "state" \in news[r] \cup resp[r] => "state" \in news'[r]
      BY <1>12, BoundsAssumption DEF Restart
    <2>4. ResyncBehindSnapshot'
      BY <1>12, <2>2, <2>3
         DEF Restart, ResyncBehindSnapshot, MayBeMarked, ResyncOnItsWay, EndsResynced, HasInvite
    <2> QED
      BY <2>1, <2>4
  <1>13. CASE UNCHANGED vars
    BY <1>13 DEF vars, ResyncBehindSnapshot, MayBeMarked, ResyncOnItsWay
  <1> QED
    BY <1>1, <1>2, <1>3, <1>4, <1>5, <1>6, <1>7, <1>8, <1>9, <1>10, <1>11, <1>12, <1>13,
       <1>14
       DEF Next, Reddit, Loop

(* An accepted chat that an old snapshot has marked as a request, or is    *)
(* about to, has its resync on the way behind that snapshot, whatever may  *)
(* fail, be restarted or be capped, unless the bridge missed news of it    *)
(* since it was last reconciled (chatinfo.go:47-52, sync.go:265-275).      *)
THEOREM StaleMarksHeal == Spec => []StaleMarkHeals
  <1>1. TypeInv /\ MarkInv => StaleMarkHeals
    BY DEF MarkInv, ResyncBehindSnapshot, MayBeMarked, StaleMarkHeals
  <1>2. TypeInv /\ MarkInv /\ [Next]_vars => (TypeInv /\ MarkInv)'
    BY TypeStep, MarkStep
  <1>3. Init => TypeInv /\ MarkInv
    BY TypeInit, MarkInit
  <1> QED
    BY <1>1, <1>2, <1>3, PTL DEF Spec
=============================================================================
