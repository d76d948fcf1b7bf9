# A verification project for matrix-redditchat-bridge

TLA+ models of the bridge between Reddit's chat (a Matrix homeserver with quirks) and a user's own
Matrix account, checked by TLC and partly proved with TLAPS. Paths are relative to the repository;
`sync.go`, `client.go` and the other Go files named without a directory are those of
`pkg/connector`.

The repository is a *connector* for the mautrix `bridgev2` framework. The framework itself (portal
queues, the message table, who calls `Connect`) and Reddit's servers are not in the repository: they
are modelled from how the code uses them, and such definitions are marked external in
`PROJECT.json`.

## 1. The system

### Components

| Component | Code | State | Operations |
| --- | --- | --- | --- |
| Connection lifecycle | `client.go`, `sync.go` | `syncCancel`, `syncDone`, `pollDone` under `syncLock`; `loggedIn`; the bridge state last sent | `Connect`, `Disconnect`, `LogoutRemote`, `reportError`, the control flow of `syncLoop` |
| Token refresh | `tokenrefresh.go`, `redditchat/refresh.go` | `TokenExpiresAt`, the access token, `refreshLock` | `needsRefresh`, `ensureFreshToken`, `RefreshToken` |
| Event stream and sync token | `sync.go`, `dbmeta.go` | `meta().NextBatch` in memory and in the database | one sync request, `handleSync`, `handleTimelineEvent`, `Save` |
| Poll of pending requests | `pendingpoll.go` | none of its own; reads each portal's `MessageRequest` flag | `pollPendingRequests`, `pollPendingOnce`, `pollPendingPortal` |
| Chat discovery and reconciliation | `sync.go`, `reconcile.go` | `syncedRoomSet`, the loop's local `reconciled` | `shouldSkipRequest`, `handleJoinedRoom`, `reconcileJoinedRooms` |
| Chat info | `chatinfo.go` | none; its result marks a portal as a request | `getChatInfo`, `chatInfoFromInviteState`, `GetUserInfo` |
| Outgoing messages | `handlematrix.go` | `loggedIn` on a token error | `HandleMatrixMessage`, `HandleMatrixAcceptMessageRequest`, `sendMatrixMedia` |
| Reddit client | `redditchat/client.go` | the Matrix client's token | `Sync`, `Messages`, `JoinedRooms`, `IsHiddenChat`, `IsSpamChat`, `IsTokenError` |
| Backfill | `backfill.go` | pagination cursor | `FetchMessages` |
| Reactions | `reactions.go` | notices already posted; the cache of uploads is the avatars' | `noticeOnce` and the reaction handlers |
| Avatar and about cache | `avatarcache.go` | maps under a mutex, the `mediaBroken` latch | `get`, `uploadAvatar` |
| Profile store | `profile.go` | two indexes under a mutex | `put`, `get`, `handleRedditProfile` |
| Network icon | `networkicon.go` | two key-value entries, the URI in memory | `ensureNetworkIcon`, `invalidateBridgeInfoVersion` |
| Login flows | `login.go`, `redditchat/token.go` | a new or replaced user login | the login steps, `ParseToken` |
| Container bootstrap | `docker-entrypoint.sh` | files on a volume | one step per start |
| Media conversion, config, executables | `media.go`, `mediaupload.go`, `config.go`, `connector.go`, `cmd/` | none | pure conversions and process start |

### How they interact

* `Connect` starts two goroutines that share one cancellable context: the sync loop and the poll.
  `Disconnect` takes the cancel function out of the client under `syncLock`, and only after it has
  given the lock back does it cancel and join the goroutines. A later `Connect` can therefore start
  a second pair while the first still runs.
* The sync loop, and `Connect` itself, refresh the token through `ensureFreshToken`, serialised by
  `refreshLock`. Every other request reads the token the last refresh installed.
* The sync loop and the poll both put events into the portals' queues. A portal handles its queue
  and the user's outgoing messages one at a time, and drops an event whose ID is stored.
* A rejected outgoing message, the sync loop and `Connect` all write `loggedIn` and the bridge
  state.
* The reconciliation runs inside the sync loop after the first response, against a second source of
  truth (`/joined_rooms`), while the user and other people change memberships on Reddit.
* Lookups of user info run in the portals' goroutines, profile events and reactions in the sync loop
  of each login; they meet in the profile store and in the cache of uploads, which belong to the
  connector and so to all logins.
* The framework asks `FetchMessages` for pages of history while the sync loop queues new messages for
  the same portal.
* The entrypoint runs the program for three purposes (two generators and the bridge), each in a
  process of its own: what one start leaves in the data directory is all the next one knows.

### What is hard here, and the properties that make each part correct

* **Lifecycle** (two actors in the same field, joining goroutines): no goroutine is leaked or left
  uncancellable, `Disconnect` returns, a logout is final, a loop that stopped is reported, a login
  recovers.
* **Token refresh** (two actors, forced and unforced refreshes, a save that fails): at most one
  refresh at a time, and never of a token that is fresh and accepted.
* **Event stream** (crash between queueing and handling, between handling and saving; failed save):
  the saved token never runs ahead of the queues; nothing is shown twice or out of order.
* **Poll** (races with sync around an acceptance; limits of a batch): with the sync loop it shows
  every text once, in order, without gaps.
* **Outgoing messages** (the echo may be synced or polled before the answer is stored; the answer may
  be lost): no echo of an answered message.
* **Discovery** (verdicts and dismissals arrive at any time, sync is capped and incremental, checks
  fail): refused requests stay out, accepted chats are all bridged in the end, and the mark of a
  request goes away.
* **Avatars** (two caches shared by any number of goroutines and by all logins, with requests made
  between two holds of a mutex; profile events that may or may not be attributed): an image is not
  uploaded over and over, a homeserver without media is left in peace, and a ghost comes to have its
  user's avatar although lookups may finish late.
* **Reactions** (their image fails at any step): none is lost or doubled over its image.
* **Backfill** (pages newest first, served again after a stop, beside live messages; three ways to
  mark the beginning): the walk ends, leaves nothing behind and keeps the order.
* **Bootstrap and network icon** (a start may be killed between any two steps that leave something
  behind): the starts come to an end, a bridge that runs is completely set up, its portals show the
  icon of the moment.
* **Login** (another login starts the sync over): nothing is shown twice, and no echo.

`PROJECT.json` lists every hazard with its line.

## 2. Modules

| Module | Models |
| --- | --- |
| `Connection` | lifecycle, both goroutines' control flow, token refresh, rejected sends |
| `Delivery` | abstract: what a bridged chat promises its reader |
| `SyncStream` | events from Reddit's stream to the portals: sync, poll, own messages, restarts; implements `Delivery` |
| `Discovery` | which chats get a portal, and which are marked as requests |
| `Avatars` | the profile store, the cache of user info and uploads, and who reads them; reactions and their images |
| `Backfill` | the walk through a room's history, beside its live messages |
| `Startup` | from an empty volume to a running bridge: entrypoint, registrations, network icon |
| `MCConnection`, `MCSyncStream`, `MCDiscovery`, `MCAvatars`, `MCBackfill`, `MCStartup` | instances for TLC |
| `Subsequences` | operators: sets of event numbers in order, their ranks and newest members, subsequences |
| `SubsequenceTheorems` | lemmas about these operators and about queues |
| `ConnectionProofs`, `SyncStreamProofs`, `DeliveryProofs`, `DiscoveryProofs`, `AvatarsProofs`, `BackfillProofs`, `StartupProofs` | theorems |

The state machines cut the code by subject, not by file: `sync.go` is in three of them, its control
flow in `Connection` (where a successful response is one step), its token and events in
`SyncStream`, and its choice of chats in `Discovery`. What they share is the rule that a portal
handles one item at a time. `Avatars` takes up what a profile event, a reaction and a lookup of user
info do (for several logins, where the other machines follow one), `Backfill` what a page of history
does to a portal that shows live messages as well.

### Connection

`pc[c]` is where the sync loop of handle `c` is, and `pc[Connector]` where the thread in `Connect`
is: holding `syncLock` for the whole call is modelled by every other `syncLock` user requiring
`pc[Connector] = "idle"`. A *handle* is what one successful `Connect` stores (the cancel function
and two channels): `syncCancel` is the field, `closing[c]` is how far the `Disconnect` that took `c`
has come, and a handle is free again when that call has returned.

* `ConnectBegin`, `ConnectExpiry`, `WhoamiOk`, `WhoamiFail`: `Connect`.
* `AcquireRefresh`, `MintOk`, `MintFail`: `ensureFreshToken`, with its re-check under the lock. A
  failed `Save` after the token was replaced is the outcome of `MintFail` in which the token is new.
* `LoopTop` ... `BackoffCancelled`: `syncLoop`, a step per blocking call or branch. `Recovered` is
  the condition under which the loop restores the login state.
* `PollTick`, `PollDone`, `PollStop`: the select loop of `pollPendingRequests`. The `select` may take
  the ticker although the context is cancelled.
* `DisconnectBegin`, `Cancel`, `JoinSync`, `JoinPoll`, `LogoutIdle`: `Disconnect`, and
  `LogoutRemote` around it, which drops `loggedIn` after the join.
* `SendRejected`, `SendReport`: an outgoing message answered with a token error.
* `Tick`, `Revoke`: the clock against `TokenExpiresAt`, and Reddit rejecting a token early.

The request leaves with the token of that moment (`rejected`), so an answer may be about a token that
has been replaced since. `loggedIn.Store` and `BridgeState.Send` are one step.

Three constants are switches for the environment. `Overlap`: may the framework call `Connect` or
`LogoutRemote` before a `Disconnect` has returned? (The code does not forbid it.) `UserSends`: does
the user send messages Reddit rejects? `OutagePastExpiry`: may refreshes fail for the whole last
stretch before the token expires?

### SyncStream and Delivery

Reddit's side is one sequence of events; an event's index is its ID and a `next_batch` token is a
length of the sequence. A room is joined once its join is in the sequence. `News` and `Timeline` say
what a sync since a token contains: nothing of an unaccepted chat, everything (up to the timeline
limit) of a chat whose join is news.

* `SyncResponse`, `HandleTimelineEvent`, `FinishSync`: a response, its events one at a time, and the
  token taken over, with a `Save` that may fail. `SaveMetadata`: the refresh saves the same record.
* `PollPick`, `PollFetch`, `PollError`, `PollEvent`: the poll, from the portal's flag to the queue.
* `PortalHandle`: the framework takes an item, drops a message whose ID is stored, and clears the
  flag on a resync of a joined chat unless its requests fail. Of media it calls `convertRedditMedia`,
  whose download or upload may fail: the message is then not stored, and is converted again if a
  restart or a failed save has it served again.
* `AcceptRequest`, `AcceptedOnly`, `SendText`, `SendMedia`, `SendStored`, `SendUnanswered`: accepting
  and sending, with Reddit's side, the answer and the storing of the ID as separate steps. An image
  is uploaded to Reddit first; what fails up to there changes nothing.
* `Crash`: everything in memory is gone; the token, the stored IDs and the flags stay.
* `Relogin`: `SubmitUserInput` with credentials Reddit accepts for the same account. The saved
  metadata is new and has no `next_batch`, so the sync starts over, while portals and queues go on.
  The framework is taken to stop the client of the login before.

`shown` holds the messages of other people in the order in which a portal shows them, but for media
that failed to convert before, and `echoed` the user's own messages that came back as remote ones.

`Delivery` knows only how many messages other people have posted in a room and which of them, by
number, the portal shows; `Show` appends a newer one, and the next one when `Lossless`.
`SyncStream` refines it under `posted <- Posted, shown <- Shown`.

`lost`, `omitted`, `orphaned` and `failed` are history variables: events in a queue when the bridge
stopped, events left out of a limited timeline, own messages whose answer the bridge never saw, media
that failed to convert. They name the gaps the code accepts, so that the properties can exclude
exactly those.

### Discovery

`news[r]` is what the next sync would report of a chat: each item once, account data only when it
changed. `SyncResponse` takes as many chats as the cap allows and forgets the news of the others
(the token passes over them). `HandleInvite`, `HandleJoinedRoom` and `FinishSync` are `handleSync`;
`JoinedRooms`, `JoinedRoomsFails`, `ReconcileMissing`, `ReconcileExisting` and `ReconcileNext` are
`reconcileJoinedRooms`; `PortalHandle` applies a queued item with one of the two sources of chat
info; `AcceptInPortal` is the acceptance; `Restart` empties the queues and starts the loop over from
the saved token: what no saved token has left behind (`unsaved`: the response at hand, which is
saved after the reconciliation only, and responses whose save failed) is news again. A check that
fails counts as "no" (`CheckAnswers`), and a spam verdict is known while it is among the newest 30
events of the chat: `BuryVerdict` is the moment it is not any more. The constant `Failing` says which
requests, and whether saves, may fail.

`refused` is a history variable: the unaccepted chats dismissed or found spam before anything of
them had reached the bridge, while Reddit's answers still say so, and the accepted ones dismissed
before the login. `missed` holds the
chats of which a capped response passed over some news, an item was dropped by a restart, or chat
info failed, until the reconciliation resyncs them.

### Avatars

An avatar is a number that grows when its user changes it, and 0 stands for none: which URL it has
and that its query string is cut off matter only in that equal avatars are equal keys. `pc[a]` is
where a goroutine is between two holds of a mutex, `of[a]` the user it is concerned with, `found[a]`
what it has found so far. `Loops` are the sync loops of the logins, each with an `inbox` of its own;
a message or a reaction comes to any set of them, the logins that are in its chat.

* `HandleProfile` is `handleRedditProfile` up to the upload, run by a sync loop; its two disjuncts
  are an event that can be attributed and one that cannot.
* `StartLookup`, `ReadProfile`, `ReadAbout`, `FetchAbout`, `StoreAbout`: `GetUserInfo` and
  `userInfoFor` through `fetchAvatar` and `aboutCache.get`; a failed request is stored like an
  answer. `Expire` is the TTL.
* `CheckUpload`, `UploadOk`, `UploadFails`, `UploadUnrecognized`: `uploadAvatar`. A refusal for want
  of a media repository sets the latch if it comes from the framework's client; with
  `matrix_media_url` it comes as an error without a code, and sets nothing. `UpdateGhost`: the
  caller gets the avatar. When there is none, the ghost is left alone.
* `HandleReaction` is `handleRedditReaction` up to the upload, which goes through the same
  `uploadAvatar`; `QueueReaction` queues it with its image, and `WithoutImage` with the bare key,
  when the key names no image or the image failed (in `CheckUpload`, `UploadFails`,
  `UploadUnrecognized`).

`reactions` (posted), `uploaded`, `refusals` and `warnings` are history variables.

### Backfill

An event is its number in the room, and a token n stands for the place below which n events are
left. `FetchMessages` is the whole handler: count, request, conversion, reversal and
`HasMoreHistory`. Which page Reddit answers with (`Lengths`, `Ends`) is a choice: shorter than
asked, and at the beginning of the room marked by `t0_0`, by no token, or by a token that yields an
empty page. Media on a page may fail to convert. `ShowBatch` and `SaveTask` are the framework's: it
drops what is not older than the oldest message shown, and stores the cursor in a step of its own.
`Post` and `ShowLive` are the live path, `Crash` forgets the page and the queue. The first page
waits for the messages queued for the portal (the framework handles backfill and events of a portal
one at a time). `missed` names what was left out: media that failed, and what was queued when the
bridge stopped. The batch size is positive, since `config.go:69-71` puts 50 for any other.

### Startup

`pc` is where the container is. `CheckFiles`, `WriteConfig`, `PatchConfig`, `GenerateRegistration`,
`SaveTokens`, `GeneratePuppet` are the entrypoint, a step per file it leaves behind (`mxmain`'s `-g`
writes the registration and then the tokens in the config: two steps). `Run` is the exec of the
program; `IconStored`, `UploadFails`, `UploadOk`, `StoreIcon`, `Invalidate` are `ensureNetworkIcon`,
a step per request and per write; `Resend` and `StoreVersion` are the framework's `PostStart`, which
sends bridge info again when the stored version is not the connector's. `Kill` may happen between
any two steps. The operator edits the config, pastes the secret, installs the registration and
replaces the build while the container is down. Two of these are waited for: the homeserver's
domain, without which nothing is generated, and the installation of the registration, since the
homeserver refuses the tokens of a registration it does not have (`TokensAccepted`) and a bridge
started all the same ends, as the script's header says (`docker-entrypoint.sh:9-11`). `torn`,
`stale`, `uploaded`, `unrecorded` are history variables: a file half done, a change of the icon the
portals were not told of, uploads, and uploads no start lived to record. That the program refuses a
config it cannot use (an unpatched database, tokens of another registration, or of one not
installed) is the part of the framework and the homeserver and marked so. Writes to the key-value
store are taken to succeed: the code does not look at what becomes of them.

## 3. What TLC checks

| Run | Shows |
| --- | --- |
| `conn_overlap` | With two handles and calls that overlap, every goroutine that runs can still be cancelled (`NoLeakedLoop`), and refreshes are serial (`OneMintAtATime`). |
| `conn_single` | With a caller that waits, rejected sends and outages: `LogoutSticks`, `DeadLoopReported`, `MintOnlyStaleToken`, `DisconnectReturns`, the backoff's range in `TypeOK`, and `LoginRecovers`: once Reddit stops revoking tokens, a loop that backs off for a login marked as logged out marks it as working again, or stops at the token's expiry. |
| `conn_login_lost` | `LoginSurvives`, which asks this of every running loop with a cookie, backing off or not: violated when the user's sends can be rejected (finding 1). |
| `stream_limits` | One-event timelines and batches, an accepted chat and a request, one crash: `TokenBehindQueues`, `NoEcho`. |
| `stream_restart` | Without the poll, across two crashes and failed saves, with others' texts, others' and own images, and images that fail to convert: `ShownInOrder` (implements `Delivery`), `NoEcho`. |
| `stream_live` | Texts, sync and poll together, another login but no restart: `ShownWithoutGaps` (implements `Delivery` with `Lossless`), `EveryMessageShown`, and `NoEcho` although own messages are synced again. |
| `discovery_requests` | A request and an accepted chat, a cap of one, failing chat info, `/joined_rooms` and saves, verdicts out of reach, one restart: `RefusedRequestsStayOut`, and `StaleMarkHeals`: an accepted chat that is marked as a request has a resync in its queue, in the response at hand or in Reddit's news, unless something of it was missed. |
| `discovery_joined` | Two accepted chats, a cap of one, failing checks, one restart: `JoinedChatsBridged`. |
| `discovery_dismissed` | `DismissedStaysOut` violated (finding 2). |
| `avatars_shared` | A lookup and the sync loops of two logins: `UploadsBounded`, `RefusalsBounded`, at most one warning (`TypeOK`), `ReactionsKept`, and `GhostsSettle`. |
| `backfill_walk` | Rooms of up to four events of every kind, short pages, failing media, one restart, live messages: `ChatOrder`, `NothingLeftBehind`, `WalkEnds`, and that the walk never goes on from `t0_0` (`TypeOK`). |
| `startup_kills` | Two portals, two builds, three kills: `RunsComplete`, `IconsCurrent`, `UploadedOnce`, `ComesUp`, and one registration at most (`TypeOK`). |

### Bounds and reductions

* Two handles are enough for a successor to run while its predecessor is being joined; a third would
  be a second successor. Backoffs 1, 2, 3 stand for the first delay, a doubling and the cut-off
  (the code's two minutes are no power of two times its two seconds). `conn_overlap` uses symmetry
  of the handles (nothing distinguishes them) and a `VIEW` that identifies states which differ only
  in the login's flags: no action of that instance, where the user sends nothing, reads them, and
  neither of its invariants does.
* Streams of three or four events hold a message before and one after a join, or the user's own
  message between two of others; a queue of one or two is full at once; timelines and batches of one
  make every second event the omitted one, and of five never omit any.
* `stream_live` has one portal and a queue of one: with its three events, one more login and liveness
  it is the largest instance that is still quick. Images are in `stream_restart` only, since the poll
  passes over them; its own messages are images, which take every step of a text and one more.
* One user, one lookup and two logins are three goroutines on one image, enough to miss the cache
  together, to be refused together, and to update the ghost out of order; two avatars make an old and
  a new one, and one reaction in each login a first upload and one found in the cache, or two
  uploads. Images of different users share nothing but the latch. `MaxRefusals` is one more than the
  goroutines. The constant `Calm` keeps the instance small enough for liveness by letting the
  environment do one thing at a time: an avatar changes, or a cache entry gets stale, or people react
  (while nobody is looked up), and the first two only where media is served; no step of the bridge is
  restricted. The proofs hold with and without it, for any number of lookups and logins.
* Two chats and a cap of one make the cap bite at once; one chat suffices for the dismissal.
  `discovery_requests` uses a `VIEW` (`ReadState` in `MCDiscovery`) that leaves out what no later step
  and none of its invariants reads: the verdict about an accepted chat, the synced rooms after the
  reconciliation, what would come back and is news anyhow.
* Batches of one and of two over four events make pages that hold nothing to bridge, pages cut short
  and a last page of either parity; a fifth event is a live one in any case. One restart repeats a
  page, and the page that was shown but not recorded.
* Three kills interrupt setup, first start and upgrade, or one of them three times; two builds make
  one replacement of the icon, two portals one that has been told and one that has not.
* `SyncStream` stops when the stream is full and the queues empty, and `Backfill` when the walk has
  ended and the room is full, so their deadlocks are not errors; deadlock is checked in the other
  modules.

### Fairness

* `RunsOn` (`Connection`): every goroutine keeps running, because each request has a timeout, each
  backoff a timer and each ticker fires. Strong fairness where a step is enabled again and again: a
  mutex that is released is handed on, and a `select` that can take the cancellation takes it in the
  end. Nobody is obliged to call `Connect` or `Disconnect`.
* `RedditAnswers`: a sync or refresh that could succeed does, if tried often enough. Without it no
  login can recover.
* `SyncStream`: the goroutines and the portals run; `/sync` and `/messages` succeed if tried often
  enough; each tick visits every pending portal. Posting, sending and crashing are never forced.
* `Discovery`: weak fairness of the loop and of each portal.
* `Avatars`: a goroutine that has begun goes on, each sync loop by itself (each request has a
  timeout), and an upload to a homeserver that takes uploads succeeds if tried often enough. Nobody
  has to post or to look anyone up: `GhostsSettle` is about a user whose profile events go on being
  attributed.
* `Backfill`: the walk and the portal go on, because the framework repeats a request that failed with
  the same cursor. Nobody has to post.
* `Startup`: the container is started whenever it is down (`restart: unless-stopped`) and a start
  goes on to its end; the operator fills in the domain, and installs the registration, if given the
  occasion again and again (strong fairness, since each start takes it away). Nobody has to paste a
  secret or replace the build, and no upload has to succeed.

### Findings

1. **A working login stays marked as logged out** (`sync.go:99`). A rejected send sets `loggedIn` to
   false. If the sync loop then refreshes the token and its one retry succeeds, its backoff never
   grew, so the branch that restores `loggedIn` and `CONNECTED` is not taken, on this batch or any
   later one.
2. **A chat dismissed after acceptance comes back** (`sync.go:195`). The flag is looked for in the
   account data of the response at hand; an incremental response carries it only when it changed, so
   the next message creates the portal.

Other behaviour met while modelling; the items that go against a comment or against `README.md` say
so, the others contradict no document closely:

* The poll passes over media (`pendingpoll.go:85`), so that an image in a chat the user never accepts
  is not shown; `EveryMessageShown` is about texts.
* The poll goes on requesting with a dead token after the sync loop has stopped: their context is
  cancelled by `Disconnect` only.
* If a crash falls between the join and the clearing of the request flag, the poll can bring back,
  after newer messages, what the crash dropped from a queue, and so does another login after a crash:
  `ShownInOrder` is checked without both.
* Refreshes that fail until the expiry stop the loop for good, which `LoginRecovers` allows. With
  overlapping calls a second connection's loop can force a refresh because of a request sent with the
  token the first has replaced already: `MintOnlyStaleToken` is checked and proved with a caller
  that waits.
* A request reported before Reddit's spam verdict is bridged and stays. A joined chat that falls
  beyond the cap of an incremental sync waits for the next connection.
* A profile event that could not be attributed is stored under the username only, where an older,
  attributed one hides it from lookups until the next that is attributed (`profile.go:50`). How often
  the message it relates to is stored in time depends on the framework.
* An image is uploaded not "at most once per bridge run" (`avatarcache.go:31-33`, and of emoji
  `reactions.go:133-134`) but at most once per goroutine that missed the cache together, an emoji at
  most once per login.
* With `matrix_media_url` set a refused upload comes back as an error without a code
  (`mediaupload.go:48`), which `avatarcache.go:81` does not recognise: `mediaBroken` is never set,
  and the server is asked again for every image, other than `avatarcache.go:49-51` has it.
  `RefusalsBounded` is checked and proved without `matrix_media_url`.
* `IsSpamChat` looks at the newest 30 events (`client.go:299` of `redditchat`) and takes a verdict
  that is not among them for none, so that such a request is bridged when sync next reports it,
  although `README.md:216-222` has the bridge match exactly what Reddit shows.
  `RefusedRequestsStayOut` ends the refusal of a request there.
* A live message whose media could not be converted is not stored. If a restart or a failed save has
  it served again it may convert, and is then shown after newer messages: `ShownInOrder` leaves out
  media that has failed (`media.go:53`, `media.go:82`).
* A message on a page of history whose media could not be converted is left out while the cursor
  moves past it, and no later page brings it back.
* A kill between the writing of the icon's entry and the invalidation leaves the portals with the old
  icon until it is replaced once more (`networkicon.go:63-68`).
* A kill while the config is being patched leaves a file that every later start takes for the
  operator's, and one between the registration and its tokens a pair the program refuses: the
  operator has to remove the file, since `docker-entrypoint.sh:29` and `:70` ask only whether it is
  there.
* With `restart: unless-stopped` the deliberate exits (`docker-entrypoint.sh:9-11`) give the operator
  no pause: the container starts again at once, and fails until the config is filled in.

## 4. What is proved

All for any set of handles or chats, any backoffs, caps and bounds, assuming only the named
assumptions on the constants.

* `TypeCorrect`, `NoLoopIsLeaked`, `RefreshesAreSerial` (`ConnectionProofs`), with no assumption on
  the caller. The invariant `IInv` accounts for each handle: it is free, or in the field
  `syncCancel`, or taken by exactly one `Disconnect`, which has cancelled it once it joins.
  `ConnectFindsNoHandle` (while a `Connect` is under way the field is empty) is what keeps
  `WhoamiOk` from overwriting a handle that nobody could cancel afterwards. `LockHeldByMinter` ties
  `refreshLock` to the actor that is minting; mutual exclusion follows from it and not from
  anything weaker.
* `LogoutIsFinal`, `DeadLoopIsReported`, for a caller that waits (`~Overlap`). `OneConnection` says
  that then two connections never coexist; `NothingAfterLogout` that after a logout no goroutine is
  left to set the flag.
* `OnlyStaleTokensReplaced`, for the same caller: `MintOnlyStaleToken` needs `TokenStillStale`, that
  between a request rejected for its token and the forced refresh the token is still the rejected
  one, and that rests on `MinterIsAlone`: while one actor mints, no other connection is alive.
* `DiscoveryTypeCorrect` (`DiscoveryProofs`): types, the bound of each portal's queue, and that the
  reconciliation's list never overlaps what the sync covered. It needs `MissingInUse`: the list is
  empty whenever a response changes `synced`.
* `RefusedRequestsNeverBridged`: assuming that the checks are answered and both options are off, for
  requests that were dismissed or whose verdict is in reach of `IsSpamChat` (`BuryVerdict` makes the
  others, section 3). The property is not inductive; `RequestInv` adds that a refused request is out
  of reach of every path that bridges without asking: sync reports it, and reports it again after a
  restart, as an invite only, it is never in the reconciliation's list, and nothing of it is queued.
* `StaleMarksHeal`: for any number of chats, any cap and whatever fails. `MarkInv` follows the resync
  on its way: the invite of an accepted chat is no news any more
  (`NoInviteNews`), while a snapshot is in a response the join is still news
  (`JoinBehindSnapshot`), and a snapshot that will set the mark again is followed by a resync
  (`ResyncBehindSnapshot`).
* `StartupTypeCorrect`, `RunsSetUp` (`StartupProofs`): `FilesInOrder`, each file, and the installed
  registration, is proof of the steps before it, is what makes an interrupted script safe to begin
  again.
* `IconsAreCurrent`: `PromiseKept`, a stored version that is current is a promise about the bridge
  info of every portal, broken only while `stale` says so. `ImagesUploadedOnce`: `UploadsCounted`
  bounds the uploads of an image by its entry, the upload under way and those unrecorded.
* `AvatarsTypeCorrect`, `UploadsAreBounded`, `RefusalsAreBounded` (`AvatarsProofs`), for any finite
  sets of lookups and logins, the last without `matrix_media_url`. `ImageInv` and `LatchInv` charge
  each upload to the actor that made it: once an image is in the cache, or the latch set, only
  actors that were under way can add one more, and each leaves that set by doing so. A sync loop
  handles one reaction at a time, so that an emoji is uploaded no more often than there are logins.
* `ReactionsAreKept`: the reactions posted for a login are those queued, those waiting and the one
  in hand, at every step of an upload that may fail.

* `TypeCorrect`, `TokenNeverAhead`, `NoEchoes` (`SyncStreamProofs`), for any rooms, limits, restarts
  and logins. The invariant `IInv` says more than the properties in three places: what is queued, in
  a response or in a poll belongs to its portal's room (`Belongs`); the token in memory and the one
  of the response being handled leave nothing unaccounted either, the latter but for what is still
  to be handled (`TokensAccounted`); and an own message is stored, orphaned, or the newest own
  message of a room whose portal waits for its answer (`OwnAccounted`), which is why no echo is
  handled in between.
* `InOrderAcrossRestarts` and `WithoutGaps` (`DeliveryProofs`): `SyncStream` implements `Delivery`.
  The first assumes that there is no poll and no other login, the setting in which the code keeps
  the promise (section 3); restarts, lost queues, limited timelines, failed saves and failing media
  are unrestricted, and the promise is about what did not fail to convert. The second assumes no
  restart, no media and limits that cut nothing short, and allows the poll and any number of logins.
  These are assumptions on constants, and `stream_restart` and `stream_live` satisfy them. Both
  proofs rest on `OrderInv`. A portal is *owed* the messages it has not stored and not failed to
  convert, unless a loss has put them out of reach for good: so many events have come since that no
  timeline reaches back (`Buried`), or the saved token has left them behind (`Covered`), and they
  are no longer on their way. Nothing in a queue, a response or a poll overtakes a message that is
  owed (`QueuesInTurn`); what a token leaves behind and is owed is still on its way
  (`PassedOnItsWay`); what is shown is older than what is owed (`ShownBeforeOwed`). A message put
  out of reach stays so (`OwedStep`), and a response, the first or one served again, offers all that
  is owed and not queued (`ResponseOffersAll`): that is what makes the order survive a restart.
  Without losses `ShownAreFirst` adds that what is shown is an initial part of what was posted, and
  `NextInTurn` that the next message shown is the next one posted.
* `TypeCorrect`, `ChatInOrder`, `WalkLeavesNothing` (`BackfillProofs`), for any history, any lengths
  of pages, any number of restarts and live messages, and with any media failing. `QueueIsNewest`:
  what is queued is newer than all that is shown, than the page at hand and than the place the walk
  is at, so that neither path gets ahead of the other. For the rest the page at hand has to be
  covered too (`PageLeavesNothing`), and `NoneMissingAbove` justifies what the framework cuts off a
  page: above a message that is shown or queued nothing is missing.

The operators on sets of event numbers are functions defined by cardinalities (`Rank`, `InOrder`,
`Newest`, `KeepOnly` in `Subsequences`), and `SubsequenceTheorems` proves what they return for every
finite set and every sequence. Induction over a set is replaced by taking a least counterexample
(`LeastNumber`, from the well-foundedness of the order on the naturals), which needs no operator as a
parameter. `Reverse` is taken from the community modules and is unfolded where it is used.

Only model-checked: the liveness properties (`DisconnectReturns`, `LoginRecovers`,
`EveryMessageShown`, `JoinedChatsBridged`, `GhostsSettle`, `WalkEnds`, `ComesUp`), since TLAPS does
no `ENABLED`. Every safety property of a passing run is a theorem.

## 5. Plan

Done: `Connection`, `SyncStream` with `Delivery`, `Discovery`, `Avatars`, `Backfill`, `Startup`, and
the proofs above. Left, in the order of what it would add:

1. Two clients of one account at a time: whether the framework stops the first client before the
   second connects decides whether there is anything to model, and it is not in the repository.
2. `redditRelation` and `redditThreadRoot` as operators, against a reference definition.
3. What a fairness argument needs and needs no `ENABLED`: for each waiting state, that the step it
   waits for has its guard or another actor will establish it, as an invariant of the proofs above.

Not modelled, and why:

* Forward backfill: it starts from an event ID used as a pagination token (`backfill.go:31`), and
  what Reddit answers to one is not known from the repository.
* Live media that failed and is served again while a page of history is walked: `Backfill` counts it
  among what was missed for good. `SyncStream` has it served again, without history.
* The error codes behind "a token error": `IsTokenError` takes any code that contains `TOKEN` for one
  (`client.go:233` of `redditchat`), and the models take what it says.
* `noticeOnce`: one flag per portal under a mutex; a property of it would restate the assignment.
* Conversions of content and media (no state of their own; their outcome, success or failure, is in
  `Backfill`, `Avatars` and `Startup`), names and topics, the shape of an outgoing event.
* Login steps before the credentials are accepted, `ParseToken`, construction, option upgrade and
  validation, arguments passed through the entrypoint, the inspection tool: sequential data plumbing
  and pure I/O.
* The data races on the access token string and on the `Web` field: a token is installed in one step,
  and every refresher of a client is equal.
