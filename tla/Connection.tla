----------------------------- MODULE Connection -----------------------------
(***************************************************************************)
(* The connection lifecycle of one RedditChatClient: Connect, Disconnect   *)
(* and LogoutRemote (client.go), the two goroutines Connect starts, the    *)
(* sync loop (sync.go) and the poll of pending requests (pendingpoll.go),  *)
(* the token refresh they share (tokenrefresh.go), and the outgoing        *)
(* message whose token error also changes the login's state                *)
(* (handlematrix.go).                                                      *)
(*                                                                         *)
(* A member of Conns stands for the handles of one successful Connect: its *)
(* cancel function and the channels syncDone and pollDone.  A handle is    *)
(* free again once its Disconnect has returned.  Connector is the thread   *)
(* that calls Connect; it holds syncLock exactly while it is not "idle".   *)
(*                                                                         *)
(* What a sync response contains is the subject of SyncStream and          *)
(* Discovery; here a successful response is one step.                      *)
(***************************************************************************)
EXTENDS Naturals

CONSTANTS
    Conns,              \* handles: bounds the connections alive at one time
    NoConn,             \* a nil syncCancel, an unlocked refreshLock
    Connector,          \* the caller of Connect
    Overlap,            \* may Connect or LogoutRemote run while a Disconnect is still joining?
    UserSends,          \* does the user send messages that Reddit may reject?
    OutagePastExpiry,   \* may refreshes keep failing until a refreshable token expires?
    SyncMinBackoff,     \* syncMinBackoff
    SyncMaxBackoff      \* syncMaxBackoff

ASSUME HandlesAssumption ==
    NoConn \notin Conns /\ Connector \notin Conns /\ NoConn # Connector
ASSUME SwitchesAssumption ==
    Overlap \in BOOLEAN /\ UserSends \in BOOLEAN /\ OutagePastExpiry \in BOOLEAN
ASSUME BackoffAssumption ==
    /\ SyncMinBackoff \in Nat \ {0}
    /\ SyncMaxBackoff \in Nat
    /\ SyncMinBackoff < SyncMaxBackoff

Actors == Conns \cup {Connector}

VARIABLES
    cookie,         \* CanRefresh: the login stored a session cookie
    polling,        \* PendingRequestPollInterval > 0
    phase,          \* how close TokenExpiresAt is
    revoked,        \* Reddit rejects the token before its exp claim says so
    pc,             \* where each sync loop, and the Connector, is
    rejected,       \* the request in flight was sent with a dead token
    backoff,        \* the sync loop's local backoff
    warned,         \* the sync loop's local warnedExpiry
    poll,           \* where each poll goroutine is
    cancelled,      \* the context of the handle is cancelled
    closing,        \* how far the Disconnect that took the handle is
    logout,         \* that Disconnect was called by LogoutRemote
    syncCancel,     \* the field: the handle Disconnect would take
    refreshLock,    \* the actor holding refreshLock
    loggedIn,       \* the atomic flag IsLoggedIn returns
    bridgeState,    \* the state last sent to the user
    send,           \* an outgoing message rejected by Reddit
    loggedOut       \* LogoutRemote has returned and nobody has called Connect since

token  == <<phase, revoked>>
loops  == <<backoff, warned, poll>>
handle == <<cancelled, closing, logout, syncCancel>>
login  == <<loggedIn, bridgeState>>
vars   == <<cookie, polling, token, pc, rejected, loops, handle,
            refreshLock, login, send, loggedOut>>

-----------------------------------------------------------------------------
(* TokenExpiresAt against the clock: more than refreshMargin away, within  *)
(* it, within tokenExpiryWarning, past; "none" is a token without exp.     *)
Phases == {"fresh", "margin", "warning", "expired", "none"}
Later  == [fresh |-> "margin", margin |-> "warning", warning |-> "expired"]

LoopPCs      == {"top", "lock", "mint", "expiry", "sync", "forceLock", "forceMint",
                 "retry", "tokenFail", "netFail", "backoff", "exited"}
ConnectorPCs == {"idle", "lock", "mint", "expiry", "whoami"}
PCs          == LoopPCs \cup ConnectorPCs \cup {"free"}
PollPCs      == {"none", "wait", "pass", "exited"}
ClosingSteps == {"no", "cancel", "joinSync", "joinPoll"}
BridgeStates == {"UNSET", "CONNECTED", "TRANSIENT_DISCONNECT", "BAD_CREDENTIALS"}

TokenDead    == revoked \/ phase = "expired"
NeedsRefresh == cookie /\ phase # "fresh"
Minting(a)   == pc[a] \in {"mint", "forceMint"}

(* The doubling with its bound forgotten.                                  *)
UncappedBackoff(b) == 2 * b

DoubledBackoff(b) == IF 2 * b < SyncMaxBackoff THEN 2 * b ELSE SyncMaxBackoff

(* No Disconnect is between taking the handle and returning, unless the    *)
(* caller is allowed to come back before it did.                           *)
CallerFree == Overlap \/ \A c \in Conns : closing[c] = "no"

GoTo(a, l) == pc' = [pc EXCEPT ![a] = l]
(* A request leaves with the token SetToken installed last.                *)
Request(a, l) == GoTo(a, l) /\ rejected' = [rejected EXCEPT ![a] = TokenDead]
Answered(a, l) == GoTo(a, l) /\ rejected' = [rejected EXCEPT ![a] = FALSE]
Report(state) == bridgeState' = state

Init ==
    /\ cookie \in BOOLEAN
    /\ polling \in BOOLEAN
    /\ phase \in Phases
    /\ revoked \in BOOLEAN
    /\ pc = [a \in Actors |-> IF a = Connector THEN "idle" ELSE "free"]
    /\ rejected = [a \in Actors |-> FALSE]
    /\ backoff = [c \in Conns |-> SyncMinBackoff]
    /\ warned = [c \in Conns |-> FALSE]
    /\ poll = [c \in Conns |-> "none"]
    /\ cancelled = [c \in Conns |-> FALSE]
    /\ closing = [c \in Conns |-> "no"]
    /\ logout = [c \in Conns |-> FALSE]
    /\ syncCancel = NoConn
    /\ refreshLock = NoConn
    /\ loggedIn = FALSE
    /\ bridgeState = "UNSET"
    /\ send = "idle"
    /\ loggedOut = FALSE

-----------------------------------------------------------------------------
(* ensureFreshToken, for the sync loop and for Connect.                    *)

AfterRefresh(a) == IF pc[a] \in {"forceLock", "forceMint"} THEN "retry" ELSE "expiry"

(* refreshLock as it would be without refreshLock.Lock().                  *)
LockIgnored == TRUE
LockFree == refreshLock = NoConn

(* The lock is taken; an unforced caller re-checks under it and returns at *)
(* once if somebody else has refreshed the token meanwhile.                *)
AcquireRefresh(a) ==
    /\ pc[a] \in {"lock", "forceLock"}
    /\ LockFree
    /\ IF pc[a] = "lock" /\ ~NeedsRefresh
         THEN GoTo(a, "expiry") /\ UNCHANGED refreshLock
         ELSE /\ GoTo(a, IF pc[a] = "lock" THEN "mint" ELSE "forceMint")
              /\ refreshLock' = a
    /\ UNCHANGED <<cookie, polling, token, rejected, loops, handle, login, send, loggedOut>>

(* Reddit issued a token: it is installed whether or not it can be saved.  *)
NewToken == phase' \in {"fresh", "none"} /\ revoked' = FALSE

(* Refreshed and saved.  The sync loop clears its warning, or sends its    *)
(* one retry.                                                              *)
MintOk(a) ==
    /\ Minting(a)
    /\ NewToken
    /\ refreshLock' = NoConn
    /\ GoTo(a, AfterRefresh(a))
    /\ warned' = IF a \in Conns /\ pc[a] = "mint" THEN [warned EXCEPT ![a] = FALSE] ELSE warned
    /\ UNCHANGED <<cookie, polling, rejected, backoff, poll, handle, login, send, loggedOut>>

(* The refresh failed, or Save did after the token was replaced.  Either   *)
(* way the caller sees an error: a forced caller keeps the 401 it had.     *)
MintFail(a) ==
    /\ Minting(a)
    /\ NewToken \/ UNCHANGED token
    /\ refreshLock' = NoConn
    /\ GoTo(a, IF pc[a] = "mint" THEN "expiry" ELSE "tokenFail")
    /\ UNCHANGED <<cookie, polling, rejected, loops, handle, login, send, loggedOut>>

-----------------------------------------------------------------------------
(* IsTokenError; and a check that takes every error for one.               *)
AnyErrorRejects(a) == TRUE
RejectsToken(a) == rejected[a] \/ TokenDead

(* Connect.  A call that finds syncCancel set returns without effect.      *)

(* The early return of a client already connected, and Connect without it. *)
ConnectedIgnored == TRUE
NotConnected == syncCancel = NoConn

ConnectBegin ==
    /\ pc[Connector] = "idle"
    /\ NotConnected
    /\ CallerFree
    /\ GoTo(Connector, IF NeedsRefresh THEN "lock" ELSE "expiry")
    /\ loggedOut' = FALSE
    /\ UNCHANGED <<cookie, polling, token, rejected, loops, handle, refreshLock, login, send>>

ConnectExpiry ==
    /\ pc[Connector] = "expiry"
    /\ IF phase = "expired"
         THEN /\ GoTo(Connector, "idle") /\ UNCHANGED rejected
              /\ loggedIn' = FALSE /\ Report("BAD_CREDENTIALS")
         ELSE Request(Connector, "whoami") /\ UNCHANGED login
    /\ UNCHANGED <<cookie, polling, token, loops, handle, refreshLock, send, loggedOut>>

(* Whoami accepted the token: a new handle, and both goroutines start.     *)
WhoamiOk(c) ==
    /\ pc[Connector] = "whoami" /\ ~rejected[Connector]
    /\ pc[c] = "free"
    /\ pc' = [pc EXCEPT ![Connector] = "idle", ![c] = "top"]
    /\ loggedIn' = TRUE /\ Report("CONNECTED")
    /\ syncCancel' = c
    /\ poll' = [poll EXCEPT ![c] = IF polling THEN "wait" ELSE "exited"]
    /\ UNCHANGED <<cookie, polling, token, rejected, backoff, warned, cancelled, closing,
                   logout, refreshLock, send, loggedOut>>

(* Whoami failed: Connect gives up without starting anything.              *)
WhoamiFail ==
    /\ pc[Connector] = "whoami"
    /\ Answered(Connector, "idle")
    /\ loggedIn' = FALSE
    /\ \/ Report("TRANSIENT_DISCONNECT")
       \/ RejectsToken(Connector) /\ Report("BAD_CREDENTIALS")
    /\ UNCHANGED <<cookie, polling, token, loops, handle, refreshLock, send, loggedOut>>

-----------------------------------------------------------------------------
(* The sync loop of handle c.                                              *)

LoopTop(c) ==
    /\ pc[c] = "top"
    /\ GoTo(c, CASE cancelled[c]                   -> "exited"
                 [] ~cancelled[c] /\ NeedsRefresh  -> "lock"
                 [] ~cancelled[c] /\ ~NeedsRefresh -> "expiry")
    /\ UNCHANGED <<cookie, polling, token, rejected, loops, handle, refreshLock,
                   login, send, loggedOut>>

(* The expiry check stops the loop for good, with or without a cookie.     *)
LoopExpired(c) ==
    /\ pc[c] = "expiry" /\ phase = "expired"
    /\ GoTo(c, "exited")
    /\ loggedIn' = FALSE /\ Report("BAD_CREDENTIALS")
    /\ UNCHANGED <<cookie, polling, token, rejected, loops, handle, refreshLock, send, loggedOut>>

(* Otherwise the user may be warned, once, and the next sync is sent.      *)
LoopRequest(c) ==
    /\ pc[c] = "expiry" /\ phase # "expired"
    /\ IF phase = "warning" /\ ~cookie /\ ~warned[c]
         THEN warned' = [warned EXCEPT ![c] = TRUE] /\ Report("TRANSIENT_DISCONNECT")
         ELSE UNCHANGED <<warned, bridgeState>>
    /\ Request(c, "sync")
    /\ UNCHANGED <<cookie, polling, token, backoff, poll, handle, refreshLock,
                   loggedIn, send, loggedOut>>

(* The loop was backing off; and a test for it that only sees the longest  *)
(* backoff.                                                                *)
RecoveredLate(c) == backoff[c] = SyncMaxBackoff
Recovered(c) == backoff[c] # SyncMinBackoff

(* A batch arrived.  Only a loop that had been backing off restores the    *)
(* login state.                                                            *)
SyncOk(c) ==
    /\ pc[c] \in {"sync", "retry"} /\ ~rejected[c]
    /\ GoTo(c, "top")
    /\ IF Recovered(c)
         THEN /\ backoff' = [backoff EXCEPT ![c] = SyncMinBackoff]
              /\ loggedIn' = TRUE /\ Report("CONNECTED")
         ELSE UNCHANGED <<backoff, login>>
    /\ UNCHANGED <<cookie, polling, token, rejected, warned, poll, handle, refreshLock,
                   send, loggedOut>>

(* Reddit rejected the token: one forced refresh if there is a cookie.     *)
SyncTokenError(c) ==
    /\ pc[c] \in {"sync", "retry"}
    /\ RejectsToken(c)
    /\ Answered(c, IF pc[c] = "sync" /\ cookie THEN "forceLock" ELSE "tokenFail")
    /\ UNCHANGED <<cookie, polling, token, loops, handle, refreshLock, login, send, loggedOut>>

(* Any other error, the cancellation of the request included.              *)
SyncNetError(c) ==
    /\ pc[c] \in {"sync", "retry"}
    /\ Answered(c, "netFail")
    /\ UNCHANGED <<cookie, polling, token, loops, handle, refreshLock, login, send, loggedOut>>

(* redditIsFatal: only a dead token, and only when it cannot be refreshed; *)
(* and the same with the kind of error left out.                           *)
FatalWithoutCookie(c) == ~cookie
Fatal(c) == pc[c] = "tokenFail" /\ ~cookie

LoopFail(c) ==
    /\ pc[c] \in {"tokenFail", "netFail"}
    /\ GoTo(c, IF cancelled[c] \/ Fatal(c) THEN "exited" ELSE "backoff")
    /\ CASE cancelled[c] -> UNCHANGED login
         [] ~cancelled[c] /\ pc[c] = "tokenFail" ->
              loggedIn' = FALSE /\ Report("BAD_CREDENTIALS")
         [] ~cancelled[c] /\ pc[c] = "netFail" ->
              UNCHANGED loggedIn /\ Report("TRANSIENT_DISCONNECT")
    /\ UNCHANGED <<cookie, polling, token, rejected, loops, handle, refreshLock, send, loggedOut>>

BackoffElapsed(c) ==
    /\ pc[c] = "backoff"
    /\ GoTo(c, "top")
    /\ backoff' = [backoff EXCEPT ![c] = DoubledBackoff(backoff[c])]
    /\ UNCHANGED <<cookie, polling, token, rejected, warned, poll, handle, refreshLock,
                   login, send, loggedOut>>

BackoffCancelled(c) ==
    /\ pc[c] = "backoff" /\ cancelled[c]
    /\ GoTo(c, "exited")
    /\ UNCHANGED <<cookie, polling, token, rejected, loops, handle, refreshLock,
                   login, send, loggedOut>>

-----------------------------------------------------------------------------
(* The poll goroutine of handle c: the select takes the ticker or the      *)
(* cancellation, and a pass gives up between two portals when cancelled.   *)

PollMoves(c, l) ==
    /\ poll' = [poll EXCEPT ![c] = l]
    /\ UNCHANGED <<cookie, polling, token, pc, rejected, backoff, warned, handle,
                   refreshLock, login, send, loggedOut>>

PollTick(c) == poll[c] = "wait" /\ PollMoves(c, "pass")
PollDone(c) == poll[c] = "pass" /\ PollMoves(c, "wait")

(* The goroutine stops; and one that listens to the ticker only.           *)
PollDeaf(c) == FALSE /\ PollMoves(c, "exited")
PollStop(c) == poll[c] = "wait" /\ cancelled[c] /\ PollMoves(c, "exited")

-----------------------------------------------------------------------------
(* Disconnect, and LogoutRemote around it.                                 *)

(* Under syncLock: the handle is taken out of the client.                  *)
DisconnectBegin(lo) ==
    /\ pc[Connector] = "idle"
    /\ syncCancel # NoConn
    /\ closing' = [closing EXCEPT ![syncCancel] = "cancel"]
    /\ logout' = [logout EXCEPT ![syncCancel] = lo]
    /\ syncCancel' = NoConn
    /\ UNCHANGED <<cookie, polling, token, pc, rejected, loops, cancelled, refreshLock,
                   login, send, loggedOut>>

(* LogoutRemote of a client that is not connected.                         *)
LogoutIdle ==
    /\ pc[Connector] = "idle" /\ syncCancel = NoConn /\ CallerFree
    /\ loggedIn' = FALSE /\ loggedOut' = TRUE
    /\ UNCHANGED <<cookie, polling, token, pc, rejected, loops, handle, refreshLock,
                   bridgeState, send>>

Cancel(c) ==
    /\ closing[c] = "cancel"
    /\ closing' = [closing EXCEPT ![c] = "joinSync"]
    /\ cancelled' = [cancelled EXCEPT ![c] = TRUE]
    /\ UNCHANGED <<cookie, polling, token, pc, rejected, loops, logout, syncCancel,
                   refreshLock, login, send, loggedOut>>

JoinSync(c) ==
    /\ closing[c] = "joinSync" /\ pc[c] = "exited"
    /\ closing' = [closing EXCEPT ![c] = "joinPoll"]
    /\ UNCHANGED <<cookie, polling, token, pc, rejected, loops, cancelled, logout, syncCancel,
                   refreshLock, login, send, loggedOut>>

(* The flag LogoutRemote leaves, and the flag without its last line.       *)
FlagKept(c) == loggedIn
FlagAfterJoin(c) == loggedIn /\ ~logout[c]

(* Disconnect returns; LogoutRemote then drops the login flag.  The locals *)
(* of the goroutines are gone, and the next Connect starts with new ones.  *)
JoinPoll(c) ==
    /\ closing[c] = "joinPoll" /\ poll[c] = "exited"
    /\ closing' = [closing EXCEPT ![c] = "no"]
    /\ cancelled' = [cancelled EXCEPT ![c] = FALSE]
    /\ logout' = [logout EXCEPT ![c] = FALSE]
    /\ GoTo(c, "free")
    /\ poll' = [poll EXCEPT ![c] = "none"]
    /\ backoff' = [backoff EXCEPT ![c] = SyncMinBackoff]
    /\ warned' = [warned EXCEPT ![c] = FALSE]
    /\ loggedIn' = FlagAfterJoin(c)
    /\ loggedOut' = (loggedOut \/ logout[c])
    /\ UNCHANGED <<cookie, polling, token, rejected, syncCancel, refreshLock, bridgeState, send>>

-----------------------------------------------------------------------------
(* HandleMatrixMessage, when Reddit answers with a token error.  The       *)
(* framework hands messages only to a client that says it is logged in.    *)

SendRejected ==
    /\ UserSends
    /\ send = "idle" /\ loggedIn /\ TokenDead
    /\ send' = "rejected"
    /\ UNCHANGED <<cookie, polling, token, pc, rejected, loops, handle, refreshLock,
                   login, loggedOut>>

SendReport ==
    /\ send = "rejected"
    /\ send' = "idle"
    /\ loggedIn' = FALSE /\ Report("BAD_CREDENTIALS")
    /\ UNCHANGED <<cookie, polling, token, pc, rejected, loops, handle, refreshLock, loggedOut>>

-----------------------------------------------------------------------------
(* The clock and Reddit.                                                   *)

Tick ==
    /\ phase \in DOMAIN Later
    /\ (phase = "warning" /\ cookie) => OutagePastExpiry
    /\ phase' = Later[phase]
    /\ UNCHANGED <<cookie, polling, revoked, pc, rejected, loops, handle, refreshLock,
                   login, send, loggedOut>>

Revoke ==
    /\ ~revoked
    /\ revoked' = TRUE
    /\ UNCHANGED <<cookie, polling, phase, pc, rejected, loops, handle, refreshLock,
                   login, send, loggedOut>>

-----------------------------------------------------------------------------
Refresh(a) == AcquireRefresh(a) \/ MintOk(a) \/ MintFail(a)

Connect == ConnectBegin \/ ConnectExpiry \/ WhoamiFail \/ \E c \in Conns : WhoamiOk(c)

SyncLoop(c) ==
    \/ LoopTop(c) \/ LoopExpired(c) \/ LoopRequest(c)
    \/ SyncOk(c) \/ SyncTokenError(c) \/ SyncNetError(c)
    \/ LoopFail(c) \/ BackoffElapsed(c) \/ BackoffCancelled(c)

PollLoop(c) == PollTick(c) \/ PollDone(c) \/ PollStop(c)

Disconnect(c) == Cancel(c) \/ JoinSync(c) \/ JoinPoll(c)

Calls == LogoutIdle \/ \E lo \in BOOLEAN : DisconnectBegin(lo)

Next ==
    \/ \E a \in Actors : Refresh(a)
    \/ Connect
    \/ \E c \in Conns : SyncLoop(c) \/ PollLoop(c) \/ Disconnect(c)
    \/ Calls
    \/ SendRejected \/ SendReport
    \/ Tick \/ Revoke

Spec == Init /\ [][Next]_vars

(* Every goroutine keeps running: each request has a timeout, each backoff *)
(* and each ticker elapses, and a lock that is released is handed on.  Who *)
(* calls Connect or Disconnect, the clock and Reddit's mood owe nothing.   *)
RunsOn ==
    /\ WF_vars(ConnectExpiry \/ WhoamiFail \/ \E c \in Conns : WhoamiOk(c))
    /\ WF_vars(SendReport)
    /\ \A a \in Actors : SF_vars(AcquireRefresh(a)) /\ WF_vars(MintOk(a) \/ MintFail(a))
    /\ \A c \in Conns : WF_vars(SyncLoop(c)) /\ WF_vars(Disconnect(c))
    /\ \A c \in Conns : WF_vars(PollDone(c)) /\ SF_vars(PollStop(c))

(* Reddit does not refuse for ever: a sync that could succeed, and a       *)
(* refresh with a living cookie, do succeed if tried often enough.         *)
RedditAnswers ==
    /\ \A c \in Conns : SF_vars(SyncOk(c))
    /\ \A a \in Actors : SF_vars(MintOk(a))

FairSpec == Spec /\ RunsOn /\ RedditAnswers

-----------------------------------------------------------------------------
(* Every variable keeps its type; in particular a backoff never leaves the *)
(* range from syncMinBackoff to syncMaxBackoff.                            *)
TypeOK ==
    /\ cookie \in BOOLEAN /\ polling \in BOOLEAN
    /\ phase \in Phases /\ revoked \in BOOLEAN
    /\ pc \in [Actors -> PCs]
    /\ rejected \in [Actors -> BOOLEAN]
    /\ backoff \in [Conns -> SyncMinBackoff .. SyncMaxBackoff]
    /\ warned \in [Conns -> BOOLEAN]
    /\ poll \in [Conns -> PollPCs]
    /\ cancelled \in [Conns -> BOOLEAN]
    /\ closing \in [Conns -> ClosingSteps]
    /\ logout \in [Conns -> BOOLEAN]
    /\ syncCancel \in Conns \cup {NoConn}
    /\ refreshLock \in Actors \cup {NoConn}
    /\ loggedIn \in BOOLEAN
    /\ bridgeState \in BridgeStates
    /\ send \in {"idle", "rejected"}
    /\ loggedOut \in BOOLEAN

Running(c) == pc[c] \notin {"free", "exited"} \/ poll[c] \notin {"none", "exited"}

(* No goroutine is leaked: one that runs and has not been told to stop is  *)
(* reachable, from the field a later Disconnect reads or from the          *)
(* Disconnect that is about to cancel it (client.go:115-162).              *)
NoLeakedLoop ==
    \A c \in Conns :
        Running(c) /\ ~cancelled[c] => syncCancel = c \/ closing[c] = "cancel"

(* refreshLock "serialises token refreshes" (client.go:31-32): whatever    *)
(* Connect and the loops of successive connections do, at most one of them *)
(* is minting a token.                                                     *)
OneMintAtATime ==
    \A a, b \in Actors : Minting(a) /\ Minting(b) => a = b

(* Once LogoutRemote has returned, nothing left over from the connection   *)
(* marks the login as working again (client.go:170-173): a batch that was  *)
(* in flight must have been dealt with before.                             *)
LogoutSticks == loggedOut => ~loggedIn

(* A sync loop that stopped on its own has told the user so: the login is  *)
(* not offered for sending and the state shown is BAD_CREDENTIALS          *)
(* (README.md:177-179).                                                    *)
DeadLoopReported ==
    \A c \in Conns :
        syncCancel = c /\ pc[c] = "exited" =>
            ~loggedIn /\ bridgeState = "BAD_CREDENTIALS"

(* A refresh never replaces a token that is fresh and accepted: the loop   *)
(* mints within refreshMargin of the expiry or after a rejection, not      *)
(* because of a network error (sync.go:72-76, tokenrefresh.go:48-57).      *)
MintOnlyStaleToken ==
    [][\A a \in Actors : Minting(a)' /\ ~Minting(a) => phase # "fresh" \/ revoked]_vars

(* Disconnect always returns, whatever the sync loop and the poll are      *)
(* waiting for when it cancels them (client.go:157-161).                   *)
DisconnectReturns ==
    \A c \in Conns : closing[c] # "no" ~> closing[c] = "no"

(* A connection with a cookie that backs off because of a dead token is    *)
(* marked as logged in again once Reddit stops revoking its tokens,        *)
(* whatever the user's rejected messages do meanwhile; unless refreshes    *)
(* fail until the token expires, which stops the loop (sync.go:50-59 and   *)
(* 99-104).                                                                *)
LoginRecovers ==
    <>[]~revoked => \A c \in Conns :
        (cookie /\ syncCancel = c /\ ~loggedIn /\ pc[c] = "backoff")
            ~> (loggedIn \/ syncCancel # c \/ (phase = "expired" /\ pc[c] = "exited"))

(* README.md:152-156 says a login with a cookie survives its tokens: when  *)
(* Reddit stops revoking them, a running connection that was marked as     *)
(* logged out, by the sync loop or by a rejected message, is marked as     *)
(* logged in again.                                                        *)
LoginSurvives ==
    <>[]~revoked =>
        (cookie /\ syncCancel # NoConn /\ ~loggedIn) ~> (loggedIn \/ syncCancel = NoConn)
=============================================================================
