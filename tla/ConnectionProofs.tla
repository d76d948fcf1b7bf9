-------------------------- MODULE ConnectionProofs --------------------------
(***************************************************************************)
(* Proofs about Connection, for any number of handles and any backoffs.    *)
(*                                                                         *)
(* The inductive invariant says where every handle can be: it is free, or  *)
(* the field syncCancel holds it, or exactly one Disconnect has taken it;  *)
(* and who holds refreshLock is who is minting.  That a Connect under way  *)
(* finds the field empty is what keeps a handle from being overwritten.    *)
(***************************************************************************)
EXTENDS Connection, TLAPS

(* Each actor is at a place of its own code.                               *)
Places ==
    /\ pc[Connector] \in ConnectorPCs
    /\ \A c \in Conns : pc[c] \in LoopPCs \cup {"free"}

LockHeldByMinter == \A a \in Actors : Minting(a) <=> refreshLock = a

HandleAccounted(c) ==
    /\ pc[c] = "free" => closing[c] = "no" /\ poll[c] = "none"
    /\ syncCancel = c => closing[c] = "no" /\ pc[c] # "free"
    /\ pc[c] # "free" /\ syncCancel # c => closing[c] # "no"
    /\ cancelled[c] <=> closing[c] \in {"joinSync", "joinPoll"}
    /\ closing[c] = "joinPoll" => pc[c] = "exited"

ConnectFindsNoHandle == pc[Connector] # "idle" => syncCancel = NoConn

IInv ==
    /\ TypeOK
    /\ Places
    /\ LockHeldByMinter
    /\ \A c \in Conns : HandleAccounted(c)
    /\ ConnectFindsNoHandle

-----------------------------------------------------------------------------
(* Doubling with the cut-off stays within the two backoff constants.       *)
LEMMA BackoffInRange ==
    ASSUME NEW b \in SyncMinBackoff .. SyncMaxBackoff
    PROVE  DoubledBackoff(b) \in SyncMinBackoff .. SyncMaxBackoff
  BY BackoffAssumption DEF DoubledBackoff

(* The names of places used by the steps.                                  *)
LEMMA Vocabulary ==
    /\ "idle" \in ConnectorPCs /\ "expiry" \in ConnectorPCs /\ "whoami" \in ConnectorPCs
    /\ LoopPCs \subseteq PCs /\ ConnectorPCs \subseteq PCs /\ "free" \in PCs
    /\ Connector \in Actors /\ Conns \subseteq Actors /\ Connector \notin Conns
  BY HandlesAssumption DEF ConnectorPCs, LoopPCs, PCs, Actors

LEMMA InitIInv == Init => IInv
  <1> SUFFICES ASSUME Init PROVE IInv
    OBVIOUS
  <1> USE HandlesAssumption, BackoffAssumption
  <1>1. TypeOK
    <2>1. pc \in [Actors -> PCs]
      BY DEF Init, Actors, PCs, LoopPCs, ConnectorPCs
    <2>2. backoff \in [Conns -> SyncMinBackoff .. SyncMaxBackoff]
      BY DEF Init
    <2>3. rejected \in [Actors -> BOOLEAN]
      BY DEF Init
    <2> QED
      BY <2>1, <2>2, <2>3 DEF Init, TypeOK, PollPCs, ClosingSteps, BridgeStates, Phases
  <1>2. Places /\ ConnectFindsNoHandle
    BY DEF Init, Places, ConnectFindsNoHandle, Actors, ConnectorPCs, LoopPCs
  <1>3. LockHeldByMinter
    BY DEF Init, LockHeldByMinter, Minting, Actors
  <1>4. \A c \in Conns : HandleAccounted(c)
    BY DEF Init, HandleAccounted, Actors
  <1> QED
    BY <1>1, <1>2, <1>3, <1>4 DEF IInv

-----------------------------------------------------------------------------
(* Type correctness, one step per action.                                  *)
LEMMA TypeOKStep == ASSUME TypeOK, Places, [Next]_vars PROVE TypeOK'
  <1> USE HandlesAssumption, SwitchesAssumption, BackoffAssumption
  <1> USE DEF TypeOK, Places, token, loops, handle, login, Actors, PCs, LoopPCs, ConnectorPCs
  <1>1. ASSUME NEW a \in Actors, AcquireRefresh(a) PROVE TypeOK'
    BY <1>1 DEF AcquireRefresh, GoTo
  <1>2. ASSUME NEW a \in Actors, MintOk(a) PROVE TypeOK'
    BY <1>2 DEF MintOk, NewToken, GoTo, AfterRefresh, Phases
  <1>3. ASSUME NEW a \in Actors, MintFail(a) PROVE TypeOK'
    BY <1>3 DEF MintFail, NewToken, GoTo, Phases
  <1>4. CASE ConnectBegin
    BY <1>4 DEF ConnectBegin, GoTo
  <1>5. CASE ConnectExpiry
    <2>1. CASE phase = "expired"
      BY <1>5, <2>1 DEF ConnectExpiry, GoTo, Report, BridgeStates
    <2>2. CASE phase # "expired"
      BY <1>5, <2>2 DEF ConnectExpiry, GoTo, Request, TokenDead
    <2> QED
      BY <2>1, <2>2
  <1>6. ASSUME NEW c \in Conns, WhoamiOk(c) PROVE TypeOK'
    BY <1>6 DEF WhoamiOk, Report, BridgeStates, PollPCs
  <1>7. CASE WhoamiFail
    BY <1>7 DEF WhoamiFail, Answered, GoTo, Report, BridgeStates
  <1>8. ASSUME NEW c \in Conns, SyncLoop(c) PROVE TypeOK'
    <2>1. CASE LoopTop(c)
      BY <2>1 DEF LoopTop, GoTo
    <2>2. CASE LoopExpired(c)
      BY <2>2 DEF LoopExpired, GoTo, Report, BridgeStates
    <2>3. CASE LoopRequest(c)
      BY <2>3 DEF LoopRequest, GoTo, Request, Report, TokenDead, BridgeStates
    <2>4. CASE SyncOk(c)
      <3>1. CASE Recovered(c)
        BY <2>4, <3>1 DEF SyncOk, GoTo, Report, BridgeStates
      <3>2. CASE ~Recovered(c)
        BY <2>4, <3>2 DEF SyncOk, GoTo
      <3> QED
        BY <3>1, <3>2
    <2>5. CASE SyncTokenError(c)
      BY <2>5 DEF SyncTokenError, Answered, GoTo
    <2>6. CASE SyncNetError(c)
      BY <2>6 DEF SyncNetError, Answered, GoTo
    <2>7. CASE LoopFail(c)
      <3>1. CASE cancelled[c]
        BY <2>7, <3>1 DEF LoopFail, GoTo
      <3>2. CASE ~cancelled[c] /\ pc[c] = "tokenFail"
        BY <2>7, <3>2 DEF LoopFail, GoTo, Report, BridgeStates
      <3>3. CASE ~cancelled[c] /\ pc[c] = "netFail"
        BY <2>7, <3>3 DEF LoopFail, GoTo, Report, BridgeStates
      <3> QED
        BY <2>7, <3>1, <3>2, <3>3 DEF LoopFail
    <2>8. CASE BackoffElapsed(c)
      BY <2>8, BackoffInRange DEF BackoffElapsed, GoTo
    <2>9. CASE BackoffCancelled(c)
      BY <2>9 DEF BackoffCancelled, GoTo
    <2> QED
      BY <1>8, <2>1, <2>2, <2>3, <2>4, <2>5, <2>6, <2>7, <2>8, <2>9 DEF SyncLoop
  <1>9. ASSUME NEW c \in Conns, PollLoop(c) PROVE TypeOK'
    BY <1>9 DEF PollLoop, PollTick, PollDone, PollStop, PollMoves, PollPCs
  <1>10. ASSUME NEW c \in Conns, Disconnect(c) PROVE TypeOK'
    <2>1. CASE Cancel(c)
      BY <2>1 DEF Cancel, ClosingSteps
    <2>2. CASE JoinSync(c)
      BY <2>2 DEF JoinSync, ClosingSteps
    <2>3. CASE JoinPoll(c)
      BY <2>3 DEF JoinPoll, GoTo, FlagAfterJoin, ClosingSteps, PollPCs
    <2> QED
      BY <1>10, <2>1, <2>2, <2>3 DEF Disconnect
  <1>11. CASE Calls
    <2>1. CASE LogoutIdle
      BY <2>1 DEF LogoutIdle
    <2>2. ASSUME NEW lo \in BOOLEAN, DisconnectBegin(lo) PROVE TypeOK'
      BY <2>2 DEF DisconnectBegin, ClosingSteps
    <2> QED
      BY <1>11, <2>1, <2>2 DEF Calls
  <1>12. CASE SendRejected \/ SendReport
    BY <1>12 DEF SendRejected, SendReport, Report, BridgeStates
  <1>13. CASE Tick \/ Revoke
    <2>1. CASE Tick
      BY <2>1 DEF Tick, Later, Phases
    <2>2. CASE Revoke
      BY <2>2 DEF Revoke
    <2> QED
      BY <1>13, <2>1, <2>2
  <1>14. CASE UNCHANGED vars
    BY <1>14 DEF vars
  <1> QED
    BY <1>1, <1>2, <1>3, <1>4, <1>5, <1>6, <1>7, <1>8, <1>9, <1>10, <1>11, <1>12, <1>13, <1>14
       DEF Next, Refresh, Connect

-----------------------------------------------------------------------------
(* What a step of a sync loop does to the rest: it moves between places    *)
(* where nobody mints, and touches neither handle nor lock nor poll.       *)
Unlocked == LoopPCs \ {"mint", "forceMint"}

LEMMA SyncLoopMoves ==
    ASSUME TypeOK, Places, NEW c \in Conns, SyncLoop(c)
    PROVE  /\ pc[c] \in Unlocked \ {"exited"}
           /\ \E l \in Unlocked : pc' = [pc EXCEPT ![c] = l]
           /\ UNCHANGED <<handle, refreshLock, poll, loggedOut>>
  <1> USE DEF LoopPCs, Unlocked, handle, loops, GoTo, Request, Answered
  <1>1. CASE LoopTop(c)
    BY <1>1 DEF LoopTop
  <1>2. CASE LoopExpired(c)
    BY <1>2 DEF LoopExpired
  <1>3. CASE LoopRequest(c)
    BY <1>3 DEF LoopRequest
  <1>4. CASE SyncOk(c)
    BY <1>4 DEF SyncOk
  <1>5. CASE SyncTokenError(c)
    BY <1>5 DEF SyncTokenError
  <1>6. CASE SyncNetError(c)
    BY <1>6 DEF SyncNetError
  <1>7. CASE LoopFail(c)
    BY <1>7 DEF LoopFail
  <1>8. CASE BackoffElapsed(c) \/ BackoffCancelled(c)
    BY <1>8 DEF BackoffElapsed, BackoffCancelled
  <1> QED
    BY <1>1, <1>2, <1>3, <1>4, <1>5, <1>6, <1>7, <1>8 DEF SyncLoop

(* No actor leaves the places of its own code.                             *)
LEMMA PlacesStep == ASSUME TypeOK, Places, [Next]_vars PROVE Places'
  <1> USE HandlesAssumption
  <1> USE DEF TypeOK, Places, Actors, LoopPCs, ConnectorPCs
  <1>1. ASSUME NEW a \in Actors, Refresh(a) PROVE Places'
    BY <1>1 DEF Refresh, AcquireRefresh, MintOk, MintFail, Minting, AfterRefresh, GoTo
  <1>2. CASE Connect
    BY <1>2 DEF Connect, ConnectBegin, ConnectExpiry, WhoamiFail, WhoamiOk, GoTo, Request, Answered
  <1>3. ASSUME NEW c \in Conns, SyncLoop(c) PROVE Places'
    BY <1>3, SyncLoopMoves DEF Unlocked
  <1>4. ASSUME NEW c \in Conns, PollLoop(c) PROVE Places'
    BY <1>4 DEF PollLoop, PollTick, PollDone, PollStop, PollMoves
  <1>5. ASSUME NEW c \in Conns, Disconnect(c) PROVE Places'
    BY <1>5 DEF Disconnect, Cancel, JoinSync, JoinPoll, GoTo
  <1>6. CASE Calls \/ SendRejected \/ SendReport \/ Tick \/ Revoke \/ UNCHANGED vars
    BY <1>6 DEF Calls, LogoutIdle, DisconnectBegin, SendRejected, SendReport, Tick, Revoke, vars
  <1> QED
    BY <1>1, <1>2, <1>3, <1>4, <1>5, <1>6 DEF Next

(* The lock and the minting actor change together.                         *)
LEMMA LockStep == ASSUME IInv, [Next]_vars PROVE LockHeldByMinter'
  <1> USE HandlesAssumption
  <1> USE DEF IInv, TypeOK, Places, LockHeldByMinter, Minting, Actors, LoopPCs, ConnectorPCs
  <1>1. ASSUME NEW a \in Actors, AcquireRefresh(a) PROVE LockHeldByMinter'
    BY <1>1 DEF AcquireRefresh, LockFree, GoTo
  <1>2. ASSUME NEW a \in Actors, MintOk(a) \/ MintFail(a) PROVE LockHeldByMinter'
    BY <1>2 DEF MintOk, MintFail, AfterRefresh, GoTo
  <1>3. CASE Connect
    BY <1>3 DEF Connect, ConnectBegin, ConnectExpiry, WhoamiFail, WhoamiOk, GoTo, Request, Answered
  <1>4. ASSUME NEW c \in Conns, SyncLoop(c) PROVE LockHeldByMinter'
    BY <1>4, SyncLoopMoves DEF Unlocked
  <1>5. ASSUME NEW c \in Conns, PollLoop(c) PROVE LockHeldByMinter'
    BY <1>5 DEF PollLoop, PollTick, PollDone, PollStop, PollMoves
  <1>6. ASSUME NEW c \in Conns, Disconnect(c) PROVE LockHeldByMinter'
    <2>1. CASE Cancel(c) \/ JoinSync(c)
      BY <2>1 DEF Cancel, JoinSync
    <2>2. CASE JoinPoll(c)
      <3>1. pc[c] = "exited"
        BY <2>2 DEF JoinPoll, HandleAccounted
      <3> QED
        BY <2>2, <3>1 DEF JoinPoll, GoTo
    <2> QED
      BY <1>6, <2>1, <2>2 DEF Disconnect
  <1>7. CASE Calls \/ SendRejected \/ SendReport \/ Tick \/ Revoke \/ UNCHANGED vars
    BY <1>7 DEF Calls, LogoutIdle, DisconnectBegin, SendRejected, SendReport, Tick, Revoke, vars
  <1> QED
    BY <1>1, <1>2, <1>3, <1>4, <1>5, <1>6, <1>7 DEF Next, Refresh

(* A handle moves from the pool to the field, from the field to the        *)
(* Disconnect that took it, and back to the pool.                          *)
LEMMA HandleStep ==
    ASSUME IInv, [Next]_vars
    PROVE  (\A c \in Conns : HandleAccounted(c))' /\ ConnectFindsNoHandle'
  <1> DEFINE Goal == (\A c \in Conns : HandleAccounted(c))' /\ ConnectFindsNoHandle'
  <1> USE HandlesAssumption
  <1> USE DEF IInv, TypeOK, Places, HandleAccounted, ConnectFindsNoHandle, Actors, LoopPCs,
              ConnectorPCs, handle, loops
  <1>1. ASSUME NEW a \in Actors, Refresh(a) PROVE Goal
    BY <1>1 DEF Refresh, AcquireRefresh, MintOk, MintFail, Minting, AfterRefresh, GoTo
  <1>2. CASE ConnectBegin \/ ConnectExpiry \/ WhoamiFail
    BY <1>2 DEF ConnectBegin, NotConnected, ConnectExpiry, WhoamiFail, GoTo, Request, Answered
  <1>3. ASSUME NEW c \in Conns, WhoamiOk(c) PROVE Goal
    BY <1>3 DEF WhoamiOk
  <1>4. ASSUME NEW c \in Conns, SyncLoop(c) PROVE Goal
    BY <1>4, SyncLoopMoves DEF Unlocked
  <1>5. ASSUME NEW c \in Conns, PollLoop(c) PROVE Goal
    BY <1>5 DEF PollLoop, PollTick, PollDone, PollStop, PollMoves
  <1>6. ASSUME NEW c \in Conns, Disconnect(c) PROVE Goal
    <2>1. CASE Cancel(c)
      BY <2>1 DEF Cancel, ClosingSteps
    <2>2. CASE JoinSync(c)
      BY <2>2 DEF JoinSync, ClosingSteps
    <2>3. CASE JoinPoll(c)
      BY <2>3 DEF JoinPoll, GoTo, ClosingSteps
    <2> QED
      BY <1>6, <2>1, <2>2, <2>3 DEF Disconnect
  <1>7. ASSUME NEW lo \in BOOLEAN, DisconnectBegin(lo) PROVE Goal
    BY <1>7 DEF DisconnectBegin, ClosingSteps
  <1>8. CASE LogoutIdle \/ SendRejected \/ SendReport \/ Tick \/ Revoke \/ UNCHANGED vars
    BY <1>8 DEF LogoutIdle, SendRejected, SendReport, Tick, Revoke, vars
  <1> QED
    BY <1>1, <1>2, <1>3, <1>4, <1>5, <1>6, <1>7, <1>8 DEF Next, Connect, Calls

LEMMA IInvariant == Spec => []IInv
  <1>1. IInv /\ [Next]_vars => IInv'
    BY TypeOKStep, PlacesStep, LockStep, HandleStep DEF IInv
  <1> QED
    BY InitIInv, <1>1, PTL DEF Spec

-----------------------------------------------------------------------------
(* The types hold in every reachable state.                                *)
THEOREM TypeCorrect == Spec => []TypeOK
  <1>1. IInv => TypeOK
    BY DEF IInv
  <1> QED
    BY IInvariant, <1>1, PTL

(* However Connect, Disconnect and LogoutRemote overlap, a goroutine that  *)
(* runs and has not been cancelled can still be reached by a Disconnect.   *)
THEOREM NoLoopIsLeaked == Spec => []NoLeakedLoop
  <1>1. IInv => NoLeakedLoop
    BY DEF IInv, TypeOK, HandleAccounted, NoLeakedLoop, Running, ClosingSteps
  <1> QED
    BY IInvariant, <1>1, PTL

(* refreshLock serialises the refreshes of all the actors.                 *)
THEOREM RefreshesAreSerial == Spec => []OneMintAtATime
  <1>1. IInv => OneMintAtATime
    BY DEF IInv, LockHeldByMinter, OneMintAtATime
  <1> QED
    BY IInvariant, <1>1, PTL

-----------------------------------------------------------------------------
(* The rest assumes that the caller waits for Disconnect before it calls   *)
(* the client again.  Then no two connections are alive together.          *)
OneConnection ==
    /\ \A c \in Conns : closing[c] # "no" => pc[Connector] = "idle" /\ syncCancel = NoConn
    /\ \A c, d \in Conns : pc[c] # "free" /\ pc[d] # "free" => c = d

(* After a logout there is nothing left that could set the flag.           *)
NothingAfterLogout ==
    loggedOut => ~loggedIn /\ pc[Connector] = "idle" /\ \A c \in Conns : pc[c] = "free"

LEMMA OneConnectionStep ==
    ASSUME ~Overlap, IInv, OneConnection, [Next]_vars PROVE OneConnection'
  <1> USE HandlesAssumption
  <1> USE DEF IInv, TypeOK, Places, HandleAccounted, ConnectFindsNoHandle, OneConnection,
              Actors, LoopPCs, ConnectorPCs, handle, loops
  <1>1. ASSUME NEW a \in Actors, Refresh(a) PROVE OneConnection'
    BY <1>1 DEF Refresh, AcquireRefresh, MintOk, MintFail, Minting, AfterRefresh, GoTo
  <1>2. CASE ConnectBegin \/ ConnectExpiry \/ WhoamiFail
    BY <1>2 DEF ConnectBegin, CallerFree, ConnectExpiry, WhoamiFail, GoTo, Request, Answered
  <1>3. ASSUME NEW c \in Conns, WhoamiOk(c) PROVE OneConnection'
    BY <1>3 DEF WhoamiOk
  <1>4. ASSUME NEW c \in Conns, SyncLoop(c) PROVE OneConnection'
    BY <1>4, SyncLoopMoves DEF Unlocked
  <1>5. ASSUME NEW c \in Conns, PollLoop(c) PROVE OneConnection'
    BY <1>5 DEF PollLoop, PollTick, PollDone, PollStop, PollMoves
  <1>6. ASSUME NEW c \in Conns, Disconnect(c) PROVE OneConnection'
    BY <1>6 DEF Disconnect, Cancel, JoinSync, JoinPoll, GoTo
  <1>7. ASSUME NEW lo \in BOOLEAN, DisconnectBegin(lo) PROVE OneConnection'
    BY <1>7 DEF DisconnectBegin, ClosingSteps
  <1>8. CASE LogoutIdle \/ SendRejected \/ SendReport \/ Tick \/ Revoke \/ UNCHANGED vars
    BY <1>8 DEF LogoutIdle, SendRejected, SendReport, Tick, Revoke, vars
  <1> QED
    BY <1>1, <1>2, <1>3, <1>4, <1>5, <1>6, <1>7, <1>8 DEF Next, Connect, Calls

LEMMA LogoutStep ==
    ASSUME ~Overlap, IInv, OneConnection, NothingAfterLogout, [Next]_vars
    PROVE  NothingAfterLogout'
  <1> USE HandlesAssumption
  <1> USE DEF IInv, TypeOK, Places, HandleAccounted, OneConnection, NothingAfterLogout,
              Actors, LoopPCs, ConnectorPCs, handle, loops, login
  <1>1. ASSUME NEW a \in Actors, Refresh(a) PROVE NothingAfterLogout'
    BY <1>1 DEF Refresh, AcquireRefresh, MintOk, MintFail, Minting, AfterRefresh, GoTo
  <1>2. CASE Connect
    BY <1>2 DEF Connect, ConnectBegin, ConnectExpiry, WhoamiFail, WhoamiOk, GoTo, Request, Answered
  <1>3. ASSUME NEW c \in Conns, SyncLoop(c) PROVE NothingAfterLogout'
    BY <1>3, SyncLoopMoves DEF Unlocked
  <1>4. ASSUME NEW c \in Conns, PollLoop(c) PROVE NothingAfterLogout'
    BY <1>4 DEF PollLoop, PollTick, PollDone, PollStop, PollMoves
  <1>5. ASSUME NEW c \in Conns, Cancel(c) \/ JoinSync(c) PROVE NothingAfterLogout'
    BY <1>5 DEF Cancel, JoinSync
  <1>6. ASSUME NEW c \in Conns, JoinPoll(c) PROVE NothingAfterLogout'
    BY <1>6 DEF JoinPoll, GoTo, FlagAfterJoin
  <1>7. CASE LogoutIdle
    BY <1>7 DEF LogoutIdle, CallerFree
  <1>8. ASSUME NEW lo \in BOOLEAN, DisconnectBegin(lo) PROVE NothingAfterLogout'
    BY <1>8 DEF DisconnectBegin
  <1>9. CASE SendRejected \/ SendReport \/ Tick \/ Revoke \/ UNCHANGED vars
    BY <1>9 DEF SendRejected, SendReport, Tick, Revoke, vars
  <1> QED
    BY <1>1, <1>2, <1>3, <1>4, <1>5, <1>6, <1>7, <1>8, <1>9 DEF Next, Calls, Disconnect

LEMMA DeadLoopStep ==
    ASSUME IInv, OneConnection, DeadLoopReported, [Next]_vars PROVE DeadLoopReported'
  <1> USE HandlesAssumption
  <1> USE DEF IInv, TypeOK, Places, HandleAccounted, ConnectFindsNoHandle, OneConnection,
              DeadLoopReported, Actors, LoopPCs, ConnectorPCs, handle, loops, login
  <1>1. ASSUME NEW a \in Actors, Refresh(a) PROVE DeadLoopReported'
    BY <1>1 DEF Refresh, AcquireRefresh, MintOk, MintFail, Minting, AfterRefresh, GoTo
  <1>2. CASE Connect
    BY <1>2 DEF Connect, ConnectBegin, NotConnected, ConnectExpiry, WhoamiFail, WhoamiOk, GoTo,
                Request, Answered
  <1>3. ASSUME NEW c \in Conns, SyncLoop(c) PROVE DeadLoopReported'
    <2>1. \A d \in Conns : syncCancel = d => d = c
      BY <1>3, SyncLoopMoves DEF Unlocked
    <2>2. syncCancel = c => ~cancelled[c]
      OBVIOUS
    <2>3. CASE LoopTop(c) \/ LoopRequest(c) \/ SyncOk(c) \/ SyncTokenError(c) \/ SyncNetError(c)
      BY <2>1, <2>2, <2>3 DEF LoopTop, LoopRequest, SyncOk, SyncTokenError, SyncNetError, GoTo,
                              Request, Answered
    <2>4. CASE LoopExpired(c)
      BY <2>1, <2>4 DEF LoopExpired, GoTo, Report
    <2>5. CASE LoopFail(c)
      BY <2>1, <2>2, <2>5 DEF LoopFail, Fatal, GoTo, Report
    <2>6. CASE BackoffElapsed(c) \/ BackoffCancelled(c)
      BY <2>1, <2>2, <2>6 DEF BackoffElapsed, BackoffCancelled, GoTo
    <2> QED
      BY <1>3, <2>3, <2>4, <2>5, <2>6 DEF SyncLoop
  <1>4. ASSUME NEW c \in Conns, PollLoop(c) PROVE DeadLoopReported'
    BY <1>4 DEF PollLoop, PollTick, PollDone, PollStop, PollMoves
  <1>5. ASSUME NEW c \in Conns, Disconnect(c) PROVE DeadLoopReported'
    BY <1>5 DEF Disconnect, Cancel, JoinSync, JoinPoll, GoTo, FlagAfterJoin
  <1>6. CASE Calls
    BY <1>6 DEF Calls, LogoutIdle, DisconnectBegin
  <1>7. CASE SendRejected \/ SendReport \/ Tick \/ Revoke \/ UNCHANGED vars
    BY <1>7 DEF SendRejected, SendReport, Report, Tick, Revoke, vars
  <1> QED
    BY <1>1, <1>2, <1>3, <1>4, <1>5, <1>6, <1>7 DEF Next

(* What holds at the start of all three.                                   *)
LEMMA SerialInit == Init => OneConnection /\ NothingAfterLogout /\ DeadLoopReported
  BY HandlesAssumption DEF Init, OneConnection, NothingAfterLogout, DeadLoopReported, Actors

(* With a caller that waits, a logout is final until the next Connect.     *)
THEOREM LogoutIsFinal == ASSUME ~Overlap PROVE Spec => []LogoutSticks
  <1>1. IInv /\ OneConnection /\ NothingAfterLogout /\ [Next]_vars
          => OneConnection' /\ NothingAfterLogout'
    BY OneConnectionStep, LogoutStep
  <1>2. NothingAfterLogout => LogoutSticks
    BY DEF NothingAfterLogout, LogoutSticks
  <1> QED
    BY IInvariant, SerialInit, <1>1, <1>2, PTL DEF Spec

(* With a caller that waits, a sync loop that gave up is shown as such     *)
(* until the connection is closed.                                         *)
THEOREM DeadLoopIsReported == ASSUME ~Overlap PROVE Spec => []DeadLoopReported
  <1>1. IInv /\ OneConnection /\ DeadLoopReported /\ [Next]_vars
          => OneConnection' /\ DeadLoopReported'
    BY OneConnectionStep, DeadLoopStep
  <1> QED
    BY IInvariant, SerialInit, <1>1, PTL DEF Spec

-----------------------------------------------------------------------------
(* While a loop runs nobody else can replace its token: a request it sent  *)
(* with a dead token, and the forced refresh that follows, still find the  *)
(* token dead.                                                             *)
TokenStillStale ==
    \A c \in Conns :
        /\ rejected[c] => pc[c] \in {"sync", "retry"} /\ TokenDead
        /\ pc[c] = "forceLock" => phase # "fresh" \/ revoked

(* The actor that mints is the loop of the only connection, or a Connect   *)
(* that finds none.                                                        *)
LEMMA MinterIsAlone ==
    ASSUME IInv, OneConnection, NEW a \in Actors, Minting(a)
    PROVE  \A c \in Conns : c = a \/ pc[c] = "free"
  <1> USE HandlesAssumption
  <1>1. CASE a = Connector
    <2>1. pc[Connector] # "idle"
      BY <1>1 DEF Minting
    <2> SUFFICES ASSUME NEW c \in Conns PROVE pc[c] = "free"
      OBVIOUS
    <2>2. syncCancel # c /\ closing[c] = "no"
      BY <2>1 DEF IInv, ConnectFindsNoHandle, OneConnection
    <2> QED
      BY <2>2 DEF IInv, HandleAccounted
  <1>2. CASE a \in Conns
    <2>1. pc[a] # "free"
      BY <1>2 DEF Minting
    <2> QED
      BY <1>2, <2>1 DEF OneConnection
  <1> QED
    BY <1>1, <1>2 DEF Actors

LEMMA TokenStillStaleStep ==
    ASSUME IInv, OneConnection, TokenStillStale, [Next]_vars PROVE TokenStillStale'
  <1> USE HandlesAssumption
  <1> USE DEF IInv, TypeOK, Places, TokenStillStale, TokenDead, Actors, LoopPCs, ConnectorPCs,
              token, loops, handle, login
  <1>1. ASSUME NEW a \in Actors, AcquireRefresh(a) PROVE TokenStillStale'
    BY <1>1 DEF AcquireRefresh, GoTo
  <1>2. ASSUME NEW a \in Actors, MintOk(a) \/ MintFail(a) PROVE TokenStillStale'
    <2>1. \A c \in Conns : c = a \/ pc[c] = "free"
      BY <1>2, MinterIsAlone DEF MintOk, MintFail
    <2>2. \A c \in Conns : ~rejected[c]
      BY <1>2, <2>1 DEF MintOk, MintFail, Minting
    <2>3. \A c \in Conns : ~rejected'[c] /\ pc'[c] # "forceLock"
      BY <1>2, <2>1, <2>2 DEF MintOk, MintFail, AfterRefresh, GoTo
    <2> QED
      BY <2>3
  <1>3. CASE Connect
    BY <1>3 DEF Connect, ConnectBegin, ConnectExpiry, WhoamiFail, WhoamiOk, GoTo, Request, Answered
  <1>4. ASSUME NEW c \in Conns, SyncLoop(c) PROVE TokenStillStale'
    <2>1. CASE LoopTop(c) \/ LoopExpired(c) \/ LoopFail(c) \/ BackoffElapsed(c) \/ BackoffCancelled(c)
      BY <2>1 DEF LoopTop, LoopExpired, LoopFail, BackoffElapsed, BackoffCancelled, GoTo
    <2>2. CASE LoopRequest(c)
      BY <2>2 DEF LoopRequest, GoTo, Request
    <2>3. CASE SyncOk(c) \/ SyncNetError(c)
      BY <2>3 DEF SyncOk, SyncNetError, GoTo, Answered
    <2>4. CASE SyncTokenError(c)
      BY <2>4 DEF SyncTokenError, RejectsToken, GoTo, Answered
    <2> QED
      BY <1>4, <2>1, <2>2, <2>3, <2>4 DEF SyncLoop
  <1>5. ASSUME NEW c \in Conns, PollLoop(c) PROVE TokenStillStale'
    BY <1>5 DEF PollLoop, PollTick, PollDone, PollStop, PollMoves
  <1>6. ASSUME NEW c \in Conns, Disconnect(c) PROVE TokenStillStale'
    <2>1. CASE Cancel(c) \/ JoinSync(c)
      BY <2>1 DEF Cancel, JoinSync
    <2>2. CASE JoinPoll(c)
      <3>1. pc[c] = "exited"
        BY <2>2 DEF JoinPoll, HandleAccounted
      <3> QED
        BY <2>2, <3>1 DEF JoinPoll, GoTo
    <2> QED
      BY <1>6, <2>1, <2>2 DEF Disconnect
  <1>7. CASE Calls \/ SendRejected \/ SendReport \/ UNCHANGED vars
    BY <1>7 DEF Calls, LogoutIdle, DisconnectBegin, SendRejected, SendReport, vars
  <1>8. CASE Tick \/ Revoke
    BY <1>8 DEF Tick, Revoke, Later, Phases
  <1> QED
    BY <1>1, <1>2, <1>3, <1>4, <1>5, <1>6, <1>7, <1>8 DEF Next, Refresh

(* Only AcquireRefresh starts a mint: unforced it has looked at the phase  *)
(* under the lock, forced the token is still the one Reddit refused.       *)
LEMMA MintStartsStale ==
    ASSUME IInv, TokenStillStale, [Next]_vars
    PROVE  \A a \in Actors : Minting(a)' /\ ~Minting(a) => phase # "fresh" \/ revoked
  <1> DEFINE Goal ==
        \A a \in Actors : Minting(a)' /\ ~Minting(a) => phase # "fresh" \/ revoked
  <1> USE HandlesAssumption
  <1> USE DEF IInv, TypeOK, Places, Minting, Actors, LoopPCs, ConnectorPCs
  <1>1. ASSUME NEW a \in Actors, AcquireRefresh(a) PROVE Goal
    BY <1>1 DEF AcquireRefresh, NeedsRefresh, TokenStillStale, GoTo
  <1>2. ASSUME NEW a \in Actors, MintOk(a) \/ MintFail(a) PROVE Goal
    BY <1>2 DEF MintOk, MintFail, AfterRefresh, GoTo
  <1>3. CASE Connect
    BY <1>3 DEF Connect, ConnectBegin, ConnectExpiry, WhoamiFail, WhoamiOk, GoTo, Request, Answered
  <1>4. ASSUME NEW c \in Conns, SyncLoop(c) PROVE Goal
    BY <1>4, SyncLoopMoves DEF Unlocked
  <1>5. ASSUME NEW c \in Conns, PollLoop(c) PROVE Goal
    BY <1>5 DEF PollLoop, PollTick, PollDone, PollStop, PollMoves
  <1>6. ASSUME NEW c \in Conns, Disconnect(c) PROVE Goal
    BY <1>6 DEF Disconnect, Cancel, JoinSync, JoinPoll, GoTo
  <1>7. CASE Calls \/ SendRejected \/ SendReport \/ Tick \/ Revoke \/ UNCHANGED vars
    BY <1>7 DEF Calls, LogoutIdle, DisconnectBegin, SendRejected, SendReport, Tick, Revoke, vars
  <1> QED
    BY <1>1, <1>2, <1>3, <1>4, <1>5, <1>6, <1>7 DEF Next, Refresh

(* With a caller that waits, no refresh, forced or not, replaces a token   *)
(* that is still good: two refreshes never answer one rejection.           *)
THEOREM OnlyStaleTokensReplaced == ASSUME ~Overlap PROVE Spec => MintOnlyStaleToken
  <1>1. Init => TokenStillStale
    BY HandlesAssumption DEF Init, TokenStillStale, Actors
  <1>2. IInv /\ OneConnection /\ TokenStillStale /\ [Next]_vars
          => OneConnection' /\ TokenStillStale'
    BY OneConnectionStep, TokenStillStaleStep
  <1>3. IInv /\ TokenStillStale /\ [Next]_vars
          => [\A a \in Actors : Minting(a)' /\ ~Minting(a) => phase # "fresh" \/ revoked]_vars
    BY MintStartsStale
  <1> QED
    BY IInvariant, SerialInit, <1>1, <1>2, <1>3, PTL DEF Spec, MintOnlyStaleToken
=============================================================================
