---------------------------- MODULE MCDiscovery ----------------------------
(* Small instances of Discovery.                                           *)
EXTENDS Discovery

CONSTANTS r1, r2

OneRoom   == {r1}
OtherRoom == {r2}
TwoRooms  == {r1, r2}
NoRooms   == {}
NoRequests == {}
Checks    == {"check"}
Requests  == {"info", "list", "save"}

(* What the rest of a behaviour may depend on.  The verdict is looked up   *)
(* for reported invites only, the synced rooms until the reconciliation    *)
(* has looked for missing ones; what is news already need not come back,   *)
(* and invites of accepted chats do not; a refusal is about a request.     *)
ReadVerdict(r) == IF Joined(r) /\ "invite" \notin resp[r] THEN "" ELSE spam[r]
ComesBack(r)   == unsaved[r] \ (news[r] \cup IF Joined(r) THEN {"invite"} ELSE {})

ReadState ==
    <<membership, hidden, [r \in Rooms |-> ReadVerdict(r)],
      news, [r \in Rooms |-> ComesBack(r)], resp, step,
      IF step \in {"handle", "list", "missing"} THEN synced ELSE {},
      reconciled, missing, resync, queue, portals, {r \in refused : Invited(r)}, missed, restarts>>
=============================================================================
