---------------------------- MODULE MCSyncStream ----------------------------
(* Small instances of SyncStream: one accepted chat, one chat request.     *)
EXTENDS SyncStream

CONSTANTS accepted, request

BothRooms    == {accepted, request}
RequestRoom  == {request}
AcceptedRoom == {accepted}
NoRooms      == {}
Text         == {"text"}
TextOrMedia  == {"text", "media"}
TextOrOther  == {"text", "other"}
Media        == {"media"}
=============================================================================
