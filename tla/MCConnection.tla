---------------------------- MODULE MCConnection ----------------------------
(* Small instances of Connection.  Backoffs 1, 2, 3 stand for the first    *)
(* delay, one doubling, and a doubling cut off at syncMaxBackoff.          *)
EXTENDS Connection, TLC

CONSTANTS c1, c2

OneConn  == {c1}
TwoConns == {c1, c2}

(* Nothing tells one handle from another.                                  *)
HandleSymmetry == Permutations(TwoConns)

(* All but what the goroutines write and none of them reads: the login's   *)
(* flags, which only the outgoing message (UserSends) would read.          *)
ReadState ==
    <<cookie, polling, token, pc, rejected, loops, cancelled, closing, syncCancel, refreshLock>>
=============================================================================
