----------------------------- MODULE MCBackfill -----------------------------
(* Small instances of Backfill: one message asked for, or the number left  *)
(* to the configured batch size.                                           *)
EXTENDS Backfill

OneOrOpen == {0, 1}
=============================================================================
