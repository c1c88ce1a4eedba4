------------------------- MODULE MCAnchorPublisher -------------------------
(***************************************************************************)
(* Small instances of AnchorPublisher for TLC.                             *)
(***************************************************************************)
EXTENDS AnchorPublisher, TLC

CONSTANTS r1, r2, t1, t2, p1, p2

=============================================================================
