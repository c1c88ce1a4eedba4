------------------------- MODULE MCReportPurchase -------------------------
(* Model values and symmetry for ReportPurchase. *)
EXTENDS ReportPurchase, TLC

CONSTANTS q1, q2, n1, n2, s1, s2

(* One authorization can be used in the lifetime of the first quotes, one  *)
(* begins later, within the tolerance, and outlives them, and the window   *)
(* of the last is longer than the requirement allows.                      *)
SignedAuthorizations ==
  {[nonce |-> n1, after |-> 0, before |-> 2], [nonce |-> n2, after |-> 1, before |-> 3],
   [nonce |-> n2, after |-> 0, before |-> 3]}

Symmetric == Permutations(Snapshots) \cup Permutations(Quotes)
=============================================================================
