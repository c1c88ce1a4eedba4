-------------------------- MODULE MCTrustEvidence --------------------------
(***************************************************************************)
(* A token of two versions and an account, both changing while they are    *)
(* read.                                                                   *)
(***************************************************************************)
EXTENDS TrustEvidence, TLC

Contract(flag, mint) == [flag |-> flag, mint |-> mint]
AllInstalls == {Contract(0, Null), Contract(1, TRUE), Contract(Null, TRUE),
                Contract(Null, FALSE)}
AllHoldings == {[count |-> 2, top |-> 10], [count |-> 1, top |-> 95]}
State(exists, balance, keys, threshold) ==
  [exists |-> exists, balance |-> balance, keys |-> keys, threshold |-> threshold]
AllAccounts == {State(FALSE, 0, 0, 0), State(TRUE, 0, 1, 1), State(TRUE, 1, 1, 1),
                State(TRUE, 1, 2, 1), State(TRUE, 1, 2, 2)}
=============================================================================
