--------------------------- MODULE CheckLifecycle ---------------------------
(***************************************************************************)
(* What the auditor promises of a payment check, whatever requests,        *)
(* crashes and RPC answers it is made of: a check is decided once, a PAY   *)
(* decision is either cancelled or settled, a settlement is tied to the    *)
(* first transaction that was reported for it and to no other check, and a *)
(* final state is final.  PaymentLedger implements this specification.     *)
(***************************************************************************)
CONSTANTS Checks, Transactions

VARIABLES
  status,  \* CheckStatus of a check, "none" before it is decided
  claim    \* the transactions reported for a check: one at most

vars == <<status, claim>>

Init ==
  /\ status = [c \in Checks |-> "none"]
  /\ claim = [c \in Checks |-> {}]

Decide(c, s) ==
  /\ status[c] = "none"
  /\ status' = [status EXCEPT ![c] = s]
  /\ UNCHANGED claim

\* A payment that was reported for a check can no longer be cancelled.
Cancel(c) ==
  /\ status[c] = "reserved"
  /\ status' = [status EXCEPT ![c] = "cancelled"]
  /\ UNCHANGED claim

\* A check answers for one transaction, a transaction for one check.
Free(c, t) ==
  /\ claim[c] \subseteq {t}
  /\ \A d \in Checks \ {c} : t \notin claim[d]

Report(c, t, s) ==
  /\ status[c] \in {"reserved", "settlement_pending", "settlement_unverifiable"}
  /\ Free(c, t)
  /\ status' = [status EXCEPT ![c] = s]
  /\ claim' = [claim EXCEPT ![c] = {t}]

Next ==
  \E c \in Checks :
    \/ \E s \in {"review", "blocked", "reserved"} : Decide(c, s)
    \/ Cancel(c)
    \/ \E t \in Transactions,
          s \in {"settlement_pending", "settlement_unverifiable", "settled",
                 "settlement_mismatch"} :
         Report(c, t, s)

Spec == Init /\ [][Next]_vars
=============================================================================
