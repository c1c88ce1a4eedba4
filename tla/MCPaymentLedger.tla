-------------------------- MODULE MCPaymentLedger --------------------------
(***************************************************************************)
(* Small instances of PaymentLedger for TLC.                               *)
(***************************************************************************)
EXTENDS PaymentLedger, TLC

CONSTANTS c1, c2, w1, w2, t1, t2, o1, o2, b1, token, n1, n2, k1, k2

Request(o, k, amount, n, expires) ==
  [operator |-> o, key |-> k, asset |-> token, amount |-> amount,
   nonce |-> n, expiresAt |-> expires]

Policy(cap, maximum) == [cap |-> (token :> cap), maximum |-> maximum]

\* Two prepared authorizations with one nonce, the first of which is also put
\* to another operator.
KeyRequests ==
  {Request(o1, k1, 2, n1, 1), Request(o1, k2, 2, n1, 3),
   Request(o2, k1, 2, n1, 1)}
KeyPolicies == {Policy(2, 2)}

\* One authorization put to two operators, and one with its nonce that exceeds
\* the maximum of the policy, which its payer can still sign.
PairRequests ==
  {Request(o1, k1, 2, n1, 1), Request(o2, k1, 2, n1, 1),
   Request(o1, k2, 3, n1, 1)}

\* Charges of which each pair competes: for a nonce (the first two), for an
\* idempotency key (the last two), for the cap and, as the policy changes, for
\* the only concurrent reservation (the first and the last).  The first expires
\* within the day, and counts again once it is settled late.
Sharing == Request(o1, k2, 1, n1, 3)
RaceRequests ==
  {Request(o1, k1, 2, n1, 1), Sharing, Request(o1, k2, 2, n2, 3)}
Exclusive == Policy(4, 1)
RacePolicies == {Policy(3, 2), Exclusive}

\* Bounds: nonce and key are contended for on one day, and not under the policy
\* with a single reservation.
Asked(q) ==
  \/ \E c \in Checks : Exists(c) /\ checks[c].request = q
  \/ \E w \in Workers :
       \/ worker[w].at = "evidence" /\ worker[w].request = q
       \/ worker[w].at = "save" /\ worker[w].row.request = q
Bounded == Asked(Sharing) => DayOf(clock) = 0 /\ policies[o1] # Exclusive

OneProcess == w1 :> "p1" @@ w2 :> "p1"
TwoProcesses == w1 :> "p1" @@ w2 :> "p2"

CheckSymmetry == Permutations({c1, c2}) \cup Permutations({t1, t2})
                   \cup Permutations({w1, w2})
=============================================================================
