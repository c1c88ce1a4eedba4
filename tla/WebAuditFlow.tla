---------------------------- MODULE WebAuditFlow ----------------------------
(***************************************************************************)
(* The payment checker of the web app (apps/web/src/audit): React state    *)
(* written by asynchronous calls that overlap. Each action is a button of  *)
(* the page, or an answer that reaches the closure which asked.            *)
(***************************************************************************)
EXTENDS Naturals, FiniteSets

CONSTANTS
  Requests,            \* the requests a user may enter: URL, method and body
  Terms,               \* the payment terms a service may ask for, their resource included
  MaxKeys,             \* bound: idempotency keys minted
  MaxCalls,            \* bound: calls in flight when a button is pressed
  SettlementAttempts,  \* SETTLEMENT_POLL_ATTEMPTS
  PollAttempts,        \* POLL_MAX_ATTEMPTS
  Null

ASSUME WebAssumption ==
  /\ {MaxKeys, MaxCalls, SettlementAttempts, PollAttempts} \subseteq Nat \ {0}
  /\ Null \notin Requests \cup Terms

VARIABLES
  token,        \* tokenRef: is there one
  input,        \* probeInput
  draft,        \* authorizationText: the terms it authorizes
  key,          \* idempotencyKeyRef
  minted,       \* keys minted so far
  probe, check, settlement, payment, observation,  \* AuditStepState of each step
  receipt,      \* ReceiptStepState
  calls,        \* closures that wait for an answer, a timer or the wallet
  stored        \* the check that the report API has for the current key

steps == <<probe, check, settlement, payment, observation, receipt>>
vars == <<token, input, draft, key, minted, steps, calls, stored>>

(* A step that failed shows a message and offers the buttons of an idle one. *)
Idle == [status |-> "idle", data |-> Null]
Failed == Idle
Running == [status |-> "running", data |-> Null]
Success(d) == [status |-> "success", data |-> d]

(* data: the check whose receipt is shown; poll: anchorPoll, again without  *)
(* a state of its own for an error.                                         *)
IdleReceipt == [data |-> Null, poll |-> "idle"]
Receipt(id, terminal) == [data |-> id, poll |-> IF terminal THEN "terminal" ELSE "polling"]

(* What a probe returns: the request it made and the terms of the charge.   *)
(* An answer without a supported charge offers as little as a failure.      *)
Charges == [request : Requests, terms : Terms]

\* A check is named by its idempotency key.
Checks == [id : 1 .. MaxKeys, request : Requests, terms : Terms,
           draft : Terms \cup {Null}, verdict : {"pay", "review"},
           status : {"reserved", "closed"}]

Init ==
  /\ token = FALSE /\ input \in Requests /\ draft = Null /\ key = Null /\ minted = 0
  /\ probe = Idle /\ check = Idle /\ settlement = Idle /\ payment = Idle
  /\ observation = Idle /\ receipt = IdleReceipt
  /\ calls = {} /\ stored = Null

-----------------------------------------------------------------------------
(* pollRunRef counts up, and a closure that finds another run than its own  *)
(* ignores its answer: receipt polls and the loop that verifies a payment   *)
(* are dropped here, a payment that the wallet or the service still holds   *)
(* goes on without being current.                                           *)
(* Mutated form: the run number stays, only the timer goes.                 *)
WithoutTimer(S) == {c \in S : c.kind # "timer"}

Superseded(S) ==
  { IF c.kind \in {"wallet", "paid"} THEN [c EXCEPT !.current = FALSE] ELSE c :
      c \in {d \in S : d.kind \notin {"timer", "poll", "settle"}} }

\* clearPollTimer: the timer is dropped and whatever runs is superseded.
ClearPollTimer == Superseded(calls)

Call(kind, data) == [kind |-> kind, data |-> data, attempt |-> 0, current |-> TRUE]
Busy == Cardinality(calls) >= MaxCalls

SetToken == ~token /\ token' = TRUE /\ UNCHANGED <<input, draft, key, minted, steps, calls, stored>>

\* By hand, or when the quote of AgentPay's own service has been loaded.
SetProbeInput(r) ==
  /\ input' = r
  /\ UNCHANGED <<token, draft, key, minted, steps, calls, stored>>

(* reset and signOut: the steps are idle, but calls go on. *)
SignOut ==
  /\ token
  /\ token' = FALSE /\ key' = Null /\ draft' = Null
  /\ probe' = Idle /\ check' = Idle /\ settlement' = Idle /\ payment' = Idle
  /\ observation' = Idle /\ receipt' = IdleReceipt
  /\ calls' = ClearPollTimer
  /\ stored' = Null
  /\ UNCHANGED <<input, minted>>

(* runProbe: Read charge *)
RunProbe ==
  /\ probe.status # "running" /\ ~Busy
  /\ IF ~token
     THEN /\ probe' = Failed
          /\ UNCHANGED <<draft, key, stored, check, settlement, payment, observation, receipt, calls>>
     ELSE /\ probe' = Running /\ key' = Null /\ draft' = Null /\ stored' = Null
          /\ check' = Idle /\ settlement' = Idle /\ payment' = Idle
          /\ observation' = Idle /\ receipt' = IdleReceipt
          /\ calls' = ClearPollTimer \cup {Call("probe", [request |-> input])}
  /\ UNCHANGED <<token, input, minted>>

\* The request that is reported is another one after a redirect.
ProbeAnswers(c) ==
  /\ c.kind = "probe"
  /\ \/ \E g \in Charges : probe' = Success(g)
     \/ probe' = Failed
  /\ calls' = calls \ {c}
  /\ UNCHANGED <<token, input, draft, key, minted, check, settlement, payment, observation,
                 receipt, stored>>

HasCharge == probe.data # Null

\* preparePaymentDetails: from the terms that are shown. It keeps the payment step.
PreparePaymentDetails ==
  /\ HasCharge /\ draft' = probe.data.terms
  /\ UNCHANGED <<token, input, key, minted, steps, calls, stored>>

\* updateAuthorizationText: pasted, for whatever terms.
PasteAuthorization(t) ==
  /\ HasCharge /\ draft' = t /\ payment' = Idle
  /\ UNCHANGED <<token, input, key, minted, probe, check, settlement, observation, receipt,
                 calls, stored>>

-----------------------------------------------------------------------------
(* executeCheck: what was read and written is sent under the key k. *)
ExecuteCheck(k, waiting) ==
  IF token
  THEN /\ check' = Running
       /\ calls' = waiting \cup
            {Call("check", [ id |-> k, request |-> probe.data.request,
                             terms |-> probe.data.terms, draft |-> draft ])}
  ELSE check' = Failed /\ calls' = waiting

MintKey == minted < MaxKeys /\ minted' = minted + 1

\* runCheck: a transient retry uses the current key again.
RunCheck ==
  /\ HasCharge /\ check.status # "running" /\ check.data = Null /\ ~Busy
  /\ IF key = Null THEN MintKey /\ key' = minted' /\ stored' = Null
     ELSE UNCHANGED <<minted, key, stored>>
  /\ ExecuteCheck(key', calls)
  /\ UNCHANGED <<token, input, draft, probe, settlement, payment, observation, receipt>>

Recheck ==
  /\ HasCharge /\ check.status # "running" /\ check.data # Null /\ ~Busy
  /\ MintKey /\ key' = minted' /\ stored' = Null
  /\ settlement' = Idle /\ payment' = Idle /\ observation' = Idle /\ receipt' = IdleReceipt
  /\ ExecuteCheck(key', ClearPollTimer)
  /\ UNCHANGED <<token, input, draft, probe>>

(* The report API stores one check for a key, PAY only for an authorization *)
(* of its terms. A repeated key is answered with the stored check, which    *)
(* may have expired since, and other content under that key is refused.     *)
CreateCheck(k, answer) ==
  LET known == IF k.id = key THEN stored ELSE Null
  IN /\ \A f \in DOMAIN k : answer[f] = k[f]
     /\ answer.verdict = "pay" => answer.draft = answer.terms
     /\ answer.verdict # "pay" => answer.status = "closed"
     /\ IF known = Null
        THEN answer.verdict = "pay" => answer.status = "reserved"
        ELSE known = answer \/ known = [answer EXCEPT !.status = "reserved"]
     /\ stored' = IF k.id = key THEN answer ELSE stored

CheckAnswers(c) ==
  /\ c.kind = "check"
  /\ \/ \E answer \in Checks : CreateCheck(c.data, answer) /\ check' = Success(answer)
     \/ \E answer \in Checks : CreateCheck(c.data, answer) /\ check' = Failed
     \/ check' = Failed /\ UNCHANGED stored
  /\ calls' = calls \ {c}
  /\ UNCHANGED <<token, input, draft, key, minted, probe, settlement, payment, observation,
                 receipt>>

-----------------------------------------------------------------------------
(* An unverifiable transaction is asked for again like a pending one. Of a  *)
(* verdict the page uses whether it is a match.                             *)
Verdicts == {"match", "pending", "mismatch"}
Matched == settlement.data = TRUE
IsPay == check.data # Null /\ check.data.verdict = "pay"

\* verifySettlement: by hand, for a transaction of another wallet or the same one again.
VerifySettlement ==
  /\ IsPay
  /\ settlement.status # "running" /\ ~Busy
  /\ IF token
     THEN settlement' = Running /\ calls' = calls \cup {Call("verify", [id |-> check.data.id])}
     ELSE settlement' = Failed /\ UNCHANGED calls
  /\ UNCHANGED <<token, input, draft, key, minted, probe, check, payment, observation, receipt,
                 stored>>

VerifyAnswers(c) ==
  /\ c.kind = "verify"
  /\ \/ \E v \in Verdicts : settlement' = Success(v = "match")
     \/ settlement' = Failed
  /\ calls' = calls \ {c}
  /\ UNCHANGED <<token, input, draft, key, minted, probe, check, payment, observation, receipt,
                 stored>>

\* recordObservation, for the check of the closure that calls it.
Observe(id, waiting) ==
  IF token /\ id # Null
  THEN observation' = Running /\ calls' = waiting \cup {Call("observe", [id |-> id])}
  ELSE observation' = Failed /\ calls' = waiting

RecordObservation ==
  /\ Matched /\ observation.status \notin {"running", "success"} /\ ~Busy
  /\ Observe(IF check.data = Null THEN Null ELSE check.data.id, calls)
  /\ UNCHANGED <<token, input, draft, key, minted, probe, check, settlement, payment, receipt,
                 stored>>

\* pollReceipt: the timer of the next attempt, while there is a token.
Timer(id, attempt) ==
  IF token THEN {[kind |-> "timer", data |-> [id |-> id], attempt |-> attempt, current |-> TRUE]} ELSE {}

StartReceiptPolling(id, terminal, waiting) ==
  /\ receipt' = Receipt(id, terminal)
  /\ calls' = Superseded(waiting) \cup IF terminal THEN {} ELSE Timer(id, 1)

ObservationAnswers(c) ==
  /\ c.kind = "observe"
  /\ \/ /\ observation' = Success("recorded")
        /\ \E terminal \in BOOLEAN : StartReceiptPolling(c.data.id, terminal, calls \ {c})
     \/ observation' = Failed /\ calls' = calls \ {c} /\ UNCHANGED receipt
  /\ UNCHANGED <<token, input, draft, key, minted, probe, check, settlement, payment, stored>>

\* The timer fires: the receipt is asked for.
PollReceipt(c) ==
  /\ c.kind = "timer"
  /\ calls' = (calls \ {c}) \cup {[c EXCEPT !.kind = "poll"]}
  /\ UNCHANGED <<token, input, draft, key, minted, steps, stored>>

PollAnswers(c) ==
  /\ c.kind = "poll"
  /\ \/ \E terminal \in BOOLEAN :
          /\ receipt' = Receipt(c.data.id, terminal)
          /\ calls' = (calls \ {c}) \cup
               IF terminal \/ c.attempt >= PollAttempts THEN {}
               ELSE Timer(c.data.id, c.attempt + 1)
     \/ /\ receipt' = [receipt EXCEPT !.poll = "idle"] /\ calls' = calls \ {c}
  /\ UNCHANGED <<token, input, draft, key, minted, probe, check, settlement, payment, observation,
                 stored>>

RefreshReceipt ==
  /\ token /\ receipt.data # Null /\ ~Busy
  /\ calls' = calls \cup {Call("refresh", [id |-> receipt.data])}
  /\ UNCHANGED <<token, input, draft, key, minted, steps, stored>>

RefreshAnswers(c) ==
  /\ c.kind = "refresh"
  /\ \/ \E terminal \in BOOLEAN : StartReceiptPolling(c.data.id, terminal, calls \ {c})
     \/ receipt' = [receipt EXCEPT !.poll = "idle"] /\ calls' = calls \ {c}
  /\ UNCHANGED <<token, input, draft, key, minted, probe, check, settlement, payment, observation,
                 stored>>

-----------------------------------------------------------------------------
(* payWithWallet: the check, the charge and the request are those on the    *)
(* page when the button is pressed.                                         *)
PayWithWallet ==
  /\ IsPay /\ payment.status \notin {"running", "success"}
  /\ settlement.status # "running" /\ ~Busy
  /\ IF token /\ probe.data # Null
     THEN /\ payment' = Running /\ settlement' = Idle /\ observation' = Idle
          /\ receipt' = IdleReceipt
          /\ calls' = ClearPollTimer \cup
               {Call("wallet", [check |-> check.data, charge |-> probe.data, request |-> input,
                                signature |-> Null])}
     ELSE payment' = Failed /\ UNCHANGED <<settlement, observation, receipt, calls>>
  /\ UNCHANGED <<token, input, draft, key, minted, probe, check, stored>>

ApprovedAuthorization(x) == x.verdict = "pay" /\ x.status = "reserved" /\ x.draft # Null

(* Mutated form: any charge that still normalizes is taken.                 *)
AnyCharge(charge, x) == charge.terms \in Terms

CheckedChallenge(charge, x) == charge.terms = x.terms

CheckedRequest(request, x) == request = x.request

(* What the wallet hands back: who has signed, and which digest. It may hold *)
(* several accounts, and shows an authorization it encodes itself.          *)
WalletAnswers == [account : {"payer", "other"}, digest : {"approved", "other"}]

SignWalletAuthorization(answer) == answer.account = "payer" /\ answer.digest = "approved"

\* submitCheckedWalletPayment, up to the request that carries the signature.
SignCheckedPayment(c) ==
  /\ c.kind = "wallet"
  /\ ApprovedAuthorization(c.data.check)
  /\ CheckedChallenge(c.data.charge, c.data.check)
  /\ CheckedRequest(c.data.request, c.data.check)
  /\ \E answer \in WalletAnswers :
       /\ SignWalletAuthorization(answer)
       /\ calls' = (calls \ {c}) \cup {[c EXCEPT !.kind = "paid", !.data.signature = answer]}
  /\ UNCHANGED <<token, input, draft, key, minted, steps, stored>>

(* Something has changed, the authorization has expired or the wallet       *)
(* declines; the service does not answer, or without a transaction.         *)
PaymentFails(c) ==
  /\ c.kind \in {"wallet", "paid"}
  /\ payment' = IF c.current THEN Failed ELSE payment
  /\ calls' = calls \ {c}
  /\ UNCHANGED <<token, input, draft, key, minted, probe, check, settlement, observation,
                 receipt, stored>>

PaymentSubmitted(c) ==
  /\ c.kind = "paid"
  /\ IF c.current
     THEN /\ payment' = Success("sent") /\ settlement' = Running
          /\ calls' = (calls \ {c}) \cup {[Call("settle", [id |-> c.data.check.id]) EXCEPT !.attempt = 1]}
     ELSE calls' = calls \ {c} /\ UNCHANGED <<payment, settlement>>
  /\ UNCHANGED <<token, input, draft, key, minted, probe, check, observation, receipt, stored>>

(* One answer of the loop that verifies the payment. *)
SettlementPolled(c) ==
  /\ c.kind = "settle"
  /\ \/ \E v \in Verdicts :
          IF v = "pending" /\ c.attempt < SettlementAttempts
          THEN /\ calls' = (calls \ {c}) \cup {[c EXCEPT !.attempt = @ + 1]}
               /\ UNCHANGED <<settlement, observation>>
          ELSE /\ settlement' = Success(v = "match")
               /\ IF v = "match" THEN Observe(c.data.id, calls \ {c})
                  ELSE calls' = calls \ {c} /\ UNCHANGED observation
     \/ settlement' = Failed /\ calls' = calls \ {c} /\ UNCHANGED observation
  /\ UNCHANGED <<token, input, draft, key, minted, probe, check, payment, receipt, stored>>

-----------------------------------------------------------------------------
Buttons ==
  \/ SetToken
  \/ \E r \in Requests : SetProbeInput(r)
  \/ SignOut
  \/ RunProbe
  \/ PreparePaymentDetails
  \/ \E t \in Terms : PasteAuthorization(t)
  \/ RunCheck
  \/ Recheck
  \/ VerifySettlement
  \/ RecordObservation
  \/ RefreshReceipt
  \/ PayWithWallet

Answers ==
  \E c \in calls :
    \/ ProbeAnswers(c)
    \/ CheckAnswers(c)
    \/ VerifyAnswers(c)
    \/ ObservationAnswers(c)
    \/ PollReceipt(c)
    \/ PollAnswers(c)
    \/ RefreshAnswers(c)
    \/ SignCheckedPayment(c)
    \/ PaymentFails(c)
    \/ PaymentSubmitted(c)
    \/ SettlementPolled(c)

Next == Buttons \/ Answers

Spec == Init /\ [][Next]_vars

-----------------------------------------------------------------------------
Keys == 1 .. MaxKeys
Step(data) == [status : {"idle", "running", "success"}, data : data \cup {Null}]
Waiting(kinds, data, attempts) ==
  [kind : kinds, data : data, attempt : attempts, current : {TRUE}]

\* What the page has been given, and what each kind of closure holds of it.
Payments ==
  [kind : {"wallet", "paid"},
   data : [check : Checks, charge : Charges, request : Requests,
           signature : WalletAnswers \cup {Null}],
   attempt : {0}, current : BOOLEAN]

Closures ==
  Payments
    \cup Waiting({"probe"}, [request : Requests], {0})
    \cup Waiting({"check"}, [id : Keys, request : Requests, terms : Terms,
                             draft : Terms \cup {Null}], {0})
    \cup Waiting({"verify", "observe", "refresh"}, [id : Keys], {0})
    \cup Waiting({"timer", "poll"}, [id : Keys], 1 .. PollAttempts)
    \cup Waiting({"settle"}, [id : Keys], 1 .. SettlementAttempts)

(* The steps, the closures and the stored check keep their shape, and no    *)
(* loop counts further than its attempts.                                   *)
TypeOK ==
  /\ token \in BOOLEAN /\ input \in Requests /\ draft \in Terms \cup {Null}
  /\ key \in Keys \cup {Null} /\ minted \in 0 .. MaxKeys
  /\ probe \in Step(Charges) /\ check \in Step(Checks) /\ settlement \in Step(BOOLEAN)
  /\ payment \in Step({"sent"}) /\ observation \in Step({"recorded"})
  /\ receipt \in [data : Keys \cup {Null}, poll : {"idle", "polling", "terminal"}]
  /\ calls \subseteq Closures
  /\ stored \in Checks \cup {Null}

(* Whatever answers are late and whatever the user changes meanwhile: a     *)
(* request leaves with a signature only if the report API has approved that *)
(* authorization with PAY, for that request and for the terms it is sent    *)
(* with, and the signature is the payer's over it (walletPayment.ts:37).    *)
PaidAsChecked ==
  \A c \in calls : c.kind = "paid" =>
    LET x == c.data.check IN
      /\ x.verdict = "pay" /\ x.draft = x.terms /\ x.status = "reserved"
      /\ c.data.charge.terms = x.draft
      /\ c.data.request = x.request
      /\ c.data.signature = [account |-> "payer", digest |-> "approved"]

(* One loop at most polls the record of a receipt, and it polls the one     *)
(* that the page shows (useAuditFlow.ts:198).                               *)
OnePollLoop ==
  LET loops == {c \in calls : c.kind \in {"timer", "poll"}}
  IN /\ Cardinality(loops) <= 1
     /\ \A c \in loops : receipt.data = c.data.id /\ receipt.poll # "terminal"

(* The comments at useAuditFlow.ts:198 and :502 say that reset and recheck  *)
(* are what supersedes a run: as long as neither has cleared the payment    *)
(* step, the payment that shows as running is one whose answer will be      *)
(* shown.                                                                   *)
PaymentFollowed ==
  payment.status = "running" => \E c \in calls : c.kind \in {"wallet", "paid"} /\ c.current
=============================================================================
