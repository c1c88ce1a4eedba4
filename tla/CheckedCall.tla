---------------------------- MODULE CheckedCall ----------------------------
(***************************************************************************)
(* checkedX402Call of the client library, around the rules it relies on:   *)
(* it reads a charge, asks the report API about the authorization it       *)
(* prepared, signs after PAY only, pays, has the settlement verified until *)
(* the node has it, and records the response (checkedCall.ts, api.ts,      *)
(* signer.ts of the client package).                                       *)
(*                                                                         *)
(* The library and the API normalize the charge each for itself.  Any      *)
(* remote call may fail or its answer be lost after it took effect, and    *)
(* the check in an answer may be the one of another purchase.  An error    *)
(* the library throws ends the call; nothing in it retries.                *)
(***************************************************************************)
EXTENDS PaymentRules

CONSTANT SettlementAttempts

ASSUME CallAssumption == SettlementAttempts \in Nat \ {0}

VARIABLE call   \* [at, signed, attempt] of the call

callVars == <<vars, call>>

(* The library prepares an authorization as it is; other callers of the API *)
(* bring one they may have changed.                                         *)
Library(intent) == intent.prepared /\ intent.altered = {} /\ intent.tampered = {}

CallAt(at) == call = [at |-> at, signed |-> Null, attempt |-> 1]

CallInit ==
  /\ Init
  /\ \E at \in {"none"} \cup IF Library(case.intent) THEN {"probe"} ELSE {} : CallAt(at)

-----------------------------------------------------------------------------
OwnTerms == NormalizePaymentRequired(case.charge, case.request)
OwnIntent == BuildAuthorizationIntent(OwnTerms.offer, case.intent)

Proceed(from, to) == call.at = from /\ call' = [call EXCEPT !.at = to]

(* The service answers 402 with a charge that the library can read. *)
ReadChallenge ==
  /\ OwnTerms # Null /\ Proceed("probe", "check") /\ UNCHANGED vars

(* The checks an answer may carry: that of this purchase, or one that       *)
(* another purchase got PAY for and that shares parts with this one.        *)
Answered ==
  [ authorization |-> OwnIntent, request |-> case.request, terms |-> terms,
    verdict |-> decision.verdict, digest |-> decision.digest ]
ForeignIntents ==
  {Null, [OwnIntent EXCEPT !.nonce = "another"], Replaced(OwnIntent, {"nonce", "digest"})}
ForeignAnswers ==
  LET paid == [Answered EXCEPT !.verdict = "pay", !.digest = OwnIntent.digest]
  IN {[paid EXCEPT !.authorization = a] : a \in ForeignIntents}
     \cup {[paid EXCEPT !.request = Null], [paid EXCEPT !.terms = Null],
           [paid EXCEPT !.digest = Null]}

(* Mutated form: the digest of the authorization is all that is compared.   *)
BoundByDigest(answer) ==
  answer.authorization # Null /\ answer.authorization.digest = OwnIntent.digest

(* The check is about the captured request, the terms and the authorization *)
(* of this call, digest and fields, and a PAY names that digest.            *)
VerifyCheckBinding(answer) ==
  /\ answer.authorization = OwnIntent
  /\ answer.request = case.request /\ answer.terms = OwnTerms
  /\ answer.verdict = "pay" => answer.digest = OwnIntent.digest

SignAuthorizationIntent(a) ==
  IF a.digest = Digest(a) /\ a.from = Account(a.payer) THEN a ELSE Null

CheckAnswers ==
  /\ decision # Null
  /\ \E answer \in {Answered} \cup ForeignAnswers :
       /\ VerifyCheckBinding(answer) /\ answer.verdict = "pay"
       /\ SignAuthorizationIntent(OwnIntent) # Null
       /\ call.at = "check"
       /\ call' = [call EXCEPT !.at = "pay", !.signed = SignAuthorizationIntent(OwnIntent)]
  /\ UNCHANGED vars

(* The service's response to a payment: its body, and the transaction its    *)
(* headers and its body name, if any.                                       *)
Responses ==
  [body : {"read", "too long", "broken"}, inHeaders : {Null, "reported"},
   inBody : {Null, "reported"}]

ReadBoundedBody(response) == response.body = "read"

ExtractTransactionHash(response) ==
  IF response.inHeaders # Null THEN response.inHeaders ELSE response.inBody

PaidResponse ==
  /\ \E response \in Responses :
       LET settling == /\ ReadBoundedBody(response)
                       /\ ExtractTransactionHash(response) # Null
       IN Proceed("pay", IF settling THEN "poll" ELSE "failed")
  /\ UNCHANGED vars

(* One answer of the settlement loop.  Until the node has the transaction,  *)
(* or while it cannot be asked, the verdict is pending or unverifiable.     *)
PollSettlement ==
  /\ call.at = "poll"
  /\ \E verdict \in IF proof = Null THEN {"pending", "unverifiable"} ELSE {proof.verdict} :
       \/ verdict = "match" /\ call' = [call EXCEPT !.at = "observe"]
       \/ /\ verdict \in {"pending", "unverifiable"} /\ call.attempt < SettlementAttempts
          /\ call' = [call EXCEPT !.attempt = @ + 1]
       \/ /\ verdict = "mismatch" \/ (verdict # "match" /\ call.attempt = SettlementAttempts)
          /\ call' = [call EXCEPT !.at = "failed"]
  /\ UNCHANGED vars

(* A receipt that has an error is thrown away, and the request to observe   *)
(* the response with it.                                                    *)
Observed ==
  receipt # Null /\ receipt = {} /\ Proceed("observe", "done") /\ UNCHANGED vars

(* No 402 or no charge in it, an answer that is refused or says REVIEW or   *)
(* BLOCK, an error, a timeout.                                              *)
CallFails ==
  /\ call.at \in {"probe", "check", "pay", "poll", "observe"}
  /\ call' = [call EXCEPT !.at = "failed"] /\ UNCHANGED vars

(* The report API's part, while the call waits for it. What it does for a   *)
(* call that has failed meanwhile, it also does for a caller without one.   *)
Serve(stage, action) == call.at \in {"none", stage} /\ action /\ UNCHANGED call

CallNext ==
  \/ ReadChallenge
  \/ CheckAnswers
  \/ PaidResponse
  \/ PollSettlement
  \/ Observed
  \/ CallFails
  \/ Serve("check", NormalizeCharge)
  \/ Serve("check", LoadEvidence)
  \/ Serve("check", EvaluatePayment)
  \/ Serve("poll", CompareSettlement)
  \/ Serve("observe", BuildPurchaseReceipt)

CallSpec == CallInit /\ [][CallNext]_callVars

-----------------------------------------------------------------------------
(* Nothing is signed but what the operator's rules approved: the API has    *)
(* decided PAY about this very purchase, with the terms and the digest the  *)
(* library made itself, whatever check its answer carried; and a call that  *)
(* returns has paid it and its receipt has no error (checkedCall.ts:142,    *)
(* :199, :178).                                                             *)
SignsOwnApproved ==
  /\ call.signed # Null =>
       /\ decision # Null /\ decision.verdict = "pay"
       /\ terms = OwnTerms /\ decision.digest = call.signed.digest
       /\ call.signed = OwnIntent
  /\ call.at = "done" =>
       /\ proof.verdict = "match" /\ receipt = {}
       /\ \A f \in Compared : proof.decoded.transfer[f] = call.signed[f]
=============================================================================
