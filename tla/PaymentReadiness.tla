-------------------------- MODULE PaymentReadiness --------------------------
(***************************************************************************)
(* Whether the report API sells at all: for every quote, and for GET       *)
(* /reports/payment-status, it checks its configuration, the fee token on  *)
(* the Casper node and the payment service (currentPaymentReadiness and    *)
(* createCachedPaymentAssetEvidenceLoader of app.ts, checkPaymentReadiness *)
(* of payment.ts).  A quote keeps what it accepts until it expires.        *)
(*                                                                         *)
(* The token is read once for all calls that need it meanwhile, and the    *)
(* answer is kept, for a short time when part of it could not be read.     *)
(* The configuration is read from the environment and does not change      *)
(* while the process runs, so the cache has one key.                       *)
(***************************************************************************)
EXTENDS Integers, FiniteSets

CONSTANTS
  Calls,          \* the requests that may be under way, or hold a quote
  Configurations, \* see Configured; the environments to start from
  AssetTtl,       \* PAYMENT_ASSET_CACHE_TTL_MS
  FailureTtl,     \* PAYMENT_ASSET_FAILURE_CACHE_TTL_MS
  QuoteTtl,
  LastTime        \* bound on the clock

ASSUME ReadinessAssumption ==
  /\ {AssetTtl, FailureTtl, QuoteTtl} \subseteq Nat \ {0} /\ LastTime \in Nat
  /\ FailureTtl <= AssetTtl

VARIABLES
  time,
  configuration,  \* [fields, url, authorization] of the environment
  feeToken,       \* what the node would answer about the fee token
  facilitator,    \* what the payment service would answer
  cached,         \* the cache: Nothing, "loading", or [evidence, expiresAt]
  calls           \* each request, and the quote it left

readinessVars == <<time, configuration, feeToken, facilitator, cached, calls>>

Nothing == [kind |-> "nothing"]
Loading == [kind |-> "loading"]

-----------------------------------------------------------------------------
(* All variables of the environment that a requirement is built from are    *)
(* there and well formed.                                                   *)
Configured == configuration.fields = "complete"

(* The URL of the service is absolute, with HTTPS outside localhost, and    *)
(* without credentials; if not, the request fails, after the token is read. *)
FacilitatorConfigured == configuration.url = "valid"
Authorized == configuration.authorization # "missing"

FeeTokens == {"sound", "absent", "no_entrypoint", "no_metadata", "other_metadata"}

(* The token as it was read at a time.  missing: a field the check needs    *)
(* could not be read; errors: some field could not.                         *)
Evidence ==
  [token : FeeTokens \cup {"unread"}, errors : BOOLEAN, missing : BOOLEAN, readAt : Nat]

(* The answers of the node now: all of them, with a flag unread that the    *)
(* check can do without, or without a field that it needs.  What a token    *)
(* does not have is missing; an absent package and an absent metadata field *)
(* are errors too.                                                          *)
ReadNow ==
  LET all == [ token |-> feeToken, readAt |-> time,
               errors |-> feeToken \in {"absent", "no_metadata"},
               missing |-> feeToken \in {"absent", "no_entrypoint", "no_metadata"} ]
  IN { all, [all EXCEPT !.errors = TRUE],
       [all EXCEPT !.errors = TRUE, !.missing = TRUE, !.token = "unread"] }

PaymentAssetFailure(e) ==
  CASE e = Nothing -> "asset_unavailable"
    [] e # Nothing /\ e.errors /\ e.missing ->
         IF e.token = "absent" THEN "asset_not_found" ELSE "asset_unavailable"
    [] OTHER ->
         CASE e.token = "absent" -> "asset_not_found"
           [] e.token = "no_entrypoint" -> "asset_entrypoint_missing"
           [] e.token = "no_metadata" -> "asset_metadata_unavailable"
           [] e.token = "other_metadata" -> "asset_metadata_mismatch"
           [] OTHER -> "none"

(* Mutated form: evidence with errors is kept as long as any other.         *)
OneLifetime(e) == time + AssetTtl
ExpiresAt(e) == IF e.errors THEN time + FailureTtl ELSE time + AssetTtl

-----------------------------------------------------------------------------
IdleCall == [at |-> "idle"]

Outcome(call, reason, e) ==
  [ at |-> "done", kind |-> call.kind, begunAt |-> call.begunAt,
    reason |-> reason, evidence |-> e, expiresAt |-> call.begunAt + QuoteTtl ]

(* After the token: without a failure and with an authorization for the     *)
(* service, the service is asked.                                           *)
Assessed(call, e) ==
  LET failure == PaymentAssetFailure(e)
  IN IF ~FacilitatorConfigured THEN IdleCall
     ELSE IF ~Configured THEN Outcome(call, "configuration", e)
     ELSE IF failure # "none" THEN Outcome(call, failure, e)
     ELSE IF ~Authorized THEN Outcome(call, "facilitator_auth_required", e)
     ELSE [at |-> "service", kind |-> call.kind, begunAt |-> call.begunAt, evidence |-> e]

Cached == cached \notin {Nothing, Loading} /\ cached.expiresAt > time

(* A request for a quote or for the status.  The dataset of a quote is      *)
(* loaded before; the lifetime of the quote begins here, before the checks. *)
(* Without evidence that is good, the request waits for the load under way, *)
(* or begins one.                                                           *)
BeginCheck(k, kind) ==
  LET call == [at |-> "token", kind |-> kind, begunAt |-> time]
  IN /\ calls[k].at \notin {"token", "service"}
     /\ calls' = [calls EXCEPT ![k] = IF ~Configured THEN Assessed(call, Nothing)
                                      ELSE IF Cached THEN Assessed(call, cached.evidence)
                                      ELSE call]
     /\ cached' = IF Configured /\ ~Cached THEN Loading ELSE cached
     /\ UNCHANGED <<time, configuration, feeToken, facilitator>>

ForTheToken == {k \in Calls : calls[k].at = "token"}

(* The node has answered: all who wait get the same evidence. *)
AssetLoaded(e) ==
  /\ cached = Loading
  /\ cached' = [kind |-> "evidence", evidence |-> e, expiresAt |-> ExpiresAt(e)]
  /\ calls' = [k \in Calls |-> IF k \in ForTheToken THEN Assessed(calls[k], e) ELSE calls[k]]
  /\ UNCHANGED <<time, configuration, feeToken, facilitator>>

(* The load itself fails: nothing is kept. *)
AssetLoadFails ==
  /\ cached = Loading
  /\ cached' = Nothing
  /\ calls' = [k \in Calls |-> IF k \in ForTheToken THEN Assessed(calls[k], Nothing) ELSE calls[k]]
  /\ UNCHANGED <<time, configuration, feeToken, facilitator>>

FindSupportedKind == facilitator = "supported"

(* GET /supported of the payment service, which may not answer. *)
FacilitatorAnswers(k, answered) ==
  /\ calls[k].at = "service"
  /\ calls' = [calls EXCEPT ![k] =
       Outcome(calls[k], IF ~answered THEN "facilitator_unavailable"
                  ELSE IF FindSupportedKind THEN "none"
                  ELSE "facilitator_unsupported", calls[k].evidence)]
  /\ UNCHANGED <<time, configuration, feeToken, facilitator, cached>>

(* The token is replaced or upgraded, the service drops a network. *)
WorldChanges ==
  /\ \/ feeToken' \in FeeTokens /\ UNCHANGED facilitator
     \/ facilitator' \in {"supported", "unsupported"} /\ UNCHANGED feeToken
  /\ UNCHANGED <<time, configuration, cached, calls>>

(* An answer of the status is of the time it was given at, and a quote is   *)
(* gone when it has expired.                                                *)
Lives(call) == call.at = "done" => call.kind = "quote" /\ call.expiresAt > time + 1

ReadinessTick ==
  /\ time < LastTime
  /\ time' = time + 1
  /\ calls' = [k \in Calls |-> IF Lives(calls[k]) THEN calls[k] ELSE IdleCall]
  /\ UNCHANGED <<configuration, feeToken, facilitator, cached>>

ReadinessInit ==
  /\ time = 0 /\ configuration \in Configurations
  /\ feeToken = "sound" /\ facilitator = "supported"
  /\ cached = Nothing /\ calls = [k \in Calls |-> IdleCall]

ReadinessNext ==
  \/ \E k \in Calls, kind \in {"quote", "status"} : BeginCheck(k, kind)
  \/ \E e \in ReadNow : AssetLoaded(e)
  \/ AssetLoadFails
  \/ \E k \in Calls, answered \in BOOLEAN : FacilitatorAnswers(k, answered)
  \/ WorldChanges
  \/ ReadinessTick

-----------------------------------------------------------------------------
(* A quote accepts a payment only if every check passed; one whose checks   *)
(* took longer than its lifetime is never good.                             *)
Accepts(call) ==
  call.at = "done" /\ call.kind = "quote" /\ call.reason = "none" /\ call.expiresAt > time

(* A quote that can be bought names a fee token that was sound when it was  *)
(* read, less than the two lifetimes ago; and no answer, of a quote or of   *)
(* the status, rests on evidence that had errors and was as old as the      *)
(* short lifetime when the request came: the cause may be gone              *)
(* (app.ts:1145, :691, payment.ts:583).                                     *)
ReadinessFresh ==
  \A k \in Calls :
    /\ Accepts(calls[k]) =>
         /\ calls[k].evidence.token = "sound" /\ ~calls[k].evidence.missing
         /\ time - calls[k].evidence.readAt < AssetTtl + QuoteTtl
    /\ calls[k].at = "done" /\ calls[k].evidence # Nothing =>
         LET e == calls[k].evidence
         IN calls[k].begunAt - e.readAt < IF e.errors THEN FailureTtl ELSE AssetTtl
=============================================================================
