--------------------------- MODULE PaymentRules ---------------------------
(***************************************************************************)
(* One purchase through the payment rules: the charge is normalized, the   *)
(* payment contract is read from a node, the signed policy, the provider   *)
(* decisions and the prepared authorization are judged, the execution is   *)
(* compared with what was approved, and the receipt is built and verified. *)
(* (payment/normalize.ts, authorization.ts, policy.ts, settlement.ts,      *)
(* receipt.ts of the core package; casperRpc.ts and service.ts of the      *)
(* report API.)                                                            *)
(*                                                                         *)
(* The functions are pure, so a behaviour is fixed by the case it starts   *)
(* from: what the parties sent, what the node shows and when the steps     *)
(* happen.  Hashes and signatures are not computed: a digest is the record *)
(* it is a digest of, a signature names the key and the digest it signs.   *)
(* Amounts are small integers; names are values that are equal or not; the *)
(* path of a URL is the sequence of its pieces.                            *)
(***************************************************************************)
EXTENDS Integers, Sequences, SequencesExt

CONSTANTS
  Null,           \* the code's null
  Cases,          \* the purchases that are tried
  Deviations(_),  \* the purchases tried beside one of them
  Skew            \* AUTHORIZATION_CLOCK_SKEW_SECONDS

(* What the queries for a package and for its active contract come to: an   *)
(* answer that is late, too long, malformed or an error leaves the value    *)
(* unreadable, unless the error says that there is no value.                *)
PackageAnswers == {"found", "disabled", "foreign", "absent", "unreadable"}
ContractAnswers == {"bound", "unbound", "foreign", "unreadable"}

(* The public entry points the rules know, as far as a contract's list of   *)
(* them names them, and the token's legacy flag for minting: most tokens    *)
(* have none, and its query may fail like any other.                        *)
KnownEntryPoints == {"transfer_with_authorization", "mint"}
FlagAnswers == {"absent", "unreadable", "on", "off"}

(* What the node says of the transaction. *)
ExecutionAnswers == {"finalized", "pending", "unsupported", "error"}

VARIABLES
  case,      \* the purchase: never changes
  terms,     \* what normalizePaymentRequired made of the charge, or Null
  evidence,  \* what loadPaymentAssetEvidence read, or Null
  decision,  \* evaluatePayment's result, or Null
  proof,     \* compareSettlement's result, or Null
  receipt    \* the errors buildPurchaseReceipt found in its receipt, or Null

vars == <<case, terms, evidence, decision, proof, receipt>>

Begin(c) ==
  /\ case = c /\ terms = Null /\ evidence = Null /\ decision = Null
  /\ proof = Null /\ receipt = Null

Beside(c) == {c} \cup Deviations(c)

Init == \E c \in Cases : \E near \in Beside(c) : Begin(near)

-----------------------------------------------------------------------------
(* normalize.ts *)
Origin(url) == <<url.scheme, url.host>>

Compatible(offer) == offer.scheme = "exact" /\ offer.network = "casper-test"

(* The acceptances of a charge, the one the case is about last. *)
Accepts(charge) == Append(charge.others, charge.offer)

WellFormed(offer) ==
  /\ offer.amount > 0 /\ offer.asset # Null /\ offer.payTo # Null
  /\ offer.timeout \in 1 .. 900
  /\ offer.name # Null /\ offer.version # Null

(* The terms are those of the only compatible acceptance. *)
NormalizePaymentRequired(charge, request) ==
  LET offers == Accepts(charge)
      found == {i \in DOMAIN offers : Compatible(offers[i])}
  IN IF \/ charge.version # 2 \/ charge.resource = Null
        \/ ~ \E i \in found : found = {i} /\ WellFormed(offers[i])
     THEN Null
     ELSE [ offer |-> offers[CHOOSE i \in found : TRUE],
            sameHost |-> request.host = charge.resource.host,
            sameScheme |-> request.scheme = charge.resource.scheme,
            samePath |-> request.path = charge.resource.path ]

NormalizeCharge ==
  /\ terms = Null /\ evidence = Null
  /\ NormalizePaymentRequired(case.charge, case.request) # Null
  /\ terms' = NormalizePaymentRequired(case.charge, case.request)
  /\ UNCHANGED <<case, evidence, decision, proof, receipt>>

-----------------------------------------------------------------------------
(* casperRpc.ts: the node is asked for the package, its active contract and *)
(* the token's metadata, one query after the other; what a failed query     *)
(* leaves unknown is null and named in `missing`.                           *)
Unread ==
  [ packageExists |-> Null, activeContract |-> Null, entrypoint |-> Null,
    name |-> Null, symbol |-> Null, decimals |-> Null, mintBurn |-> Null,
    publicMint |-> Null,
    missing |-> {"package", "activeContract", "entrypoint", "name", "symbol",
                 "decimals", "supplyControl"} ]

AfterPackage == Unread.missing \ {"package"}
AfterVersion == AfterPackage \ {"activeContract"}

(* Mutated form: a name that cannot be read is not reported as missing. *)
MissingWithoutNames(token) ==
  {f \in {"decimals"} : token[f] = Null}

MissingMetadata(token) ==
  {f \in {"name", "symbol", "decimals"} : token[f] = Null}

(* A list of entry points that is no list has no entry point for payments,  *)
(* and says nothing about minting.                                          *)
HasAuthorization(token) ==
  token.entryPoints # Null /\ "transfer_with_authorization" \in token.entryPoints

PublicMint(token) ==
  IF token.entryPoints = Null THEN Null ELSE "mint" \in token.entryPoints

(* A query for the flag that fails is noted, but nothing is missing by it.  *)
MintBurn(token) == IF token.flag \in {"on", "off"} THEN token.flag = "on" ELSE Null

ReadContract(token) ==
  LET supply == IF MintBurn(token) = Null /\ PublicMint(token) = Null
                THEN {"supplyControl"} ELSE {}
      method == IF HasAuthorization(token) THEN {} ELSE {"entrypoint"}
  IN [ packageExists |-> TRUE, activeContract |-> "active",
       entrypoint |-> HasAuthorization(token), name |-> token.name,
       symbol |-> token.symbol, decimals |-> token.decimals,
       mintBurn |-> MintBurn(token), publicMint |-> PublicMint(token),
       missing |-> method \cup MissingMetadata(token) \cup supply ]

LoadPaymentAssetEvidence(token) ==
  CASE token.package = "unreadable" -> Unread
    [] token.package \in {"absent", "foreign"} ->
         [Unread EXCEPT !.packageExists = FALSE, !.entrypoint = FALSE]
    [] token.package = "disabled" ->
         [Unread EXCEPT !.packageExists = TRUE, !.entrypoint = FALSE,
                        !.missing = AfterPackage]
    [] token.package = "found" /\ token.contract = "unreadable" ->
         [Unread EXCEPT !.packageExists = TRUE, !.activeContract = "active",
                        !.missing = AfterVersion]
    [] token.package = "found" /\ token.contract \in {"foreign", "unbound"} ->
         [Unread EXCEPT !.packageExists = TRUE, !.activeContract = "active",
                        !.entrypoint = FALSE, !.missing = AfterVersion]
    [] OTHER -> ReadContract(token)

LoadEvidence ==
  /\ terms # Null /\ evidence = Null
  /\ evidence' = LoadPaymentAssetEvidence(case.token)
  /\ UNCHANGED <<case, terms, decision, proof, receipt>>

-----------------------------------------------------------------------------
(* authorization.ts: the buyer's client prepares an authorization. *)
AtMost(x, y) == IF x < y THEN x ELSE y

(* Mutated form: the window starts before the allowance is taken off. *)
WindowFromNow(t, timeout) == [after |-> t, before |-> t + timeout]

(* Starts a little before the client's clock, and never lasts longer than   *)
(* the charge's timeout.                                                    *)
BuildAuthorizationWindow(t, timeout) ==
  LET skew == AtMost(Skew, AtMost(timeout - 1, t))
  IN [after |-> t - skew, before |-> t - skew + timeout]

Digest(a) == [a EXCEPT !.digest = Null, !.payer = Null]

BuildAuthorizationIntent(offer, c) ==
  LET w == BuildAuthorizationWindow(c.preparedAt, offer.timeout)
      intent == [ payer |-> "payer", from |-> "payer", to |-> offer.payTo,
                  amount |-> offer.amount, after |-> w.after,
                  before |-> w.before, nonce |-> "nonce",
                  network |-> offer.network, asset |-> offer.asset,
                  name |-> offer.name, version |-> offer.version,
                  digest |-> Null ]
  IN [intent EXCEPT !.digest = Digest(intent)]

(* What the request carries: the prepared authorization, one whose fields   *)
(* were changed before (`altered`) or after (`tampered`) the digest was     *)
(* taken, or none.                                                          *)
Replaced(a, fields) ==
  [f \in DOMAIN a |-> IF f \in fields
                      THEN (IF f \in {"amount", "after", "before"} THEN a[f] + 1 ELSE Null)
                      ELSE a[f]]

Authorization(offer, c) ==
  LET built == BuildAuthorizationIntent(offer, c)
      altered == Replaced(built, c.altered)
      own == [altered EXCEPT !.digest = Digest(altered)]
  IN IF c.prepared THEN Replaced(own, c.tampered) ELSE Null

(* The account of a public key. *)
Account(key) == key

-----------------------------------------------------------------------------
(* policy.ts *)
Reasons(condition, code, result) ==
  IF condition THEN {[code |-> code, result |-> result]} ELSE {}

(* A tolerated scheme mismatch is an advisory, outside the reasons. *)
EvaluateResource(t, policy, provider) ==
  LET tolerated == policy # Null /\ provider # Null
                     /\ policy.tolerateScheme /\ provider.kind = "pin"
  IN Reasons(~ t.sameHost, "resource_origin_mismatch", "block")
     \cup Reasons(~ t.sameScheme /\ ~ tolerated, "resource_scheme_mismatch", "review")
     \cup Reasons(~ t.samePath, "provider_tuple_changed", "review")

EvaluateEvidence(o, e, age, policy) ==
  Reasons(e.packageExists = FALSE, "asset_package_not_found", "block")
  \cup Reasons(e.entrypoint = FALSE, "authorization_entrypoint_missing", "block")
  \cup Reasons(o.decimals # Null /\ e.decimals # Null /\ o.decimals # e.decimals,
               "asset_decimals_mismatch", "block")
  \cup Reasons(e.name # Null /\ o.name # e.name, "authorization_field_mismatch", "block")
  \cup Reasons(e.missing # {}, "evidence_unavailable", "review")
  \cup Reasons(policy # Null /\ (age < 0 \/ age > policy.maxAge),
               "evidence_unavailable", "review")

Covers(d, request, o) ==
  /\ d.origin = Origin(request) /\ d.payee = o.payTo /\ d.asset = o.asset
  /\ d.network = o.network
  /\ d.prefix = Null \/ IsPrefix(d.prefix, request.path)

(* Mutated form: a pin is preferred to a later denial. *)
SelectAnyPin(decisions, request, o) ==
  LET any == SelectInSeq(decisions, LAMBDA d : Covers(d, request, o))
      pin == SelectInSeq(decisions, LAMBDA d : Covers(d, request, o) /\ d.kind = "pin")
  IN IF pin # 0 THEN decisions[pin] ELSE IF any # 0 THEN decisions[any] ELSE Null

(* The newest decision about exactly this charge; decisions are listed      *)
(* newest first (service.ts, sqliteRepository.ts).                          *)
SelectProviderDecision(decisions, request, o) ==
  LET first == SelectInSeq(decisions, LAMBDA d : Covers(d, request, o))
  IN IF first = 0 THEN Null ELSE decisions[first]

EvaluateProvider(provider, o, now) ==
  IF provider = Null THEN Reasons(TRUE, "provider_unapproved", "review")
  ELSE IF provider.expiresAt <= now THEN Reasons(TRUE, "provider_unapproved", "review")
  ELSE IF provider.kind = "deny" THEN Reasons(TRUE, "operator_denied", "block")
  ELSE Reasons(o.amount > provider.ceiling, "policy_per_call_exceeded", "block")

EvaluatePolicy(policy, request, o, a, ledger, now) ==
  IF policy = Null THEN Reasons(TRUE, "policy_cap_missing", "review")
  ELSE
    Reasons(policy.effectiveAt > now, "policy_cap_missing", "review")
    \cup Reasons(o.network \notin policy.networks, "unsupported_network", "block")
    \cup Reasons(a # Null /\ a.payer \notin policy.payers, "operator_denied", "block")
    \cup Reasons(\/ Origin(request) \in policy.deniedOrigins
                 \/ o.payTo \in policy.deniedPayees
                 \/ o.asset \in policy.deniedAssets, "operator_denied", "block")
    \cup Reasons(policy.cap = Null, "policy_cap_missing", "review")
    \cup Reasons(policy.cap # Null /\ ledger.spent + ledger.reserved + o.amount > policy.cap,
                 "policy_daily_cap_exceeded", "block")
    \cup Reasons(ledger.active >= policy.maximum, "policy_daily_cap_exceeded", "block")

(* The fields in which the charge and the authorization differ. *)
Mismatches(a, o, policy, now) ==
  \/ a.from # Account(a.payer) \/ a.to # o.payTo \/ a.amount # o.amount
  \/ a.network # o.network \/ a.asset # o.asset
  \/ a.name # o.name \/ a.version # o.version
  \/ a.digest # Digest(a)
  \/ policy # Null /\ a.before - a.after > policy.window
  \/ a.before - now > o.timeout

EvaluateAuthorization(a, o, policy, ledger, now) ==
  IF a = Null THEN Reasons(TRUE, "authorization_required", "review")
  ELSE
    Reasons(Mismatches(a, o, policy, now), "authorization_field_mismatch", "block")
    \cup Reasons(a.after > now, "authorization_not_yet_valid", "block")
    \cup Reasons(a.before <= now, "authorization_expired", "block")
    \cup Reasons(ledger.replayed, "authorization_replay", "block")

(* Holder concentration and contract age are never loaded, so only the      *)
(* token's minting is judged.                                               *)
EvaluateInvestmentAdvisories(e, policy) ==
  Reasons(policy # Null /\ policy.reviewAdvisories /\ e.mintBurn = TRUE,
          "cep18_mint_burn_enabled", "review")
  \cup Reasons(policy # Null /\ policy.reviewAdvisories /\ e.mintBurn # TRUE
                 /\ e.publicMint = TRUE, "public_mint_entrypoint", "review")

Verdict(reasons) ==
  IF \E r \in reasons : r.result = "block" THEN "block"
  ELSE IF \E r \in reasons : r.result = "review" THEN "review" ELSE "pay"

Approved == Authorization(terms.offer, case.intent)

PaymentDecision ==
  LET o == terms.offer
      now == case.clock.evaluated
      provider == SelectProviderDecision(case.decisions, case.request, o)
      reasons == EvaluateResource(terms, case.policy, provider)
                 \cup EvaluateEvidence(o, evidence, case.clock.evidenceAge, case.policy)
                 \cup EvaluateProvider(provider, o, now)
                 \cup EvaluatePolicy(case.policy, case.request, o, Approved, case.ledger, now)
                 \cup EvaluateAuthorization(Approved, o, case.policy, case.ledger, now)
                 \cup EvaluateInvestmentAdvisories(evidence, case.policy)
      verdict == Verdict(reasons)
  IN [ verdict |-> verdict, reasons |-> reasons, provider |-> provider,
       basis |-> IF verdict = "pay" THEN "operator_pinned" ELSE Null,
       reserved |-> IF verdict = "pay" THEN o.amount ELSE Null,
       digest |-> IF Approved = Null THEN Null ELSE Digest(Approved),
       at |-> now ]

EvaluatePayment ==
  /\ evidence # Null /\ decision = Null
  /\ decision' = PaymentDecision
  /\ UNCHANGED <<case, terms, evidence, proof, receipt>>

-----------------------------------------------------------------------------
(* settlement.ts *)
Compared == {"from", "to", "amount", "after", "before", "nonce", "asset"}

(* The transaction the node shows: the approved transfer, or one that       *)
(* differs in the fields of `changed`.                                      *)
Decoded(a, x) ==
  [ transfer |-> [f \in Compared \cup {"payer"} |-> Replaced(a, x.changed)[f]],
    hash |-> x.hash, chain |-> x.chain, entryPoint |-> x.entryPoint,
    error |-> x.error ]

(* The signature is the payer's over the digest of the approved intent. *)
VerifyAuthorizationSignature(a, signature) ==
  /\ Account(a.payer) = a.from /\ a.digest = Digest(a)
  /\ signature = [key |-> a.payer, digest |-> Digest(a)]

Signature(a, x) ==
  [key |-> IF x.signer = "payer" THEN a.payer ELSE x.signer, digest |-> Digest(a)]

Differs(a, d, x) ==
  \/ d.error \/ d.hash # "reported" \/ d.chain # "casper-test"
  \/ d.entryPoint # "transfer_with_authorization"
  \/ \E f \in Compared \cup {"payer"} : d.transfer[f] # a[f]
  \/ Account(d.transfer.payer) # d.transfer.from
  \/ ~ VerifyAuthorizationSignature(a, Signature(a, x))

(* The node may leave out the block of a finalized transaction.             *)
SettlementProof ==
  LET x == case.execution
      d == Decoded(Approved, x)
  IN [ verdict |-> CASE x.answer \in {"error", "unsupported"} -> "unverifiable"
                     [] x.answer = "pending" -> "pending"
                     [] x.answer = "finalized" /\ Differs(Approved, d, x) -> "mismatch"
                     [] OTHER -> "match",
       decoded |-> d, at |-> case.clock.settled,
       block |-> x.answer = "finalized" /\ x.block ]

CompareSettlement ==
  /\ decision # Null /\ decision.verdict = "pay" /\ proof = Null
  /\ proof' = SettlementProof
  /\ UNCHANGED <<case, terms, evidence, decision, receipt>>

-----------------------------------------------------------------------------
(* receipt.ts: the errors verifyPurchaseReceipt finds. *)
Error(condition, field) == IF condition THEN {field} ELSE {}

(* The other artifacts are their own hashes here. *)
VerifyArtifactHashes(a) == Error(a.digest # Digest(a), "authorization.digest")

(* The operator's message binds one kind of action to one artifact. *)
SignedAction(kind, artifact) ==
  [ kind |-> kind, operator |-> "operator",
    artifact |-> [f \in DOMAIN artifact \ {"signed"} |-> artifact[f]] ]

VerifySignedControls ==
  Error(case.policy.signed # SignedAction("policy_revision", case.policy),
        "policy.signatureMessage")
  \cup Error(decision.provider.signed # SignedAction("provider_decision", decision.provider),
             "providerDecision.signatureMessage")

VerifyBindings(a) ==
  LET o == terms.offer
      p == decision.provider
      policy == case.policy
      url == case.charge.resource
  IN Error(\/ terms.sameHost # (case.request.host = url.host)
           \/ terms.sameScheme # (case.request.scheme = url.scheme)
           \/ terms.samePath # (case.request.path = url.path), "terms.resourceComparison")
     \cup Error(decision.verdict # "pay" \/ decision.basis # "operator_pinned", "decision")
     \cup Error(decision.digest # a.digest, "decision.authorizationDigest")
     \cup Error(decision.reserved # o.amount, "decision.reservation")
     \cup Error(decision.reasons # {}, "decision.reasons")
     \cup Error(o.network \notin policy.networks \/ a.payer \notin policy.payers, "policy")
     \cup Error(p.kind # "pin" \/ ~ Covers(p, case.request, o) \/ p.ceiling < o.amount,
                "providerDecision")
     \cup Error(policy.cap = Null \/ policy.cap < o.amount, "policy.assetDailyCaps")
     \cup Error(\/ a.from # Account(a.payer) \/ a.to # o.payTo \/ a.amount # o.amount
                \/ a.network # o.network \/ a.asset # o.asset
                \/ a.name # o.name \/ a.version # o.version, "authorization")
     \cup Error(\/ evidence.packageExists # TRUE \/ evidence.entrypoint # TRUE
                \/ evidence.name # o.name
                \/ o.decimals # Null /\ evidence.decimals # o.decimals, "evidence")
     \cup Error(policy.effectiveAt > decision.at, "policy.effectiveAt")
     \cup Error(p.expiresAt <= decision.at, "providerDecision.expiresAt")
     \cup Error(\/ a.after > decision.at \/ a.before <= decision.at
                \/ a.before - a.after > policy.window
                \/ a.before - decision.at > o.timeout, "authorization.validBefore")

VerifySettlement(a) ==
  LET d == proof.decoded
  IN Error(proof.verdict # "match", "settlement.verdict")
     \cup Error(~ proof.block, "settlement.blockHash")
     \cup Error(d.hash # "reported" \/ d.chain # "casper-test", "settlement.decoded")
     \cup Error(d.entryPoint # "transfer_with_authorization", "settlement.decoded.entryPoint")
     \cup Error(\E f \in Compared \cup {"payer"} : d.transfer[f] # a[f], "settlement.decoded")
     \cup Error(d.error, "settlement.decoded.executionError")
     \cup Error(~ VerifyAuthorizationSignature(a, Signature(a, case.execution)),
                "settlement.decoded.signature")

VerifyResponseAndAnchor(response, createdAt) ==
  Error(response.observedAt > createdAt, "response.observedAt")
  \cup Error(proof.at > createdAt, "settlement.observedAt")

(* parseResponseObservation accepts the observation (service.ts). *)
Observable(response, now) == response.observedAt <= now

VerifyPurchaseReceipt ==
  VerifyArtifactHashes(Approved) \cup VerifySignedControls \cup VerifyBindings(Approved)
  \cup VerifySettlement(Approved)
  \cup VerifyResponseAndAnchor(case.response, case.clock.recorded)

BuildPurchaseReceipt ==
  /\ proof # Null /\ proof.verdict = "match" /\ receipt = Null
  /\ Observable(case.response, case.clock.recorded)
  /\ receipt' = VerifyPurchaseReceipt
  /\ UNCHANGED <<case, terms, evidence, decision, proof>>

Next ==
  \/ NormalizeCharge
  \/ LoadEvidence
  \/ EvaluatePayment
  \/ CompareSettlement
  \/ BuildPurchaseReceipt

Spec == Init /\ [][Next]_vars

-----------------------------------------------------------------------------
(* The purchases: numbers are numbers; a control is stored as the operator  *)
(* signed it (AuditorAccess); a policy names keys; the clock of the API     *)
(* does not go back from the settlement to the receipt; and the code's null *)
(* is no request and no authorization.                                      *)
SoundPolicy(p) ==
  /\ p.effectiveAt \in Nat /\ p.window \in Nat /\ p.maximum \in Nat /\ p.maxAge \in Nat
  /\ p.cap # Null => p.cap \in Nat
  /\ Null \notin p.payers
  /\ p.signed = SignedAction("policy_revision", p)

SoundProvider(d) ==
  /\ d.kind \in {"pin", "deny"} /\ d.ceiling \in Nat /\ d.expiresAt \in Nat
  /\ d.signed = SignedAction("provider_decision", d)

SoundOffer(o, c) ==
  LET a == BuildAuthorizationIntent(o, c.intent)
  IN o.amount \in Nat /\ Null # a /\ Null # a.digest

SoundPurchase(c) ==
  /\ Null # c.request
  /\ \A i \in DOMAIN Accepts(c.charge) : SoundOffer(Accepts(c.charge)[i], c)
  /\ c.token.package \in PackageAnswers /\ c.token.contract \in ContractAnswers
  /\ c.token.entryPoints # Null => c.token.entryPoints \subseteq KnownEntryPoints
  /\ c.token.flag \in FlagAnswers
  /\ c.intent.preparedAt \in Nat
  /\ c.policy # Null => SoundPolicy(c.policy)
  /\ c.decisions \in Seq(ToSet(c.decisions))
  /\ \A i \in DOMAIN c.decisions : SoundProvider(c.decisions[i])
  /\ c.ledger.spent \in Nat /\ c.ledger.reserved \in Nat /\ c.ledger.active \in Nat
  /\ c.execution.answer \in ExecutionAnswers /\ c.execution.block \in BOOLEAN
  /\ c.clock.evidenceAge \in Int
  /\ c.clock.evaluated \in Nat /\ c.clock.settled \in Nat /\ c.clock.recorded \in Nat
  /\ c.clock.settled <= c.clock.recorded /\ c.response.observedAt \in Nat

ASSUME RulesAssumption ==
  /\ Skew \in Nat
  /\ Null # "nonce"
  /\ Cases # {}
  /\ \A c \in Cases : \A near \in Beside(c) : SoundPurchase(near)

-----------------------------------------------------------------------------
(* PAY means that every rule held, said of what the parties sent and the    *)
(* node shows and not of what the evaluator made of it (policy.ts:34,       *)
(* casperRpc.ts:135, service.ts:610).                                       *)

(* The charge has one acceptance, and is for the resource that was asked    *)
(* for; another scheme is tolerated only for a pin, by a policy that says   *)
(* so.                                                                      *)
ChargeJustified(o) ==
  LET offers == Accepts(case.charge)
      resource == case.charge.resource
  IN /\ \E j \in DOMAIN offers :
          o = offers[j] /\ {i \in DOMAIN offers : Compatible(offers[i])} = {j}
     /\ resource.host = case.request.host /\ resource.path = case.request.path
     /\ resource.scheme = case.request.scheme \/ case.policy.tolerateScheme

(* The package, its contract and the metadata were read in time, and are    *)
(* what the charge says. The flag for minting may be unread, also because   *)
(* its query failed; a flag that says yes, or a public entry point to mint, *)
(* stops a purchase only when the policy asks for a review.                 *)
TokenJustified(o) ==
  LET token == case.token
  IN /\ token.package = "found" /\ token.contract = "bound"
     /\ token.entryPoints # Null
     /\ "transfer_with_authorization" \in token.entryPoints
     /\ token.name = o.name /\ token.symbol # Null
     /\ token.decimals # Null /\ o.decimals \in {Null, token.decimals}
     /\ case.clock.evidenceAge \in 0 .. case.policy.maxAge
     /\ case.policy.reviewAdvisories
          => token.flag # "on" /\ "mint" \notin token.entryPoints

(* The newest decision of the operator about exactly this charge is a pin   *)
(* that lasts and whose ceiling is high enough.                             *)
ProviderJustified(o, now) ==
  LET covering == {i \in DOMAIN case.decisions : Covers(case.decisions[i], case.request, o)}
  IN \E i \in covering :
       /\ \A j \in covering : i <= j
       /\ case.decisions[i].kind = "pin" /\ case.decisions[i].expiresAt > now
       /\ o.amount <= case.decisions[i].ceiling

(* The policy covers the charge, and its limits what it adds up to.         *)
PolicyJustified(o, now) ==
  LET policy == case.policy
  IN /\ policy # Null /\ policy.effectiveAt <= now
     /\ o.network \in policy.networks
     /\ Origin(case.request) \notin policy.deniedOrigins
     /\ o.payTo \notin policy.deniedPayees /\ o.asset \notin policy.deniedAssets
     /\ policy.cap # Null
     /\ case.ledger.spent + case.ledger.reserved + o.amount <= policy.cap
     /\ case.ledger.active < policy.maximum /\ ~ case.ledger.replayed

(* What was signed is this charge, by a payer of the policy, inside a       *)
(* window that neither the policy nor the charge finds too long.            *)
AuthorizationJustified(o, now) ==
  LET a == Authorization(o, case.intent)
  IN /\ a # Null /\ a.payer \in case.policy.payers
     /\ a.digest = Digest([BuildAuthorizationIntent(o, case.intent) EXCEPT
                             !.nonce = a.nonce, !.after = a.after, !.before = a.before])
     /\ now \in a.after .. (a.before - 1)
     /\ a.before - a.after <= case.policy.window /\ a.before - now <= o.timeout

PayJustified ==
  decision # Null /\ decision.verdict = "pay" =>
    LET o == terms.offer
        now == case.clock.evaluated
    IN /\ ChargeJustified(o) /\ TokenJustified(o) /\ ProviderJustified(o, now)
       /\ PolicyJustified(o, now) /\ AuthorizationJustified(o, now)

(* The receipt's checks, stated apart from the evaluator's and from         *)
(* compareSettlement's, disagree with them in exactly one case: a match     *)
(* that came without its block. Then, and only then, buildPurchaseReceipt,  *)
(* which verifies what it builds and throws on any error, refuses a         *)
(* purchase that was approved, paid as approved and observed (receipt.ts:32,*)
(* :369, settlement.ts:85, service.ts:384).                                 *)
ReceiptComplete ==
  receipt # Null =>
    receipt = IF case.execution.block THEN {} ELSE {"settlement.blockHash"}

(* An authorization the client prepared from the charge is inside its       *)
(* window for the server, although the two clocks differ by the allowance,  *)
(* whatever the timeout of the charge (authorization.ts:133).               *)
PreparedInTime ==
  LET o == terms.offer
      t == case.intent.preparedAt
      allowance == AtMost(Skew, AtMost(o.timeout - 1, t))
      window == BuildAuthorizationIntent(o, case.intent)
  IN decision # Null /\ case.intent.prepared
       /\ case.intent.altered = {} /\ case.intent.tampered = {}
       /\ case.clock.evaluated \in (t - allowance) .. (t - allowance + o.timeout - 1)
       => /\ window.after <= case.clock.evaluated /\ case.clock.evaluated < window.before
          /\ window.before - case.clock.evaluated <= o.timeout
          /\ case.policy # Null /\ case.policy.window >= o.timeout
               => ~ \E r \in decision.reasons :
                      r.code \in {"authorization_not_yet_valid", "authorization_expired"}
                        \/ (r.code = "authorization_field_mismatch"
                              /\ evidence.name \in {Null, o.name})
=============================================================================
