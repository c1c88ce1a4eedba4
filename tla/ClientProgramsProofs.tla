------------------------ MODULE ClientProgramsProofs ------------------------
(***************************************************************************)
(* Proofs about ClientPrograms: the rules of a purchase, for any purchases *)
(* and any allowance of the clocks, the calls that rely on them, and the   *)
(* commands of an operator, for any number of commands and revisions.      *)
(***************************************************************************)
EXTENDS ClientPrograms, SequenceTheorems, WellFoundedInduction, TLAPS

-----------------------------------------------------------------------------
(***************************************************************************)
(* What the rules computed is what they compute, from a purchase that      *)
(* never changes.                                                          *)
(***************************************************************************)
Traced ==
  /\ SoundPurchase(case)
  /\ terms # Null => terms = NormalizePaymentRequired(case.charge, case.request)
  /\ evidence # Null =>
       terms # Null /\ evidence = LoadPaymentAssetEvidence(case.token)
  /\ decision # Null => evidence # Null /\ decision = PaymentDecision
  /\ proof # Null => /\ decision # Null /\ decision.verdict = "pay"
                     /\ proof = SettlementProof
  /\ receipt # Null => /\ proof # Null /\ proof.verdict = "match"
                       /\ Observable(case.response, case.clock.recorded)
                       /\ receipt = VerifyPurchaseReceipt

\* What is computed from values that stay is computed again.
LEMMA SameResults ==
  ASSUME UNCHANGED <<case, terms>>
  PROVE  /\ UNCHANGED evidence => PaymentDecision' = PaymentDecision
         /\ UNCHANGED Approved
         /\ SettlementProof' = SettlementProof
         /\ UNCHANGED <<evidence, decision, proof>>
              => VerifyPurchaseReceipt' = VerifyPurchaseReceipt
<1>1. Approved' = Approved
  BY DEF Approved
<1>2. ASSUME UNCHANGED evidence
      PROVE  PaymentDecision' = PaymentDecision
  BY <1>1, <1>2 DEF PaymentDecision
<1>3. SettlementProof' = SettlementProof
  BY <1>1 DEF SettlementProof
<1>4. ASSUME UNCHANGED <<evidence, decision, proof>>
      PROVE  VerifyPurchaseReceipt' = VerifyPurchaseReceipt
  <2>1. VerifySignedControls' = VerifySignedControls
    BY <1>4 DEF VerifySignedControls
  <2>2. PICK a : a = Approved
    OBVIOUS
  <2>3. VerifyBindings(a)' = VerifyBindings(a)
    BY <1>4 DEF VerifyBindings
  <2>4. VerifySettlement(a)' = VerifySettlement(a)
    BY <1>4 DEF VerifySettlement
  <2>5. VerifyPurchaseReceipt' =
          VerifyArtifactHashes(a) \cup VerifySignedControls' \cup VerifyBindings(a)'
          \cup VerifySettlement(a)'
          \cup VerifyResponseAndAnchor(case.response, case.clock.recorded)'
    BY <1>1, <2>2 DEF VerifyPurchaseReceipt
  <2>6. VerifyResponseAndAnchor(case.response, case.clock.recorded)'
          = VerifyResponseAndAnchor(case.response, case.clock.recorded)
    BY <1>4 DEF VerifyResponseAndAnchor
  <2> QED
    BY <2>1, <2>2, <2>3, <2>4, <2>5, <2>6 DEF VerifyPurchaseReceipt
<1> QED
  BY <1>1, <1>2, <1>3, <1>4

\* A purchase takes the steps of the rules and no other.
LEMMA TracedStep == Traced /\ [Next]_vars => Traced'
<1> SUFFICES ASSUME Traced, [Next]_vars
             PROVE  Traced'
  OBVIOUS
<1>1. CASE UNCHANGED vars
  BY <1>1, SameResults DEF Traced, vars
<1>2. CASE NormalizeCharge
  BY <1>2 DEF Traced, NormalizeCharge
<1>3. CASE LoadEvidence
  BY <1>3 DEF Traced, LoadEvidence
<1>4. CASE EvaluatePayment
  BY <1>4, SameResults DEF Traced, EvaluatePayment
<1>5. CASE CompareSettlement
  BY <1>5, SameResults DEF Traced, CompareSettlement
<1>6. CASE BuildPurchaseReceipt
  BY <1>6, SameResults DEF Traced, BuildPurchaseReceipt
<1> QED
  BY <1>1, <1>2, <1>3, <1>4, <1>5, <1>6 DEF Next

\* Whatever the clients do, a purchase takes the steps of the rules.
LEMMA RulesStep ==
  ASSUME [ClientsNext]_<<callVars, operatorVars, client>>
  PROVE  [Next]_vars
BY DEF ClientsNext, callVars, CallNext, ReadChallenge, CheckAnswers,
       PaidResponse, PollSettlement, Observed, CallFails, Serve, Next, vars

LEMMA TracedInvariant == ClientsSpec => []Traced
<1>1. ClientsInit => Traced
  <2> SUFFICES ASSUME ClientsInit
               PROVE  Traced
    OBVIOUS
  <2>1. \E c \in Cases : \E near \in Beside(c) : Begin(near)
    BY RulesAssumption DEF ClientsInit, CallInit, Init, Beside
  <2> QED
    BY <2>1, RulesAssumption DEF Begin, Traced
<1>2. Traced /\ [ClientsNext]_<<callVars, operatorVars, client>> => Traced'
  BY RulesStep, TracedStep
<1> QED
  BY <1>1, <1>2, PTL DEF ClientsSpec
-----------------------------------------------------------------------------
(***************************************************************************)
(* What a PAY means.                                                       *)
(***************************************************************************)

\* Every finding blocks or asks for review.
LEMMA Findings ==
  ASSUME NEW t, NEW e, NEW c, NEW p, NEW o, NEW a, NEW age, NEW now
  PROVE  \A r \in EvaluateResource(t, c.policy, p)
                  \cup EvaluateEvidence(o, e, age, c.policy)
                  \cup EvaluateProvider(p, o, now)
                  \cup EvaluatePolicy(c.policy, c.request, o, a, c.ledger, now)
                  \cup EvaluateAuthorization(a, o, c.policy, c.ledger, now)
                  \cup EvaluateInvestmentAdvisories(e, c.policy) :
           r.result \in {"block", "review"}
<1>0. \A x, code, result : \A r \in Reasons(x, code, result) : r.result = result
  BY DEF Reasons
<1>1. \A r \in EvaluateResource(t, c.policy, p) : r.result \in {"block", "review"}
  BY <1>0 DEF EvaluateResource
<1>2. \A r \in EvaluateEvidence(o, e, age, c.policy) : r.result \in {"block", "review"}
  BY <1>0 DEF EvaluateEvidence
<1>3. \A r \in EvaluateProvider(p, o, now) : r.result \in {"block", "review"}
  BY <1>0 DEF EvaluateProvider
<1>4. \A r \in EvaluatePolicy(c.policy, c.request, o, a, c.ledger, now) :
         r.result \in {"block", "review"}
  <2>1. CASE c.policy = Null
    BY <1>0, <2>1 DEF EvaluatePolicy
  <2>2. CASE c.policy # Null
    <3> DEFINE policy == c.policy
               L == Reasons(policy.effectiveAt > now, "policy_cap_missing", "review")
               M == Reasons(o.network \notin policy.networks, "unsupported_network", "block")
               N == Reasons(a # Null /\ a.payer \notin policy.payers, "operator_denied", "block")
               O == Reasons(\/ Origin(c.request) \in policy.deniedOrigins
                            \/ o.payTo \in policy.deniedPayees
                            \/ o.asset \in policy.deniedAssets, "operator_denied", "block")
               P == Reasons(policy.cap = Null, "policy_cap_missing", "review")
               Q == Reasons(policy.cap # Null
                              /\ c.ledger.spent + c.ledger.reserved + o.amount > policy.cap,
                            "policy_daily_cap_exceeded", "block")
               R == Reasons(c.ledger.active >= policy.maximum, "policy_daily_cap_exceeded",
                            "block")
    <3>1. EvaluatePolicy(policy, c.request, o, a, c.ledger, now)
            = L \cup M \cup N \cup O \cup P \cup Q \cup R
      BY <2>2, Zenon DEF EvaluatePolicy
    <3>2. \A r \in L : r.result = "review"
      BY <1>0
    <3>3. \A r \in M : r.result = "block"
      BY <1>0
    <3>4. \A r \in N : r.result = "block"
      BY <1>0
    <3>5. \A r \in O : r.result = "block"
      BY <1>0
    <3>6. \A r \in P : r.result = "review"
      BY <1>0
    <3>7. \A r \in Q : r.result = "block"
      BY <1>0
    <3>8. \A r \in R : r.result = "block"
      BY <1>0
    <3> HIDE DEF L, M, N, O, P, Q, R, policy
    <3> QED
      BY <3>1, <3>2, <3>3, <3>4, <3>5, <3>6, <3>7, <3>8 DEF policy
  <2> QED
    BY <2>1, <2>2
<1>5. \A r \in EvaluateAuthorization(a, o, c.policy, c.ledger, now) :
         r.result \in {"block", "review"}
  BY <1>0 DEF EvaluateAuthorization
<1>6. \A r \in EvaluateInvestmentAdvisories(e, c.policy) : r.result \in {"block", "review"}
  BY <1>0 DEF EvaluateInvestmentAdvisories
<1> QED
  BY <1>1, <1>2, <1>3, <1>4, <1>5, <1>6

\* A rule without a finding has found its condition false.
LEMMA NoFinding ==
  ASSUME NEW x, NEW code, NEW result, Reasons(x, code, result) = {}
  PROVE  ~ x
BY DEF Reasons

\* PAY: there is no finding at all, by any of the rules.
LEMMA PayMeansNothing ==
  ASSUME Traced, decision # Null, decision.verdict = "pay",
         NEW o, o = terms.offer, NEW a, a = Approved,
         NEW p, p = decision.provider, NEW now, now = case.clock.evaluated
  PROVE  /\ decision.reasons = {}
         /\ decision.basis = "operator_pinned"
         /\ decision.reserved = o.amount
         /\ decision.digest = IF a = Null THEN Null ELSE Digest(a)
         /\ decision.at = now
         /\ p = SelectProviderDecision(case.decisions, case.request, o)
         /\ EvaluateResource(terms, case.policy, p) = {}
         /\ EvaluateEvidence(o, evidence, case.clock.evidenceAge, case.policy) = {}
         /\ EvaluateProvider(p, o, now) = {}
         /\ EvaluatePolicy(case.policy, case.request, o, a, case.ledger, now) = {}
         /\ EvaluateAuthorization(a, o, case.policy, case.ledger, now) = {}
         /\ EvaluateInvestmentAdvisories(evidence, case.policy) = {}
<1>1. decision = PaymentDecision
  BY DEF Traced
<1>2. /\ p = SelectProviderDecision(case.decisions, case.request, o)
      /\ decision.at = now
      /\ decision.digest = IF a = Null THEN Null ELSE Digest(a)
      /\ decision.reasons =
           EvaluateResource(terms, case.policy, p)
           \cup EvaluateEvidence(o, evidence, case.clock.evidenceAge, case.policy)
           \cup EvaluateProvider(p, o, now)
           \cup EvaluatePolicy(case.policy, case.request, o, a, case.ledger, now)
           \cup EvaluateAuthorization(a, o, case.policy, case.ledger, now)
           \cup EvaluateInvestmentAdvisories(evidence, case.policy)
      /\ decision.verdict = Verdict(decision.reasons)
      /\ decision.verdict = "pay" => /\ decision.basis = "operator_pinned"
                                     /\ decision.reserved = o.amount
  BY <1>1 DEF PaymentDecision
<1>3. \A r \in decision.reasons : r.result \notin {"block", "review"}
  BY <1>2 DEF Verdict
<1>4. PICK t, e, c : t = terms /\ e = evidence /\ c = case
  OBVIOUS
<1>5. \A r \in decision.reasons : r.result \in {"block", "review"}
  BY <1>2, <1>4, Findings
<1>6. decision.reasons = {}
  BY <1>3, <1>5
<1> QED
  BY <1>2, <1>6

\* The terms are those of the only acceptance that is compatible.
LEMMA TermsMean ==
  ASSUME Traced, terms # Null
  PROVE  /\ case.charge.version = 2 /\ case.charge.resource # Null
         /\ \E j \in DOMAIN Accepts(case.charge) :
              /\ terms.offer = Accepts(case.charge)[j]
              /\ {i \in DOMAIN Accepts(case.charge) :
                    Compatible(Accepts(case.charge)[i])} = {j}
         /\ WellFormed(terms.offer)
         /\ SoundOffer(terms.offer, case)
         /\ terms.sameHost = (case.request.host = case.charge.resource.host)
         /\ terms.sameScheme = (case.request.scheme = case.charge.resource.scheme)
         /\ terms.samePath = (case.request.path = case.charge.resource.path)
<1> DEFINE offers == Accepts(case.charge)
           found == {i \in DOMAIN offers : Compatible(offers[i])}
<1>1. terms = NormalizePaymentRequired(case.charge, case.request)
  BY DEF Traced
<1>2. /\ case.charge.version = 2 /\ case.charge.resource # Null
      /\ \E i \in found : found = {i} /\ WellFormed(offers[i])
  BY <1>1 DEF NormalizePaymentRequired
<1>3. terms = [ offer |-> offers[CHOOSE i \in found : TRUE],
                sameHost |-> case.request.host = case.charge.resource.host,
                sameScheme |-> case.request.scheme = case.charge.resource.scheme,
                samePath |-> case.request.path = case.charge.resource.path ]
  BY <1>1, <1>2 DEF NormalizePaymentRequired
<1>4. PICK j \in found : found = {j} /\ WellFormed(offers[j])
  BY <1>2
<1>5. (CHOOSE i \in found : TRUE) = j
  BY <1>4
<1>6. SoundOffer(offers[j], case)
  BY DEF Traced, SoundPurchase
<1> QED
  BY <1>2, <1>3, <1>4, <1>5, <1>6

\* Evidence with nothing missing and nothing wrong is that of the contract.
LEMMA EvidenceMeans ==
  ASSUME Traced, evidence # Null, evidence.missing = {},
         evidence.entrypoint # FALSE
  PROVE  /\ case.token.package = "found" /\ case.token.contract = "bound"
         /\ HasAuthorization(case.token) /\ case.token.name # Null
         /\ case.token.symbol # Null /\ case.token.decimals # Null
         /\ evidence.packageExists = TRUE /\ evidence.entrypoint = TRUE
         /\ evidence.name = case.token.name
         /\ evidence.decimals = case.token.decimals
         /\ evidence.mintBurn = MintBurn(case.token)
         /\ evidence.publicMint = PublicMint(case.token)
<1>1. evidence = LoadPaymentAssetEvidence(case.token)
  BY DEF Traced
<1>2. /\ case.token.package \in PackageAnswers
      /\ case.token.contract \in ContractAnswers
  BY DEF Traced, SoundPurchase
<1>3. case.token.package = "found" /\ case.token.contract = "bound"
  BY <1>1, <1>2
     DEF LoadPaymentAssetEvidence, PackageAnswers, ContractAnswers, Unread,
         AfterPackage, AfterVersion
<1>4. evidence = ReadContract(case.token)
  BY <1>1, <1>3 DEF LoadPaymentAssetEvidence
<1>5. /\ evidence.entrypoint = HasAuthorization(case.token)
      /\ MissingMetadata(case.token) = {}
      /\ evidence.packageExists = TRUE
      /\ evidence.name = case.token.name
      /\ evidence.decimals = case.token.decimals
      /\ evidence.mintBurn = MintBurn(case.token)
      /\ evidence.publicMint = PublicMint(case.token)
  BY <1>4 DEF ReadContract
<1>7. HasAuthorization(case.token) /\ evidence.entrypoint = TRUE
  BY <1>5, Zenon DEF HasAuthorization
<1>6. /\ case.token.name # Null /\ case.token.symbol # Null
      /\ case.token.decimals # Null
  BY <1>5 DEF MissingMetadata
<1> QED
  BY <1>3, <1>5, <1>6, <1>7

\* A set of numbers that is not empty has a least one, which Min chooses.
LEMMA MinIsLeast ==
  ASSUME NEW T, T \subseteq Nat, T # {}
  PROVE  Min(T) \in T /\ \A y \in T : Min(T) <= y
<1> DEFINE R == OpToRel(<, Nat)
<1>1. IsWellFoundedOn(R, Nat)
  BY NatLessThanWellFounded
<1>2. \A u, v \in Nat : u < v => <<u, v>> \in R
  BY DEF OpToRel
<1> HIDE DEF R
<1>3. PICK x \in T : \A y \in T : ~(<<y, x>> \in R)
  BY <1>1, WFMin
<1>4. ASSUME NEW y \in T
      PROVE  x <= y
  <2>1. x \in Nat /\ y \in Nat
    OBVIOUS
  <2>2. ~(y < x)
    BY <1>2, <1>3, <2>1, Zenon
  <2> QED
    BY <2>1, <2>2
<1> QED
  BY <1>4 DEF Min

\* The decision that counts is the first that covers the charge.
LEMMA ProviderMeans ==
  ASSUME Traced, NEW o, NEW now \in Nat, NEW p, o.amount \in Nat,
         p = SelectProviderDecision(case.decisions, case.request, o),
         EvaluateProvider(p, o, now) = {}
  PROVE  \E i \in {k \in DOMAIN case.decisions : Covers(case.decisions[k], case.request, o)} :
           /\ \A j \in {k \in DOMAIN case.decisions :
                          Covers(case.decisions[k], case.request, o)} : i <= j
           /\ p = case.decisions[i]
           /\ p.kind = "pin" /\ p.expiresAt > now /\ o.amount <= p.ceiling
           /\ SoundProvider(p)
<1> DEFINE covering == {k \in DOMAIN case.decisions :
                          Covers(case.decisions[k], case.request, o)}
<1>1. /\ case.decisions \in Seq(ToSet(case.decisions))
      /\ \A i \in DOMAIN case.decisions : SoundProvider(case.decisions[i])
  BY DEF Traced, SoundPurchase
<1>2. DOMAIN case.decisions = 1 .. Len(case.decisions) /\ Len(case.decisions) \in Nat
  BY <1>1
<1>3. p # Null /\ ~ (p.expiresAt <= now) /\ p.kind # "deny" /\ ~ (o.amount > p.ceiling)
  <2>1. p # Null
    BY DEF EvaluateProvider, Reasons
  <2>2. ~ (p.expiresAt <= now)
    BY <2>1 DEF EvaluateProvider, Reasons
  <2>3. p.kind # "deny"
    BY <2>1, <2>2 DEF EvaluateProvider, Reasons
  <2> QED
    BY <2>1, <2>2, <2>3 DEF EvaluateProvider, Reasons
<1>4. PICK I : I = {i \in 1 .. Len(case.decisions) :
                      Covers(case.decisions[i], case.request, o)}
  OBVIOUS
<1>5. I = covering
  BY <1>2, <1>4
<1>6. p = IF (IF I # {} THEN Min(I) ELSE 0) = 0 THEN Null
          ELSE case.decisions[IF I # {} THEN Min(I) ELSE 0]
  BY <1>4 DEF SelectProviderDecision, SelectInSeq
<1>7. I # {}
  BY <1>3, <1>6
<1>8. I \subseteq Nat /\ 0 \notin I
  BY <1>2, <1>4
<1>9. Min(I) \in I /\ \A j \in I : Min(I) <= j
  BY <1>7, <1>8, MinIsLeast
<1>10. p = case.decisions[Min(I)]
  BY <1>6, <1>7, <1>8, <1>9
<1>11. SoundProvider(p)
  BY <1>1, <1>5, <1>9, <1>10
<1>12. p.kind = "pin" /\ p.expiresAt > now /\ o.amount <= p.ceiling
  BY <1>3, <1>11 DEF SoundProvider
<1> QED
  BY <1>5, <1>9, <1>10, <1>11, <1>12

\* The policy that counts is in force and covers the charge.
LEMMA PolicyMeans ==
  ASSUME Traced, NEW o, NEW a, NEW now \in Nat, o.amount \in Nat,
         EvaluatePolicy(case.policy, case.request, o, a, case.ledger, now) = {}
  PROVE  /\ case.policy # Null /\ SoundPolicy(case.policy)
         /\ case.policy.effectiveAt <= now
         /\ o.network \in case.policy.networks
         /\ a # Null => a.payer \in case.policy.payers
         /\ Origin(case.request) \notin case.policy.deniedOrigins
         /\ o.payTo \notin case.policy.deniedPayees
         /\ o.asset \notin case.policy.deniedAssets
         /\ case.policy.cap # Null /\ case.policy.cap \in Nat
         /\ case.ledger.spent + case.ledger.reserved + o.amount <= case.policy.cap
         /\ o.amount <= case.policy.cap
         /\ case.ledger.active < case.policy.maximum
<1>1. case.policy # Null
  BY DEF EvaluatePolicy, Reasons
<1>2. /\ SoundPolicy(case.policy)
      /\ case.ledger.spent \in Nat /\ case.ledger.reserved \in Nat
      /\ case.ledger.active \in Nat
  BY <1>1 DEF Traced, SoundPurchase
<1> DEFINE policy == case.policy
           L == Reasons(policy.effectiveAt > now, "policy_cap_missing", "review")
           M == Reasons(o.network \notin policy.networks, "unsupported_network", "block")
           N == Reasons(a # Null /\ a.payer \notin policy.payers, "operator_denied", "block")
           O == Reasons(\/ Origin(case.request) \in policy.deniedOrigins
                        \/ o.payTo \in policy.deniedPayees
                        \/ o.asset \in policy.deniedAssets, "operator_denied", "block")
           P == Reasons(policy.cap = Null, "policy_cap_missing", "review")
           Q == Reasons(policy.cap # Null
                          /\ case.ledger.spent + case.ledger.reserved + o.amount > policy.cap,
                        "policy_daily_cap_exceeded", "block")
           R == Reasons(case.ledger.active >= policy.maximum, "policy_daily_cap_exceeded",
                        "block")
<1>3. EvaluatePolicy(policy, case.request, o, a, case.ledger, now)
        = L \cup M \cup N \cup O \cup P \cup Q \cup R
  BY <1>1, Zenon DEF EvaluatePolicy
<1>4. L = {} /\ M = {} /\ N = {} /\ O = {} /\ P = {} /\ Q = {} /\ R = {}
  <2> HIDE DEF L, M, N, O, P, Q, R
  <2> QED
    BY <1>3
<1>5. /\ ~ (policy.effectiveAt > now)
      /\ o.network \in policy.networks
      /\ a # Null => a.payer \in policy.payers
      /\ Origin(case.request) \notin policy.deniedOrigins
      /\ o.payTo \notin policy.deniedPayees
      /\ o.asset \notin policy.deniedAssets
      /\ policy.cap # Null
  BY <1>4 DEF Reasons
<1>6. ~ (case.ledger.spent + case.ledger.reserved + o.amount > policy.cap)
  BY <1>4, <1>5 DEF Reasons
<1>7. ~ (case.ledger.active >= policy.maximum)
  BY <1>4 DEF Reasons
<1>8. policy.cap \in Nat /\ policy.maximum \in Nat /\ policy.effectiveAt \in Nat
  BY <1>2, <1>5 DEF SoundPolicy
<1> QED
  BY <1>1, <1>2, <1>5, <1>6, <1>7, <1>8
-----------------------------------------------------------------------------
(***************************************************************************)
(* Authorizations.                                                         *)
(***************************************************************************)
IntentFields == {"payer", "from", "to", "amount", "after", "before", "nonce",
                 "network", "asset", "name", "version", "digest"}
HasFields(a) == a = [f \in IntentFields |-> a[f]]

LEMMA DigestIs ==
  ASSUME NEW a, HasFields(a)
  PROVE  Digest(a) = [f \in IntentFields |->
                        IF f \in {"digest", "payer"} THEN Null ELSE a[f]]
BY DEF Digest, HasFields, IntentFields

LEMMA ReplacedIs ==
  ASSUME NEW a, HasFields(a), NEW S
  PROVE  /\ HasFields(Replaced(a, S))
         /\ \A f \in IntentFields :
              Replaced(a, S)[f] = IF f \in S
                                  THEN (IF f \in {"amount", "after", "before"}
                                        THEN a[f] + 1 ELSE Null)
                                  ELSE a[f]
         /\ Replaced(a, {}) = a
<1>1. DOMAIN a = IntentFields
  BY DEF HasFields
<1> QED
  BY <1>1 DEF Replaced, HasFields

\* The window is of the length the charge allows, and starts before now.
Window(w, t, timeout, skew) ==
  /\ w.after = t - skew /\ w.before = t - skew + timeout
  /\ skew \in Nat /\ skew < timeout /\ skew <= t
  /\ w.after \in Nat /\ w.before \in Nat

LEMMA WindowIs ==
  ASSUME NEW t \in Nat, NEW timeout \in 1 .. 900
  PROVE  Window(BuildAuthorizationWindow(t, timeout), t, timeout,
                AtMost(Skew, AtMost(timeout - 1, t)))
<1>1. PICK w, skew : /\ w = BuildAuthorizationWindow(t, timeout)
                     /\ skew = AtMost(Skew, AtMost(timeout - 1, t))
  OBVIOUS
<1>2. skew \in Nat /\ skew < timeout /\ skew <= t
  BY <1>1, RulesAssumption DEF AtMost
<1>3. w.after = t - skew /\ w.before = t - skew + timeout
  BY <1>1 DEF BuildAuthorizationWindow
<1> QED
  BY <1>1, <1>2, <1>3 DEF Window

LEMMA BuiltIs ==
  ASSUME NEW o, NEW c, NEW b, b = BuildAuthorizationIntent(o, c),
         NEW w, w = BuildAuthorizationWindow(c.preparedAt, o.timeout)
  PROVE  /\ HasFields(b)
         /\ b.payer = "payer" /\ b.from = "payer" /\ b.to = o.payTo
         /\ b.amount = o.amount /\ b.after = w.after /\ b.before = w.before
         /\ b.nonce = "nonce" /\ b.network = o.network /\ b.asset = o.asset
         /\ b.name = o.name /\ b.version = o.version
         /\ b.digest = Digest(b)
<1> DEFINE i == [ payer |-> "payer", from |-> "payer", to |-> o.payTo,
                  amount |-> o.amount, after |-> w.after,
                  before |-> w.before, nonce |-> "nonce",
                  network |-> o.network, asset |-> o.asset,
                  name |-> o.name, version |-> o.version,
                  digest |-> Null ]
<1>1. b = [i EXCEPT !.digest = Digest(i)]
  BY DEF BuildAuthorizationIntent
<1>2. HasFields(i)
  BY DEF HasFields, IntentFields
<1>3. /\ i.payer = "payer" /\ i.from = "payer" /\ i.to = o.payTo
      /\ i.amount = o.amount /\ i.after = w.after /\ i.before = w.before
      /\ i.nonce = "nonce" /\ i.network = o.network /\ i.asset = o.asset
      /\ i.name = o.name /\ i.version = o.version
  OBVIOUS
<1> HIDE DEF i
<1>4. HasFields(b) /\ b.digest = Digest(i)
  BY <1>1, <1>2 DEF HasFields, IntentFields
<1>5. \A f \in IntentFields \ {"digest"} : b[f] = i[f]
  BY <1>1, <1>2 DEF HasFields, IntentFields
<1>6. Digest(b) = Digest(i)
  BY <1>2, <1>4, <1>5, DigestIs
<1> QED
  BY <1>3, <1>4, <1>5, <1>6 DEF IntentFields

\* What a request carries has the fields of what was prepared; one that was
\* not touched is what was prepared.
LEMMA AuthorizationIs ==
  ASSUME NEW o, NEW c, NEW b, b = BuildAuthorizationIntent(o, c),
         NEW a, a = Authorization(o, c), a # Null
  PROVE  /\ c.prepared
         /\ HasFields(a)
         /\ a.payer \in {b.payer, Null} /\ a.from \in {b.from, Null}
         /\ a.after \in {b.after, b.after + 1, b.after + 1 + 1}
         /\ a.before \in {b.before, b.before + 1, b.before + 1 + 1}
         /\ c.altered = {} /\ c.tampered = {} => a = b
<1>1. HasFields(b) /\ b.digest = Digest(b)
  <2>1. PICK w : w = BuildAuthorizationWindow(c.preparedAt, o.timeout)
    OBVIOUS
  <2> QED
    BY <2>1, BuiltIs
<1>2. PICK r : r = Replaced(b, c.altered)
  OBVIOUS
<1>3. PICK own : own = [r EXCEPT !.digest = Digest(r)]
  OBVIOUS
<1>4. c.prepared /\ a = Replaced(own, c.tampered)
  BY <1>2, <1>3 DEF Authorization
<1>5. HasFields(r)
  BY <1>1, <1>2, ReplacedIs
<1>6. /\ HasFields(own) /\ own.digest = Digest(r)
      /\ \A f \in IntentFields \ {"digest"} : own[f] = r[f]
  BY <1>3, <1>5 DEF HasFields, IntentFields
<1>7. HasFields(a)
  BY <1>4, <1>6, ReplacedIs
<1>8. /\ r.payer \in {b.payer, Null} /\ r.from \in {b.from, Null}
      /\ r.after \in {b.after, b.after + 1} /\ r.before \in {b.before, b.before + 1}
  BY <1>1, <1>2, ReplacedIs DEF IntentFields
<1>9. /\ a.payer \in {own.payer, Null} /\ a.from \in {own.from, Null}
      /\ a.after \in {own.after, own.after + 1}
      /\ a.before \in {own.before, own.before + 1}
  BY <1>4, <1>6, ReplacedIs DEF IntentFields
<1>10. /\ own.payer = r.payer /\ own.from = r.from /\ own.after = r.after
       /\ own.before = r.before
  BY <1>6 DEF IntentFields
<1>11. ASSUME c.altered = {}, c.tampered = {}
       PROVE  a = b
  <2>1. r = b
    BY <1>1, <1>2, <1>11, ReplacedIs
  <2>2. own = b
    BY <1>1, <1>3, <2>1 DEF HasFields
  <2> QED
    BY <1>1, <1>4, <1>11, <2>2, ReplacedIs
<1> QED
  BY <1>4, <1>7, <1>8, <1>9, <1>10, <1>11

\* A request that was not touched carries what was prepared.
LEMMA Untouched ==
  ASSUME NEW o, NEW c, c.prepared, c.altered = {}, c.tampered = {},
         NEW b, b = BuildAuthorizationIntent(o, c)
  PROVE  Authorization(o, c) = b
<1>1. HasFields(b) /\ b.digest = Digest(b)
  <2>1. PICK w : w = BuildAuthorizationWindow(c.preparedAt, o.timeout)
    OBVIOUS
  <2> QED
    BY <2>1, BuiltIs
<1>2. Replaced(b, {}) = b
  BY <1>1, ReplacedIs
<1>3. [b EXCEPT !.digest = Digest(b)] = b
  BY <1>1 DEF HasFields
<1> QED
  BY <1>2, <1>3 DEF Authorization

\* The numbers of an authorization are numbers.
LEMMA TimesAre ==
  ASSUME NEW o, NEW c, c.preparedAt \in Nat, o.timeout \in 1 .. 900,
         NEW a, a = Authorization(o, c), a # Null
  PROVE  a.after \in Nat /\ a.before \in Nat
<1>1. PICK b, w, t, timeout :
        /\ t = c.preparedAt /\ timeout = o.timeout
        /\ b = BuildAuthorizationIntent(o, c)
        /\ w = BuildAuthorizationWindow(t, timeout)
  OBVIOUS
<1>2. w.after \in Nat /\ w.before \in Nat
  <2>1. t \in Nat /\ timeout \in 1 .. 900
    BY <1>1
  <2>2. PICK skew : skew = AtMost(Skew, AtMost(timeout - 1, t))
    OBVIOUS
  <2>3. Window(w, t, timeout, skew)
    <3>1. Window(BuildAuthorizationWindow(t, timeout), t, timeout,
                 AtMost(Skew, AtMost(timeout - 1, t)))
      BY <2>1, WindowIs, Zenon
    <3> QED
      BY <1>1, <2>2, <3>1
  <2> QED
    BY <2>3 DEF Window
<1>3. b.after = w.after /\ b.before = w.before
  BY <1>1, BuiltIs
<1>4. /\ a.after \in {b.after, b.after + 1, b.after + 1 + 1}
      /\ a.before \in {b.before, b.before + 1, b.before + 1 + 1}
  BY <1>1, AuthorizationIs
<1> QED
  BY <1>2, <1>3, <1>4

\* The authorization that counts is of this charge, in its window and new.
LEMMA AuthorizationMeans ==
  ASSUME NEW o, NEW a, NEW policy, NEW ledger, NEW now \in Nat,
         a # Null => a.after \in Nat /\ a.before \in Nat,
         EvaluateAuthorization(a, o, policy, ledger, now) = {}
  PROVE  /\ a # Null /\ ~ Mismatches(a, o, policy, now)
         /\ now \in a.after .. (a.before - 1)
         /\ a.after <= now /\ now < a.before
         /\ ~ ledger.replayed
<1>1. a # Null
  BY DEF EvaluateAuthorization, Reasons
<1> DEFINE K == Reasons(Mismatches(a, o, policy, now), "authorization_field_mismatch", "block")
           L == Reasons(a.after > now, "authorization_not_yet_valid", "block")
           M == Reasons(a.before <= now, "authorization_expired", "block")
           N == Reasons(ledger.replayed, "authorization_replay", "block")
<1>2. EvaluateAuthorization(a, o, policy, ledger, now) = K \cup L \cup M \cup N
  BY <1>1, Zenon DEF EvaluateAuthorization
<1>3. K = {} /\ L = {} /\ M = {} /\ N = {}
  <2> HIDE DEF K, L, M, N
  <2> QED
    BY <1>2
<1>4. ~ Mismatches(a, o, policy, now)
  BY <1>3, NoFinding, Zenon
<1>5. ~ (a.after > now) /\ ~ (a.before <= now) /\ ~ ledger.replayed
  <2>1. ~ (a.after > now)
    BY <1>3, NoFinding
  <2>2. ~ (a.before <= now)
    BY <1>3, NoFinding
  <2>3. ~ ledger.replayed
    BY <1>3, NoFinding, Zenon
  <2> QED
    BY <2>1, <2>2, <2>3
<1> QED
  BY <1>1, <1>4, <1>5

\* The digest is that of what was prepared, but for the nonce and the window.
DigestOfOwn(a, b) ==
  a.digest = Digest([b EXCEPT !.nonce = a.nonce, !.after = a.after, !.before = a.before])

\* What agrees with the charge is what the client prepared from it, but for
\* its nonce and its window.
LEMMA OwnCharge ==
  ASSUME NEW o, NEW c, NEW b, b = BuildAuthorizationIntent(o, c),
         NEW a, HasFields(a), a.payer = "payer",
         NEW policy, NEW now, ~ Mismatches(a, o, policy, now)
  PROVE  DigestOfOwn(a, b)
<1>1. /\ a.from = "payer" /\ a.to = o.payTo /\ a.amount = o.amount
      /\ a.network = o.network /\ a.asset = o.asset
      /\ a.name = o.name /\ a.version = o.version /\ a.digest = Digest(a)
  BY Zenon DEF Mismatches, Account
<1>2. /\ HasFields(b) /\ b.from = "payer" /\ b.to = o.payTo
      /\ b.amount = o.amount /\ b.network = o.network /\ b.asset = o.asset
      /\ b.name = o.name /\ b.version = o.version
  <2>1. PICK w : w = BuildAuthorizationWindow(c.preparedAt, o.timeout)
    OBVIOUS
  <2> QED
    BY <2>1, BuiltIs
<1>3. PICK d : d = [b EXCEPT !.nonce = a.nonce, !.after = a.after, !.before = a.before]
  OBVIOUS
<1>4. /\ HasFields(d) /\ d.nonce = a.nonce /\ d.after = a.after /\ d.before = a.before
      /\ d.from = b.from /\ d.to = b.to /\ d.amount = b.amount
      /\ d.network = b.network /\ d.asset = b.asset /\ d.name = b.name
      /\ d.version = b.version
  BY <1>2, <1>3 DEF HasFields, IntentFields
<1>5. \A f \in IntentFields \ {"digest", "payer"} : d[f] = a[f]
  BY <1>1, <1>2, <1>4 DEF IntentFields
<1>6. Digest(d) = Digest(a)
  BY <1>4, <1>5, DigestIs
<1> QED
  BY <1>1, <1>3, <1>6 DEF DigestOfOwn

-----------------------------------------------------------------------------
\* Every lookup of the evidence came back right, and nothing is missing.
Faultless(o, e, age, policy) ==
  /\ policy # Null => ~ (age < 0) /\ ~ (age > policy.maxAge)
  /\ e.packageExists # FALSE /\ e.entrypoint # FALSE /\ e.missing = {}
  /\ e.name # Null => o.name = e.name
  /\ o.decimals # Null /\ e.decimals # Null => o.decimals = e.decimals

LEMMA EvidenceClear ==
  ASSUME NEW o, NEW e, NEW age, NEW policy, EvaluateEvidence(o, e, age, policy) = {}
  PROVE  Faultless(o, e, age, policy)
<1> DEFINE K == Reasons(e.packageExists = FALSE, "asset_package_not_found", "block")
           L == Reasons(e.entrypoint = FALSE, "authorization_entrypoint_missing", "block")
           M == Reasons(o.decimals # Null /\ e.decimals # Null /\ o.decimals # e.decimals,
                        "asset_decimals_mismatch", "block")
           N == Reasons(e.name # Null /\ o.name # e.name, "authorization_field_mismatch",
                        "block")
           P == Reasons(e.missing # {}, "evidence_unavailable", "review")
           Q == Reasons(policy # Null /\ (age < 0 \/ age > policy.maxAge),
                        "evidence_unavailable", "review")
<1>1. EvaluateEvidence(o, e, age, policy) = K \cup L \cup M \cup N \cup P \cup Q
  BY Zenon DEF EvaluateEvidence
<1>2. K = {} /\ L = {} /\ M = {} /\ N = {} /\ P = {} /\ Q = {}
  <2> HIDE DEF K, L, M, N, P, Q
  <2> QED
    BY <1>1
<1>3. ~ (e.packageExists = FALSE) /\ ~ (e.entrypoint = FALSE) /\ ~ (e.missing # {})
  BY <1>2, NoFinding, Zenon
<1>4. ~ (e.name # Null /\ o.name # e.name)
  BY <1>2, NoFinding, Zenon
<1>5. ~ (o.decimals # Null /\ e.decimals # Null /\ o.decimals # e.decimals)
  BY <1>2, NoFinding, Zenon
<1>6. ~ (policy # Null /\ (age < 0 \/ age > policy.maxAge))
  BY <1>2, NoFinding, Zenon
<1> QED
  BY <1>3, <1>4, <1>5, <1>6, Zenon DEF Faultless

\* Another scheme is tolerated by the policy, or it is the same.
LEMMA ResourceClear ==
  ASSUME NEW t, NEW policy, NEW p, EvaluateResource(t, policy, p) = {}
  PROVE  /\ t.sameHost /\ t.samePath
         /\ t.sameScheme \/ policy.tolerateScheme
<1> DEFINE tolerated == policy # Null /\ p # Null
                          /\ policy.tolerateScheme /\ p.kind = "pin"
           K == Reasons(~ t.sameHost, "resource_origin_mismatch", "block")
           L == Reasons(~ t.sameScheme /\ ~ tolerated, "resource_scheme_mismatch", "review")
           M == Reasons(~ t.samePath, "provider_tuple_changed", "review")
<1>1. EvaluateResource(t, policy, p) = K \cup L \cup M
  BY Zenon DEF EvaluateResource
<1>2. K = {} /\ L = {} /\ M = {}
  <2> HIDE DEF K, L, M
  <2> QED
    BY <1>1
<1>3. ~ ~ t.sameHost /\ ~ ~ t.samePath /\ ~ (~ t.sameScheme /\ ~ tolerated)
  BY <1>2, NoFinding, Zenon
<1> QED
  BY <1>3, Zenon

\* Nothing about minting is known that the policy wants to be reviewed.
LEMMA MintingClear ==
  ASSUME NEW e, NEW policy, policy # Null, policy.reviewAdvisories,
         EvaluateInvestmentAdvisories(e, policy) = {}
  PROVE  e.mintBurn # TRUE /\ e.publicMint # TRUE
<1> DEFINE K == Reasons(policy # Null /\ policy.reviewAdvisories /\ e.mintBurn = TRUE,
                        "cep18_mint_burn_enabled", "review")
           L == Reasons(policy # Null /\ policy.reviewAdvisories /\ e.mintBurn # TRUE
                          /\ e.publicMint = TRUE, "public_mint_entrypoint", "review")
<1>1. EvaluateInvestmentAdvisories(e, policy) = K \cup L
  BY Zenon DEF EvaluateInvestmentAdvisories
<1>2. K = {} /\ L = {}
  <2> HIDE DEF K, L
  <2> QED
    BY <1>1
<1>3. ~ (policy # Null /\ policy.reviewAdvisories /\ e.mintBurn = TRUE)
  BY <1>2, NoFinding, Zenon
<1>4. ~ (policy # Null /\ policy.reviewAdvisories /\ e.mintBurn # TRUE /\ e.publicMint = TRUE)
  BY <1>2, NoFinding, Zenon
<1> QED
  BY <1>3, <1>4, Zenon

\* What holds when the API has decided PAY, of each of the things it judges.
TermsSay(o, now) ==
  /\ terms # Null /\ now \in Nat /\ o.amount \in Nat /\ o.timeout \in 1 .. 900
  /\ ChargeJustified(o)

EvidenceSays(o) ==
  /\ evidence # Null /\ TokenJustified(o)
  /\ evidence.packageExists = TRUE /\ evidence.entrypoint = TRUE
  /\ evidence.name = o.name
  /\ o.decimals # Null => evidence.decimals = o.decimals

ProviderSays(o, p, now) ==
  \E i \in {k \in DOMAIN case.decisions : Covers(case.decisions[k], case.request, o)} :
    /\ \A j \in {k \in DOMAIN case.decisions :
                   Covers(case.decisions[k], case.request, o)} : i <= j
    /\ p = case.decisions[i]
    /\ p.kind = "pin" /\ p.expiresAt > now /\ o.amount <= p.ceiling
    /\ SoundProvider(p)

PolicySays(o, now) ==
  /\ case.policy # Null /\ SoundPolicy(case.policy)
  /\ case.policy.effectiveAt <= now
  /\ o.network \in case.policy.networks
  /\ Origin(case.request) \notin case.policy.deniedOrigins
  /\ o.payTo \notin case.policy.deniedPayees
  /\ o.asset \notin case.policy.deniedAssets
  /\ case.policy.cap # Null /\ case.policy.cap \in Nat /\ o.amount <= case.policy.cap
  /\ case.ledger.spent + case.ledger.reserved + o.amount <= case.policy.cap
  /\ case.ledger.active < case.policy.maximum /\ ~ case.ledger.replayed

AuthorizationSays(o, a, now) ==
  /\ a # Null /\ HasFields(a) /\ a.payer = "payer" /\ a.payer \in case.policy.payers
  /\ a.after \in Nat /\ a.before \in Nat
  /\ a.after <= now /\ now < a.before /\ now \in a.after .. (a.before - 1)
  /\ ~ Mismatches(a, o, case.policy, now)
  /\ a.before - a.after <= case.policy.window /\ a.before - now <= o.timeout

PaySays(o, a, p, now) ==
  /\ TermsSay(o, now) /\ EvidenceSays(o) /\ ProviderSays(o, p, now)
  /\ PolicySays(o, now) /\ AuthorizationSays(o, a, now)

LEMMA PayMeans ==
  ASSUME Traced, decision # Null, decision.verdict = "pay",
         NEW o, o = terms.offer, NEW a, a = Approved,
         NEW p, p = decision.provider, NEW now, now = case.clock.evaluated
  PROVE  PaySays(o, a, p, now)
<1>1. /\ EvaluateResource(terms, case.policy, p) = {}
      /\ EvaluateInvestmentAdvisories(evidence, case.policy) = {}
      /\ EvaluateEvidence(o, evidence, case.clock.evidenceAge, case.policy) = {}
      /\ EvaluateProvider(p, o, now) = {}
      /\ EvaluatePolicy(case.policy, case.request, o, a, case.ledger, now) = {}
      /\ EvaluateAuthorization(a, o, case.policy, case.ledger, now) = {}
      /\ p = SelectProviderDecision(case.decisions, case.request, o)
  BY PayMeansNothing
<1>2. /\ evidence # Null /\ terms # Null /\ now \in Nat
      /\ case.intent.preparedAt \in Nat /\ case.clock.evidenceAge \in Int
      /\ case.token.flag \in FlagAnswers
  BY DEF Traced, SoundPurchase
<1>3. o.amount \in Nat /\ o.timeout \in 1 .. 900
  BY <1>2, TermsMean DEF SoundOffer, WellFormed
<1>4. a # Null => a.after \in Nat /\ a.before \in Nat
  <2>1. PICK c : c = case.intent
    OBVIOUS
  <2>2. a = Authorization(o, c)
    BY <2>1 DEF Approved
  <2> QED
    BY <1>2, <1>3, <2>1, <2>2, TimesAre
<1>5. PICK e, age, policy, ledger :
        e = evidence /\ age = case.clock.evidenceAge /\ policy = case.policy
        /\ ledger = case.ledger
  OBVIOUS
<1>6. /\ e.packageExists # FALSE /\ e.entrypoint # FALSE /\ e.missing = {}
      /\ e.name # Null => o.name = e.name
      /\ o.decimals # Null /\ e.decimals # Null => o.decimals = e.decimals
      /\ policy # Null => ~ (age < 0) /\ ~ (age > policy.maxAge)
  <2>1. EvaluateEvidence(o, e, age, policy) = {}
    BY <1>1, <1>5
  <2>2. Faultless(o, e, age, policy)
    BY <2>1, EvidenceClear, Zenon
  <2> QED
    BY <2>2 DEF Faultless
<1>7. /\ case.token.package = "found" /\ case.token.contract = "bound"
      /\ HasAuthorization(case.token) /\ case.token.name # Null
      /\ case.token.symbol # Null /\ case.token.decimals # Null
      /\ evidence.packageExists = TRUE /\ evidence.entrypoint = TRUE
      /\ evidence.name = case.token.name
      /\ evidence.decimals = case.token.decimals
      /\ evidence.mintBurn = MintBurn(case.token)
      /\ evidence.publicMint = PublicMint(case.token)
  BY <1>2, <1>5, <1>6, EvidenceMeans, Zenon
<1>8. /\ case.token.name = o.name /\ evidence.name = o.name
      /\ o.decimals \in {Null, case.token.decimals}
      /\ o.decimals # Null => evidence.decimals = o.decimals
  BY <1>5, <1>6, <1>7
<1>9. \E i \in {k \in DOMAIN case.decisions : Covers(case.decisions[k], case.request, o)} :
        /\ \A j \in {k \in DOMAIN case.decisions :
                       Covers(case.decisions[k], case.request, o)} : i <= j
        /\ p = case.decisions[i]
        /\ p.kind = "pin" /\ p.expiresAt > now /\ o.amount <= p.ceiling
        /\ SoundProvider(p)
  BY <1>1, <1>2, <1>3, ProviderMeans
<1>10. /\ case.policy # Null /\ SoundPolicy(case.policy)
       /\ case.policy.effectiveAt <= now
       /\ o.network \in case.policy.networks
       /\ a # Null => a.payer \in case.policy.payers
       /\ Origin(case.request) \notin case.policy.deniedOrigins
       /\ o.payTo \notin case.policy.deniedPayees
       /\ o.asset \notin case.policy.deniedAssets
       /\ case.policy.cap # Null /\ case.policy.cap \in Nat
       /\ case.ledger.spent + case.ledger.reserved + o.amount <= case.policy.cap
       /\ o.amount <= case.policy.cap
       /\ case.ledger.active < case.policy.maximum
  BY <1>1, <1>2, <1>3, PolicyMeans
<1>11. /\ a # Null /\ ~ Mismatches(a, o, policy, now)
       /\ now \in a.after .. (a.before - 1)
       /\ a.after <= now /\ now < a.before
       /\ ~ ledger.replayed
  BY <1>1, <1>2, <1>4, <1>5, AuthorizationMeans
<1>12. HasFields(a) /\ a.payer = "payer"
  <2>1. PICK c, b, w : /\ c = case.intent /\ b = BuildAuthorizationIntent(o, c)
                       /\ w = BuildAuthorizationWindow(c.preparedAt, o.timeout)
    OBVIOUS
  <2>2. a = Authorization(o, c)
    BY <2>1 DEF Approved
  <2>3. HasFields(a) /\ a.payer \in {b.payer, Null}
    BY <1>11, <2>1, <2>2, AuthorizationIs
  <2>4. b.payer = "payer"
    BY <2>1, BuiltIs
  <2>5. a.payer # Null
    BY <1>10, <1>11 DEF SoundPolicy
  <2> QED
    BY <2>3, <2>4, <2>5
<1>13. ChargeJustified(o)
  <2>1. /\ terms.sameHost /\ terms.samePath
        /\ terms.sameScheme \/ policy.tolerateScheme
    <3>1. PICK t : t = terms
      OBVIOUS
    <3> QED
      BY <1>1, <1>5, <3>1, ResourceClear, Zenon
  <2> QED
    BY <1>2, <1>5, <2>1, TermsMean, Zenon DEF ChargeJustified
<1>14. TokenJustified(o)
  <2>1. case.clock.evidenceAge \in 0 .. case.policy.maxAge
    BY <1>2, <1>5, <1>6, <1>10 DEF SoundPolicy
  <2>2. /\ case.token.entryPoints # Null
        /\ "transfer_with_authorization" \in case.token.entryPoints
    BY <1>7 DEF HasAuthorization
  <2>3. ASSUME case.policy.reviewAdvisories
        PROVE  case.token.flag # "on" /\ "mint" \notin case.token.entryPoints
    <3>1. e.mintBurn # TRUE /\ e.publicMint # TRUE
      BY <1>1, <1>5, <1>10, <2>3, MintingClear, Zenon
    <3>2. PICK token : token = case.token
      OBVIOUS
    <3>3. token.flag # "on"
      BY <1>5, <1>7, <3>1, <3>2 DEF MintBurn
    <3>4. "mint" \notin token.entryPoints
      BY <1>5, <1>7, <2>2, <3>1, <3>2 DEF PublicMint
    <3> QED
      BY <3>2, <3>3, <3>4
  <2> QED
    BY <1>7, <1>8, <2>1, <2>2, <2>3, Zenon DEF TokenJustified
<1>15. a.before - a.after <= case.policy.window /\ a.before - now <= o.timeout
  <2>1. /\ ~ (policy # Null /\ a.before - a.after > policy.window)
        /\ ~ (a.before - now > o.timeout)
    BY <1>11, Zenon DEF Mismatches
  <2>2. policy # Null /\ policy.window \in Nat
    BY <1>5, <1>10 DEF SoundPolicy
  <2>3. PICK after, before, window, timeout :
          after = a.after /\ before = a.before /\ window = policy.window /\ timeout = o.timeout
    OBVIOUS
  <2>4. after \in Nat /\ before \in Nat /\ window \in Nat /\ timeout \in 1 .. 900 /\ now \in Nat
    BY <1>2, <1>3, <1>4, <1>11, <2>2, <2>3
  <2>5. ~ (before - after > window) /\ ~ (before - now > timeout)
    BY <2>1, <2>2, <2>3, Zenon
  <2>6. before - after <= window /\ before - now <= timeout
    BY <2>4, <2>5
  <2> QED
    BY <1>5, <2>3, <2>6, Zenon
<1> QED
  <2>1. TermsSay(o, now)
    BY <1>2, <1>3, <1>13 DEF TermsSay
  <2>2. EvidenceSays(o)
    BY <1>2, <1>7, <1>8, <1>14 DEF EvidenceSays
  <2>3. ProviderSays(o, p, now)
    BY <1>9 DEF ProviderSays
  <2>4. PolicySays(o, now)
    BY <1>5, <1>10, <1>11 DEF PolicySays
  <2>5. AuthorizationSays(o, a, now)
    BY <1>4, <1>5, <1>10, <1>11, <1>12, <1>15 DEF AuthorizationSays
  <2> QED
    BY <2>1, <2>2, <2>3, <2>4, <2>5 DEF PaySays

LEMMA PayIsJustified == Traced => PayJustified
<1> SUFFICES ASSUME Traced, decision # Null, decision.verdict = "pay"
             PROVE  PayJustified
  BY DEF PayJustified
<1>1. PICK o, a, c, p, now :
        /\ o = terms.offer /\ c = case.intent /\ a = Authorization(o, c)
        /\ p = decision.provider /\ now = case.clock.evaluated
  OBVIOUS
<1>2. PaySays(o, a, p, now)
  <2>1. a = Approved
    BY <1>1 DEF Approved
  <2> QED
    BY <1>1, <2>1, PayMeans, Zenon
<1>3. ChargeJustified(o) /\ TokenJustified(o)
  BY <1>2 DEF PaySays, TermsSay, EvidenceSays
<1>4. ProviderJustified(o, now)
  BY <1>2 DEF PaySays, ProviderSays, ProviderJustified
<1>5. PolicyJustified(o, now)
  BY <1>2, Zenon DEF PaySays, PolicySays, PolicyJustified
<1>6. /\ a # Null /\ a.payer \in case.policy.payers
      /\ now \in a.after .. (a.before - 1)
      /\ a.before - a.after <= case.policy.window /\ a.before - now <= o.timeout
  BY <1>2, Zenon DEF PaySays, AuthorizationSays
<1>7. a.digest = Digest([BuildAuthorizationIntent(o, c) EXCEPT
                           !.nonce = a.nonce, !.after = a.after, !.before = a.before])
  <2>1. PICK b, policy : b = BuildAuthorizationIntent(o, c) /\ policy = case.policy
    OBVIOUS
  <2>2. HasFields(a) /\ a.payer = "payer" /\ ~ Mismatches(a, o, policy, now)
    BY <1>1, <1>2, <2>1 DEF PaySays, AuthorizationSays
  <2>3. DigestOfOwn(a, b)
    BY <2>1, <2>2, OwnCharge, Zenon
  <2> QED
    BY <2>1, <2>3 DEF DigestOfOwn
<1>8. AuthorizationJustified(o, now)
  BY <1>1, <1>6, <1>7, Zenon DEF AuthorizationJustified
<1> QED
  BY <1>1, <1>3, <1>4, <1>5, <1>8, Zenon DEF PayJustified

\* PAY means that every rule held, for every purchase whose parts are of the
\* right kind: the charge is for what was asked and the token contract, read
\* in time, is the one it names (its flag for minting may be unread); the
\* newest rule about this charge is a pin that lasts and allows the amount;
\* the policy covers the network, the payer and the sums and denies nothing of
\* it; and what was signed is this charge, inside a window that is not too
\* long.
THEOREM PayAlwaysJustified == ClientsSpec => []PayJustified
BY TracedInvariant, PayIsJustified, PTL

-----------------------------------------------------------------------------
(***************************************************************************)
(* Receipts.                                                               *)
(***************************************************************************)
LEMMA NoError ==
  ASSUME NEW x, NEW field, ~ x
  PROVE  Error(x, field) = {}
BY DEF Error

\* A match is a finalized transaction that differs in nothing.
MatchSays(a) ==
  /\ ~ Differs(a, proof.decoded, case.execution)
  /\ proof.verdict = "match" /\ proof.block = case.execution.block
  /\ proof.at = case.clock.settled

LEMMA MatchMeans ==
  ASSUME Traced, proof # Null, proof.verdict = "match", NEW a, a = Approved
  PROVE  MatchSays(a)
<1>1. PICK x, d : x = case.execution /\ d = Decoded(a, x)
  OBVIOUS
<1>2. PICK verdict :
        verdict = CASE x.answer \in {"error", "unsupported"} -> "unverifiable"
                    [] x.answer = "pending" -> "pending"
                    [] x.answer = "finalized" /\ Differs(a, d, x) -> "mismatch"
                    [] OTHER -> "match"
  OBVIOUS
<1>3. proof = [ verdict |-> verdict, decoded |-> d, at |-> case.clock.settled,
                block |-> x.answer = "finalized" /\ x.block ]
  <2>1. proof = SettlementProof
    BY DEF Traced
  <2> QED
    BY <1>1, <1>2, <2>1 DEF SettlementProof
<1>4. x.answer \in ExecutionAnswers /\ x.block \in BOOLEAN
  BY <1>1 DEF Traced, SoundPurchase
<1>5. verdict = "match"
  BY <1>3
<1>6. x.answer = "finalized" /\ ~ Differs(a, d, x)
  BY <1>2, <1>4, <1>5 DEF ExecutionAnswers
<1>7. proof.decoded = d /\ proof.block = x.block /\ proof.at = case.clock.settled
  BY <1>3, <1>4, <1>6
<1> QED
  BY <1>1, <1>6, <1>7 DEF MatchSays

LEMMA SettlementVerified ==
  ASSUME NEW a, MatchSays(a)
  PROVE  VerifySettlement(a) = Error(~ proof.block, "settlement.blockHash")
<1>1. PICK d, x : d = proof.decoded /\ x = case.execution
  OBVIOUS
<1>2. /\ ~ d.error /\ d.hash = "reported" /\ d.chain = "casper-test"
      /\ d.entryPoint = "transfer_with_authorization"
      /\ ~ (\E f \in Compared \cup {"payer"} : d.transfer[f] # a[f])
      /\ VerifyAuthorizationSignature(a, Signature(a, x))
  BY <1>1 DEF MatchSays, Differs
<1> DEFINE A == Error(proof.verdict # "match", "settlement.verdict")
           B == Error(~ proof.block, "settlement.blockHash")
           C == Error(d.hash # "reported" \/ d.chain # "casper-test", "settlement.decoded")
           D == Error(d.entryPoint # "transfer_with_authorization",
                      "settlement.decoded.entryPoint")
           E == Error(\E f \in Compared \cup {"payer"} : d.transfer[f] # a[f],
                      "settlement.decoded")
           F == Error(d.error, "settlement.decoded.executionError")
           G == Error(~ VerifyAuthorizationSignature(a, Signature(a, x)),
                      "settlement.decoded.signature")
<1>3. VerifySettlement(a) = A \cup B \cup C \cup D \cup E \cup F \cup G
  BY <1>1 DEF VerifySettlement
<1>4. A = {} /\ C = {} /\ D = {}
  BY <1>2 DEF MatchSays, Error
<1>5. E = {}
  BY <1>2, NoError, Zenon
<1>6. F = {} /\ G = {}
  BY <1>2 DEF Error
<1>7. VerifySettlement(a) = B
  <2> HIDE DEF A, B, C, D, E, F, G
  <2> QED
    BY <1>3, <1>4, <1>5, <1>6
<1> QED
  BY <1>7

LEMMA BindingsVerified ==
  ASSUME Traced, decision # Null, decision.verdict = "pay",
         NEW o, o = terms.offer, NEW a, a = Approved,
         NEW p, p = decision.provider, NEW now, now = case.clock.evaluated
  PROVE  VerifyBindings(a) = {}
<1>1. PaySays(o, a, p, now)
  BY PayMeans, Zenon
<1>2. /\ decision.reasons = {} /\ decision.basis = "operator_pinned"
      /\ decision.reserved = o.amount /\ decision.at = now
      /\ decision.digest = IF a = Null THEN Null ELSE Digest(a)
  BY PayMeansNothing, Zenon
<1>3. PICK policy, url, e :
        policy = case.policy /\ url = case.charge.resource /\ e = evidence
  OBVIOUS
<1>4. ~ Mismatches(a, o, policy, now) /\ a # Null
  BY <1>1, <1>3 DEF PaySays, AuthorizationSays
<1>5. /\ a.from = Account(a.payer) /\ a.to = o.payTo /\ a.amount = o.amount
      /\ a.network = o.network /\ a.asset = o.asset
      /\ a.name = o.name /\ a.version = o.version
      /\ a.digest = Digest(a) /\ ~ (policy # Null /\ a.before - a.after > policy.window)
      /\ ~ (a.before - now > o.timeout)
  BY <1>4, Zenon DEF Mismatches
<1> DEFINE A == Error(\/ terms.sameHost # (case.request.host = url.host)
                      \/ terms.sameScheme # (case.request.scheme = url.scheme)
                      \/ terms.samePath # (case.request.path = url.path),
                      "terms.resourceComparison")
           B == Error(decision.verdict # "pay" \/ decision.basis # "operator_pinned", "decision")
           C == Error(decision.digest # a.digest, "decision.authorizationDigest")
           D == Error(decision.reserved # o.amount, "decision.reservation")
           E == Error(decision.reasons # {}, "decision.reasons")
           F == Error(o.network \notin policy.networks \/ a.payer \notin policy.payers, "policy")
           G == Error(p.kind # "pin" \/ ~ Covers(p, case.request, o) \/ p.ceiling < o.amount,
                      "providerDecision")
           H == Error(policy.cap = Null \/ policy.cap < o.amount, "policy.assetDailyCaps")
           I == Error(\/ a.from # Account(a.payer) \/ a.to # o.payTo \/ a.amount # o.amount
                      \/ a.network # o.network \/ a.asset # o.asset
                      \/ a.name # o.name \/ a.version # o.version, "authorization")
           J == Error(\/ e.packageExists # TRUE \/ e.entrypoint # TRUE \/ e.name # o.name
                      \/ o.decimals # Null /\ e.decimals # o.decimals, "evidence")
           K == Error(policy.effectiveAt > decision.at, "policy.effectiveAt")
           L == Error(p.expiresAt <= decision.at, "providerDecision.expiresAt")
           M == Error(\/ a.after > decision.at \/ a.before <= decision.at
                      \/ a.before - a.after > policy.window
                      \/ a.before - decision.at > o.timeout, "authorization.validBefore")
<1>6. VerifyBindings(a) = A \cup B \cup C \cup D \cup E \cup F \cup G \cup H \cup I \cup J
                            \cup K \cup L \cup M
  BY <1>3 DEF VerifyBindings
<1>7. A = {}
  <2>1. terms # Null
    BY <1>1 DEF PaySays, TermsSay
  <2>2. /\ terms.sameHost = (case.request.host = url.host)
        /\ terms.sameScheme = (case.request.scheme = url.scheme)
        /\ terms.samePath = (case.request.path = url.path)
    BY <1>3, <2>1, TermsMean
  <2> QED
    BY <2>2, Zenon DEF Error
<1>8. B = {} /\ C = {} /\ D = {} /\ E = {}
  BY <1>2, <1>4, <1>5 DEF Error
<1>9. F = {} /\ H = {}
  BY <1>1, <1>3, <1>4 DEF Error, PaySays, PolicySays, AuthorizationSays, TermsSay, SoundPolicy
<1>10. p.kind = "pin" /\ Covers(p, case.request, o) /\ p.expiresAt > now
       /\ o.amount <= p.ceiling /\ p.ceiling \in Nat /\ p.expiresAt \in Nat
  BY <1>1 DEF PaySays, ProviderSays, SoundProvider
<1>11. G = {}
  BY <1>1, <1>10 DEF Error, PaySays, TermsSay
<1>12. I = {}
  BY <1>5 DEF Error
<1>13. J = {}
  BY <1>1, <1>3 DEF Error, PaySays, EvidenceSays
<1>14. K = {}
  BY <1>1, <1>2, <1>3 DEF Error, PaySays, PolicySays, SoundPolicy, TermsSay
<1>15. L = {}
  BY <1>1, <1>2, <1>10 DEF Error, PaySays, TermsSay
<1>16. M = {}
  <2>1. /\ a.after <= now /\ now < a.before /\ now \in Nat /\ a.after \in Nat
        /\ a.before \in Nat /\ policy # Null
    BY <1>1, <1>3 DEF PaySays, AuthorizationSays, TermsSay, PolicySays
  <2>2. /\ ~ (a.after > decision.at) /\ ~ (a.before <= decision.at)
        /\ ~ (a.before - a.after > policy.window)
        /\ ~ (a.before - decision.at > o.timeout)
    BY <1>2, <1>5, <2>1
  <2> QED
    BY <2>2, NoError, Zenon
<1> HIDE DEF A, B, C, D, E, F, G, H, I, J, K, L, M
<1> QED
  BY <1>6, <1>7, <1>8, <1>9, <1>11, <1>12, <1>13, <1>14, <1>15, <1>16

LEMMA ReceiptIsComplete == Traced => ReceiptComplete
<1> SUFFICES ASSUME Traced, receipt # Null
             PROVE  receipt = IF case.execution.block THEN {} ELSE {"settlement.blockHash"}
  BY DEF ReceiptComplete
<1>1. /\ proof # Null /\ proof.verdict = "match" /\ decision # Null
      /\ decision.verdict = "pay" /\ receipt = VerifyPurchaseReceipt
      /\ Observable(case.response, case.clock.recorded)
      /\ case.clock.settled <= case.clock.recorded
      /\ case.clock.settled \in Nat /\ case.clock.recorded \in Nat
      /\ case.response.observedAt \in Nat
  BY DEF Traced, SoundPurchase
<1>2. PICK o, a, p, now :
        /\ o = terms.offer /\ a = Approved
        /\ p = decision.provider /\ now = case.clock.evaluated
  OBVIOUS
<1>3. PaySays(o, a, p, now)
  BY <1>1, <1>2, PayMeans, Zenon
<1>4. VerifyBindings(a) = {}
  BY <1>1, <1>2, BindingsVerified, Zenon
<1>5. /\ VerifySettlement(a) = Error(~ case.execution.block, "settlement.blockHash")
      /\ proof.at = case.clock.settled
  <2>1. MatchSays(a)
    BY <1>1, <1>2, MatchMeans, Zenon
  <2> QED
    BY <2>1, SettlementVerified, Zenon DEF MatchSays
<1>6. VerifyArtifactHashes(a) = {}
  <2>1. a.digest = Digest(a)
    BY <1>3, Zenon DEF PaySays, AuthorizationSays, Mismatches
  <2> QED
    BY <2>1 DEF VerifyArtifactHashes, Error
<1>7. VerifySignedControls = {}
  <2>1. case.policy.signed = SignedAction("policy_revision", case.policy)
    BY <1>3 DEF PaySays, PolicySays, SoundPolicy
  <2>2. p.signed = SignedAction("provider_decision", p)
    BY <1>3 DEF PaySays, ProviderSays, SoundProvider
  <2> QED
    BY <1>2, <2>1, <2>2 DEF VerifySignedControls, Error
<1>8. VerifyResponseAndAnchor(case.response, case.clock.recorded) = {}
  <2>1. ~ (case.response.observedAt > case.clock.recorded)
    BY <1>1 DEF Observable
  <2>2. ~ (proof.at > case.clock.recorded)
    BY <1>1, <1>5
  <2> QED
    BY <2>1, <2>2 DEF VerifyResponseAndAnchor, Error
<1>9. receipt = Error(~ case.execution.block, "settlement.blockHash")
  BY <1>1, <1>2, <1>4, <1>5, <1>6, <1>7, <1>8 DEF VerifyPurchaseReceipt
<1> QED
  BY <1>9 DEF Error

\* The checks buildPurchaseReceipt makes once more, apart from the evaluator's
\* and the comparison's, find an error in exactly one case: the node left out
\* the block of the transaction. Every other purchase that was approved, paid
\* as approved and observed gets its receipt.
THEOREM ReceiptAlwaysComplete == ClientsSpec => []ReceiptComplete
BY TracedInvariant, ReceiptIsComplete, PTL

-----------------------------------------------------------------------------
(***************************************************************************)
(* Authorizations that are prepared in time.                               *)
(***************************************************************************)
Untimely(r, o, e) ==
  \/ r.code \in {"authorization_not_yet_valid", "authorization_expired"}
  \/ r.code = "authorization_field_mismatch" /\ e.name \in {Null, o.name}

\* The window is judged with the authorization, and the fields there and
\* with the name of the token; no other rule has these findings.
LEMMA OtherFindings ==
  ASSUME NEW t, NEW e, NEW c, NEW p, NEW o, NEW a, NEW age, NEW now
  PROVE  \A r \in EvaluateResource(t, c.policy, p)
                  \cup EvaluateEvidence(o, e, age, c.policy)
                  \cup EvaluateProvider(p, o, now)
                  \cup EvaluatePolicy(c.policy, c.request, o, a, c.ledger, now)
                  \cup EvaluateInvestmentAdvisories(e, c.policy) :
           ~ Untimely(r, o, e)
<1>0. \A x, code, result : \A r \in Reasons(x, code, result) : r.code = code
  BY DEF Reasons
<1>1. \A r \in EvaluateResource(t, c.policy, p) : ~ Untimely(r, o, e)
  BY <1>0 DEF EvaluateResource, Untimely
<1>2. \A r \in EvaluateEvidence(o, e, age, c.policy) : ~ Untimely(r, o, e)
  <2> DEFINE policy == c.policy
             K == Reasons(e.packageExists = FALSE, "asset_package_not_found", "block")
             L == Reasons(e.entrypoint = FALSE, "authorization_entrypoint_missing", "block")
             M == Reasons(o.decimals # Null /\ e.decimals # Null /\ o.decimals # e.decimals,
                          "asset_decimals_mismatch", "block")
             N == Reasons(e.name # Null /\ o.name # e.name, "authorization_field_mismatch",
                          "block")
             P == Reasons(e.missing # {}, "evidence_unavailable", "review")
             Q == Reasons(policy # Null /\ (age < 0 \/ age > policy.maxAge),
                          "evidence_unavailable", "review")
  <2>1. EvaluateEvidence(o, e, age, policy) = K \cup L \cup M \cup N \cup P \cup Q
    BY Zenon DEF EvaluateEvidence
  <2>2. \A r \in N : r.code = "authorization_field_mismatch" /\ e.name \notin {Null, o.name}
    BY DEF Reasons
  <2>3. /\ \A r \in K : r.code = "asset_package_not_found"
        /\ \A r \in L : r.code = "authorization_entrypoint_missing"
        /\ \A r \in M : r.code = "asset_decimals_mismatch"
        /\ \A r \in P : r.code = "evidence_unavailable"
        /\ \A r \in Q : r.code = "evidence_unavailable"
    BY <1>0, Zenon
  <2> HIDE DEF K, L, M, N, P, Q, policy
  <2> QED
    BY <2>1, <2>2, <2>3 DEF Untimely, policy
<1>3. \A r \in EvaluateProvider(p, o, now) : ~ Untimely(r, o, e)
  BY <1>0 DEF EvaluateProvider, Untimely
<1>4. \A r \in EvaluatePolicy(c.policy, c.request, o, a, c.ledger, now) :
         ~ Untimely(r, o, e)
  <2>1. CASE c.policy = Null
    BY <1>0, <2>1 DEF EvaluatePolicy, Untimely
  <2>2. CASE c.policy # Null
    <3> DEFINE policy == c.policy
               L == Reasons(policy.effectiveAt > now, "policy_cap_missing", "review")
               M == Reasons(o.network \notin policy.networks, "unsupported_network", "block")
               N == Reasons(a # Null /\ a.payer \notin policy.payers, "operator_denied", "block")
               O == Reasons(\/ Origin(c.request) \in policy.deniedOrigins
                            \/ o.payTo \in policy.deniedPayees
                            \/ o.asset \in policy.deniedAssets, "operator_denied", "block")
               P == Reasons(policy.cap = Null, "policy_cap_missing", "review")
               Q == Reasons(policy.cap # Null
                              /\ c.ledger.spent + c.ledger.reserved + o.amount > policy.cap,
                            "policy_daily_cap_exceeded", "block")
               R == Reasons(c.ledger.active >= policy.maximum, "policy_daily_cap_exceeded",
                            "block")
    <3>1. EvaluatePolicy(policy, c.request, o, a, c.ledger, now)
            = L \cup M \cup N \cup O \cup P \cup Q \cup R
      BY <2>2, Zenon DEF EvaluatePolicy
    <3>2. /\ \A r \in L : r.code = "policy_cap_missing"
          /\ \A r \in M : r.code = "unsupported_network"
          /\ \A r \in N : r.code = "operator_denied"
          /\ \A r \in O : r.code = "operator_denied"
          /\ \A r \in P : r.code = "policy_cap_missing"
          /\ \A r \in Q : r.code = "policy_daily_cap_exceeded"
          /\ \A r \in R : r.code = "policy_daily_cap_exceeded"
      BY <1>0, Zenon
    <3> HIDE DEF L, M, N, O, P, Q, R, policy
    <3> QED
      BY <3>1, <3>2 DEF policy, Untimely
  <2> QED
    BY <2>1, <2>2
<1>5. \A r \in EvaluateInvestmentAdvisories(e, c.policy) : ~ Untimely(r, o, e)
  BY <1>0 DEF EvaluateInvestmentAdvisories, Untimely
<1> QED
  BY <1>1, <1>2, <1>3, <1>4, <1>5

\* The window of a prepared authorization, at a time when it can be used.
LEMMA PreparedWindow ==
  ASSUME NEW o, NEW c, c.preparedAt \in Nat, o.timeout \in 1 .. 900,
         NEW b, b = BuildAuthorizationIntent(o, c), NEW now \in Nat,
         NEW start, start = c.preparedAt - AtMost(Skew, AtMost(o.timeout - 1, c.preparedAt)),
         now \in start .. (start + o.timeout - 1)
  PROVE  /\ b.after \in Nat /\ b.before \in Nat
         /\ b.after <= now /\ now < b.before
         /\ b.before - now <= o.timeout /\ b.before - b.after = o.timeout
<1>1. PICK w, t, timeout : /\ t = c.preparedAt /\ timeout = o.timeout
                           /\ w = BuildAuthorizationWindow(t, timeout)
  OBVIOUS
<1>2. PICK skew : skew = AtMost(Skew, AtMost(timeout - 1, t))
  OBVIOUS
<1>3. /\ w.after = t - skew /\ w.before = t - skew + timeout
      /\ skew \in Nat /\ skew < timeout /\ skew <= t
      /\ w.after \in Nat /\ w.before \in Nat
  <2>1. t \in Nat /\ timeout \in 1 .. 900
    BY <1>1
  <2>2. w = BuildAuthorizationWindow(t, timeout)
    BY <1>1
  <2>3. Window(w, t, timeout, skew)
    <3>1. Window(BuildAuthorizationWindow(t, timeout), t, timeout,
                 AtMost(Skew, AtMost(timeout - 1, t)))
      BY <2>1, WindowIs, Zenon
    <3> QED
      BY <1>2, <2>2, <3>1
  <2> QED
    BY <2>3 DEF Window
<1>4. b.after = w.after /\ b.before = w.before
  BY <1>1, BuiltIs
<1>5. start = t - skew
  BY <1>1, <1>2
<1>6. t \in Nat /\ timeout \in 1 .. 900 /\ now \in start .. (start + timeout - 1)
  BY <1>1
<1>7. PICK after, before : after = b.after /\ before = b.before
  OBVIOUS
<1>8. after = t - skew /\ before = t - skew + timeout
  BY <1>3, <1>4, <1>7
<1>9. /\ after \in Nat /\ before \in Nat /\ after <= now /\ now < before
      /\ before - now <= timeout /\ before - after = timeout
  BY <1>3, <1>5, <1>6, <1>8
<1> QED
  BY <1>1, <1>7, <1>9

\* What was prepared and not touched agrees with its charge.
LEMMA PreparedAgrees ==
  ASSUME NEW o, NEW c, NEW b, b = BuildAuthorizationIntent(o, c),
         NEW policy, NEW now,
         ~ (policy # Null /\ b.before - b.after > policy.window),
         ~ (b.before - now > o.timeout)
  PROVE  ~ Mismatches(b, o, policy, now)
<1>1. /\ b.from = Account(b.payer) /\ b.to = o.payTo /\ b.amount = o.amount
      /\ b.network = o.network /\ b.asset = o.asset
      /\ b.name = o.name /\ b.version = o.version /\ b.digest = Digest(b)
  <2>1. PICK w : w = BuildAuthorizationWindow(c.preparedAt, o.timeout)
    OBVIOUS
  <2> QED
    BY <2>1, BuiltIs DEF Account
<1> QED
  BY <1>1, Zenon DEF Mismatches

LEMMA NoAuthorizationFinding ==
  ASSUME NEW o, NEW e, NEW a, NEW policy, NEW ledger, NEW now, a # Null,
         ~ Mismatches(a, o, policy, now), ~ (a.after > now), ~ (a.before <= now)
  PROVE  \A r \in EvaluateAuthorization(a, o, policy, ledger, now) : ~ Untimely(r, o, e)
<1> DEFINE K == Reasons(Mismatches(a, o, policy, now), "authorization_field_mismatch", "block")
           L == Reasons(a.after > now, "authorization_not_yet_valid", "block")
           M == Reasons(a.before <= now, "authorization_expired", "block")
           N == Reasons(ledger.replayed, "authorization_replay", "block")
<1>1. EvaluateAuthorization(a, o, policy, ledger, now) = K \cup L \cup M \cup N
  BY Zenon DEF EvaluateAuthorization
<1>2. K = {} /\ L = {} /\ M = {}
  BY DEF Reasons
<1>3. \A r \in N : r.code = "authorization_replay"
  BY DEF Reasons
<1> HIDE DEF K, L, M, N
<1> QED
  BY <1>1, <1>2, <1>3 DEF Untimely

LEMMA IsPreparedInTime == Traced => PreparedInTime
<1> SUFFICES ASSUME Traced, decision # Null, case.intent.prepared,
                    case.intent.altered = {}, case.intent.tampered = {},
                    NEW o, o = terms.offer, NEW c, c = case.intent,
                    NEW start,
                    start = c.preparedAt - AtMost(Skew, AtMost(o.timeout - 1, c.preparedAt)),
                    NEW now, now = case.clock.evaluated,
                    now \in start .. (start + o.timeout - 1),
                    NEW b, b = BuildAuthorizationIntent(o, c)
             PROVE  /\ b.after <= now /\ now < b.before /\ b.before - now <= o.timeout
                    /\ case.policy # Null /\ case.policy.window >= o.timeout
                         => \A r \in decision.reasons : ~ Untimely(r, o, evidence)
  BY DEF PreparedInTime, Untimely
<1>1. /\ c.preparedAt \in Nat /\ now \in Nat /\ terms # Null
      /\ case.policy # Null => case.policy.window \in Nat
  BY DEF Traced, SoundPurchase, SoundPolicy
<1>2. o.timeout \in 1 .. 900
  BY <1>1, TermsMean DEF WellFormed
<1>3. /\ b.after \in Nat /\ b.before \in Nat /\ b.after <= now /\ now < b.before
      /\ b.before - now <= o.timeout /\ b.before - b.after = o.timeout
  BY <1>1, <1>2, PreparedWindow
<1>4. ASSUME case.policy # Null, case.policy.window >= o.timeout
      PROVE  \A r \in decision.reasons : ~ Untimely(r, o, evidence)
  <2>1. PICK a, e, policy, ledger, p :
          /\ a = Approved /\ e = evidence /\ policy = case.policy /\ ledger = case.ledger
          /\ p = SelectProviderDecision(case.decisions, case.request, o)
    OBVIOUS
  <2>2. a = b
    <3>1. a = Authorization(o, c)
      BY <2>1 DEF Approved
    <3> QED
      BY <3>1, Untouched
  <2>3. a # Null
    BY <1>1, <2>2, TermsMean DEF SoundOffer
  <2>4. ~ Mismatches(a, o, policy, now)
    <3>1. ~ (policy # Null /\ b.before - b.after > policy.window)
      BY <1>1, <1>2, <1>3, <1>4, <2>1
    <3>2. ~ (b.before - now > o.timeout)
      BY <1>1, <1>2, <1>3
    <3> QED
      BY <2>2, <3>1, <3>2, PreparedAgrees
  <2>5. ~ (a.after > now) /\ ~ (a.before <= now)
    BY <1>1, <1>3, <2>2
  <2>6. \A r \in EvaluateAuthorization(a, o, policy, ledger, now) : ~ Untimely(r, o, e)
    BY <2>3, <2>4, <2>5, NoAuthorizationFinding, Zenon
  <2>7. PICK t, cc, age : t = terms /\ cc = case /\ age = case.clock.evidenceAge
    OBVIOUS
  <2>8. \A r \in EvaluateResource(t, cc.policy, p)
                 \cup EvaluateEvidence(o, e, age, cc.policy)
                 \cup EvaluateProvider(p, o, now)
                 \cup EvaluatePolicy(cc.policy, cc.request, o, a, cc.ledger, now)
                 \cup EvaluateInvestmentAdvisories(e, cc.policy) : ~ Untimely(r, o, e)
    BY OtherFindings, Zenon
  <2>9. decision.reasons =
          EvaluateResource(t, cc.policy, p)
          \cup EvaluateEvidence(o, e, age, cc.policy)
          \cup EvaluateProvider(p, o, now)
          \cup EvaluatePolicy(cc.policy, cc.request, o, a, cc.ledger, now)
          \cup EvaluateAuthorization(a, o, policy, ledger, now)
          \cup EvaluateInvestmentAdvisories(e, cc.policy)
    BY <2>1, <2>7 DEF Traced, PaymentDecision
  <2> QED
    BY <2>1, <2>6, <2>8, <2>9
<1> QED
  BY <1>3, <1>4

\* An authorization the client prepared from the charge is inside its window
\* for the server, although the two clocks differ by the allowance, whatever
\* the timeout of the charge and whatever the allowance.
THEOREM AlwaysPreparedInTime == ClientsSpec => []PreparedInTime
BY TracedInvariant, IsPreparedInTime, PTL

-----------------------------------------------------------------------------
(***************************************************************************)
(* Calls.                                                                  *)
(***************************************************************************)
CallSound ==
  /\ call = [at |-> call.at, signed |-> call.signed, attempt |-> call.attempt]
  /\ call.at # "none" => Library(case.intent)
  /\ call.at \in {"none", "probe"} => call.signed = Null
  /\ call.at \in {"check", "pay", "poll", "observe", "done"} => OwnTerms # Null
  /\ call.at \in {"pay", "poll", "observe", "done"} => call.signed # Null

\* What was signed, and what a call has got beyond its signature.
SignedSound ==
  /\ call.signed # Null =>
       /\ Library(case.intent)
       /\ decision # Null /\ decision.verdict = "pay"
       /\ terms = OwnTerms /\ decision.digest = call.signed.digest
       /\ call.signed = OwnIntent
  /\ call.at \in {"observe", "done"} => proof # Null /\ proof.verdict = "match"
  /\ call.at = "done" => receipt # Null /\ receipt = {}

CallInv == Traced /\ CallSound /\ SignedSound

\* What the rules have found stays found.
LEMMA RulesKeep ==
  ASSUME [Next]_vars
  PROVE  /\ UNCHANGED case
         /\ terms # Null => UNCHANGED terms
         /\ evidence # Null => UNCHANGED evidence
         /\ decision # Null => UNCHANGED decision
         /\ proof # Null => UNCHANGED proof
         /\ receipt # Null => UNCHANGED receipt
BY DEF Next, vars, NormalizeCharge, LoadEvidence, EvaluatePayment, CompareSettlement,
       BuildPurchaseReceipt

\* A call that stays where it is keeps what holds of it.
LEMMA CallStays ==
  ASSUME CallInv, [Next]_vars, UNCHANGED call
  PROVE  CallInv'
<1>1. Traced'
  BY TracedStep DEF CallInv
<1>2. case' = case /\ OwnTerms' = OwnTerms /\ OwnIntent' = OwnIntent
  BY RulesKeep DEF OwnTerms, OwnIntent
<1>3. CallSound'
  BY <1>2 DEF CallInv, CallSound
<1>4. SignedSound'
  <2>1. ASSUME call.signed # Null
        PROVE  /\ decision # Null /\ terms # Null
               /\ decision' = decision /\ terms' = terms
    BY <2>1, RulesKeep DEF CallInv, SignedSound, Traced
  <2>2. ASSUME call.at \in {"observe", "done"}
        PROVE  proof # Null /\ proof' = proof
    BY <2>2, RulesKeep DEF CallInv, SignedSound
  <2>3. ASSUME call.at = "done"
        PROVE  receipt' # Null /\ receipt' = {}
    BY <2>3, RulesKeep DEF CallInv, SignedSound
  <2> QED
    BY <1>2, <2>1, <2>2, <2>3 DEF CallInv, SignedSound
<1> QED
  BY <1>1, <1>3, <1>4 DEF CallInv

\* The intent of this call is none of those a foreign answer may carry.
LEMMA OwnIsNoForeign ==
  ASSUME Traced, terms # Null, terms = OwnTerms
  PROVE  /\ OwnIntent \notin ForeignIntents /\ OwnIntent.digest # Null
         /\ OwnIntent # Null /\ OwnIntent.digest = Digest(OwnIntent)
<1>1. PICK b, w : /\ b = OwnIntent
                  /\ w = BuildAuthorizationWindow(case.intent.preparedAt, OwnTerms.offer.timeout)
  OBVIOUS
<1>2. HasFields(b) /\ b.nonce = "nonce" /\ b.digest = Digest(b)
  BY <1>1, BuiltIs DEF OwnIntent
<1>3. SoundOffer(terms.offer, case)
  BY TermsMean
<1>4. Null # b /\ Null # b.digest
  BY <1>1, <1>3 DEF SoundOffer, OwnIntent
<1>5. b # [b EXCEPT !.nonce = "another"]
  <2>1. [b EXCEPT !.nonce = "another"].nonce = "another"
    BY <1>2 DEF HasFields, IntentFields
  <2> QED
    BY <1>2, <2>1
<1>6. b # Replaced(b, {"nonce", "digest"})
  <2>1. Replaced(b, {"nonce", "digest"})["nonce"] = Null
    BY <1>2, ReplacedIs DEF IntentFields
  <2> QED
    BY <1>2, <2>1, RulesAssumption
<1> QED
  BY <1>1, <1>2, <1>4, <1>5, <1>6 DEF ForeignIntents

\* The answer a call signs after is the API's about this very purchase.
LEMMA OnlyOwnAnswer ==
  ASSUME Traced, terms # Null, terms = OwnTerms, NEW answer \in {Answered} \cup ForeignAnswers,
         VerifyCheckBinding(answer), answer.verdict = "pay"
  PROVE  answer = Answered
<1> SUFFICES ASSUME answer \in ForeignAnswers
             PROVE  FALSE
  OBVIOUS
<1>1. PICK own, request, t : own = OwnIntent /\ request = case.request /\ t = terms
  OBVIOUS
<1>2. PICK paid : paid = [Answered EXCEPT !.verdict = "pay", !.digest = OwnIntent.digest]
  OBVIOUS
<1>3. paid = [ authorization |-> own, request |-> request, terms |-> t, verdict |-> "pay",
               digest |-> own.digest ]
  BY <1>1, <1>2 DEF Answered
<1>4. /\ answer.authorization = own /\ answer.request = request
      /\ answer.terms = t /\ answer.digest = own.digest
  BY <1>1 DEF VerifyCheckBinding
<1>5. request # Null /\ t # Null /\ own.digest # Null /\ own \notin ForeignIntents
  BY <1>1, OwnIsNoForeign DEF Traced, SoundPurchase
<1>6. \/ \E a \in ForeignIntents : answer = [paid EXCEPT !.authorization = a]
      \/ answer = [paid EXCEPT !.request = Null]
      \/ answer = [paid EXCEPT !.terms = Null]
      \/ answer = [paid EXCEPT !.digest = Null]
  BY <1>2, Zenon DEF ForeignAnswers
<1>7. ASSUME NEW a \in ForeignIntents, answer = [paid EXCEPT !.authorization = a]
      PROVE  FALSE
  <2>1. answer.authorization = a
    BY <1>3, <1>7
  <2> QED
    BY <1>4, <1>5, <2>1
<1>8. answer # [paid EXCEPT !.request = Null]
  BY <1>3, <1>4, <1>5
<1>9. answer # [paid EXCEPT !.terms = Null]
  BY <1>3, <1>4, <1>5
<1>10. answer # [paid EXCEPT !.digest = Null]
  BY <1>3, <1>4, <1>5
<1> QED
  BY <1>6, <1>7, <1>8, <1>9, <1>10

LEMMA CallStep == CallInv /\ CallNext => CallInv'
<1> SUFFICES ASSUME CallInv, CallNext
             PROVE  CallInv'
  OBVIOUS
<1>1. ASSUME UNCHANGED vars
      PROVE  /\ Traced' /\ OwnTerms' = OwnTerms /\ OwnIntent' = OwnIntent
             /\ case' = case /\ terms' = terms /\ decision' = decision
             /\ proof' = proof /\ receipt' = receipt
  BY <1>1, TracedStep DEF CallInv, vars, OwnTerms, OwnIntent
<1>2. PICK at, signed, attempt : call = [at |-> at, signed |-> signed, attempt |-> attempt]
  BY DEF CallInv, CallSound
<1>3. CASE ReadChallenge
  <2>1. OwnTerms # Null /\ at = "probe" /\ UNCHANGED vars
        /\ call' = [at |-> "check", signed |-> signed, attempt |-> attempt]
    BY <1>2, <1>3 DEF ReadChallenge, Proceed
  <2> QED
    BY <1>1, <1>2, <2>1 DEF CallInv, CallSound, SignedSound
<1>4. CASE CheckAnswers
  <2>1. PICK answer \in {Answered} \cup ForeignAnswers :
          /\ VerifyCheckBinding(answer) /\ answer.verdict = "pay"
          /\ SignAuthorizationIntent(OwnIntent) # Null
          /\ call.at = "check"
          /\ call' = [call EXCEPT !.at = "pay", !.signed = SignAuthorizationIntent(OwnIntent)]
    BY <1>4 DEF CheckAnswers
  <2>2. UNCHANGED vars /\ decision # Null
    BY <1>4 DEF CheckAnswers
  <2>3. terms # Null /\ terms = OwnTerms
    BY <2>2 DEF CallInv, Traced, OwnTerms
  <2>4. answer = Answered
    BY <2>1, <2>3, OnlyOwnAnswer DEF CallInv
  <2>5. decision.verdict = "pay" /\ decision.digest = OwnIntent.digest
    BY <2>1, <2>4 DEF Answered, VerifyCheckBinding
  <2>6. SignAuthorizationIntent(OwnIntent) = OwnIntent
    BY <2>1 DEF SignAuthorizationIntent
  <2>7. PICK own : own = OwnIntent
    OBVIOUS
  <2>8. call' = [at |-> "pay", signed |-> own, attempt |-> attempt] /\ own # Null
    BY <1>2, <2>1, <2>6, <2>7
  <2>9. Library(case.intent) /\ OwnTerms # Null
    BY <2>1, <2>3 DEF CallInv, CallSound
  <2> QED
    BY <1>1, <2>2, <2>3, <2>5, <2>7, <2>8, <2>9 DEF CallInv, CallSound, SignedSound
<1>5. CASE PaidResponse
  <2>1. PICK to \in {"poll", "failed"} :
          /\ call.at = "pay" /\ call' = [call EXCEPT !.at = to] /\ UNCHANGED vars
    BY <1>5 DEF PaidResponse, Proceed
  <2>2. at = "pay" /\ call' = [at |-> to, signed |-> signed, attempt |-> attempt]
    BY <1>2, <2>1
  <2> QED
    BY <1>1, <1>2, <2>1, <2>2 DEF CallInv, CallSound, SignedSound
<1>6. CASE PollSettlement
  <2>1. PICK verdict \in IF proof = Null THEN {"pending", "unverifiable"} ELSE {proof.verdict} :
          \/ verdict = "match" /\ call' = [call EXCEPT !.at = "observe"]
          \/ call' = [call EXCEPT !.attempt = @ + 1]
          \/ call' = [call EXCEPT !.at = "failed"]
    BY <1>6 DEF PollSettlement
  <2>2. UNCHANGED vars /\ at = "poll"
    BY <1>2, <1>6 DEF PollSettlement
  <2>3. CASE verdict = "match" /\ call' = [call EXCEPT !.at = "observe"]
    <3>1. call' = [at |-> "observe", signed |-> signed, attempt |-> attempt]
      BY <1>2, <2>3
    <3>2. proof # Null /\ proof.verdict = "match"
      BY <2>1, <2>3
    <3> QED
      BY <1>1, <1>2, <2>2, <3>1, <3>2 DEF CallInv, CallSound, SignedSound
  <2>4. CASE call' = [call EXCEPT !.attempt = @ + 1]
    <3>1. call' = [at |-> "poll", signed |-> signed, attempt |-> attempt + 1]
      BY <1>2, <2>2, <2>4
    <3> QED
      BY <1>1, <1>2, <2>2, <3>1 DEF CallInv, CallSound, SignedSound
  <2>5. CASE call' = [call EXCEPT !.at = "failed"]
    <3>1. call' = [at |-> "failed", signed |-> signed, attempt |-> attempt]
      BY <1>2, <2>5
    <3> QED
      BY <1>1, <1>2, <2>2, <3>1 DEF CallInv, CallSound, SignedSound
  <2> QED
    BY <2>1, <2>3, <2>4, <2>5
<1>7. CASE Observed
  <2>1. receipt # Null /\ receipt = {} /\ at = "observe" /\ UNCHANGED vars
        /\ call' = [at |-> "done", signed |-> signed, attempt |-> attempt]
    BY <1>2, <1>7 DEF Observed, Proceed
  <2> QED
    BY <1>1, <1>2, <2>1 DEF CallInv, CallSound, SignedSound
<1>8. CASE CallFails
  <2>1. at # "none" /\ UNCHANGED vars
        /\ call' = [at |-> "failed", signed |-> signed, attempt |-> attempt]
    BY <1>2, <1>8 DEF CallFails
  <2> QED
    BY <1>1, <1>2, <2>1 DEF CallInv, CallSound, SignedSound
<1> QED
  BY <1>3, <1>4, <1>5, <1>6, <1>7, <1>8, CallStays DEF CallNext, Serve, Next

LEMMA CallInvariant == ClientsSpec => []CallInv
<1>1. ClientsInit => CallInv
  <2> SUFFICES ASSUME ClientsInit
               PROVE  CallInv
    OBVIOUS
  <2>1. \E c \in Cases : \E near \in Beside(c) : Begin(near)
    BY RulesAssumption DEF ClientsInit, CallInit, Init, Beside
  <2>2. \E at \in {"none", "probe"} : CallAt(at) /\ (at = "probe" => Library(case.intent))
    BY DEF ClientsInit, CallInit
  <2>3. Traced
    BY <2>1, RulesAssumption DEF Begin, Traced
  <2> QED
    BY <2>2, <2>3 DEF CallInv, CallSound, SignedSound, CallAt
<1>2. CallInv /\ [ClientsNext]_<<callVars, operatorVars, client>> => CallInv'
  <2> SUFFICES ASSUME CallInv, [ClientsNext]_<<callVars, operatorVars, client>>
               PROVE  CallInv'
    OBVIOUS
  <2>1. CASE UNCHANGED callVars
    <3>1. UNCHANGED call /\ [Next]_vars
      BY <2>1 DEF callVars
    <3> QED
      BY <3>1, CallStays
  <2>2. CASE CallNext
    BY <2>2, CallStep
  <2> QED
    BY <2>1, <2>2 DEF ClientsNext
<1> QED
  BY <1>1, <1>2, PTL DEF ClientsSpec

LEMMA SignsOnlyOwn == CallInv => SignsOwnApproved
<1> SUFFICES ASSUME CallInv, call.at = "done"
             PROVE  /\ proof.verdict = "match" /\ receipt = {}
                    /\ \A f \in Compared : proof.decoded.transfer[f] = call.signed[f]
  BY DEF SignsOwnApproved, CallInv, SignedSound
<1>1. /\ proof # Null /\ proof.verdict = "match"
      /\ call.signed = OwnIntent /\ terms = OwnTerms /\ Library(case.intent)
  BY DEF CallInv, CallSound, SignedSound
<1>2. receipt = {}
  BY DEF CallInv, SignedSound
<1>3. PICK a, o, c : a = OwnIntent /\ o = terms.offer /\ c = case.intent
  OBVIOUS
<1>4. a = Approved
  <2>1. a = BuildAuthorizationIntent(o, c)
    BY <1>1, <1>3 DEF OwnIntent
  <2>2. Authorization(o, c) = a
    BY <1>1, <1>3, <2>1, Untouched DEF Library
  <2> QED
    BY <1>3, <2>2 DEF Approved
<1>5. MatchSays(a)
  BY <1>1, <1>4, MatchMeans, Zenon DEF CallInv
<1>6. \A f \in Compared : proof.decoded.transfer[f] = a[f]
  BY <1>5 DEF MatchSays, Differs
<1> QED
  BY <1>1, <1>2, <1>3, <1>6

\* Nothing is signed but what the operator's rules approved: the API decided
\* PAY about this very purchase, with the terms and the digest the library
\* made itself, whatever check its answer carried; and a call that returns
\* has paid just that, and its receipt has no error.
THEOREM SignsOnlyOwnApproved == ClientsSpec => []SignsOwnApproved
BY CallInvariant, SignsOnlyOwn, PTL

-----------------------------------------------------------------------------
(***************************************************************************)
(* Commands of an operator.                                                *)
(***************************************************************************)
\* The caps that the policy of revision r replaces.
Before(r) == IF r = 1 THEN [a \in Assets |-> NoCap] ELSE books.policies[r - 1].content.caps

\* A revision that is signed was made from the one before it, which stays.
MadeFrom(revision, content) ==
  /\ revision \in 1 .. (Len(books[client]) + 1)
  /\ client = "policies" /\ content.made = "wallet" =>
       content.caps = [Before(revision) EXCEPT ![content.asset] = content.cap]

CommandSound(c) ==
  \/ c = Idles
  \/ c = [at |-> "read", intent |-> c.intent] /\ BookOf(c.intent) = client
  \/ /\ c = [at |-> c.at, intent |-> c.intent, revision |-> c.revision, content |-> c.content]
     /\ c.at \in {"sign", "wait", "done"} /\ BookOf(c.intent) = client
     /\ MadeFrom(c.revision, c.content)
     /\ c.at = "done" => /\ c.revision <= Len(books[client])
                         /\ books[client][c.revision].content = c.content

BooksSound ==
  /\ client \in Books \cup {"call"}
  /\ books = [b \in Books |-> books[b]]
  /\ \A b \in Books : books[b] \in Seq(ToSet(books[b]))
  /\ \A i \in 1 .. Len(books.policies) :
       LET policy == books.policies[i].content
       IN policy.made = "wallet" => policy.caps = [Before(i) EXCEPT ![policy.asset] = policy.cap]

CommandsSound ==
  /\ commands = [m \in Commands |-> commands[m]]
  /\ \A m \in Commands : CommandSound(commands[m])

ArrivingSound ==
  \A s \in arriving : /\ s.command \in Commands /\ s.book = client
                      /\ MadeFrom(s.revision, s.content)

OperatorInv ==
  BooksSound /\ (client \in Books => CommandsSound /\ ArrivingSound)
             /\ (client = "call" => commands = [m \in Commands |-> Idles])

Appended(s, e, t) ==
  /\ t \in Seq(ToSet(t)) /\ Len(s) \in Nat /\ Len(t) = Len(s) + 1
  /\ \A i \in 1 .. Len(s) : t[i] = s[i]
  /\ t[Len(s) + 1] = e

LEMMA AppendIs ==
  ASSUME NEW s, s \in Seq(ToSet(s)), NEW e, NEW t, t = Append(s, e)
  PROVE  Appended(s, e, t)
<1>1. PICK S : S = ToSet(s) \cup {e}
  OBVIOUS
<1>2. s \in Seq(S)
  BY <1>1
<1>3. /\ Len(s) \in Nat /\ t \in Seq(S) /\ Len(t) = Len(s) + 1
      /\ \A i \in 1 .. Len(s) : t[i] = s[i]
      /\ t[Len(s) + 1] = e
  BY <1>1, <1>2
<1>4. t \in Seq(ToSet(t))
  BY <1>3 DEF ToSet
<1> QED
  BY <1>3, <1>4 DEF Appended

\* Books only grow: what a command has read of one, stays.
Grown == \A b \in Books : /\ Len(books[b]) \in Nat /\ Len(books[b])' \in Nat
                          /\ Len(books[b]) <= Len(books[b])'
                          /\ \A i \in 1 .. Len(books[b]) : books[b][i]' = books[b][i]

LEMMA BeforeStays ==
  ASSUME Grown, NEW r \in 1 .. (Len(books.policies) + 1)
  PROVE  Before(r)' = Before(r)
<1>1. "policies" \in Books
  BY DEF Books
<1>2. CASE r = 1
  BY <1>2 DEF Before
<1>3. CASE r # 1
  <2>1. r - 1 \in 1 .. Len(books.policies)
    BY <1>1, <1>3 DEF Grown
  <2>2. books.policies[r - 1]' = books.policies[r - 1]
    BY <1>1, <2>1 DEF Grown
  <2> QED
    BY <1>3, <2>2 DEF Before
<1> QED
  BY <1>2, <1>3

LEMMA MadeStays ==
  ASSUME Grown, UNCHANGED client, client \in Books,
         NEW r, NEW content, MadeFrom(r, content)
  PROVE  MadeFrom(r, content)'
<1>1. r \in 1 .. (Len(books[client])' + 1)
  BY DEF Grown, MadeFrom
<1>2. ASSUME client = "policies"
      PROVE  Before(r)' = Before(r)
  BY <1>2, BeforeStays DEF MadeFrom
<1> QED
  BY <1>1, <1>2 DEF MadeFrom

LEMMA CommandStays ==
  ASSUME Grown, UNCHANGED client, client \in Books, NEW c, CommandSound(c)
  PROVE  CommandSound(c)'
<1>1. CASE \/ c = Idles
           \/ c = [at |-> "read", intent |-> c.intent] /\ BookOf(c.intent) = client
  BY <1>1 DEF CommandSound
<1>2. CASE /\ c = [at |-> c.at, intent |-> c.intent, revision |-> c.revision,
                   content |-> c.content]
           /\ c.at \in {"sign", "wait", "done"} /\ BookOf(c.intent) = client
           /\ MadeFrom(c.revision, c.content)
           /\ c.at = "done" => /\ c.revision <= Len(books[client])
                               /\ books[client][c.revision].content = c.content
  <2>1. MadeFrom(c.revision, c.content)'
    BY <1>2, MadeStays
  <2>2. ASSUME c.at = "done"
        PROVE  /\ c.revision <= Len(books[client])'
               /\ books[client][c.revision]'.content = c.content
    <3>1. c.revision \in 1 .. Len(books[client])
      BY <1>2, <2>2 DEF MadeFrom, Grown
    <3> QED
      BY <1>2, <2>2, <3>1 DEF Grown
  <2> QED
    BY <1>2, <2>1, <2>2 DEF CommandSound
<1> QED
  BY <1>1, <1>2 DEF CommandSound

\* Books that stay have grown by nothing.
LEMMA BooksStay ==
  ASSUME OperatorInv, UNCHANGED <<books, client>>
  PROVE  Grown /\ BooksSound'
<1>1. \A b \in Books : Len(books[b]) \in Nat
  BY DEF OperatorInv, BooksSound
<1>2. Grown
  BY <1>1 DEF Grown
<1>3. BooksSound'
  BY DEF OperatorInv, BooksSound, Before
<1> QED
  BY <1>2, <1>3

\* One command changes.
LEMMA OneCommand ==
  ASSUME OperatorInv, client \in Books, UNCHANGED client, Grown,
         NEW m \in Commands, NEW c, commands' = [commands EXCEPT ![m] = c], CommandSound(c)'
  PROVE  CommandsSound'
<1>1. ASSUME NEW n \in Commands, NEW d, d = commands'[n]
      PROVE  CommandSound(d)'
  <2>1. CASE n = m
    <3>1. d = c
      BY <1>1, <2>1 DEF OperatorInv, CommandsSound
    <3> QED
      BY <3>1
  <2>2. CASE n # m
    <3>1. d = commands[n]
      BY <1>1, <2>2 DEF OperatorInv, CommandsSound
    <3>2. CommandSound(d)
      BY <3>1 DEF OperatorInv, CommandsSound
    <3> QED
      BY <3>2, CommandStays
  <2> QED
    BY <2>1, <2>2
<1>2. commands' = [n \in Commands |-> commands'[n]]
  BY DEF OperatorInv, CommandsSound
<1>3. ASSUME NEW n \in Commands
      PROVE  CommandSound(commands[n])'
  <2>1. PICK d : d = commands'[n]
    OBVIOUS
  <2>2. CommandSound(d)'
    BY <1>1, <2>1
  <2> QED
    BY <2>1, <2>2
<1> QED
  BY <1>2, <1>3 DEF CommandsSound

\* What is under way stays what it is.
LEMMA ArrivingStays ==
  ASSUME OperatorInv, client \in Books, UNCHANGED client, Grown, NEW s \in arriving
  PROVE  s.command \in Commands /\ s.book = client' /\ MadeFrom(s.revision, s.content)'
<1>1. s.command \in Commands /\ s.book = client /\ MadeFrom(s.revision, s.content)
  BY DEF OperatorInv, ArrivingSound
<1> QED
  BY <1>1, MadeStays

LEMMA NoneArrives ==
  ASSUME OperatorInv, client \in Books, UNCHANGED client, Grown,
         arriving' \subseteq arriving
  PROVE  ArrivingSound'
<1>1. ASSUME NEW s \in arriving'
      PROVE  s.command \in Commands /\ s.book = client' /\ MadeFrom(s.revision, s.content)'
  BY <1>1, ArrivingStays
<1> QED
  BY <1>1 DEF ArrivingSound

LEMMA OperatorStep ==
  ASSUME OperatorInv, client \in Books, UNCHANGED client,
         OperatorSteps({i \in Intents : BookOf(i) = client})
  PROVE  OperatorInv'
<1>0. client # "call" /\ BooksSound /\ CommandsSound /\ ArrivingSound
  BY DEF Books, OperatorInv
<1>1. ASSUME Grown, BooksSound', CommandsSound', ArrivingSound'
      PROVE  OperatorInv'
  BY <1>0, <1>1 DEF OperatorInv
<1>2. ASSUME NEW m \in Commands, NEW intent, BookOf(intent) = client, BeginCommand(m, intent)
      PROVE  OperatorInv'
  <2>1. PICK c : c = [at |-> "read", intent |-> intent]
    OBVIOUS
  <2>2. CommandSound(c)'
    BY <1>2, <2>1 DEF CommandSound
  <2>3. Grown /\ BooksSound'
    BY <1>2, BooksStay DEF BeginCommand
  <2>4. CommandsSound'
    BY <1>2, <2>1, <2>2, <2>3, OneCommand DEF BeginCommand
  <2>5. ArrivingSound'
    BY <1>2, <2>3, NoneArrives DEF BeginCommand
  <2> QED
    BY <1>1, <2>3, <2>4, <2>5
<1>3. ASSUME NEW m \in Commands, ReadCurrent(m)
      PROVE  OperatorInv'
  <2>1. PICK intent, revision, content :
          /\ intent = commands[m].intent /\ revision = NextRevision(BookOf(intent))
          /\ content = ContentOf(intent)
    OBVIOUS
  <2>2. PICK c : c = [at |-> "sign", intent |-> intent, revision |-> revision,
                      content |-> content]
    OBVIOUS
  <2>3. commands' = [commands EXCEPT ![m] = c]
    BY <1>3, <2>1, <2>2 DEF ReadCurrent
  <2>4. BookOf(intent) = client
    <3>1. CommandSound(commands[m]) /\ commands[m].at = "read"
      BY <1>0, <1>3 DEF CommandsSound, ReadCurrent
    <3> QED
      BY <2>1, <3>1 DEF CommandSound, Idles
  <2>5. MadeFrom(revision, content)
    <3>1. revision = Len(books[client]) + 1 /\ Len(books[client]) \in Nat
      BY <1>0, <2>1, <2>4 DEF NextRevision, BooksSound
    <3>2. ASSUME client = "policies", content.made = "wallet"
          PROVE  content.caps = [Before(revision) EXCEPT ![content.asset] = content.cap]
      <4>1. CurrentCaps = Before(revision)
        <5>1. books.policies \in Seq(ToSet(books.policies)) /\ "policies" \in Books
          BY <1>0 DEF BooksSound, Books
        <5>2. revision = 1 <=> books.policies = <<>>
          BY <3>1, <3>2, <5>1
        <5> QED
          BY <3>1, <3>2, <5>1, <5>2 DEF CurrentCaps, Before, Last
      <4>2. intent.kind \in {"install_policy", "save_asset_policy"}
        BY <2>4, <3>2 DEF BookOf
      <4>3. content = IF intent.kind = "install_policy" THEN InstallPolicy(intent)
                      ELSE SaveAssetPolicy(intent)
        BY <2>1, <4>2 DEF ContentOf
      <4>4. content = SaveAssetPolicy(intent)
        BY <3>2, <4>3 DEF InstallPolicy
      <4> QED
        BY <4>1, <4>4 DEF SaveAssetPolicy
    <3> QED
      BY <3>1, <3>2 DEF MadeFrom
  <2>6. Grown /\ BooksSound'
    BY <1>3, BooksStay DEF ReadCurrent
  <2>7. CommandSound(c)'
    <3>1. CommandSound(c)
      BY <2>2, <2>4, <2>5 DEF CommandSound
    <3> QED
      BY <2>6, <3>1, CommandStays
  <2>8. CommandsSound'
    BY <2>3, <2>6, <2>7, OneCommand
  <2>9. ArrivingSound'
    BY <1>3, <2>6, NoneArrives DEF ReadCurrent
  <2> QED
    BY <1>1, <2>6, <2>8, <2>9
<1>4. ASSUME NEW m \in Commands, SignAction(m)
      PROVE  OperatorInv'
  <2>1. PICK intent, revision, content :
          commands[m] = [at |-> "sign", intent |-> intent, revision |-> revision,
                         content |-> content]
          /\ BookOf(intent) = client /\ MadeFrom(revision, content)
    <3>1. CommandSound(commands[m]) /\ commands[m].at = "sign"
      BY <1>0, <1>4 DEF CommandsSound, SignAction
    <3> QED
      BY <3>1 DEF CommandSound, Idles
  <2>2. PICK c : c = [at |-> "wait", intent |-> intent, revision |-> revision,
                      content |-> content]
    OBVIOUS
  <2>3. commands' = [commands EXCEPT ![m] = c]
    <3>1. commands' = [commands EXCEPT ![m].at = "wait", ![m].revision = revision]
      BY <1>4, <2>1 DEF SignAction, SignedRevision
    <3>2. PICK sent : sent = [commands EXCEPT ![m].at = "wait"]
      OBVIOUS
    <3>3. PICK d : d = [at |-> "wait", intent |-> intent, revision |-> revision,
                        content |-> content]
      OBVIOUS
    <3>4. d = [commands[m] EXCEPT !.at = "wait"]
      BY <2>1, <3>3
    <3>5. sent = [commands EXCEPT ![m] = [commands[m] EXCEPT !.at = "wait"]]
      BY <3>2
    <3>6. sent = [commands EXCEPT ![m] = d]
      BY <3>4, <3>5
    <3>7. sent[m] = d
      BY <1>0, <3>6 DEF CommandsSound
    <3>8. commands' = [sent EXCEPT ![m].revision = revision]
      BY <3>1, <3>2
    <3>9. [sent[m] EXCEPT !.revision = revision] = c
      BY <2>2, <3>3, <3>7
    <3>10. commands' = [sent EXCEPT ![m] = c]
      BY <3>8, <3>9
    <3> QED
      BY <3>10, <3>6
  <2>4. PICK s : s = [command |-> m, book |-> client, revision |-> revision,
                      content |-> content]
    OBVIOUS
  <2>5. arriving' = arriving \cup {s}
    BY <1>4, <2>1, <2>4 DEF SignAction, SignedRevision
  <2>6. Grown /\ BooksSound'
    BY <1>4, BooksStay DEF SignAction
  <2>7. CommandSound(c)'
    <3>1. CommandSound(c)
      BY <2>1, <2>2 DEF CommandSound
    <3> QED
      BY <2>6, <3>1, CommandStays
  <2>8. CommandsSound'
    BY <2>3, <2>6, <2>7, OneCommand
  <2>9. ArrivingSound'
    <3>1. ASSUME NEW t \in arriving'
          PROVE  t.command \in Commands /\ t.book = client' /\ MadeFrom(t.revision, t.content)'
      <4>1. CASE t \in arriving
        BY <2>6, <4>1, ArrivingStays
      <4>2. CASE t = s
        <5>1. MadeFrom(revision, content)'
          BY <2>1, <2>6, MadeStays
        <5> QED
          BY <2>4, <4>2, <5>1
      <4> QED
        BY <2>5, <3>1, <4>1, <4>2
    <3> QED
      BY <3>1 DEF ArrivingSound
  <2> QED
    BY <1>1, <2>6, <2>8, <2>9
<1>5. ASSUME NEW m \in Commands, CommandFails(m)
      PROVE  OperatorInv'
  <2>1. Grown /\ BooksSound'
    BY <1>5, BooksStay DEF CommandFails
  <2>2. PICK c : c = Idles
    OBVIOUS
  <2>3. CommandSound(c)'
    BY <2>2 DEF CommandSound
  <2>4. CommandsSound'
    BY <1>5, <2>1, <2>2, <2>3, OneCommand DEF CommandFails
  <2>5. ArrivingSound'
    BY <1>5, <2>1, NoneArrives DEF CommandFails
  <2> QED
    BY <1>1, <2>1, <2>4, <2>5
<1>6. ASSUME NEW s \in arriving, NEW stored \in BOOLEAN, NEW answered \in BOOLEAN,
             Submit(s, stored, answered)
      PROVE  OperatorInv'
  <2>1. /\ s.command \in Commands /\ s.book = client
        /\ MadeFrom(s.revision, s.content)
    BY <1>0 DEF ArrivingSound
  <2>2. PICK m, c, r, content :
          m = s.command /\ c = commands[m] /\ r = s.revision /\ content = s.content
    OBVIOUS
  <2>3. CommandSound(c)
    BY <1>0, <2>1, <2>2 DEF CommandsSound
  <2>4. /\ Grown /\ BooksSound'
        /\ stored => r <= Len(books[client])' /\ books[client][r]'.content = content
    <3>1. CASE ~ stored
      BY <1>6, <3>1, BooksStay DEF Submit
    <3>2. CASE stored
      <4>1. PICK old, new : /\ old = books[client]
                            /\ new = Append(old, [revision |-> r, content |-> content])
        OBVIOUS
      <4>2. r = Len(old) + 1
        BY <1>6, <2>1, <2>2, <3>2, <4>1 DEF Submit, Accepted, NextRevision
      <4>3. books' = [books EXCEPT ![client] = new]
        BY <1>6, <2>1, <2>2, <3>2, <4>1 DEF Submit
      <4>4. books' = [b \in Books |-> IF b = client THEN new ELSE books[b]]
        BY <1>0, <4>3 DEF BooksSound
      <4>5. old \in Seq(ToSet(old))
        BY <1>0, <4>1 DEF BooksSound
      <4>6. /\ new \in Seq(ToSet(new)) /\ Len(old) \in Nat /\ Len(new) = Len(old) + 1
            /\ \A i \in 1 .. Len(old) : new[i] = old[i]
            /\ new[Len(old) + 1] = [revision |-> r, content |-> content]
        <5>1. PICK e : e = [revision |-> r, content |-> content]
          OBVIOUS
        <5>2. new = Append(old, e)
          BY <4>1, <5>1
        <5>3. Appended(old, e, new)
          BY <4>5, <5>2, AppendIs, Zenon
        <5> QED
          BY <5>1, <5>3 DEF Appended
      <4>7. Grown
        <5>1. ASSUME NEW b \in Books
              PROVE  /\ Len(books[b]) \in Nat /\ Len(books[b])' \in Nat
                     /\ Len(books[b]) <= Len(books[b])'
                     /\ \A i \in 1 .. Len(books[b]) : books[b][i]' = books[b][i]
          <6>1. CASE b = client
            BY <4>1, <4>4, <4>6, <6>1
          <6>2. CASE b # client
            BY <1>0, <4>4, <6>2 DEF BooksSound
          <6> QED
            BY <6>1, <6>2
        <5> QED
          BY <5>1 DEF Grown
      <4>8. ASSUME NEW b \in Books
            PROVE  books'[b] \in Seq(ToSet(books'[b]))
        BY <1>0, <4>4, <4>6 DEF BooksSound
      <4>9. ASSUME NEW i \in 1 .. Len(books.policies)', NEW policy,
                   policy = books.policies[i]'.content, policy.made = "wallet"
            PROVE  policy.caps = [Before(i)' EXCEPT ![policy.asset] = policy.cap]
        <5>0. "policies" \in Books
          BY DEF Books
        <5>1. CASE i \in 1 .. Len(books.policies)
          <6>1. policy = books.policies[i].content
            BY <4>7, <4>9, <5>0, <5>1 DEF Grown
          <6>2. policy.caps = [Before(i) EXCEPT ![policy.asset] = policy.cap]
            BY <1>0, <4>9, <5>1, <6>1 DEF BooksSound
          <6>3. Before(i)' = Before(i)
            <7>1. Len(books.policies) \in Nat
              BY <4>7, <5>0 DEF Grown
            <7>2. i \in 1 .. (Len(books.policies) + 1)
              BY <5>1, <7>1
            <7> QED
              BY <4>7, <7>2, BeforeStays
          <6> QED
            BY <6>2, <6>3
        <5>2. CASE i \notin 1 .. Len(books.policies)
          <6>1. client = "policies"
            BY <4>4, <4>9, <5>0, <5>2
          <6>2. i = r /\ policy = content
            BY <4>1, <4>2, <4>4, <4>6, <4>9, <5>0, <5>2, <6>1
          <6>3. content.caps = [Before(r) EXCEPT ![content.asset] = content.cap]
            BY <2>1, <2>2, <4>9, <6>1, <6>2 DEF MadeFrom
          <6>4. Before(r)' = Before(r)
            BY <2>1, <2>2, <4>7, <6>1, BeforeStays DEF MadeFrom
          <6> QED
            BY <6>2, <6>3, <6>4
        <5> QED
          BY <5>1, <5>2
      <4>10. BooksSound'
        <5>1. client' \in Books \cup {"call"} /\ books' = [b \in Books |-> books'[b]]
          BY <4>4
        <5> QED
          BY <4>8, <4>9, <5>1 DEF BooksSound
      <4>11. r <= Len(books[client])' /\ books[client][r]'.content = content
        BY <4>2, <4>4, <4>6
      <4> QED
        BY <4>7, <4>10, <4>11
    <3> QED
      BY <3>1, <3>2
  <2>5. ArrivingSound'
    BY <1>6, <2>4, NoneArrives DEF Submit
  <2>6. CommandsSound'
    <3>1. CASE ~ answered
      <4>1. commands' = [commands EXCEPT ![m] = c]
        BY <1>0, <1>6, <2>2, <3>1 DEF Submit, CommandsSound
      <4>2. CommandSound(c)'
        BY <2>3, <2>4, CommandStays
      <4> QED
        BY <2>1, <2>2, <2>4, <4>1, <4>2, OneCommand
    <3>2. CASE answered /\ ~ stored
      <4>1. PICK d : d = Idles
        OBVIOUS
      <4>2. commands' = [commands EXCEPT ![m] = d]
        BY <1>6, <2>2, <3>2, <4>1 DEF Submit
      <4>3. CommandSound(d)'
        BY <4>1 DEF CommandSound
      <4> QED
        BY <2>1, <2>2, <2>4, <4>2, <4>3, OneCommand
    <3>3. CASE answered /\ stored
      <4>1. c.at = "wait" /\ c.revision = r /\ c.content = content
        BY <1>6, <2>2, <3>3 DEF Submit, WaitsFor
      <4>2. c = [at |-> c.at, intent |-> c.intent, revision |-> c.revision,
                 content |-> c.content]
            /\ BookOf(c.intent) = client /\ MadeFrom(c.revision, c.content)
        BY <2>3, <4>1 DEF CommandSound, Idles
      <4>3. PICK d : d = [at |-> "done", intent |-> c.intent, revision |-> r,
                          content |-> content]
        OBVIOUS
      <4>4. [c EXCEPT !.at = "done"] = d
        BY <4>1, <4>2, <4>3
      <4>5. commands' = [commands EXCEPT ![m] = d]
        BY <1>6, <2>2, <3>3, <4>4 DEF Submit
      <4>6. MadeFrom(r, content)'
        BY <2>1, <2>2, <2>4, MadeStays
      <4>7. CommandSound(d)'
        BY <2>4, <3>3, <4>2, <4>3, <4>6 DEF CommandSound
      <4> QED
        BY <2>1, <2>2, <2>4, <4>5, <4>7, OneCommand
    <3> QED
      BY <3>1, <3>2, <3>3
  <2> QED
    BY <1>1, <2>4, <2>5, <2>6
<1> QED
  BY <1>2, <1>3, <1>4, <1>5, <1>6 DEF OperatorSteps

LEMMA OperatorInvariant == ClientsSpec => []OperatorInv
<1>1. ClientsInit => OperatorInv
  <2> SUFFICES ASSUME ClientsInit
               PROVE  OperatorInv
    OBVIOUS
  <2>1. client \in Books \cup {"call"}
    BY DEF ClientsInit
  <2>2. OperatorInit
    BY DEF ClientsInit
  <2> QED
    BY <2>1, <2>2 DEF OperatorInit, OperatorInv, BooksSound, CommandsSound, CommandSound,
                      ArrivingSound, Books
<1>2. OperatorInv /\ [ClientsNext]_<<callVars, operatorVars, client>> => OperatorInv'
  <2> SUFFICES ASSUME OperatorInv, [ClientsNext]_<<callVars, operatorVars, client>>
               PROVE  OperatorInv'
    OBVIOUS
  <2>1. CASE UNCHANGED <<operatorVars, client>>
    <3>1. UNCHANGED <<books, client>> /\ commands' = commands /\ arriving' = arriving
      BY <2>1 DEF operatorVars
    <3>2. Grown /\ BooksSound'
      BY <3>1, BooksStay
    <3>3. ASSUME client \in Books
          PROVE  CommandsSound' /\ ArrivingSound'
      <4>1. ASSUME NEW m \in Commands
            PROVE  CommandSound(commands[m])'
        <5>1. PICK c : c = commands[m]
          OBVIOUS
        <5>2. CommandSound(c)'
          BY <3>1, <3>2, <3>3, <5>1, CommandStays DEF OperatorInv, CommandsSound
        <5> QED
          BY <3>1, <5>1, <5>2
      <4>2. CommandsSound'
        BY <3>1, <3>3, <4>1 DEF OperatorInv, CommandsSound
      <4> QED
        BY <3>1, <3>2, <3>3, <4>2, NoneArrives
    <3> QED
      BY <3>1, <3>2, <3>3 DEF OperatorInv
  <2>2. CASE /\ client \in Books /\ UNCHANGED client
             /\ OperatorSteps({i \in Intents : BookOf(i) = client})
    BY <2>2, OperatorStep
  <2> QED
    BY <2>1, <2>2 DEF ClientsNext
<1> QED
  BY <1>1, <1>2, PTL DEF ClientsSpec

LEMMA NoneUndone == OperatorInv => NothingUndone
<1> SUFFICES ASSUME OperatorInv
             PROVE  NothingUndone
  OBVIOUS
<1>1. ASSUME NEW i \in 1 .. Len(books.policies), NEW policy,
             policy = books.policies[i].content, policy.made = "wallet"
      PROVE  policy.caps = [Before(i) EXCEPT ![policy.asset] = policy.cap]
  BY <1>1 DEF OperatorInv, BooksSound
<1>2. ASSUME NEW m \in Commands, commands[m].at = "done"
      PROVE  books[BookOf(commands[m].intent)][commands[m].revision].content
               = commands[m].content
  <2>1. CASE client \in Books
    <3>1. CommandSound(commands[m])
      BY <2>1 DEF OperatorInv, CommandsSound
    <3> QED
      BY <1>2, <3>1 DEF CommandSound, Idles
  <2>2. CASE client = "call"
    BY <1>2, <2>2 DEF OperatorInv, Idles
  <2> QED
    BY <2>1, <2>2 DEF OperatorInv, BooksSound
<1> QED
  BY <1>1, <1>2 DEF NothingUndone, Before

\* What another command has signed meanwhile is not undone unseen, however
\* many commands, books and revisions there are: a stored policy of the wallet
\* has the caps of the one it replaces, except for its own asset, and a
\* command that reports success has its revision stored as it was signed.
THEOREM NothingEverUndone == ClientsSpec => []NothingUndone
BY OperatorInvariant, NoneUndone, PTL
=============================================================================
