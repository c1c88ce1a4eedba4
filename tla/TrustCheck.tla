----------------------------- MODULE TrustCheck -----------------------------
(***************************************************************************)
(* Trust checks from the bridge to the registry and the verdict card.  The *)
(* bridge admits a call (BridgeAccess), gets a quote from the report API,  *)
(* pays for the report with the operator's key, compares and verifies what *)
(* it was sold, scores it (TrustRules), records the decision in the        *)
(* registry (RegistryContract) and waits until the chain shows it          *)
(* (trust/assess.ts, tools.ts, apiClient.ts, casperClient.ts).  Anybody    *)
(* may then have a verdict card made of the record (card.ts, app.ts of the *)
(* report API; PublicArtifacts).                                           *)
(*                                                                         *)
(* Every load of evidence makes a dataset of its own.  What the report API *)
(* sells may differ from its quote in one aspect; whether a leaf belongs   *)
(* to a root is answered as it is.  The narrator only writes text.         *)
(***************************************************************************)
EXTENDS BridgeAccess, PublicArtifacts, RegistryContract, TrustRules

CONSTANTS
  Calls,                 \* calls of a tool, each made once
  Requests,              \* where they come from
  Datasets,              \* what the report API loads
  Evidence,              \* facts that a dataset may hold
  Networks,              \* networks of the evidence
  OtherCalls,            \* [caller, entryPoint, args]: what others send to the registry
  Reported,              \* reports that callers of record_decision make up
  MaxRestarts            \* bound: restarts of the bridge

\* The named arguments of a decision.
DecisionFields == {"datasetId", "datasetRoot", "reportHash", "paymentReceiptHash", "decision"}

ASSUME TrustCheckAssumption ==
  /\ MaxRestarts \in Nat
  /\ \A t \in OtherCalls :
       /\ t.entryPoint \in {"record_decision_with_root", "record_purchase_receipt", "set_recorder"}
       /\ t.entryPoint = "record_decision_with_root"
            => t.args = [f \in DecisionFields |-> t.args[f]]

VARIABLES
  calls,      \* the state of every call
  loaded,     \* facts and network of the datasets that were loaded
  paid,       \* payments that were executed: [call, dataset, terms] (history)
  restarts    \* restarts of the bridge so far

checkVars == <<calls, loaded, paid, restarts>>
vars == <<bridgeVars, artifactVars, registryVars, checkVars>>

Idle == [at |-> "idle"]
Failed(call) == [at |-> "failed", budget |-> call.budget]

Init ==
  /\ BridgeInit /\ ArtifactsInit /\ RegistryInit
  /\ calls = [k \in Calls |-> Idle]
  /\ loaded = <<>>
  /\ paid = {}
  /\ restarts = 0

Goes(k, call) == calls' = [calls EXCEPT ![k] = call]
Fails(k) == Goes(k, Failed(calls[k]))

-----------------------------------------------------------------------------
(* The networks a call may ask for: one by name, or the one the subject is   *)
(* known on.                                                               *)
RequestedNetworks == Networks \cup {Null}

(* A call of assess_subject or assess_account.  budget: the day and process *)
(* on whose account it goes, or Null for one that is not limited.           *)
Assess(k) ==
  /\ calls[k] = Idle
  /\ \E request \in Requests, admitted \in BOOLEAN, network \in RequestedNetworks :
       /\ ToolAuthorization("assess_subject", request, admitted)
       /\ Goes(k, IF admitted
                  THEN [ at |-> "quote", requested |-> network,
                         budget |-> IF NeedsBudget("assess_subject", request)
                                    THEN <<Today, restarts>> ELSE Null ]
                  ELSE [at |-> "refused"])
  /\ UNCHANGED <<clock, options, artifactVars, registryVars, loaded, paid, restarts>>

\* The report API loads evidence and names its price; the call may fail.
GetQuote(k) ==
  /\ calls[k].at = "quote"
  /\ \/ Fails(k) /\ UNCHANGED loaded
     \/ \E d \in Datasets \ DOMAIN loaded, facts \in Evidence, network \in Networks,
          terms \in {"expected", "other"} :
          /\ loaded' = Put(loaded, d, [facts |-> facts, network |-> network])
          /\ IF calls[k].requested \notin {Null, network} THEN Fails(k)
             ELSE Goes(k, [ at |-> "settle", budget |-> calls[k].budget,
                            quote |-> [ dataset |-> d, root |-> d, network |-> network,
                                        terms |-> terms ] ])
  /\ UNCHANGED <<bridgeVars, artifactVars, registryVars, paid, restarts>>

\* signer.ts: no signature for a payment that the policy does not expect.
EnforceX402SpendPolicy(terms) == options.policy => terms = "expected"

(* What the report API answers when it was paid: what it quoted, or that    *)
(* with one aspect altered.                                                 *)
Altered(q, aspect) ==
  LET as(field, value) == IF aspect = field THEN "altered" ELSE value
  IN [ root |-> as("root", q.root),
       network |-> as("network", q.network),
       dataset |-> as("dataset", q.dataset),
       terms |-> as("terms", q.terms),
       status |-> as("status", "executed"),
       leaves |-> IF aspect = "leaves" THEN [loaded[q.dataset] EXCEPT !.facts = Null]
                  ELSE loaded[q.dataset],
       families |-> aspect # "families" ]

\* What was paid is what the accepted quote asked for.
RequirePaymentDetails(q, sold) == sold.terms = q.terms

(* Mutated form: the status of the payment is not looked at.                *)
MatchesTerms(q, sold) ==
  /\ sold.root = q.root
  /\ sold.network = q.network
  /\ RequirePaymentDetails(q, sold)
  /\ sold.dataset = q.dataset

\* assess.ts: the report that was sold is the one that was quoted and paid.
MatchesQuote(q, sold) ==
  /\ sold.root = q.root
  /\ sold.network = q.network
  /\ sold.status = "executed"
  /\ RequirePaymentDetails(q, sold)
  /\ sold.dataset = q.dataset

\* The payment is settled or not, and its answer arrives or is lost.
Settle(k) ==
  /\ calls[k].at = "settle"
  /\ LET q == calls[k].quote
     IN \/ Fails(k) /\ UNCHANGED paid
        \/ /\ EnforceX402SpendPolicy(q.terms)
           /\ \E aspect \in {"none", "root", "network", "dataset", "terms", "status",
                             "leaves", "families", "lost"} :
                /\ paid' = IF aspect = "status" THEN paid
                           ELSE paid \cup {[call |-> k, dataset |-> q.dataset,
                                            terms |-> q.terms]}
                /\ IF aspect = "lost" \/ ~ MatchesQuote(q, Altered(q, aspect)) THEN Fails(k)
                   ELSE Goes(k, [ at |-> "verify", budget |-> calls[k].budget, quote |-> q,
                                  sold |-> Altered(q, aspect) ])
  /\ UNCHANGED <<bridgeVars, artifactVars, registryVars, loaded, restarts>>

\* A dataset without one of the required families is not an answer.
RequireEvidenceFamilies(sold) == sold.families

\* Every leaf is committed by the root and is of the quoted network.
VerifiedEvidence(q, sold) ==
  /\ sold.dataset \in DOMAIN loaded /\ sold.root = sold.dataset
  /\ sold.leaves = loaded[sold.dataset]
  /\ sold.leaves.network = q.network
  /\ RequireEvidenceFamilies(sold)

Rule(facts) == ScoreSubject(ExtractSignals(facts))

\* The report is a commitment to the facts and what the rules made of them.
Report(facts) ==
  [facts |-> facts, aspect |-> Rule(facts).aspect, decision |-> Rule(facts).decision]

\* The arguments that the assessment of what was sold is recorded with.
DecisionOf(k, sold) ==
  [ datasetId |-> sold.dataset, datasetRoot |-> sold.root,
    reportHash |-> Report(sold.leaves.facts), paymentReceiptHash |-> k,
    decision |-> Rule(sold.leaves.facts).decision ]

(* casperClient.ts: the script broadcasts the decision.  It may fail before *)
(* or after it did, and one that is configured may print another hash.      *)
SubmitRecordDecisionDeploy(k, args) ==
  \/ Fails(k) /\ UNCHANGED transactions
  \/ /\ Broadcast(Owner, "record_decision_with_root", args)
     /\ \/ Fails(k)
        \/ \E t \in DOMAIN transactions' :
             Goes(k, [ at |-> "confirm", budget |-> calls[k].budget, args |-> args,
                       transaction |-> t,
                       quote |-> IF calls[k].at = "verify" THEN calls[k].quote ELSE Null ])

Verify(k) ==
  /\ calls[k].at = "verify"
  /\ LET q == calls[k].quote
         sold == calls[k].sold
     IN IF VerifiedEvidence(q, sold)
        THEN SubmitRecordDecisionDeploy(k, DecisionOf(k, sold))
        ELSE Fails(k) /\ UNCHANGED transactions
  /\ UNCHANGED <<bridgeVars, artifactVars, registry, loaded, paid, restarts>>

\* The tool record_decision records what its caller says.
RecordDecision(k) ==
  /\ calls[k] = Idle
  /\ \E request \in Requests, report \in Reported, d \in Datasets,
        decision \in {"approved", "rejected", "needs_review"} :
       /\ ToolAuthorization("record_decision", request, TRUE)
       /\ Broadcast(Owner, "record_decision_with_root",
            [ datasetId |-> d, datasetRoot |-> d, reportHash |-> report,
              paymentReceiptHash |-> k, decision |-> decision ])
       /\ Goes(k, [ at |-> "confirm", budget |-> Null, args |-> Last(transactions').args,
                    transaction |-> Len(transactions'), quote |-> Null ])
  /\ UNCHANGED <<clock, options, artifactVars, registry, loaded, paid, restarts>>

-----------------------------------------------------------------------------
\* decisionRecord.ts of the core: an executed call of the registry with these arguments.
VerifyDecisionRecord(t, args) ==
  /\ transactions[t].entryPoint = "record_decision_with_root"
  /\ transactions[t].state = "executed"
  /\ transactions[t].args = args

Answered(call) ==
  [ at |-> "answered", budget |-> call.budget, args |-> call.args,
    transaction |-> call.transaction, quote |-> call.quote ]

(* The node is asked until it shows an execution, which is the record or    *)
(* ends the call.  A question that fails, and the last of those that show   *)
(* no execution, end it too; those before change nothing.                   *)
ConfirmAgentPaySubmission(k) ==
  /\ calls[k].at = "confirm"
  /\ LET t == calls[k].transaction
     IN \/ Fails(k)
        \/ /\ transactions[t].state = "executed"
           /\ IF VerifyDecisionRecord(t, calls[k].args) THEN Goes(k, Answered(calls[k]))
              ELSE Fails(k)
  /\ UNCHANGED <<bridgeVars, artifactVars, registryVars, loaded, paid, restarts>>

\* The bridge starts again: its calls are lost and its limiter is empty.
Restart ==
  /\ restarts < MaxRestarts
  /\ restarts' = restarts + 1
  /\ limiter' = FreshLimiter
  /\ calls' = [k \in Calls |->
                 IF calls[k].at \in {"quote", "settle", "verify", "confirm"}
                 THEN Failed(calls[k]) ELSE calls[k]]
  /\ UNCHANGED <<clock, options, artifactVars, registryVars, loaded, paid>>

-----------------------------------------------------------------------------
(* Transactions of others: receipts, rotations of the recorder, and calls   *)
(* that the registry refuses.                                               *)
Others ==
  /\ \E t \in OtherCalls : Broadcast(t.caller, t.entryPoint, t.args)
  /\ UNCHANGED <<bridgeVars, artifactVars, registry, checkVars>>

ChainStep ==
  /\ \E i \in DOMAIN transactions : Execute(i)
  /\ UNCHANGED <<bridgeVars, artifactVars, checkVars>>

(* Mutated form: the decision of a report is not compared with the rules.   *)
ParsedByAspect(report) == report.aspect = Rule(report.facts).aspect

\* card.ts: the report says what the rules make of its facts.
ParseVerdictCardSubmission(report) ==
  /\ report.aspect = Rule(report.facts).aspect
  /\ report.decision = Rule(report.facts).decision

(* POST /card: of a record that was made known and a transaction, the card  *)
(* shows the aspect of the report if the transaction recorded its decision. *)
PostCard ==
  /\ \E t, u \in DOMAIN transactions :
       /\ transactions[u].entryPoint = "record_decision_with_root"
       /\ LET args == transactions[u].args
              report == args.reportHash
          IN /\ ParseVerdictCardSubmission(report)
             /\ VerifyDecisionRecord(t, [args EXCEPT !.decision = report.decision])
             /\ SaveCard([aspect |-> report.aspect, transaction |-> t])
  /\ UNCHANGED <<bridgeVars, registryVars, checkVars>>

Share ==
  /\ \E card \in DOMAIN cards : ShareCard(card)
  /\ UNCHANGED <<bridgeVars, registryVars, checkVars>>

Next ==
  \/ \E k \in Calls : \/ Assess(k) \/ GetQuote(k) \/ Settle(k) \/ Verify(k)
                      \/ RecordDecision(k) \/ ConfirmAgentPaySubmission(k)
  \/ Tick /\ UNCHANGED <<artifactVars, registryVars, checkVars>>
  \/ Restart \/ Others \/ ChainStep \/ PostCard \/ Share

Spec == Init /\ [][Next]_vars

-----------------------------------------------------------------------------
(* What the registry holds of a transaction that recorded a decision.       *)
Held(args) ==
  /\ Get(registry.datasetRoots, args.datasetId) = args.datasetRoot
  /\ Get(registry.decisionReceipts, ReceiptKey(args)) = ReceiptValue(args)

(* A verdict that is answered was paid for as it was quoted, is what the    *)
(* rules make of the evidence that the quoted root commits to, and is held  *)
(* by the registry under the payment it was bought with, whatever was lost, *)
(* altered or executed late on the way (trust/assess.ts:84).                *)
VerdictBacked ==
  \A k \in Calls : calls[k].at = "answered" /\ calls[k].quote # Null =>
    LET q == calls[k].quote
        args == calls[k].args
    IN /\ [call |-> k, dataset |-> q.dataset, terms |-> q.terms] \in paid
       /\ loaded[q.dataset].network = q.network
       /\ args.reportHash = Report(loaded[q.dataset].facts)
       /\ args.decision = args.reportHash.decision
       /\ args.paymentReceiptHash = k /\ args.datasetId = q.dataset
       /\ Held(args)

(* A card that is shown, whoever posted it, shows what the rules make of a  *)
(* report that the registry holds with the decision of that aspect, and     *)
(* the feed has no entry without its card (app.ts:433, publicArtifacts.ts). *)
PublishedRecorded ==
  /\ \A card \in DOMAIN cards :
       LET args == transactions[card.transaction].args
       IN /\ Held(args)
          /\ args.decision = Decision(card.aspect)
          /\ card.aspect = Rule(args.reportHash.facts).aspect
  /\ DOMAIN feed \subseteq DOMAIN cards

(* The public gets no more checks at the operator's expense than the daily  *)
(* limit, per UTC day of the request and per process, whichever clients the *)
(* limiter has forgotten and however late the payment; each call pays once  *)
(* at most, and on the pinned terms (publicAccess.ts:125).                  *)
Limited == {k \in Calls : calls[k].at \notin {"idle", "refused"} /\ calls[k].budget # Null}

BudgetKept ==
  /\ \A k \in Limited :
       Cardinality({o \in Limited : calls[o].budget = calls[k].budget}) <= DailyLimit
  /\ \A p \in paid : /\ p.call \in Limited => p.terms = "expected"
                     /\ \A o \in paid : o.call = p.call => o = p
=============================================================================
