-------------------------- MODULE TrustCheckProofs --------------------------
(***************************************************************************)
(* What a trust check promises, proved for any number of calls, datasets,  *)
(* restarts, transactions of others and for any limits: an answered        *)
(* verdict is paid for and on record, a card shows what is recorded, and   *)
(* the public stays inside its budget.                                     *)
(***************************************************************************)
EXTENDS TrustCheck, FiniteSetTheorems, SequenceTheorems, TLAPS

-----------------------------------------------------------------------------
(* The shape of what is stored.                                             *)
Reports == {Report(facts) : facts \in Evidence} \cup Reported

Arguments ==
  [DecisionFields -> Datasets \cup Reports \cup Calls \cup {"approved", "rejected", "needs_review"}]
    \cup {t.args : t \in OtherCalls}

IsDecision(t) == t.entryPoint = "record_decision_with_root"

Sent ==
  { t \in [ caller : {Owner} \cup {o.caller : o \in OtherCalls},
            entryPoint : {"record_decision_with_root", "record_purchase_receipt", "set_recorder"},
            args : Arguments,
            state : {"pending", "executed", "failed"} ] :
      IsDecision(t) => t.args = [f \in DecisionFields |-> t.args[f]] }

RegistryFields ==
  { "owner", "recorder", "recorderRevision", "recorderHistory", "datasetRoots",
    "decisionReceipts", "purchaseReceipts", "purchaseReceiptBindings" }

Shape ==
  /\ calls = [k \in Calls |-> calls[k]]
  /\ loaded = [d \in DOMAIN loaded |-> loaded[d]] /\ DOMAIN loaded \subseteq Datasets
  /\ \A d \in DOMAIN loaded : loaded[d] \in [facts : Evidence, network : Networks]
  /\ transactions \in Seq(Sent)
  /\ registry = [f \in RegistryFields |-> registry[f]]

(* The registry has the root and the decision of these arguments.           *)
Recorded(args) ==
  /\ args.datasetId \in DOMAIN registry.datasetRoots
  /\ registry.datasetRoots[args.datasetId] = args.datasetRoot
  /\ ReceiptKey(args) \in DOMAIN registry.decisionReceipts
  /\ registry.decisionReceipts[ReceiptKey(args)] = ReceiptValue(args)

(* Every decision that was executed is still on record.                     *)
ExecutedRecorded ==
  \A i \in DOMAIN transactions :
    IsDecision(transactions[i]) /\ transactions[i].state = "executed" => Recorded(transactions[i].args)

(* What a call carries from one step to the next.                           *)
QuoteSound(k) ==
  LET q == calls[k].quote
  IN q.dataset \in DOMAIN loaded /\ q.root = q.dataset /\ q.network = loaded[q.dataset].network

Bought(k) == [call |-> k, dataset |-> calls[k].quote.dataset, terms |-> calls[k].quote.terms] \in paid

Decided(k) ==
  LET args == calls[k].args
      q == calls[k].quote
  IN /\ args.reportHash = Report(loaded[q.dataset].facts)
     /\ args.decision = args.reportHash.decision
     /\ args.paymentReceiptHash = k /\ args.datasetId = q.dataset

CallSound(k) ==
  /\ calls[k].at \in {"settle", "verify"} => QuoteSound(k)
  /\ calls[k].at = "verify" => Bought(k) /\ calls[k].sold.dataset = calls[k].quote.dataset
  /\ calls[k].at \in {"confirm", "answered"} /\ calls[k].quote # Null =>
       QuoteSound(k) /\ Bought(k) /\ Decided(k)
  /\ calls[k].at = "confirm" => calls[k].transaction \in DOMAIN transactions
  /\ calls[k].at = "answered" => Recorded(calls[k].args)

(* A card shows a decision that is on record.                               *)
CardSound(card) ==
  /\ card.transaction \in DOMAIN transactions
  /\ Recorded(transactions[card.transaction].args)
  /\ transactions[card.transaction].args.decision = Decision(card.aspect)
  /\ card.aspect = Rule(transactions[card.transaction].args.reportHash.facts).aspect

CardsSound == (\A card \in DOMAIN cards : CardSound(card)) /\ DOMAIN feed \subseteq DOMAIN cards

(* An account of the budget is a day and a process; what the limiter has    *)
(* counted today covers the calls on the current one.                       *)
OnAccount(b) == {o \in Limited : calls[o].budget = b}

AccountKnown(k) ==
  /\ options.public
  /\ \E d \in Int, r \in Nat :
       calls[k].budget = <<d, r>> /\ r <= restarts /\ (r = restarts => d <= limiter.day)

BudgetSound ==
  /\ clock \in Nat /\ restarts \in Nat /\ StartsWith(options)
  /\ limiter.day \in Int /\ limiter.day <= Today
  /\ limiter.count \in 0 .. DailyLimit
  /\ \A k \in Limited : AccountKnown(k)
  /\ \A b : IsFiniteSet(OnAccount(b)) /\ Cardinality(OnAccount(b)) <= DailyLimit
  /\ Cardinality(OnAccount(<<limiter.day, restarts>>)) <= limiter.count

(* A call has not paid before it settles, and pays as its quote says.       *)
PaymentsSound ==
  /\ \A p \in paid : p.call \in Calls /\ calls[p.call].at \notin {"idle", "refused", "quote", "settle"}
  /\ \A p, o \in paid : o.call = p.call => o = p
  /\ \A p \in paid : p.call \in Limited => p.terms = "expected"

-----------------------------------------------------------------------------
(* The rules: the decision follows from the aspect.                         *)
LEMMA RuleDecides ==
  ASSUME NEW facts
  PROVE  /\ Rule(facts).decision = Decision(Rule(facts).aspect)
         /\ Rule(facts).decision \in {"approved", "rejected", "needs_review"}
<1>1. PICK flags, notChecked, passed : Rule(facts) = Result(flags, notChecked, passed)
  BY DEF Rule, ScoreSubject
<1>2. /\ Rule(facts).aspect = Aspect(flags, notChecked)
      /\ Rule(facts).decision = Decision(Aspect(flags, notChecked))
  BY <1>1 DEF Result
<1>3. Aspect(flags, notChecked) \in {"DANGER", "CAUTION", "CLEAR"}
  BY DEF Aspect
<1>4. \A a \in {"DANGER", "CAUTION", "CLEAR"} : Decision(a) \in {"approved", "rejected", "needs_review"}
  BY DEF Decision
<1> QED
  BY <1>2, <1>3, <1>4

(* One call moves, the others stay.                                         *)
LEMMA Moved ==
  ASSUME Shape, NEW k \in Calls, NEW call, calls' = [calls EXCEPT ![k] = call]
  PROVE  /\ calls'[k] = call /\ calls' = [j \in Calls |-> calls'[j]]
         /\ \A j \in Calls \ {k} : calls'[j] = calls[j]
BY DEF Shape

(* A transaction that is broadcast is the last one.                         *)
LEMMA Sends ==
  ASSUME Shape, NEW caller, NEW entryPoint, NEW args, Broadcast(caller, entryPoint, args),
         [caller |-> caller, entryPoint |-> entryPoint, args |-> args, state |-> "pending"] \in Sent
  PROVE  /\ transactions' \in Seq(Sent)
         /\ DOMAIN transactions' = DOMAIN transactions \cup {Len(transactions')}
         /\ \A i \in DOMAIN transactions : transactions'[i] = transactions[i]
         /\ Len(transactions') \notin DOMAIN transactions
         /\ transactions'[Len(transactions')]
              = [caller |-> caller, entryPoint |-> entryPoint, args |-> args, state |-> "pending"]
<1> DEFINE t == [caller |-> caller, entryPoint |-> entryPoint, args |-> args, state |-> "pending"]
<1>1. transactions' = Append(transactions, t) /\ transactions \in Seq(Sent) /\ t \in Sent
  BY DEF Broadcast, Shape
<1> HIDE DEF t
<1>2. /\ transactions' \in Seq(Sent) /\ Len(transactions') = Len(transactions) + 1
      /\ \A i \in 1 .. Len(transactions) : transactions'[i] = transactions[i]
      /\ transactions'[Len(transactions) + 1] = t
  BY <1>1, AppendProperties
<1>3. Len(transactions) \in Nat /\ DOMAIN transactions = 1 .. Len(transactions)
      /\ DOMAIN transactions' = 1 .. Len(transactions')
  BY <1>1, <1>2, LenProperties
<1> QED
  BY <1>2, <1>3 DEF t

-----------------------------------------------------------------------------
(* The registry: what it holds of a decision stays.                         *)
RecordsKept == \A args : Recorded(args) => Recorded(args)'

TransactionsKept ==
  /\ DOMAIN transactions \subseteq DOMAIN transactions'
  /\ \A i \in DOMAIN transactions :
       /\ transactions'[i].args = transactions[i].args
       /\ transactions'[i].entryPoint = transactions[i].entryPoint

LEMMA PutWithoutConflict ==
  ASSUME NEW dictionary, NEW key, NEW value, ~ Conflicts(dictionary, key, value),
         NEW after, after = Put(dictionary, key, value)
  PROVE  /\ key \in DOMAIN after /\ after[key] = value
         /\ \A other \in DOMAIN dictionary : other \in DOMAIN after /\ after[other] = dictionary[other]
<1>1. /\ DOMAIN after = DOMAIN dictionary \cup {key} /\ after[key] = value
      /\ \A other \in DOMAIN dictionary \ {key} : after[other] = dictionary[other]
  BY DEF Put
<1>2. key \in DOMAIN dictionary => dictionary[key] = value
  BY DEF Conflicts
<1> QED
  BY <1>1, <1>2

LEMMA DecisionRecords ==
  ASSUME Shape, NEW caller, NEW a,
         RecordDecisionWithRoot(caller, a) # Nothing,
         registry' = RecordDecisionWithRoot(caller, a)
  PROVE  /\ registry' = [f \in RegistryFields |-> registry'[f]]
         /\ RecordsKept /\ Recorded(a)'
<1> DEFINE roots == Put(registry.datasetRoots, a.datasetId, a.datasetRoot)
           receipts == Put(registry.decisionReceipts, ReceiptKey(a), ReceiptValue(a))
<1>1. /\ ~ Conflicts(registry.datasetRoots, a.datasetId, a.datasetRoot)
      /\ ~ Conflicts(registry.decisionReceipts, ReceiptKey(a), ReceiptValue(a))
      /\ registry' = [registry EXCEPT !.datasetRoots = roots, !.decisionReceipts = receipts]
  BY DEF RecordDecisionWithRoot
<1> HIDE DEF roots, receipts
<1>2. /\ registry' = [f \in RegistryFields |-> registry'[f]]
      /\ registry'.datasetRoots = roots /\ registry'.decisionReceipts = receipts
  BY <1>1 DEF Shape, RegistryFields
<1>3. /\ a.datasetId \in DOMAIN roots /\ roots[a.datasetId] = a.datasetRoot
      /\ \A id \in DOMAIN registry.datasetRoots :
           id \in DOMAIN roots /\ roots[id] = registry.datasetRoots[id]
  BY <1>1, PutWithoutConflict DEF roots
<1>4. /\ ReceiptKey(a) \in DOMAIN receipts /\ receipts[ReceiptKey(a)] = ReceiptValue(a)
      /\ \A key \in DOMAIN registry.decisionReceipts :
           key \in DOMAIN receipts /\ receipts[key] = registry.decisionReceipts[key]
  BY <1>1, PutWithoutConflict DEF receipts
<1>5. RecordsKept /\ Recorded(a)'
  BY <1>2, <1>3, <1>4 DEF RecordsKept, Recorded
<1> QED
  BY <1>2, <1>5

LEMMA OthersRecord ==
  ASSUME Shape, NEW caller, NEW a,
         \/ RecordPurchaseReceipt(caller, a) # Nothing /\ registry' = RecordPurchaseReceipt(caller, a)
         \/ SetRecorder(caller, a) # Nothing /\ registry' = SetRecorder(caller, a)
  PROVE  registry' = [f \in RegistryFields |-> registry'[f]] /\ RecordsKept
<1> DEFINE Untouched == /\ registry' = [f \in RegistryFields |-> registry'[f]]
                        /\ registry'.datasetRoots = registry.datasetRoots
                        /\ registry'.decisionReceipts = registry.decisionReceipts
<1>1. Untouched
  <2>1. CASE registry' = registry
    BY <2>1 DEF Shape
  <2>2. ASSUME NEW receipts, NEW bindings,
               registry' = [registry EXCEPT !.purchaseReceipts = receipts,
                                            !.purchaseReceiptBindings = bindings]
        PROVE  Untouched
    BY <2>2 DEF Shape, RegistryFields
  <2>3. ASSUME NEW recorder, NEW revision, NEW history,
               registry' = [registry EXCEPT !.recorder = recorder, !.recorderRevision = revision,
                                            !.recorderHistory = history]
        PROVE  Untouched
    BY <2>3 DEF Shape, RegistryFields
  <2> HIDE DEF Untouched
  <2>4. \/ registry' = registry
        \/ \E receipts, bindings : registry' = [registry EXCEPT !.purchaseReceipts = receipts,
                                                           !.purchaseReceiptBindings = bindings]
        \/ \E recorder, revision, history :
             registry' = [registry EXCEPT !.recorder = recorder, !.recorderRevision = revision,
                                          !.recorderHistory = history]
    BY Zenon DEF RecordPurchaseReceipt, SetRecorder
  <2> QED
    BY <2>1, <2>2, <2>3, <2>4
<1> QED
  BY <1>1 DEF RecordsKept, Recorded

(* The chain executes: the records stay, and an executed decision is one.   *)
LEMMA ChainKeeps ==
  ASSUME Shape, ExecutedRecorded, NEW i \in DOMAIN transactions, Execute(i)
  PROVE  /\ transactions' \in Seq(Sent) /\ registry' = [f \in RegistryFields |-> registry'[f]]
         /\ RecordsKept /\ TransactionsKept /\ ExecutedRecorded'
<1>1. /\ transactions \in Seq(Sent) /\ DOMAIN transactions = 1 .. Len(transactions)
      /\ transactions[i] \in Sent
  BY LenProperties, ElementOfSeq DEF Shape
<1>2. PICK state \in {"failed", "executed"} : transactions' = [transactions EXCEPT ![i].state = state]
  BY DEF Execute
<1> DEFINE t == [transactions[i] EXCEPT !.state = state]
<1>3. /\ t \in Sent /\ t.args = transactions[i].args /\ t.entryPoint = transactions[i].entryPoint
      /\ t.state = state
  <2> DEFINE Row == [ caller : {Owner} \cup {o.caller : o \in OtherCalls},
                      entryPoint : {"record_decision_with_root", "record_purchase_receipt",
                                    "set_recorder"},
                      args : Arguments, state : {"pending", "executed", "failed"} ]
  <2>1. transactions[i] \in Row /\ (IsDecision(transactions[i]) =>
          transactions[i].args = [f \in DecisionFields |-> transactions[i].args[f]])
    BY <1>1 DEF Sent
  <2>2. /\ t \in Row /\ t.args = transactions[i].args
        /\ t.entryPoint = transactions[i].entryPoint /\ t.state = state
    BY <1>2, <2>1
  <2> HIDE DEF t, Row
  <2> QED
    BY <2>1, <2>2 DEF Sent, Row, IsDecision
<1>4. transactions' = [transactions EXCEPT ![i] = t]
  BY <1>2
<1> HIDE DEF t
<1>5. /\ transactions' \in Seq(Sent) /\ DOMAIN transactions' = DOMAIN transactions
      /\ transactions'[i] = t
      /\ \A j \in DOMAIN transactions \ {i} : transactions'[j] = transactions[j]
  BY <1>1, <1>3, <1>4, ExceptSeq
<1>6. TransactionsKept
  BY <1>3, <1>5 DEF TransactionsKept
<1>7. CASE Effect(transactions[i]) = Nothing
  <2>1. registry' = registry /\ transactions' = [transactions EXCEPT ![i].state = "failed"]
    BY <1>7 DEF Execute
  <2>2. RecordsKept
    BY <2>1 DEF RecordsKept, Recorded
  <2>3. t.state = "failed"
    <3>1. transactions'[i] = [transactions[i] EXCEPT !.state = "failed"]
      BY <1>1, <2>1
    <3> QED
      BY <1>1, <1>5, <3>1 DEF Sent
  <2>4. ExecutedRecorded'
    BY <1>5, <2>1, <2>3 DEF ExecutedRecorded, Recorded, IsDecision
  <2> QED
    BY <1>5, <1>6, <2>1, <2>2, <2>4 DEF Shape
<1>8. CASE Effect(transactions[i]) # Nothing
  <2>1. registry' = Effect(transactions[i])
    BY <1>8 DEF Execute
  <2>2. transactions[i].entryPoint \in
          {"record_decision_with_root", "record_purchase_receipt", "set_recorder"}
    BY <1>1 DEF Sent
  <2>3. /\ registry' = [f \in RegistryFields |-> registry'[f]] /\ RecordsKept
        /\ IsDecision(transactions[i]) => Recorded(transactions[i].args)'
    <3>1. CASE IsDecision(transactions[i])
      <4>1. PICK caller, a : caller = transactions[i].caller /\ a = transactions[i].args
        OBVIOUS
      <4>2. Effect(transactions[i]) = RecordDecisionWithRoot(caller, a)
        BY <3>1, <4>1 DEF Effect, IsDecision
      <4>3. /\ registry' = [f \in RegistryFields |-> registry'[f]]
            /\ RecordsKept /\ Recorded(a)'
        BY <1>8, <2>1, <4>2, DecisionRecords
      <4> QED
        BY <1>5, <1>6, <4>1, <4>3 DEF Recorded, TransactionsKept
    <3>2. CASE ~ IsDecision(transactions[i])
      <4>1. PICK caller, a : caller = transactions[i].caller /\ a = transactions[i].args
        OBVIOUS
      <4>2. \/ Effect(transactions[i]) = RecordPurchaseReceipt(caller, a)
            \/ Effect(transactions[i]) = SetRecorder(caller, a)
        BY <2>2, <3>2, <4>1 DEF Effect, IsDecision
      <4> QED
        BY <1>8, <2>1, <3>2, <4>2, OthersRecord
    <3> QED
      BY <3>1, <3>2
  <2>4. ExecutedRecorded'
    <3> SUFFICES ASSUME NEW j \in DOMAIN transactions',
                        IsDecision(transactions'[j]), transactions'[j].state = "executed"
                 PROVE  Recorded(transactions[j].args)'
      BY DEF ExecutedRecorded, IsDecision, Recorded
    <3>1. CASE j = i
      BY <1>5, <1>6, <2>3, <3>1 DEF TransactionsKept, IsDecision
    <3>2. CASE j # i
      <4>1. j \in DOMAIN transactions /\ transactions'[j] = transactions[j]
        BY <1>5, <3>2
      <4>2. PICK a : a = transactions[j].args
        OBVIOUS
      <4>3. Recorded(a)
        BY <4>1, <4>2 DEF ExecutedRecorded, IsDecision, Recorded
      <4>4. Recorded(a)'
        BY <2>3, <4>3 DEF RecordsKept
      <4> QED
        BY <4>1, <4>2, <4>4 DEF Recorded
    <3> QED
      BY <3>1, <3>2
  <2> QED
    BY <1>5, <1>6, <2>3, <2>4
<1> QED
  BY <1>7, <1>8

-----------------------------------------------------------------------------
(* The steps of the calls. What was loaded, paid, sent and recorded stays,  *)
(* so a call that does not move stays sound.                                *)
DataKept ==
  /\ \A d \in DOMAIN loaded : d \in DOMAIN loaded' /\ loaded'[d] = loaded[d]
  /\ paid \subseteq paid'
  /\ TransactionsKept /\ RecordsKept

LEMMA StaysSound ==
  ASSUME NEW k \in Calls, CallSound(k), DataKept, calls'[k] = calls[k]
  PROVE  CallSound(k)'
<1>1. QuoteSound(k) => QuoteSound(k)'
  BY DEF QuoteSound, DataKept
<1>2. Bought(k) => Bought(k)'
  BY DEF Bought, DataKept
<1>3. QuoteSound(k) /\ Decided(k) => Decided(k)'
  BY DEF QuoteSound, Decided, DataKept
<1>4. calls[k].transaction \in DOMAIN transactions => calls[k].transaction \in DOMAIN transactions'
  BY DEF DataKept, TransactionsKept
<1>5. PICK args : args = calls[k].args
  OBVIOUS
<1>6. Recorded(calls[k].args) => Recorded(calls[k].args)'
  <2>1. Recorded(args) => Recorded(args)'
    BY DEF DataKept, RecordsKept
  <2> QED
    BY <1>5, <2>1 DEF Recorded
<1> QED
  BY <1>1, <1>2, <1>3, <1>4, <1>6 DEF CallSound

LEMMA CardsStaySound ==
  ASSUME NEW card, CardSound(card), DataKept
  PROVE  CardSound(card)'
<1>1. PICK args : args = transactions[card.transaction].args
  OBVIOUS
<1>2. Recorded(args) => Recorded(args)'
  BY DEF DataKept, RecordsKept
<1>3. /\ card.transaction \in DOMAIN transactions
      /\ card.transaction \in DOMAIN transactions' /\ transactions'[card.transaction].args = args
  BY <1>1 DEF CardSound, DataKept, TransactionsKept
<1> QED
  BY <1>1, <1>2, <1>3 DEF CardSound, Recorded

(* A call that fails, is refused or only asks for a quote promises nothing. *)
LEMMA PromisesNothing ==
  ASSUME NEW k, calls'[k].at \in {"idle", "refused", "failed", "quote"}
  PROVE  CallSound(k)'
BY DEF CallSound

(* What the registry was sent: the transactions of others and of the tools  *)
(* have the arguments of their entry points.                                *)
LEMMA OwnerSends ==
  ASSUME Shape, NEW args \in Arguments, args = [f \in DecisionFields |-> args[f]],
         Broadcast(Owner, "record_decision_with_root", args)
  PROVE  /\ transactions' \in Seq(Sent) /\ Len(transactions') \in DOMAIN transactions'
         /\ TransactionsKept
         /\ transactions'[Len(transactions')].args = args
         /\ ExecutedRecorded /\ registry' = registry => ExecutedRecorded'
<1>1. [caller |-> Owner, entryPoint |-> "record_decision_with_root", args |-> args, state |-> "pending"] \in Sent
  BY DEF Sent, IsDecision
<1> DEFINE t == [caller |-> Owner, entryPoint |-> "record_decision_with_root", args |-> args, state |-> "pending"]
<1>2. /\ transactions' \in Seq(Sent)
      /\ DOMAIN transactions' = DOMAIN transactions \cup {Len(transactions')}
      /\ \A i \in DOMAIN transactions : transactions'[i] = transactions[i]
      /\ Len(transactions') \notin DOMAIN transactions
      /\ transactions'[Len(transactions')] = t
  BY <1>1, Sends
<1>3. t.args = args /\ t.state = "pending"
  OBVIOUS
<1> HIDE DEF t
<1>4. TransactionsKept
  BY <1>2 DEF TransactionsKept
<1>5. ExecutedRecorded /\ registry' = registry => ExecutedRecorded'
  BY <1>2, <1>3 DEF ExecutedRecorded, Recorded, IsDecision
<1> QED
  BY <1>2, <1>3, <1>4, <1>5

LEMMA DecisionArguments ==
  ASSUME NEW d \in Datasets, NEW report \in Reports, NEW k \in Calls,
         NEW decision \in {"approved", "rejected", "needs_review"},
         NEW args, args = [ datasetId |-> d, datasetRoot |-> d, reportHash |-> report,
                            paymentReceiptHash |-> k, decision |-> decision ]
  PROVE  args \in Arguments /\ args = [f \in DecisionFields |-> args[f]]
<1>1. ASSUME NEW S, d \in S, report \in S, k \in S, decision \in S
      PROVE  args \in [DecisionFields -> S] /\ args = [f \in DecisionFields |-> args[f]]
  BY <1>1 DEF DecisionFields
<1> DEFINE S == Datasets \cup Reports \cup Calls \cup {"approved", "rejected", "needs_review"}
<1>2. d \in S /\ report \in S /\ k \in S /\ decision \in S
  OBVIOUS
<1> HIDE DEF S
<1>3. args \in [DecisionFields -> S] /\ args = [f \in DecisionFields |-> args[f]]
  BY <1>1, <1>2
<1> QED
  BY <1>3 DEF Arguments, S

LEMMA OthersSend ==
  ASSUME Shape, Others, ExecutedRecorded
  PROVE  transactions' \in Seq(Sent) /\ TransactionsKept /\ ExecutedRecorded'
<1>1. PICK o \in OtherCalls : Broadcast(o.caller, o.entryPoint, o.args)
  BY DEF Others
<1>2. o.entryPoint \in {"record_decision_with_root", "record_purchase_receipt", "set_recorder"}
  BY TrustCheckAssumption
<1> DEFINE t == [caller |-> o.caller, entryPoint |-> o.entryPoint, args |-> o.args, state |-> "pending"]
<1>3. t \in Sent
  BY <1>2, TrustCheckAssumption DEF Sent, Arguments, IsDecision
<1>4. /\ transactions' \in Seq(Sent)
      /\ DOMAIN transactions' = DOMAIN transactions \cup {Len(transactions')}
      /\ \A i \in DOMAIN transactions : transactions'[i] = transactions[i]
      /\ transactions'[Len(transactions')] = t
  BY <1>1, <1>3, Sends
<1>5. t.state = "pending"
  OBVIOUS
<1>6. registry' = registry
  BY DEF Others
<1> HIDE DEF t
<1>7. TransactionsKept
  BY <1>4 DEF TransactionsKept
<1>8. ExecutedRecorded'
  BY <1>4, <1>5, <1>6 DEF ExecutedRecorded, Recorded, IsDecision
<1> QED
  BY <1>4, <1>7, <1>8

-----------------------------------------------------------------------------
VerdictInv ==
  Shape /\ ExecutedRecorded /\ (\A k \in Calls : CallSound(k)) /\ CardsSound

(* Steps that send and record nothing.                                      *)
LEMMA NothingSent ==
  ASSUME Shape, ExecutedRecorded, UNCHANGED registryVars
  PROVE  /\ transactions' \in Seq(Sent) /\ registry' = [f \in RegistryFields |-> registry'[f]]
         /\ TransactionsKept /\ RecordsKept /\ ExecutedRecorded'
BY DEF Shape, ExecutedRecorded, registryVars, TransactionsKept, RecordsKept, Recorded, IsDecision

LEMMA CardsKept ==
  ASSUME CardsSound, DataKept, UNCHANGED artifactVars
  PROVE  CardsSound'
<1>1. cards' = cards /\ feed' = feed
  BY DEF artifactVars
<1>2. \A card \in DOMAIN cards : CardSound(card)'
  BY CardsStaySound DEF CardsSound
<1> QED
  BY <1>1, <1>2 DEF CardsSound, CardSound, Recorded

LEMMA OneCallMoves ==
  ASSUME VerdictInv, NEW k \in Calls, NEW call, Goes(k, call), DataKept, CallSound(k)'
  PROVE  calls' = [j \in Calls |-> calls'[j]] /\ \A j \in Calls : CallSound(j)'
<1>1. /\ calls' = [j \in Calls |-> calls'[j]]
      /\ \A j \in Calls \ {k} : calls'[j] = calls[j]
  BY Moved DEF VerdictInv, Goes
<1>2. \A j \in Calls \ {k} : CallSound(j)'
  BY <1>1, StaysSound DEF VerdictInv
<1> QED
  BY <1>1, <1>2

LEMMA AssessKeeps ==
  ASSUME VerdictInv, NEW k \in Calls, Assess(k)
  PROVE  VerdictInv' /\ DataKept
<1>1. /\ UNCHANGED registryVars /\ UNCHANGED artifactVars /\ loaded' = loaded /\ paid' = paid
      /\ Shape /\ ExecutedRecorded
  BY DEF Assess, VerdictInv
<1>2. /\ transactions' \in Seq(Sent) /\ registry' = [f \in RegistryFields |-> registry'[f]]
      /\ ExecutedRecorded' /\ DataKept
  BY <1>1, NothingSent DEF DataKept
<1>3. PICK call : Goes(k, call) /\ call.at \in {"quote", "refused"}
  <2>1. PICK admitted \in BOOLEAN, network \in RequestedNetworks, request \in Requests :
          Goes(k, IF admitted
                  THEN [ at |-> "quote", requested |-> network,
                         budget |-> IF NeedsBudget("assess_subject", request)
                                    THEN <<Today, restarts>> ELSE Null ]
                  ELSE [at |-> "refused"])
    BY DEF Assess
  <2> QED
    BY <2>1
<1>4. CallSound(k)'
  <2>1. calls'[k] = call
    BY <1>1, <1>3, Moved DEF Goes
  <2> QED
    BY <1>3, <2>1, PromisesNothing
<1>5. calls' = [j \in Calls |-> calls'[j]] /\ \A j \in Calls : CallSound(j)'
  BY <1>2, <1>3, <1>4, OneCallMoves
<1>6. CardsSound'
  BY <1>1, <1>2, CardsKept DEF VerdictInv
<1> QED
  BY <1>1, <1>2, <1>5, <1>6 DEF VerdictInv, Shape

LEMMA GetQuoteKeeps ==
  ASSUME VerdictInv, NEW k \in Calls, GetQuote(k)
  PROVE  VerdictInv' /\ DataKept
<1>1. /\ UNCHANGED registryVars /\ UNCHANGED artifactVars /\ paid' = paid
      /\ Shape /\ ExecutedRecorded
  BY DEF GetQuote, VerdictInv
<1>2. \/ Fails(k) /\ loaded' = loaded
      \/ \E d \in Datasets \ DOMAIN loaded, facts \in Evidence, network \in Networks,
            terms \in {"expected", "other"} :
           /\ loaded' = Put(loaded, d, [facts |-> facts, network |-> network])
           /\ \/ Fails(k)
              \/ Goes(k, [ at |-> "settle", budget |-> calls[k].budget,
                           quote |-> [ dataset |-> d, root |-> d, network |-> network,
                                       terms |-> terms ] ])
  BY DEF GetQuote
<1> DEFINE Loads == /\ loaded' = [d \in DOMAIN loaded' |-> loaded'[d]]
                    /\ DOMAIN loaded' \subseteq Datasets
                    /\ \A d \in DOMAIN loaded' : loaded'[d] \in [facts : Evidence, network : Networks]
                    /\ \A d \in DOMAIN loaded : d \in DOMAIN loaded' /\ loaded'[d] = loaded[d]
<1>3. Loads
  <2>1. CASE loaded' = loaded
    BY <1>1, <2>1 DEF Shape
  <2>2. ASSUME NEW d \in Datasets \ DOMAIN loaded, NEW facts \in Evidence, NEW network \in Networks,
               loaded' = Put(loaded, d, [facts |-> facts, network |-> network])
        PROVE  Loads
    BY <1>1, <2>2 DEF Shape, Put
  <2> QED
    BY <1>2, <2>1, <2>2
<1>4. /\ transactions' \in Seq(Sent) /\ registry' = [f \in RegistryFields |-> registry'[f]]
      /\ ExecutedRecorded' /\ DataKept
  BY <1>1, <1>3, NothingSent DEF DataKept
<1>5. CASE Fails(k)
  <2>1. calls'[k].at = "failed"
    BY <1>1, <1>5, Moved DEF Fails, Goes, Failed
  <2>2. calls' = [j \in Calls |-> calls'[j]] /\ \A j \in Calls : CallSound(j)'
    BY <1>4, <1>5, <2>1, PromisesNothing, OneCallMoves DEF Fails
  <2>3. CardsSound'
    BY <1>1, <1>4, CardsKept DEF VerdictInv
  <2> QED
    BY <1>3, <1>4, <2>2, <2>3 DEF VerdictInv, Shape
<1>6. CASE ~ Fails(k)
  <2>1. PICK d \in Datasets \ DOMAIN loaded, facts \in Evidence, network \in Networks,
             terms \in {"expected", "other"} :
          /\ loaded' = Put(loaded, d, [facts |-> facts, network |-> network])
          /\ Goes(k, [ at |-> "settle", budget |-> calls[k].budget,
                       quote |-> [ dataset |-> d, root |-> d, network |-> network,
                                   terms |-> terms ] ])
    BY <1>2, <1>6
  <2> DEFINE call == [ at |-> "settle", budget |-> calls[k].budget,
                       quote |-> [dataset |-> d, root |-> d, network |-> network, terms |-> terms] ]
  <2>2. d \in DOMAIN loaded' /\ loaded'[d].network = network
    BY <2>1 DEF Put
  <2>3. /\ call.at = "settle" /\ call.quote.dataset = d /\ call.quote.root = d
        /\ call.quote.network = network
    OBVIOUS
  <2> HIDE DEF call
  <2>4. Goes(k, call) /\ calls'[k] = call
    BY <1>1, <2>1, Moved DEF Goes, call
  <2>5. CallSound(k)'
    BY <2>2, <2>3, <2>4 DEF CallSound, QuoteSound
  <2>6. calls' = [j \in Calls |-> calls'[j]] /\ \A j \in Calls : CallSound(j)'
    BY <1>4, <2>4, <2>5, OneCallMoves
  <2>7. CardsSound'
    BY <1>1, <1>4, CardsKept DEF VerdictInv
  <2> QED
    BY <1>3, <1>4, <2>6, <2>7 DEF VerdictInv, Shape
<1> QED
  BY <1>4, <1>5, <1>6

LEMMA FailingCall ==
  ASSUME VerdictInv, NEW k \in Calls, Fails(k), DataKept
  PROVE  calls' = [j \in Calls |-> calls'[j]] /\ \A j \in Calls : CallSound(j)'
<1>1. calls'[k].at = "failed"
  BY Moved DEF VerdictInv, Fails, Goes, Failed
<1> QED
  BY <1>1, PromisesNothing, OneCallMoves DEF Fails

LEMMA SettleKeeps ==
  ASSUME VerdictInv, NEW k \in Calls, Settle(k)
  PROVE  VerdictInv' /\ DataKept
<1> DEFINE q == calls[k].quote
           payment == [call |-> k, dataset |-> q.dataset, terms |-> q.terms]
<1>1. /\ UNCHANGED registryVars /\ UNCHANGED artifactVars /\ loaded' = loaded
      /\ Shape /\ ExecutedRecorded /\ CallSound(k) /\ calls[k].at = "settle"
  BY DEF Settle, VerdictInv
<1>2. \/ Fails(k) /\ (paid' = paid \/ paid' = paid \cup {payment})
      \/ \E sold :
           /\ MatchesQuote(q, sold) /\ paid' = paid \cup {payment}
           /\ Goes(k, [at |-> "verify", budget |-> calls[k].budget, quote |-> q, sold |-> sold])
  <2>1. CASE Fails(k) /\ paid' = paid
    BY <2>1
  <2>2. CASE ~ (Fails(k) /\ paid' = paid)
    <3>1. PICK aspect \in {"none", "root", "network", "dataset", "terms", "status",
                           "leaves", "families", "lost"} :
            /\ paid' = IF aspect = "status" THEN paid ELSE paid \cup {payment}
            /\ IF aspect = "lost" \/ ~ MatchesQuote(q, Altered(q, aspect)) THEN Fails(k)
               ELSE Goes(k, [ at |-> "verify", budget |-> calls[k].budget, quote |-> q,
                              sold |-> Altered(q, aspect) ])
      BY <2>2 DEF Settle
    <3>2. ~ MatchesQuote(q, Altered(q, "status"))
      BY DEF MatchesQuote, Altered
    <3> QED
      BY <3>1, <3>2
  <2> QED
    BY <2>1, <2>2
<1>3. paid \subseteq paid'
  BY <1>2
<1>4. /\ transactions' \in Seq(Sent) /\ registry' = [f \in RegistryFields |-> registry'[f]]
      /\ ExecutedRecorded' /\ DataKept
  BY <1>1, <1>3, NothingSent DEF DataKept
<1>5. calls' = [j \in Calls |-> calls'[j]] /\ \A j \in Calls : CallSound(j)'
  <2>1. CASE Fails(k)
    BY <1>4, <2>1, FailingCall
  <2>2. CASE ~ Fails(k)
    <3>1. PICK sold :
            /\ MatchesQuote(q, sold) /\ paid' = paid \cup {payment}
            /\ Goes(k, [at |-> "verify", budget |-> calls[k].budget, quote |-> q, sold |-> sold])
      BY <1>2, <2>2
    <3> DEFINE call == [at |-> "verify", budget |-> calls[k].budget, quote |-> q, sold |-> sold]
    <3>2. call.at = "verify" /\ call.quote = q /\ call.sold = sold
      OBVIOUS
    <3> HIDE DEF call
    <3>3. Goes(k, call) /\ calls'[k] = call
      BY <1>1, <3>1, Moved DEF Goes, call
    <3>4. sold.dataset = q.dataset /\ payment \in paid'
      BY <3>1 DEF MatchesQuote
    <3>5. q.dataset \in DOMAIN loaded /\ q.root = q.dataset /\ q.network = loaded[q.dataset].network
      BY <1>1 DEF CallSound, QuoteSound
    <3>6. CallSound(k)'
      BY <1>1, <3>2, <3>3, <3>4, <3>5 DEF CallSound, QuoteSound, Bought
    <3> QED
      BY <1>4, <3>3, <3>6, OneCallMoves
  <2> QED
    BY <2>1, <2>2
<1>6. CardsSound'
  BY <1>1, <1>4, CardsKept DEF VerdictInv
<1> QED
  BY <1>1, <1>4, <1>5, <1>6 DEF VerdictInv, Shape

LEMMA VerifyKeeps ==
  ASSUME VerdictInv, NEW k \in Calls, Verify(k)
  PROVE  VerdictInv' /\ DataKept
<1> DEFINE q == calls[k].quote
           sold == calls[k].sold
           args == DecisionOf(k, sold)
<1>1. /\ registry' = registry /\ UNCHANGED artifactVars /\ loaded' = loaded /\ paid' = paid
      /\ Shape /\ ExecutedRecorded /\ CallSound(k) /\ calls[k].at = "verify"
  BY DEF Verify, VerdictInv
<1>2. CASE Fails(k) /\ transactions' = transactions
  <2>1. /\ transactions' \in Seq(Sent) /\ registry' = [f \in RegistryFields |-> registry'[f]]
        /\ ExecutedRecorded' /\ DataKept
    BY <1>1, <1>2, NothingSent DEF DataKept, registryVars
  <2>2. CardsSound'
    BY <1>1, <2>1, CardsKept DEF VerdictInv
  <2> QED
    BY <1>1, <1>2, <2>1, <2>2, FailingCall DEF VerdictInv, Shape
<1>3. CASE ~ (Fails(k) /\ transactions' = transactions)
  <2>1. VerifiedEvidence(q, sold) /\ SubmitRecordDecisionDeploy(k, args)
    BY <1>3 DEF Verify
  <2>2. /\ sold.dataset = q.dataset /\ q.dataset \in DOMAIN loaded
        /\ sold.root = sold.dataset /\ sold.leaves = loaded[q.dataset]
    BY <1>1, <2>1 DEF VerifiedEvidence, CallSound, QuoteSound
  <2> DEFINE facts == loaded[q.dataset].facts
  <2>3. facts \in Evidence
    BY <1>1, <2>2 DEF Shape
  <2>4. /\ args = [ datasetId |-> q.dataset, datasetRoot |-> q.dataset, reportHash |-> Report(facts),
                    paymentReceiptHash |-> k, decision |-> Rule(facts).decision ]
    BY <2>2 DEF DecisionOf
  <2>5. /\ args.reportHash = Report(facts) /\ args.decision = Report(facts).decision
        /\ args.paymentReceiptHash = k /\ args.datasetId = q.dataset
    BY <2>4 DEF Report
  <2>6. /\ args \in Arguments
        /\ args = [f \in DecisionFields |-> args[f]]
    <3>1. q.dataset \in Datasets
      BY <1>1, <2>2 DEF Shape
    <3>2. Rule(facts).decision \in {"approved", "rejected", "needs_review"}
      BY RuleDecides
    <3>3. Report(facts) \in Reports
      BY <2>3 DEF Reports
    <3> HIDE DEF args, facts
    <3> QED
      BY <2>4, <3>1, <3>2, <3>3, DecisionArguments
  <2> HIDE DEF args, facts
  <2>7. Broadcast(Owner, "record_decision_with_root", args)
    BY <1>3, <2>1 DEF SubmitRecordDecisionDeploy
  <2>8. /\ transactions' \in Seq(Sent) /\ TransactionsKept /\ ExecutedRecorded'
    BY <1>1, <2>6, <2>7, OwnerSends
  <2>9. DataKept
    BY <1>1, <2>8 DEF DataKept, RecordsKept, Recorded
  <2>10. calls' = [j \in Calls |-> calls'[j]] /\ \A j \in Calls : CallSound(j)'
    <3>1. CASE Fails(k)
      BY <2>9, <3>1, FailingCall
    <3>2. CASE ~ Fails(k)
      <4>1. PICK t \in DOMAIN transactions' :
              Goes(k, [ at |-> "confirm", budget |-> calls[k].budget, args |-> args,
                        transaction |-> t, quote |-> q ])
        BY <1>1, <2>1, <3>2 DEF SubmitRecordDecisionDeploy
      <4> DEFINE call == [ at |-> "confirm", budget |-> calls[k].budget, args |-> args,
                           transaction |-> t, quote |-> q ]
      <4>2. call.at = "confirm" /\ call.quote = q /\ call.args = args /\ call.transaction = t
        OBVIOUS
      <4> HIDE DEF call
      <4>3. Goes(k, call) /\ calls'[k] = call
        BY <1>1, <4>1, Moved DEF Goes, call
      <4>4. QuoteSound(k) /\ Bought(k)
        BY <1>1 DEF CallSound
      <4>5. QuoteSound(k)' /\ Bought(k)'
        BY <1>1, <4>2, <4>3, <4>4 DEF QuoteSound, Bought
      <4>6. Decided(k)'
        BY <1>1, <2>5, <4>2, <4>3 DEF Decided, facts
      <4>7. CallSound(k)'
        BY <4>1, <4>2, <4>3, <4>5, <4>6 DEF CallSound
      <4> QED
        BY <2>9, <4>3, <4>7, OneCallMoves
    <3> QED
      BY <3>1, <3>2
  <2>11. CardsSound'
    BY <1>1, <2>9, CardsKept DEF VerdictInv
  <2> QED
    BY <1>1, <2>8, <2>9, <2>10, <2>11 DEF VerdictInv, Shape
<1> QED
  BY <1>2, <1>3

LEMMA RecordKeeps ==
  ASSUME VerdictInv, NEW k \in Calls, RecordDecision(k)
  PROVE  VerdictInv' /\ DataKept
<1>1. /\ registry' = registry /\ UNCHANGED artifactVars /\ loaded' = loaded /\ paid' = paid
      /\ Shape /\ ExecutedRecorded
  BY DEF RecordDecision, VerdictInv
<1>2. PICK report \in Reported, d \in Datasets, decision \in {"approved", "rejected", "needs_review"} :
        /\ Broadcast(Owner, "record_decision_with_root",
             [ datasetId |-> d, datasetRoot |-> d, reportHash |-> report,
               paymentReceiptHash |-> k, decision |-> decision ])
        /\ Goes(k, [ at |-> "confirm", budget |-> Null, args |-> Last(transactions').args,
                     transaction |-> Len(transactions'), quote |-> Null ])
  BY DEF RecordDecision
<1> DEFINE args == [ datasetId |-> d, datasetRoot |-> d, reportHash |-> report,
                     paymentReceiptHash |-> k, decision |-> decision ]
           call == [ at |-> "confirm", budget |-> Null, args |-> Last(transactions').args,
                     transaction |-> Len(transactions'), quote |-> Null ]
<1>3. report \in Reports
  BY DEF Reports
<1>4. Broadcast(Owner, "record_decision_with_root", args) /\ Goes(k, call)
  BY <1>2
<1>5. call.at = "confirm" /\ call.quote = Null /\ call.transaction = Len(transactions')
  OBVIOUS
<1>6. args \in Arguments /\ args = [f \in DecisionFields |-> args[f]]
  BY <1>3, DecisionArguments
<1> HIDE DEF args, call
<1>7. /\ transactions' \in Seq(Sent) /\ TransactionsKept /\ ExecutedRecorded'
      /\ Len(transactions') \in DOMAIN transactions'
  BY <1>1, <1>4, <1>6, OwnerSends
<1>8. DataKept
  BY <1>1, <1>7 DEF DataKept, RecordsKept, Recorded
<1>9. calls'[k] = call
  BY <1>1, <1>4, Moved DEF Goes
<1>10. CallSound(k)'
  BY <1>5, <1>7, <1>9 DEF CallSound
<1>11. calls' = [j \in Calls |-> calls'[j]] /\ \A j \in Calls : CallSound(j)'
  BY <1>4, <1>8, <1>10, OneCallMoves
<1>12. CardsSound'
  BY <1>1, <1>8, CardsKept DEF VerdictInv
<1> QED
  BY <1>1, <1>7, <1>8, <1>11, <1>12 DEF VerdictInv, Shape

LEMMA ConfirmKeeps ==
  ASSUME VerdictInv, NEW k \in Calls, ConfirmAgentPaySubmission(k)
  PROVE  VerdictInv' /\ DataKept
<1>1. /\ UNCHANGED registryVars /\ UNCHANGED artifactVars /\ loaded' = loaded /\ paid' = paid
      /\ Shape /\ ExecutedRecorded /\ CallSound(k) /\ calls[k].at = "confirm"
  BY DEF ConfirmAgentPaySubmission, VerdictInv
<1>2. /\ transactions' \in Seq(Sent) /\ registry' = [f \in RegistryFields |-> registry'[f]]
      /\ ExecutedRecorded' /\ DataKept
  BY <1>1, NothingSent DEF DataKept
<1>3. calls' = [j \in Calls |-> calls'[j]] /\ \A j \in Calls : CallSound(j)'
  <2>1. CASE Fails(k)
    BY <1>2, <2>1, FailingCall
  <2>2. CASE ~ Fails(k)
    <3> DEFINE t == calls[k].transaction
               call == Answered(calls[k])
    <3>1. VerifyDecisionRecord(t, calls[k].args) /\ Goes(k, call)
      BY <2>2 DEF ConfirmAgentPaySubmission
    <3>2. /\ call.at = "answered" /\ call.quote = calls[k].quote /\ call.args = calls[k].args
      BY DEF Answered
    <3> HIDE DEF call
    <3>3. t \in DOMAIN transactions
      BY <1>1 DEF CallSound
    <3>4. Recorded(transactions[t].args)
      BY <1>1, <3>1, <3>3 DEF ExecutedRecorded, VerifyDecisionRecord, IsDecision
    <3>5. Recorded(calls[k].args)
      BY <3>1, <3>4 DEF VerifyDecisionRecord
    <3>6. calls'[k] = call
      BY <1>1, <3>1, Moved DEF Goes
    <3>7. Recorded(calls[k].args)'
      BY <1>1, <3>2, <3>5, <3>6 DEF Recorded, registryVars
    <3>8. calls[k].quote # Null =>
            /\ QuoteSound(k) /\ Bought(k) /\ Decided(k)
            /\ (QuoteSound(k) /\ Bought(k) /\ Decided(k))'
      BY <1>1, <3>2, <3>6 DEF CallSound, QuoteSound, Bought, Decided
    <3>9. CallSound(k)'
      BY <3>2, <3>6, <3>7, <3>8 DEF CallSound
    <3> QED
      BY <1>2, <3>1, <3>9, OneCallMoves
  <2> QED
    BY <2>1, <2>2
<1>4. CardsSound'
  BY <1>1, <1>2, CardsKept DEF VerdictInv
<1> QED
  BY <1>1, <1>2, <1>3, <1>4 DEF VerdictInv, Shape

LEMMA RestartKeeps ==
  ASSUME VerdictInv, Restart
  PROVE  VerdictInv' /\ DataKept
<1>1. /\ UNCHANGED registryVars /\ UNCHANGED artifactVars /\ loaded' = loaded /\ paid' = paid
      /\ Shape /\ ExecutedRecorded
      /\ calls' = [k \in Calls |->
                     IF calls[k].at \in {"quote", "settle", "verify", "confirm"}
                     THEN Failed(calls[k]) ELSE calls[k]]
  BY DEF Restart, VerdictInv
<1>2. /\ transactions' \in Seq(Sent) /\ registry' = [f \in RegistryFields |-> registry'[f]]
      /\ ExecutedRecorded' /\ DataKept
  BY <1>1, NothingSent DEF DataKept
<1>3. ASSUME NEW k \in Calls PROVE CallSound(k)'
  <2>1. calls'[k].at = "failed" \/ calls'[k] = calls[k]
    BY <1>1 DEF Failed
  <2> QED
    BY <1>2, <2>1, PromisesNothing, StaysSound DEF VerdictInv
<1>4. calls' = [k \in Calls |-> calls'[k]]
  BY <1>1
<1>5. CardsSound'
  BY <1>1, <1>2, CardsKept DEF VerdictInv
<1> QED
  BY <1>1, <1>2, <1>3, <1>4, <1>5 DEF VerdictInv, Shape

(* Steps that move no call.                                                 *)
LEMMA RegistryStepKeeps ==
  ASSUME VerdictInv, UNCHANGED <<artifactVars, checkVars>>,
         Others \/ \E i \in DOMAIN transactions : Execute(i)
  PROVE  VerdictInv' /\ DataKept
<1>1. /\ UNCHANGED artifactVars /\ loaded' = loaded /\ paid' = paid /\ calls' = calls
      /\ Shape /\ ExecutedRecorded
  BY DEF checkVars, VerdictInv
<1>2. /\ transactions' \in Seq(Sent) /\ registry' = [f \in RegistryFields |-> registry'[f]]
      /\ RecordsKept /\ TransactionsKept /\ ExecutedRecorded'
  <2>1. CASE Others
    <3>1. registry' = registry
      BY <2>1 DEF Others
    <3> QED
      BY <1>1, <2>1, <3>1, OthersSend DEF Shape, RecordsKept, Recorded
  <2>2. CASE \E i \in DOMAIN transactions : Execute(i)
    BY <1>1, <2>2, ChainKeeps
  <2> QED
    BY <2>1, <2>2
<1>3. DataKept
  BY <1>1, <1>2 DEF DataKept
<1>4. \A k \in Calls : CallSound(k)'
  BY <1>1, <1>3, StaysSound DEF VerdictInv
<1>5. CardsSound'
  BY <1>1, <1>3, CardsKept DEF VerdictInv
<1> QED
  BY <1>1, <1>2, <1>3, <1>4, <1>5 DEF VerdictInv, Shape

(* A store keeps entries it had, and the one that is added.                 *)
LEMMA NewestOf ==
  ASSUME NEW entries, NEW entry, NEW maximum
  PROVE  DOMAIN Newest(Added(entries, entry), maximum) \subseteq DOMAIN entries \cup {entry}
<1>1. PICK all : all = Added(entries, entry)
  OBVIOUS
<1>2. DOMAIN all = DOMAIN entries \cup {entry}
  BY <1>1 DEF Added
<1>3. PICK S : Newest(all, maximum) = Only(all, S)
  BY Zenon DEF Newest
<1>4. DOMAIN Only(all, S) \subseteq DOMAIN all
  BY DEF Only
<1> QED
  BY <1>1, <1>2, <1>3, <1>4

LEMMA ArtifactsKeep ==
  ASSUME VerdictInv, UNCHANGED <<registryVars, checkVars>>,
         PostCard \/ Share
  PROVE  VerdictInv' /\ DataKept
<1>1. /\ UNCHANGED registryVars /\ loaded' = loaded /\ paid' = paid /\ calls' = calls
      /\ Shape /\ ExecutedRecorded /\ CardsSound
  BY DEF checkVars, VerdictInv
<1>2. /\ transactions' \in Seq(Sent) /\ registry' = [f \in RegistryFields |-> registry'[f]]
      /\ ExecutedRecorded' /\ DataKept
  BY <1>1, NothingSent DEF DataKept
<1>3. \A k \in Calls : CallSound(k)'
  BY <1>1, <1>2, StaysSound DEF VerdictInv
<1>4. CardsSound'
  <2>1. CASE PostCard
    <3>1. PICK t \in DOMAIN transactions, u \in DOMAIN transactions :
            /\ IsDecision(transactions[u])
            /\ ParseVerdictCardSubmission(transactions[u].args.reportHash)
            /\ VerifyDecisionRecord(t, [transactions[u].args EXCEPT
                                          !.decision = transactions[u].args.reportHash.decision])
            /\ SaveCard([aspect |-> transactions[u].args.reportHash.aspect, transaction |-> t])
      BY <2>1 DEF PostCard, IsDecision
    <3> DEFINE report == transactions[u].args.reportHash
               card == [aspect |-> report.aspect, transaction |-> t]
               args == [transactions[u].args EXCEPT !.decision = report.decision]
    <3>2. transactions[u] \in Sent
      BY <1>1, ElementOfSeq, LenProperties DEF Shape
    <3>3. transactions[u].args = [f \in DecisionFields |-> transactions[u].args[f]]
      BY <3>1, <3>2 DEF Sent
    <3>4. args.reportHash = report /\ args.decision = report.decision
      BY <3>3 DEF DecisionFields
    <3>5. card.aspect = report.aspect /\ card.transaction = t
      OBVIOUS
    <3> HIDE DEF args, card, report
    <3>6. /\ report.aspect = Rule(report.facts).aspect
          /\ report.decision = Decision(report.aspect)
      BY <3>1, RuleDecides DEF ParseVerdictCardSubmission, report
    <3>7. /\ IsDecision(transactions[t]) /\ transactions[t].state = "executed"
          /\ transactions[t].args = args
      BY <3>1 DEF VerifyDecisionRecord, IsDecision, args, report
    <3>8. CardSound(card)
      BY <1>1, <3>4, <3>5, <3>6, <3>7 DEF CardSound, ExecutedRecorded
    <3>9. /\ cards' = Newest(Added(cards, card), MaxVerdictCards)
          /\ feed' = Only(feed, DOMAIN cards')
      BY <3>1 DEF SaveCard, card, report
    <3>10. DOMAIN cards' \subseteq DOMAIN cards \cup {card}
      BY <3>9, NewestOf
    <3>11. DOMAIN feed' \subseteq DOMAIN cards'
      BY <3>9 DEF Only
    <3>12. \A c \in DOMAIN cards' : CardSound(c)'
      <4> SUFFICES ASSUME NEW c \in DOMAIN cards' PROVE CardSound(c)'
        OBVIOUS
      <4>1. CardSound(c)
        BY <1>1, <3>8, <3>10 DEF CardsSound
      <4> QED
        BY <1>2, <4>1, CardsStaySound
    <3> QED
      BY <3>11, <3>12 DEF CardsSound
  <2>2. CASE Share
    <3>1. PICK card \in DOMAIN cards : ShareCard(card)
      BY <2>2 DEF Share
    <3>2. cards' = cards /\ feed' = Newest(Added(feed, card), MaxFeedEntries)
      BY <3>1 DEF ShareCard
    <3>3. DOMAIN feed' \subseteq DOMAIN cards
      <4>1. DOMAIN feed' \subseteq DOMAIN feed \cup {card}
        BY <3>2, NewestOf
      <4> QED
        BY <1>1, <4>1 DEF CardsSound
    <3>4. \A c \in DOMAIN cards' : CardSound(c)'
      BY <1>1, <1>2, <3>2, CardsStaySound DEF CardsSound
    <3> QED
      BY <3>2, <3>3, <3>4 DEF CardsSound
  <2> QED
    BY <2>1, <2>2
<1> QED
  BY <1>1, <1>2, <1>3, <1>4 DEF VerdictInv, Shape

LEMMA VerdictInductive == VerdictInv /\ [Next]_vars => VerdictInv'
<1> SUFFICES ASSUME VerdictInv, [Next]_vars PROVE VerdictInv'
  OBVIOUS
<1>1. ASSUME UNCHANGED artifactVars, UNCHANGED registryVars, UNCHANGED checkVars PROVE VerdictInv'
  <2>1. /\ loaded' = loaded /\ paid' = paid /\ calls' = calls /\ Shape /\ ExecutedRecorded
    BY <1>1 DEF VerdictInv, checkVars
  <2>2. /\ transactions' \in Seq(Sent) /\ registry' = [f \in RegistryFields |-> registry'[f]]
        /\ ExecutedRecorded' /\ DataKept
    BY <1>1, <2>1, NothingSent DEF DataKept
  <2>3. (\A k \in Calls : CallSound(k)') /\ CardsSound'
    BY <1>1, <2>1, <2>2, StaysSound, CardsKept DEF VerdictInv
  <2> QED
    BY <2>1, <2>2, <2>3 DEF VerdictInv, Shape
<1>2. CASE \E k \in Calls : \/ Assess(k) \/ GetQuote(k) \/ Settle(k) \/ Verify(k)
                            \/ RecordDecision(k) \/ ConfirmAgentPaySubmission(k)
  BY <1>2, AssessKeeps, GetQuoteKeeps, SettleKeeps, VerifyKeeps, RecordKeeps, ConfirmKeeps
<1>3. CASE Tick /\ UNCHANGED <<artifactVars, registryVars, checkVars>>
  BY <1>1, <1>3
<1>4. CASE Restart
  BY <1>4, RestartKeeps
<1>5. CASE Others \/ ChainStep
  BY <1>5, RegistryStepKeeps DEF Others, ChainStep
<1>6. CASE PostCard \/ Share
  BY <1>6, ArtifactsKeep DEF PostCard, Share
<1>7. CASE UNCHANGED vars
  BY <1>1, <1>7 DEF vars
<1> QED
  BY <1>2, <1>3, <1>4, <1>5, <1>6, <1>7 DEF Next

LEMMA VerdictInit == Init => VerdictInv
<1> SUFFICES ASSUME Init PROVE VerdictInv
  OBVIOUS
<1>1. /\ calls = [k \in Calls |-> Idle] /\ loaded = <<>> /\ transactions = <<>>
      /\ registry = Installation /\ cards = [c \in {} |-> 0] /\ feed = [c \in {} |-> 0]
  BY DEF Init, RegistryInit, ArtifactsInit
<1>2. loaded = [d \in DOMAIN loaded |-> loaded[d]] /\ DOMAIN loaded = {}
  BY <1>1
<1>3. transactions \in Seq(Sent) /\ DOMAIN transactions = {}
  BY <1>1, EmptySeq
<1>4. registry = [f \in RegistryFields |-> registry[f]]
  BY <1>1 DEF Installation, RegistryFields
<1>5. \A k \in Calls : CallSound(k)
  BY <1>1 DEF Idle, CallSound
<1>6. CardsSound
  BY <1>1 DEF CardsSound
<1> QED
  BY <1>1, <1>2, <1>3, <1>4, <1>5, <1>6 DEF VerdictInv, Shape, ExecutedRecorded

LEMMA VerdictAlways == Spec => []VerdictInv
BY VerdictInit, VerdictInductive, PTL DEF Spec

LEMMA RecordedHeld ==
  ASSUME NEW args, Recorded(args)
  PROVE  Held(args)
BY DEF Recorded, Held, Get

(* An answered verdict was paid for as quoted, is what the rules make of    *)
(* the evidence under the quoted root, and the registry holds it            *)
(* (trust/assess.ts:84).                                                    *)
THEOREM VerdictAlwaysBacked == Spec => []VerdictBacked
<1>1. VerdictInv => VerdictBacked
  <2> SUFFICES ASSUME VerdictInv, NEW k \in Calls, calls[k].at = "answered", calls[k].quote # Null
               PROVE  /\ Bought(k) /\ QuoteSound(k) /\ Decided(k) /\ Held(calls[k].args)
    BY DEF VerdictBacked, Bought, QuoteSound, Decided
  <2>1. Recorded(calls[k].args) /\ Bought(k) /\ QuoteSound(k) /\ Decided(k)
    BY DEF VerdictInv, CallSound
  <2> QED
    BY <2>1, RecordedHeld
<1> QED
  BY <1>1, VerdictAlways, PTL

(* Every card that is shown is of a report that the registry holds, and the *)
(* feed shows cards only (app.ts:433, publicArtifacts.ts).                  *)
THEOREM PublishedAlwaysRecorded == Spec => []PublishedRecorded
<1>1. VerdictInv => PublishedRecorded
  <2> SUFFICES ASSUME VerdictInv PROVE PublishedRecorded
    OBVIOUS
  <2>1. \A card \in DOMAIN cards : CardSound(card) /\ Held(transactions[card.transaction].args)
    BY RecordedHeld DEF VerdictInv, CardsSound, CardSound
  <2> QED
    BY <2>1 DEF PublishedRecorded, VerdictInv, CardsSound, CardSound
<1> QED
  BY <1>1, VerdictAlways, PTL

-----------------------------------------------------------------------------
(* The budget. Days only pass.                                              *)
LEMMA DaysPass ==
  ASSUME clock \in Nat
  PROVE  Today \in Nat /\ (clock + 1) \div DayLength >= Today
BY BridgeAssumption DEF Today

BudgetInv ==
  /\ calls = [k \in Calls |-> calls[k]]
  /\ BudgetSound /\ PaymentsSound

Unlimited == {"idle", "refused"}
Unpaid == {"idle", "refused", "quote", "settle"}

(* The calls go on at the expense of whom they began.                       *)
AccountsStay ==
  /\ Limited' = Limited
  /\ \A k \in Limited : calls'[k].budget = calls[k].budget

LEMMA BudgetStays ==
  ASSUME BudgetSound, AccountsStay, clock' = clock, options' = options,
         limiter' = limiter, restarts' = restarts
  PROVE  BudgetSound'
<1>1. \A b : OnAccount(b)' = OnAccount(b)
  BY DEF OnAccount, AccountsStay
<1>2. \A b : IsFiniteSet(OnAccount(b)') /\ Cardinality(OnAccount(b)') <= DailyLimit
  BY <1>1 DEF BudgetSound
<1>3. Cardinality(OnAccount(<<limiter.day, restarts>>)') <= limiter.count
  BY <1>1 DEF BudgetSound
<1>4. OnAccount(<<limiter.day, restarts>>)' = OnAccount(<<limiter.day, restarts>>)
  BY <1>1 DEF OnAccount, AccountsStay
<1>5. \A k \in Limited' : AccountKnown(k)'
  BY DEF BudgetSound, AccountsStay, AccountKnown
<1> QED
  BY <1>2, <1>3, <1>4, <1>5 DEF BudgetSound, StartsWith, RequireTestnetConfiguration, Today

(* A call that goes on keeps its account.                                   *)
LEMMA CallGoesOn ==
  ASSUME calls = [k \in Calls |-> calls[k]], NEW k \in Calls, NEW call, Goes(k, call),
         \/ /\ calls[k].at \notin Unlimited /\ call.at \notin Unlimited
            /\ call.budget = calls[k].budget
         \/ /\ calls[k].at \in Unlimited
            /\ call.at \in Unlimited \/ call.budget = Null
  PROVE  AccountsStay
<1>1. /\ calls'[k] = call
      /\ \A j \in Calls \ {k} : calls'[j] = calls[j]
  BY DEF Goes
<1>2. \A j \in Calls : j \in Limited' <=> j \in Limited
  BY <1>1 DEF Limited, Unlimited
<1> QED
  BY <1>1, <1>2 DEF AccountsStay, Limited, Unlimited

LEMMA PaymentsStay ==
  ASSUME PaymentsSound, paid' = paid,
         \A k \in Calls : calls[k].at \notin Unpaid =>
           calls'[k].at \notin Unpaid /\ (k \in Limited' => k \in Limited)
  PROVE  PaymentsSound'
BY DEF PaymentsSound, Unpaid

(* A call that moves without a payment.                                     *)
LEMMA UnpaidStep ==
  ASSUME BudgetInv, NEW k \in Calls, NEW call, Goes(k, call),
         \/ /\ calls[k].at \notin Unlimited /\ call.at \notin Unlimited
            /\ call.budget = calls[k].budget
         \/ /\ calls[k].at \in Unlimited
            /\ call.at \in Unlimited \/ call.budget = Null,
         calls[k].at \in Unpaid \/ call.at \notin Unpaid,
         clock' = clock, options' = options, limiter' = limiter, restarts' = restarts,
         paid' = paid
  PROVE  BudgetInv'
<1>1. AccountsStay
  BY CallGoesOn DEF BudgetInv
<1>2. BudgetSound'
  BY <1>1, BudgetStays DEF BudgetInv
<1>3. calls' = [j \in Calls |-> calls'[j]] /\ calls'[k] = call
      /\ \A j \in Calls \ {k} : calls'[j] = calls[j]
  BY DEF Goes, BudgetInv
<1>4. PaymentsSound'
  BY <1>1, <1>3, PaymentsStay DEF BudgetInv, AccountsStay
<1> QED
  BY <1>2, <1>3, <1>4 DEF BudgetInv

(* The admission of a call: only the public's are counted, and counted once. *)
LEMMA AssessBudget ==
  ASSUME BudgetInv, NEW k \in Calls, Assess(k)
  PROVE  BudgetInv'
<1>1. /\ calls[k].at = "idle" /\ clock' = clock /\ options' = options /\ restarts' = restarts
      /\ paid' = paid /\ BudgetSound /\ PaymentsSound /\ calls = [j \in Calls |-> calls[j]]
  BY DEF Assess, Idle, BudgetInv
<1>2. PICK request \in Requests, admitted \in BOOLEAN, network \in RequestedNetworks :
        /\ ToolAuthorization("assess_subject", request, admitted)
        /\ Goes(k, IF admitted
                   THEN [ at |-> "quote", requested |-> network,
                          budget |-> IF NeedsBudget("assess_subject", request)
                                     THEN <<Today, restarts>> ELSE Null ]
                   ELSE [at |-> "refused"])
  BY DEF Assess
<1> DEFINE counted == admitted /\ NeedsBudget("assess_subject", request)
<1>0. PICK today : today = <<Today, restarts>>
  OBVIOUS
<1>3. /\ calls' = [j \in Calls |-> calls'[j]] /\ \A j \in Calls \ {k} : calls'[j] = calls[j]
      /\ calls'[k].at \in {"quote", "refused"}
      /\ counted => calls'[k].at = "quote" /\ calls'[k].budget = today
      /\ ~ counted => calls'[k].at = "refused" \/ calls'[k].budget = Null
  BY <1>0, <1>1, <1>2 DEF Goes
<1>4. /\ counted => options.public /\ \E client : Consume(client, TRUE)
      /\ ~ counted => limiter' = limiter \/ \E client : Consume(client, FALSE)
  BY <1>2 DEF ToolAuthorization, NeedsBudget, LetThrough
<1> HIDE DEF counted
<1>5. PICK count : count = CountedToday
  OBVIOUS
<1>6. /\ counted => /\ count < DailyLimit
                    /\ limiter'.day = Today /\ limiter'.count = count + 1
      /\ ~ counted => limiter' = limiter \/ (limiter'.day = Today /\ limiter'.count = count)
  <2>1. ASSUME NEW client, Consume(client, TRUE)
        PROVE  count < DailyLimit /\ limiter'.day = Today /\ limiter'.count = count + 1
    <3>1. PICK some, clients : some = WindowOf(client).count /\ clients = limiter'.clients
      OBVIOUS
    <3>2. /\ TRUE = (count < DailyLimit /\ some < RequestsPerWindow)
          /\ limiter'.day = Today /\ limiter'.count = count + 1
      BY <1>5, <2>1, <3>1, Zenon DEF Consume
    <3> QED
      BY <3>2
  <2>2. ASSUME NEW client, Consume(client, FALSE)
        PROVE  limiter'.day = Today /\ limiter'.count = count
    BY <1>5, <2>2 DEF Consume
  <2> QED
    <3>1. CASE counted
      <4>1. PICK client : Consume(client, TRUE)
        BY <1>4, <3>1
      <4> QED
        BY <2>1, <3>1, <4>1
    <3>2. CASE ~ counted /\ limiter' # limiter
      <4>1. PICK client : Consume(client, FALSE)
        BY <1>4, <3>2
      <4> QED
        BY <2>2, <3>2, <4>1
    <3> QED
      BY <3>1, <3>2
<1>7. /\ count \in 0 .. DailyLimit /\ DailyLimit \in Nat /\ Today \in Nat
      /\ limiter.day = Today => count = limiter.count
      /\ limiter.day # Today => count = 0
  BY <1>1, <1>5, DaysPass, BridgeAssumption DEF BudgetSound, CountedToday
<1>8. IsFiniteSet(OnAccount(today)) /\ Cardinality(OnAccount(today)) <= count
  <2>1. CASE limiter.day = Today
    BY <1>0, <1>1, <1>7, <2>1 DEF BudgetSound
  <2>2. CASE limiter.day # Today
    <3>1. limiter.day \in Int /\ limiter.day < Today
      BY <1>1, <1>7, <2>2 DEF BudgetSound
    <3>2. OnAccount(today) = {}
      BY <1>0, <1>1, <1>7, <3>1 DEF BudgetSound, AccountKnown, OnAccount
    <3> QED
      BY <1>7, <2>2, <3>2, FS_EmptySet
  <2> QED
    BY <2>1, <2>2
<1>9. k \notin Limited /\ \A b : k \notin OnAccount(b)
  BY <1>1 DEF Limited, OnAccount
<1>10. \A b : b # today \/ ~ counted => OnAccount(b)' = OnAccount(b)
  BY <1>3, <1>9 DEF OnAccount, Limited
<1>11. OnAccount(today)' \in {OnAccount(today), OnAccount(today) \cup {k}}
  BY <1>3, <1>9 DEF OnAccount, Limited
<1>12. /\ IsFiniteSet(OnAccount(today)') /\ Cardinality(OnAccount(today)') <= DailyLimit
       /\ counted => Cardinality(OnAccount(today)') <= count + 1
       /\ ~ counted => Cardinality(OnAccount(today)') <= count
  <2>1. CASE OnAccount(today)' = OnAccount(today)
    BY <1>7, <1>8, <2>1, FS_CardinalityType
  <2>2. CASE OnAccount(today)' = OnAccount(today) \cup {k} /\ counted
    <3>1. /\ IsFiniteSet(OnAccount(today) \cup {k})
          /\ Cardinality(OnAccount(today) \cup {k}) = Cardinality(OnAccount(today)) + 1
      BY <1>8, <1>9, FS_AddElement
    <3> QED
      BY <1>6, <1>7, <1>8, <2>2, <3>1, FS_CardinalityType
  <2> QED
    BY <1>10, <1>11, <2>1, <2>2
<1>13. /\ limiter'.day \in Int /\ limiter'.day <= Today /\ limiter.day <= limiter'.day
       /\ limiter'.count \in 0 .. DailyLimit
       /\ counted => limiter'.day = Today
  BY <1>1, <1>6, <1>7 DEF BudgetSound
<1>14. \A b : IsFiniteSet(OnAccount(b)') /\ Cardinality(OnAccount(b)') <= DailyLimit
  BY <1>1, <1>10, <1>12 DEF BudgetSound
<1>15. ASSUME NEW j \in Limited' PROVE AccountKnown(j)'
  <2>1. CASE j # k
    <3>1. j \in Limited /\ calls'[j] = calls[j]
      BY <1>3, <2>1 DEF Limited
    <3>2. AccountKnown(j)
      BY <1>1, <3>1 DEF BudgetSound
    <3>3. PICK d \in Int, r \in Nat :
            calls[j].budget = <<d, r>> /\ r <= restarts /\ (r = restarts => d <= limiter.day)
      BY <3>2 DEF AccountKnown
    <3>4. r = restarts => d <= limiter'.day
      BY <1>1, <1>13, <3>3 DEF BudgetSound
    <3> QED
      BY <1>1, <3>1, <3>2, <3>3, <3>4 DEF AccountKnown
  <2>2. CASE j = k
    <3>1. counted
      BY <1>3, <2>2 DEF Limited
    <3>2. calls'[j].budget = <<Today, restarts>> /\ Today <= limiter'.day /\ options.public
      BY <1>0, <1>3, <1>4, <1>7, <1>13, <2>2, <3>1
    <3> QED
      BY <1>1, <1>7, <3>2 DEF BudgetSound, AccountKnown
  <2> QED
    BY <2>1, <2>2
<1>16. PICK account : account = <<limiter'.day, restarts>>
  OBVIOUS
<1>17. Cardinality(OnAccount(account)') <= limiter'.count
  <2>1. CASE limiter'.day = Today /\ limiter'.count = IF counted THEN count + 1 ELSE count
    BY <1>0, <1>12, <1>16, <2>1
  <2>2. CASE limiter' = limiter /\ ~ counted
    BY <1>1, <1>10, <1>16, <2>2 DEF BudgetSound
  <2> QED
    BY <1>6, <2>1, <2>2
<1>18. OnAccount(account)' = OnAccount(<<limiter.day, restarts>>)'
  BY <1>1, <1>16 DEF OnAccount, Limited
<1>19. BudgetSound'
  <2>1. /\ clock' \in Nat /\ restarts' \in Nat /\ StartsWith(options)' /\ limiter'.day <= Today'
    BY <1>1, <1>13 DEF BudgetSound, Today, StartsWith, RequireTestnetConfiguration
  <2>2. Cardinality(OnAccount(<<limiter.day, restarts>>)') <= limiter'.count
    BY <1>17, <1>18
  <2> QED
    BY <1>1, <1>13, <1>14, <1>15, <2>1, <2>2 DEF BudgetSound
<1>20. PaymentsSound'
  BY <1>1, <1>3, PaymentsStay DEF Unpaid, Limited
<1> QED
  BY <1>3, <1>19, <1>20 DEF BudgetInv

(* The steps of a call that was admitted, and of one at its own expense.    *)
LEMMA GetQuoteBudget ==
  ASSUME BudgetInv, NEW k \in Calls, GetQuote(k)
  PROVE  BudgetInv'
<1>1. PICK call : /\ Goes(k, call) /\ call.at \in {"failed", "settle"}
                  /\ call.budget = calls[k].budget
  <2>1. CASE Fails(k)
    BY <2>1 DEF Fails, Failed
  <2>2. CASE ~ Fails(k)
    <3>1. PICK q : Goes(k, [at |-> "settle", budget |-> calls[k].budget, quote |-> q])
      BY <2>2, Zenon DEF GetQuote
    <3> QED
      BY <3>1
  <2> QED
    BY <2>1, <2>2
<1>2. /\ calls[k].at = "quote" /\ clock' = clock /\ options' = options /\ limiter' = limiter
      /\ restarts' = restarts /\ paid' = paid
  BY DEF GetQuote, bridgeVars
<1> QED
  BY <1>1, <1>2, UnpaidStep DEF Unlimited, Unpaid

LEMMA SettleBudget ==
  ASSUME BudgetInv, NEW k \in Calls, Settle(k)
  PROVE  BudgetInv'
<1>1. PICK call : /\ Goes(k, call) /\ call.at \in {"failed", "verify"}
                  /\ call.budget = calls[k].budget
  BY DEF Settle, Fails, Failed
<1>2. /\ calls[k].at = "settle" /\ clock' = clock /\ options' = options /\ limiter' = limiter
      /\ restarts' = restarts /\ BudgetSound /\ PaymentsSound
      /\ calls = [j \in Calls |-> calls[j]]
  BY DEF Settle, bridgeVars, BudgetInv
<1>3. AccountsStay
  BY <1>1, <1>2, CallGoesOn DEF Unlimited
<1>4. BudgetSound'
  BY <1>2, <1>3, BudgetStays
<1>5. calls' = [j \in Calls |-> calls'[j]] /\ calls'[k] = call
      /\ \A j \in Calls \ {k} : calls'[j] = calls[j]
  BY <1>1, <1>2 DEF Goes
<1> DEFINE p == [call |-> k, dataset |-> calls[k].quote.dataset, terms |-> calls[k].quote.terms]
<1>6. paid' = paid \/ (paid' = paid \cup {p} /\ EnforceX402SpendPolicy(calls[k].quote.terms))
  BY DEF Settle
<1>7. p.call = k /\ p.terms = calls[k].quote.terms
  OBVIOUS
<1> HIDE DEF p
<1>8. paid' # paid /\ k \in Limited => p.terms = "expected"
  BY <1>2, <1>6, <1>7
     DEF BudgetSound, AccountKnown, StartsWith, RequireTestnetConfiguration, EnforceX402SpendPolicy
<1>9. \A o \in paid : o.call \in Calls \ {k}
  BY <1>2 DEF PaymentsSound
<1>10. \A o \in paid' : o.call \in Calls /\ calls'[o.call].at \notin Unpaid
  BY <1>1, <1>2, <1>5, <1>6, <1>7, <1>9 DEF PaymentsSound, Unpaid
<1>11. \A o, q \in paid' : q.call = o.call => q = o
  BY <1>2, <1>6, <1>7, <1>9 DEF PaymentsSound
<1>12. \A o \in paid' : o.call \in Limited' => o.terms = "expected"
  BY <1>2, <1>3, <1>6, <1>7, <1>8, <1>9 DEF PaymentsSound, AccountsStay
<1>13. PaymentsSound'
  BY <1>10, <1>11, <1>12 DEF PaymentsSound, Unpaid
<1> QED
  BY <1>4, <1>5, <1>13 DEF BudgetInv

LEMMA VerifyBudget ==
  ASSUME BudgetInv, NEW k \in Calls, Verify(k)
  PROVE  BudgetInv'
<1>1. PICK call : /\ Goes(k, call) /\ call.at \in {"failed", "confirm"}
                  /\ call.budget = calls[k].budget
  <2>1. Fails(k) \/ SubmitRecordDecisionDeploy(k, DecisionOf(k, calls[k].sold))
    BY DEF Verify
  <2>2. CASE Fails(k)
    BY <2>2 DEF Fails, Failed
  <2>3. CASE ~ Fails(k)
    <3>1. PICK args, t, q : Goes(k, [ at |-> "confirm", budget |-> calls[k].budget, args |-> args,
                                      transaction |-> t, quote |-> q ])
      BY <2>1, <2>3, Zenon DEF SubmitRecordDecisionDeploy
    <3> QED
      BY <3>1
  <2> QED
    BY <2>2, <2>3
<1>2. /\ calls[k].at = "verify" /\ clock' = clock /\ options' = options /\ limiter' = limiter
      /\ restarts' = restarts /\ paid' = paid
  BY DEF Verify, bridgeVars
<1> QED
  BY <1>1, <1>2, UnpaidStep DEF Unlimited, Unpaid

LEMMA RecordBudget ==
  ASSUME BudgetInv, NEW k \in Calls, RecordDecision(k)
  PROVE  BudgetInv'
<1>1. PICK call : Goes(k, call) /\ call.at = "confirm" /\ call.budget = Null
  BY DEF RecordDecision
<1>2. \A request : ToolAuthorization("record_decision", request, TRUE) => limiter' = limiter
  BY DEF ToolAuthorization, NeedsBudget, PublicAssessmentTools
<1>3. /\ calls[k].at = "idle" /\ clock' = clock /\ options' = options /\ limiter' = limiter
      /\ restarts' = restarts /\ paid' = paid
  <2>1. PICK request : ToolAuthorization("record_decision", request, TRUE)
    BY DEF RecordDecision
  <2>2. limiter' = limiter
    BY <1>2, <2>1
  <2> QED
    BY <2>2 DEF RecordDecision, Idle
<1> QED
  BY <1>1, <1>3, UnpaidStep DEF Unlimited, Unpaid

LEMMA ConfirmBudget ==
  ASSUME BudgetInv, NEW k \in Calls, ConfirmAgentPaySubmission(k)
  PROVE  BudgetInv'
<1>1. PICK call : /\ Goes(k, call) /\ call.at \in {"failed", "answered"}
                  /\ call.budget = calls[k].budget
  BY DEF ConfirmAgentPaySubmission, Fails, Failed, Answered
<1>2. /\ calls[k].at = "confirm" /\ clock' = clock /\ options' = options /\ limiter' = limiter
      /\ restarts' = restarts /\ paid' = paid
  BY DEF ConfirmAgentPaySubmission, bridgeVars
<1> QED
  BY <1>1, <1>2, UnpaidStep DEF Unlimited, Unpaid

(* A new process has an account of its own, which nothing is on.            *)
LEMMA RestartBudget ==
  ASSUME BudgetInv, Restart
  PROVE  BudgetInv'
<1>1. /\ clock' = clock /\ options' = options /\ restarts' = restarts + 1 /\ paid' = paid
      /\ limiter'.day = -1 /\ limiter'.count = 0
      /\ BudgetSound /\ PaymentsSound /\ calls = [k \in Calls |-> calls[k]]
      /\ calls' = [k \in Calls |->
                     IF calls[k].at \in {"quote", "settle", "verify", "confirm"}
                     THEN Failed(calls[k]) ELSE calls[k]]
  BY DEF Restart, FreshLimiter, BudgetInv
<1>2. \A k \in Calls :
        \/ calls'[k] = calls[k]
        \/ /\ calls[k].at \notin Unlimited /\ calls'[k].at = "failed"
           /\ calls'[k].budget = calls[k].budget
  BY <1>1 DEF Failed, Unlimited
<1>3. AccountsStay
  BY <1>2 DEF AccountsStay, Limited, Unlimited
<1>4. \A b : OnAccount(b)' = OnAccount(b)
  BY <1>3 DEF OnAccount, AccountsStay
<1>5. \A k \in Limited : AccountKnown(k) /\ AccountKnown(k)'
  <2> SUFFICES ASSUME NEW k \in Limited PROVE AccountKnown(k) /\ AccountKnown(k)'
    OBVIOUS
  <2>1. PICK d \in Int, r \in Nat : calls[k].budget = <<d, r>> /\ r <= restarts
    BY <1>1 DEF BudgetSound, AccountKnown
  <2>2. r <= restarts' /\ r # restarts'
    BY <1>1, <2>1 DEF BudgetSound
  <2>4. calls'[k].budget = <<d, r>>
    BY <1>3, <2>1 DEF AccountsStay
  <2>3. AccountKnown(k)
    BY <1>1 DEF BudgetSound
  <2> QED
    BY <1>1, <2>2, <2>3, <2>4 DEF AccountKnown
<1>6. PICK account : account = <<limiter'.day, restarts'>>
  OBVIOUS
<1>7. OnAccount(account) = {}
  <2> SUFFICES ASSUME NEW k \in Limited, calls[k].budget = account PROVE FALSE
    BY DEF OnAccount
  <2>1. PICK d \in Int, r \in Nat : calls[k].budget = <<d, r>> /\ r <= restarts
    BY <1>5 DEF AccountKnown
  <2> QED
    BY <1>1, <1>6, <2>1 DEF BudgetSound
<1>8. Cardinality(OnAccount(account)') <= limiter'.count
  <2>1. OnAccount(account)' = {}
    BY <1>4, <1>7
  <2>2. Cardinality(OnAccount(account)') = 0
    BY <2>1, FS_EmptySet
  <2> QED
    BY <1>1, <2>2
<1>9. OnAccount(account)' = OnAccount(<<limiter.day, restarts>>)'
  BY <1>6 DEF OnAccount, Limited
<1>10. \A b : IsFiniteSet(OnAccount(b)') /\ Cardinality(OnAccount(b)') <= DailyLimit
  BY <1>1, <1>4 DEF BudgetSound
<1>11. /\ clock' \in Nat /\ restarts' \in Nat /\ StartsWith(options)'
       /\ limiter'.day \in Int /\ limiter'.day <= Today'
       /\ limiter'.count \in 0 .. DailyLimit
  BY <1>1, DaysPass, BridgeAssumption
     DEF BudgetSound, StartsWith, RequireTestnetConfiguration, Today
<1>12. \A k \in Limited' : AccountKnown(k)'
  BY <1>3, <1>5 DEF AccountsStay
<1>13. Cardinality(OnAccount(<<limiter.day, restarts>>)') <= limiter'.count
  BY <1>8, <1>9
<1>14. BudgetSound'
  BY <1>10, <1>11, <1>12, <1>13 DEF BudgetSound
<1>15. PaymentsSound'
  BY <1>1, <1>2, <1>3, PaymentsStay DEF AccountsStay, Unpaid
<1> QED
  BY <1>1, <1>14, <1>15 DEF BudgetInv

LEMMA TickBudget ==
  ASSUME BudgetInv, Tick, UNCHANGED checkVars
  PROVE  BudgetInv'
<1>1. /\ clock' = clock + 1 /\ options' = options /\ restarts' = restarts /\ paid' = paid
      /\ limiter' = limiter /\ calls' = calls /\ BudgetSound /\ PaymentsSound
  BY DEF Tick, checkVars, BudgetInv
<1>2. /\ Limited' = Limited /\ \A b : OnAccount(b)' = OnAccount(b)
      /\ OnAccount(<<limiter.day, restarts>>)' = OnAccount(<<limiter.day, restarts>>)
  BY <1>1 DEF Limited, OnAccount
<1>3. clock' \in Nat /\ limiter'.day <= Today'
  <2>1. /\ clock \in Nat /\ limiter.day \in Int /\ limiter.day <= Today
        /\ Today' = (clock + 1) \div DayLength
    BY <1>1 DEF BudgetSound, Today
  <2>2. Today \in Nat /\ (clock + 1) \div DayLength >= Today /\ (clock + 1) \div DayLength \in Int
    BY <2>1, DaysPass, BridgeAssumption
  <2> QED
    BY <1>1, <2>1, <2>2
<1>4. \A k \in Limited' : AccountKnown(k)'
  BY <1>1, <1>2 DEF BudgetSound, AccountKnown
<1>5. \A b : IsFiniteSet(OnAccount(b)') /\ Cardinality(OnAccount(b)') <= DailyLimit
  BY <1>1, <1>2 DEF BudgetSound
<1>6. BudgetSound'
  BY <1>1, <1>2, <1>3, <1>4, <1>5 DEF BudgetSound, StartsWith, RequireTestnetConfiguration
<1>7. PaymentsSound'
  BY <1>1, <1>2 DEF PaymentsSound
<1> QED
  BY <1>1, <1>6, <1>7 DEF BudgetInv

LEMMA BudgetInductive == BudgetInv /\ [Next]_vars => BudgetInv'
<1> SUFFICES ASSUME BudgetInv, [Next]_vars PROVE BudgetInv'
  OBVIOUS
<1>1. ASSUME UNCHANGED bridgeVars, UNCHANGED checkVars PROVE BudgetInv'
  <2>1. AccountsStay
    BY <1>1 DEF AccountsStay, Limited, checkVars
  <2> QED
    BY <1>1, <2>1, BudgetStays, PaymentsStay DEF BudgetInv, bridgeVars, checkVars, AccountsStay
<1>2. CASE \E k \in Calls : \/ Assess(k) \/ GetQuote(k) \/ Settle(k) \/ Verify(k)
                            \/ RecordDecision(k) \/ ConfirmAgentPaySubmission(k)
  BY <1>2, AssessBudget, GetQuoteBudget, SettleBudget, VerifyBudget, RecordBudget, ConfirmBudget
<1>3. CASE Tick /\ UNCHANGED <<artifactVars, registryVars, checkVars>>
  BY <1>3, TickBudget
<1>4. CASE Restart
  BY <1>4, RestartBudget
<1>5. CASE Others \/ ChainStep \/ PostCard \/ Share \/ UNCHANGED vars
  BY <1>1, <1>5 DEF Others, ChainStep, PostCard, Share, vars
<1> QED
  BY <1>2, <1>3, <1>4, <1>5 DEF Next

LEMMA BudgetInit == Init => BudgetInv
<1> SUFFICES ASSUME Init PROVE BudgetInv
  OBVIOUS
<1>1. /\ calls = [k \in Calls |-> Idle] /\ paid = {} /\ restarts = 0 /\ clock = 0
      /\ StartsWith(options) /\ limiter.day = -1 /\ limiter.count = 0
  BY DEF Init, BridgeInit, FreshLimiter
<1>2. Limited = {} /\ \A b : OnAccount(b) = {}
  BY <1>1 DEF Limited, OnAccount, Idle
<1>3. \A b : IsFiniteSet(OnAccount(b)) /\ Cardinality(OnAccount(b)) = 0
  BY <1>2, FS_EmptySet
<1>4. Today \in Nat /\ DailyLimit \in Nat
  BY <1>1, DaysPass, BridgeAssumption
<1>5. BudgetSound
  BY <1>1, <1>2, <1>3, <1>4 DEF BudgetSound
<1> QED
  BY <1>1, <1>5 DEF BudgetInv, PaymentsSound

(* Per UTC day and process, no more public checks are paid for than the     *)
(* daily limit, each at most once and on the pinned terms                   *)
(* (publicAccess.ts:125).                                                   *)
THEOREM BudgetAlwaysKept == Spec => []BudgetKept
<1>1. BudgetInv => BudgetKept
  BY DEF BudgetInv, BudgetSound, PaymentsSound, BudgetKept, OnAccount
<1>2. Spec => []BudgetInv
  BY BudgetInit, BudgetInductive, PTL DEF Spec
<1> QED
  BY <1>1, <1>2, PTL
=============================================================================
