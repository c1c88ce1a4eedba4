-------------------------- MODULE RegistryContract --------------------------
(***************************************************************************)
(* The registry on Casper (contracts/agent-pay-registry): dictionaries of  *)
(* dataset roots, decisions and purchase receipts, an owner, and a         *)
(* recorder whom the owner replaces.  Transactions are broadcast by        *)
(* anybody, executed in any order, and either change the registry or       *)
(* revert.  contract.rs is what is deployed, lib.rs its reference version. *)
(***************************************************************************)
EXTENDS Integers, Sequences, SequencesExt, Functions

CONSTANTS
  Nothing,          \* no value
  Malformed,        \* stands for any argument the contract cannot accept
  Owner,            \* the account that installed the contract
  FirstRecorder,    \* the recorder it was installed with
  MaxTransactions   \* bound: transactions that are ever broadcast

ASSUME RegistryAssumption == Owner # Malformed /\ FirstRecorder # Malformed

VARIABLES
  registry,       \* the named keys and dictionaries of the contract
  transactions    \* sequence of [caller, entryPoint, args, state]

registryVars == <<registry, transactions>>

\* call(): the contract is installed with empty dictionaries.
Installation ==
  [ owner |-> Owner,
    recorder |-> FirstRecorder,
    recorderRevision |-> 1,
    recorderHistory |-> <<FirstRecorder>>,
    datasetRoots |-> <<>>, decisionReceipts |-> <<>>,
    purchaseReceipts |-> <<>>, purchaseReceiptBindings |-> <<>> ]

RegistryInit == registry = Installation /\ transactions = <<>>

-----------------------------------------------------------------------------
(* A dictionary is a function on the keys it has. *)
Get(dictionary, key) == IF key \in DOMAIN dictionary THEN dictionary[key] ELSE Nothing
Put(dictionary, key, value) ==
  [k \in DOMAIN dictionary \cup {key} |-> IF k = key THEN value ELSE dictionary[k]]

(* An existing value that differs makes the call revert.                    *)
Conflicts(dictionary, key, value) == key \in DOMAIN dictionary /\ dictionary[key] # value

WellFormed(args) == Malformed \notin Range(args)

(* Every entry point yields the registry it leaves, or Nothing if it reverts.  *)
ReceiptKey(a) == <<a.datasetId, a.reportHash>>
ReceiptValue(a) == [root |-> a.datasetRoot, payment |-> a.paymentReceiptHash,
                    decision |-> a.decision]

RecordDecisionWithRoot(caller, a) ==
  IF \/ caller \notin {registry.owner, registry.recorder}
     \/ ~ WellFormed(a)
     \/ Conflicts(registry.datasetRoots, a.datasetId, a.datasetRoot)
     \/ Conflicts(registry.decisionReceipts, ReceiptKey(a), ReceiptValue(a))
  THEN Nothing
  ELSE [registry EXCEPT
          !.datasetRoots = Put(@, a.datasetId, a.datasetRoot),
          !.decisionReceipts = Put(@, ReceiptKey(a), ReceiptValue(a))]

ReceiptBinding(a) == <<a.policyHash, a.settlementTxHash>>

RecordPurchaseReceipt(caller, a) ==
  IF \/ caller # registry.recorder
     \/ ~ WellFormed(a)
     \/ Conflicts(registry.purchaseReceiptBindings, a.receiptHash, ReceiptBinding(a))
  THEN Nothing
  ELSE IF a.receiptHash \in DOMAIN registry.purchaseReceiptBindings THEN registry
  ELSE [registry EXCEPT
          !.purchaseReceipts = Put(@, a.receiptHash,
                                   [binding |-> ReceiptBinding(a), recorder |-> caller]),
          !.purchaseReceiptBindings = Put(@, a.receiptHash, ReceiptBinding(a))]

SetRecorder(caller, a) ==
  IF caller # registry.owner \/ ~ WellFormed(a) THEN Nothing
  ELSE IF a.recorder = registry.recorder THEN registry
  ELSE [registry EXCEPT
          !.recorder = a.recorder,
          !.recorderRevision = @ + 1,
          !.recorderHistory = Append(@, a.recorder)]

-----------------------------------------------------------------------------
Broadcast(caller, entryPoint, args) ==
  /\ Len(transactions) < MaxTransactions
  /\ transactions' = Append(transactions,
       [caller |-> caller, entryPoint |-> entryPoint, args |-> args, state |-> "pending"])

Effect(t) ==
  CASE t.entryPoint = "record_decision_with_root" -> RecordDecisionWithRoot(t.caller, t.args)
    [] t.entryPoint = "record_purchase_receipt" -> RecordPurchaseReceipt(t.caller, t.args)
    [] t.entryPoint = "set_recorder" -> SetRecorder(t.caller, t.args)

\* The chain executes a transaction; one that reverts leaves no trace but its result.
Execute(i) ==
  /\ transactions[i].state = "pending"
  /\ IF Effect(transactions[i]) = Nothing
     THEN /\ transactions' = [transactions EXCEPT ![i].state = "failed"]
          /\ UNCHANGED registry
     ELSE /\ transactions' = [transactions EXCEPT ![i].state = "executed"]
          /\ registry' = Effect(transactions[i])
=============================================================================
