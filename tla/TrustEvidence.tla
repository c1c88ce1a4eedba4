--------------------------- MODULE TrustEvidence ---------------------------
(***************************************************************************)
(* How the report API reads the facts of a trust report while the subject  *)
(* changes on the chain (subjectEvidence.ts, accountEvidence.ts,           *)
(* csprCloud.ts), and what the rules make of them.                         *)
(*                                                                         *)
(* A token is read with or without a CSPR.cloud credential: with one the   *)
(* indexer names the active contract, without one the package is read from *)
(* a public node.  Each query fails or is answered with the state of the   *)
(* moment, which a node that lags takes to be an earlier one.  Versions    *)
(* are those of one protocol major.  Nothing is kept from one check to the *)
(* next, so a behaviour is one check.  The holders and the blocks are      *)
(* asked for once, so they stand still; versions, keys and balances are    *)
(* read in several steps and change between them.                          *)
(***************************************************************************)
EXTENDS TrustRules, Sequences, FiniteSetsExt, SequencesExt

CONSTANTS
  Installs,       \* [flag, mint]: contracts that may be installed
  Holdings,       \* [count, top]: holders of the token
  Accounts,       \* [exists, balance, keys, threshold]: states of an account
  MaxVersions,    \* bound: versions of the package
  Height          \* the newest block

(* flag: the value of the named key enable_mint_burn, or Null when there is *)
(* no such key; mint: whether an entry point `mint` is public, or Null when *)
(* the node shows no list of entry points with the contract.                *)
ASSUME TrustEvidenceAssumption ==
  /\ \A i \in Installs : i.flag \in {0, 1, Null} /\ i.mint \in BOOLEAN \cup {Null}
  /\ Holdings \subseteq [count : Nat, top : Nat]
  /\ Accounts \subseteq [exists : BOOLEAN, balance : Nat, keys : Nat, threshold : Nat]
  /\ Null \notin Accounts
  /\ MaxVersions \in Nat \ {0} /\ Height \in Nat

VARIABLES
  versions,   \* the package: [contract, enabled, height], oldest first, or
              \* none when the subject is an account
  holders,    \* who holds the token: does not change
  account,    \* the account, or Null when the subject is a token
  check,      \* the report in the making
  seen        \* the states that held since it was started (history)

chainVars == <<versions, holders, account>>
vars == <<versions, holders, account, check, seen>>

-----------------------------------------------------------------------------
(* The subject, as the chain has it. *)
Enabled == {i \in DOMAIN versions : versions[i].enabled}
Newest == IF Enabled = {} THEN {} ELSE {Max(Enabled)}

Now == [ enabled |-> {versions[i].contract : i \in Enabled},
         newest |-> {versions[i].contract : i \in Newest},
         accounts |-> {account} ]

\* What held at some moment of the check, after this step.
Seen ==
  [ enabled |-> seen.enabled \cup Now'.enabled,
    newest |-> seen.newest \cup Now'.newest,
    accounts |-> seen.accounts \cup Now'.accounts ]

Idle == [at |-> "idle"]

Init ==
  /\ \/ /\ \E i \in Installs, h \in 0 .. Height :
             versions = <<[contract |-> i, enabled |-> TRUE, height |-> h]>>
        /\ holders \in Holdings
        /\ account = Null
     \/ versions = <<>> /\ holders = Null /\ account \in Accounts
  /\ check = Idle
  /\ seen = Now

\* The subject changes before the check and while it is read.
TokenChanges(step) ==
  check.at \in {"idle", "token"} /\ step /\ seen' = Seen /\ UNCHANGED check
AccountChanges(step) ==
  check.at = "account" /\ step /\ seen' = Seen /\ UNCHANGED check

Install ==
  /\ Len(versions) \in 1 .. MaxVersions - 1
  /\ \E i \in Installs :
       versions' = Append(versions,
                          [contract |-> i, enabled |-> TRUE, height |-> Height])
  /\ UNCHANGED <<holders, account>>

Disable ==
  /\ \E i \in Enabled : versions' = [versions EXCEPT ![i].enabled = FALSE]
  /\ UNCHANGED <<holders, account>>

ChangeAccount ==
  /\ account' \in {a \in Accounts \ {account} : account.exists => a.exists}
  /\ UNCHANGED <<versions, holders>>

-----------------------------------------------------------------------------
(* subjectEvidence.ts *)
Unread == [read |-> FALSE]
EmptySupplyControl == [flag |-> Null, mint |-> Null]

\* The newest block is read first; a failure leaves the age unknown.
StartToken ==
  /\ check = Idle /\ versions # <<>>
  /\ \E latest \in (0 .. Height) \cup {Null}, credential \in BOOLEAN :
       check' = [ at |-> "token", credential |-> credential, latest |-> latest,
                  indexer |-> Unread, keys |-> Unread, control |-> Unread ]
  /\ seen' = Now
  /\ UNCHANGED chainVars

(* csprCloud.ts: the package record, the holders and the list of contracts  *)
(* are asked for together, and each may fail (Null).                        *)
InstallBlock(list) == IF list = <<>> THEN Null ELSE Min({v.height : v \in Range(list)})

\* The version the indexer calls active, in a set; none of an empty list.
Active(list) ==
  LET on == {i \in DOMAIN list : list[i].enabled}
  IN IF on = {} THEN {} ELSE {Max(on)}

\* A count of zero holders is not believed.
HolderCount(found) == IF found = Null \/ found.count = 0 THEN Null ELSE found.count

ReadIndexer ==
  /\ check.at = "token" /\ ~ check.indexer.read
  /\ \E package \in {"cep18", "other", Null}, found \in {holders, Null},
        list \in {versions, <<>>} :
       check' = [check EXCEPT !.indexer =
                   [ read |-> TRUE, package |-> package, holders |-> found,
                     installBlock |-> InstallBlock(list), active |-> Active(list) ]]
  /\ UNCHANGED <<versions, holders, account, seen>>

\* The enabled versions of a package, as a node shows them, or none.
ActiveLegacyContractKeys == {Enabled, {}}

(* The versions that may be asked about supply: with a credential the one   *)
(* the indexer calls active, without one those of the package.              *)
ReadPackage ==
  /\ check.at = "token" /\ ~ check.keys.read
  /\ \/ /\ check.credential /\ check.indexer.read /\ check.indexer.package # "other"
        /\ check' = [check EXCEPT !.keys = [read |-> TRUE, left |-> check.indexer.active]]
     \/ /\ ~ check.credential
        /\ \E left \in ActiveLegacyContractKeys :
             check' = [check EXCEPT !.keys = [read |-> TRUE, left |-> left]]
  /\ UNCHANGED <<versions, holders, account, seen>>

(* Mutated form: a flag that cannot be read counts as disabled. *)
FlagOrOff(contract, answered) ==
  IF answered /\ contract.flag # Null THEN contract.flag ELSE 0

\* The flag behind the contract's named key; unread without a key or answer.
MintBurnFlag(contract, answered) == IF answered THEN contract.flag ELSE Null

(* The newest version is asked first.  One whose query fails is passed over *)
(* for the next.                                                            *)
ReadSupplyControl ==
  /\ check.at = "token" /\ check.keys.read /\ ~ check.control.read
  /\ LET left == check.keys.left
         contract == versions[Max(left)].contract
     IN \/ /\ left = {}
           /\ check' = [check EXCEPT !.control = [read |-> TRUE, value |-> EmptySupplyControl]]
        \/ /\ left # {}
           /\ check' = [check EXCEPT !.keys.left = left \ {Max(left)}]
        \/ /\ left # {}
           /\ \E answered \in BOOLEAN :
                check' = [check EXCEPT !.control =
                  [ read |-> TRUE,
                    value |-> [ flag |-> MintBurnFlag(contract, answered),
                                mint |-> contract.mint ] ]]
  /\ UNCHANGED <<versions, holders, account, seen>>

\* The share of the largest holder, when the total supply could be read.
HolderPercentage(found, supplied) ==
  IF found = Null \/ ~ supplied THEN Null ELSE found.top

(* Mutated form: the age of a contract that was not found counts from the   *)
(* first block.                                                             *)
AgeFromStart(latest, install) ==
  IF latest = Null THEN Null ELSE latest - (IF install = Null THEN 0 ELSE install)

ContractAge(latest, install) ==
  IF latest # Null /\ install # Null /\ latest >= install
  THEN latest - install ELSE Null

TokenFacts(supplied) ==
  LET control == IF check.control.read THEN check.control.value ELSE EmptySupplyControl
      other == check.indexer.package = "other"
  IN [ mintBurnEnabled |-> IF control.flag = Null THEN Null ELSE control.flag # 0,
       publicMintEntrypoint |-> control.mint,
       holderCount |-> IF other THEN Null ELSE HolderCount(check.indexer.holders),
       topHolderPct |-> IF other THEN Null ELSE HolderPercentage(check.indexer.holders, supplied),
       contractAgeBlocks |->
         IF other THEN Null ELSE ContractAge(check.latest, check.indexer.installBlock) ]

(* A package of another type ends the reading; only the supply control that *)
(* was asked for at the same time, from the node, is kept.                  *)
TokenRead ==
  /\ check.indexer.read
  /\ check.control.read \/ (check.indexer.package = "other" /\ check.credential)

Score(rule) ==
  check' = [at |-> "scored", rule |-> rule]

\* The total supply is read last, at the address the package record names.
ScoreToken ==
  /\ check.at = "token" /\ TokenRead
  /\ \E supplied \in {FALSE} \cup {check.indexer.package # Null} :
       Score(ScoreSubject(ExtractSignals(TokenFacts(supplied))))
  /\ UNCHANGED <<versions, holders, account, seen>>

-----------------------------------------------------------------------------
(* accountEvidence.ts: the entity, then the balance of its purse. *)
NoAccount == [exists |-> Null, keys |-> Null, threshold |-> Null]

(* "Not found" says that there is no account; an entity of another kind is   *)
(* there but unreadable; any other error says nothing.                      *)
Entity(answer) ==
  IF answer = Null THEN NoAccount
  ELSE IF answer = Unread THEN [NoAccount EXCEPT !.exists = TRUE]
  ELSE IF answer.exists
    THEN [exists |-> TRUE, keys |-> answer.keys, threshold |-> answer.threshold]
    ELSE [NoAccount EXCEPT !.exists = FALSE]

StartAccount ==
  /\ check = Idle /\ account # Null
  /\ \E answer \in {account, Null} \cup (IF account.exists THEN {Unread} ELSE {}) :
       check' = [at |-> "account", entity |-> Entity(answer)]
  /\ seen' = Now
  /\ UNCHANGED chainVars

\* An address without an account holds nothing.
Balance(answer) ==
  IF check.entity.exists = FALSE THEN 0
  ELSE IF check.entity.exists = Null THEN Null
  ELSE answer

ScoreBalance ==
  /\ check.at = "account"
  /\ \E answer \in {account.balance, Null} :
       Score(ScoreAccount(ExtractAccountSignals(
         [ exists |-> check.entity.exists, balanceMotes |-> Balance(answer),
           associatedKeyCount |-> check.entity.keys,
           deploymentThreshold |-> check.entity.threshold,
           keyManagementThreshold |-> check.entity.threshold ])))
  /\ UNCHANGED <<versions, holders, account, seen>>

Next ==
  \/ TokenChanges(Install) \/ TokenChanges(Disable)
  \/ AccountChanges(ChangeAccount)
  \/ StartToken \/ ReadIndexer \/ ReadPackage \/ ReadSupplyControl
  \/ ScoreToken
  \/ StartAccount \/ ScoreBalance

Spec == Init /\ [][Next]_vars

-----------------------------------------------------------------------------
Passed(label) == check.at = "scored" /\ label \in check.rule.passed

(* Whatever fails and whatever changes while the facts are read one after   *)
(* the other, a row that is reported as passed held of the subject at some  *)
(* moment of the check (csprCloud.ts:249, accountEvidence.ts:35).           *)
PassedHeld ==
  /\ Passed("mint_burn_disabled") => \E c \in seen.enabled : c.flag = 0
  /\ Passed("no_public_mint") => \E c \in seen.enabled : c.mint = FALSE
  /\ Passed("old_contract") => Height >= versions[1].height + YoungBlocks
  /\ Passed("spread_holders") => holders.count > 1 /\ holders.top < 95
  /\ Passed("account_exists") => \E a \in seen.accounts : a.exists
  /\ Passed("funded") => \E a \in seen.accounts : a.exists /\ a.balance >= DustMotes
  /\ Passed("one_key") => \E a \in seen.accounts : a.exists /\ a.keys = 1
  /\ Passed("shared_keys") =>
       \E a \in seen.accounts : a.exists /\ a.keys > 1 /\ a.threshold > 1

(* CLEAR means that nothing was left unread: the subject passed each of the *)
(* checks the policy makes mandatory, for a token the supply control of a   *)
(* version, the holders and the age, for an account its existence, balance  *)
(* and keys (trust/rules.ts:27, accountRules.ts:28).                        *)
ClearJustified ==
  check.at = "scored" /\ check.rule.aspect = "CLEAR" =>
    IF account = Null
    THEN /\ \E c \in seen.enabled : c.flag = 0 \/ c.mint = FALSE
         /\ Passed("old_contract") /\ Passed("spread_holders")
    ELSE /\ \E a \in seen.accounts : a.exists /\ (a.keys > 1 => a.threshold > 1)
         /\ \E a \in seen.accounts : a.balance >= DustMotes
         /\ Passed("account_exists") /\ Passed("funded")

(* README.md:179: "AgentPay does not mark an unavailable check as passed."  *)
(* A supply row that passed was read from the version that was active.      *)
SupplyOfActive ==
  /\ Passed("mint_burn_disabled") => \E c \in seen.newest : c.flag = 0
  /\ Passed("no_public_mint") => \E c \in seen.newest : c.mint = FALSE
=============================================================================
