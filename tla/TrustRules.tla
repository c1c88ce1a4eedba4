----------------------------- MODULE TrustRules -----------------------------
(***************************************************************************)
(* The rules that turn the facts of a trust report into CLEAR, CAUTION or  *)
(* DANGER (trust/rules.ts, accountRules.ts, signals.ts, accountSignals.ts  *)
(* of the core package).  A fact that was not read is Null.                *)
(***************************************************************************)
EXTENDS Integers, FiniteSets

CONSTANTS
  Null,               \* the code's null
  YoungBlocks,        \* YOUNG_BLOCKS
  DustMotes           \* DUST_MOTES

ASSUME TrustRulesAssumption ==
  YoungBlocks \in Nat /\ DustMotes \in Nat \ {0} /\ Null \notin Int \cup BOOLEAN

Flag(condition, code, severity) ==
  IF condition THEN {[code |-> code, severity |-> severity]} ELSE {}

Label(condition, label) == IF condition THEN {label} ELSE {}

Aspect(flags, notChecked) ==
  IF \E f \in flags : f.severity = "danger" THEN "DANGER"
  ELSE IF flags # {} \/ notChecked # {} THEN "CAUTION" ELSE "CLEAR"

Decision(aspect) ==
  CASE aspect = "DANGER" -> "rejected"
    [] aspect = "CAUTION" -> "needs_review"
    [] aspect = "CLEAR" -> "approved"

Result(flags, notChecked, passed) ==
  [ aspect |-> Aspect(flags, notChecked),
    decision |-> Decision(Aspect(flags, notChecked)),
    flags |-> flags, notChecked |-> notChecked, passed |-> passed ]

-----------------------------------------------------------------------------
(* Tokens.  Liquidity holders are never loaded, so that rule cannot fire.   *)
SubjectMandatorySignals == {"contractAgeBlocks", "holderCount", "topHolderPct"}

\* The facts of all records; one that is missing is not known.
ExtractSignals(facts) ==
  [ s \in SubjectMandatorySignals \cup {"mintBurnEnabled", "publicMintEntrypoint"} |->
      IF s \in DOMAIN facts THEN facts[s] ELSE Null ]


ScoreSubject(s) ==
  LET minting == s.mintBurnEnabled = TRUE
      exposed == s.mintBurnEnabled = Null /\ s.publicMintEntrypoint = TRUE
      concentrated ==
        s.holderCount = 1 \/ (s.topHolderPct # Null /\ s.topHolderPct >= 95)
      spread == /\ s.holderCount # Null /\ s.holderCount > 1
                /\ s.topHolderPct # Null /\ s.topHolderPct < 95
      young == s.contractAgeBlocks # Null /\ s.contractAgeBlocks < YoungBlocks
      old == s.contractAgeBlocks # Null /\ s.contractAgeBlocks >= YoungBlocks
      unknown == s.mintBurnEnabled = Null /\ s.publicMintEntrypoint = Null
  IN Result(
       Flag(minting, "cep18_mint_burn_enabled", "danger")
       \cup Flag(exposed, "public_mint_entrypoint", "caution")
       \cup Flag(concentrated, "holder_concentration", "danger")
       \cup Flag(young, "very_new_contract", "caution"),
       {k \in SubjectMandatorySignals : s[k] = Null}
       \cup Label(unknown, "supplyControl"),
       Label(s.mintBurnEnabled = FALSE, "mint_burn_disabled")
       \cup Label(s.mintBurnEnabled # FALSE /\ s.publicMintEntrypoint = FALSE,
                  "no_public_mint")
       \cup Label(old, "old_contract")
       \cup Label(spread, "spread_holders"))

-----------------------------------------------------------------------------
(* Accounts.  The age of an account is never loaded. *)
AccountMandatorySignals ==
  {"exists", "balanceMotes", "associatedKeyCount", "deploymentThreshold",
   "keyManagementThreshold"}

ExtractAccountSignals(facts) ==
  [ s \in AccountMandatorySignals |->
      IF s \in DOMAIN facts THEN facts[s] ELSE Null ]

ScoreAccount(s) ==
  LET shared == s.associatedKeyCount # Null /\ s.associatedKeyCount > 1
                  /\ s.keyManagementThreshold # Null
      weak == shared /\ s.keyManagementThreshold <= 1
      dust == s.balanceMotes # Null /\ s.balanceMotes < DustMotes
  IN Result(
       Flag(s.exists = FALSE, "account_not_found", "danger")
       \cup Flag(weak, "weak_key_management", "caution")
       \cup Flag(dust, "dust_balance", "caution"),
       {k \in AccountMandatorySignals : s[k] = Null},
       Label(s.exists = TRUE, "account_exists")
       \cup Label(s.balanceMotes # Null /\ ~ dust, "funded")
       \cup Label(s.associatedKeyCount = 1, "one_key")
       \cup Label(shared /\ ~ weak, "shared_keys"))
=============================================================================
