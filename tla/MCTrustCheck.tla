---------------------------- MODULE MCTrustCheck ----------------------------
(***************************************************************************)
(* A small instance of TrustCheck for TLC.                                 *)
(***************************************************************************)
EXTENDS TrustCheck, TLC

CONSTANTS a1, a2, a3, k1, k2, k3, d1, owner, r1, r2, h1

Option(token, open, public) ==
  [ token |-> token, open |-> open, public |-> public, origins |-> public,
    policy |-> public, testnet |-> TRUE ]

\* A public bridge, with a token for its other tools.
PublicBridge == {Option(TRUE, FALSE, TRUE)}

From(client, origin, bearer) ==
  [client |-> client, origin |-> origin, bearer |-> bearer, direct |-> FALSE]
Callers == {From(a1, "listed", "none"), From(a2, "listed", "none"),
            From(a3, "none", "valid")}

Facts(minting, age) ==
  [ mintBurnEnabled |-> minting, publicMintEntrypoint |-> FALSE, holderCount |-> 2,
    topHolderPct |-> 50, contractAgeBlocks |-> age ]
Tokens == {Facts(FALSE, 1), Facts(TRUE, 1)}

\* A report that claims more than its facts.
MadeUp == {[facts |-> Facts(TRUE, 1), aspect |-> "DANGER", decision |-> "approved"]}

Receipt(caller, transaction) ==
  [ caller |-> caller, entryPoint |-> "record_purchase_receipt",
    args |-> [receiptHash |-> h1, policyHash |-> 1, settlementTxHash |-> transaction] ]
Rotation(caller, recorder) ==
  [ caller |-> caller, entryPoint |-> "set_recorder", args |-> [recorder |-> recorder] ]

\* Receipts that conflict, and a rotation after which their caller is refused.
Foreign == {Receipt(r1, 1), Receipt(r1, 2), Rotation(owner, r2)}

Symmetric == Permutations({k1, k2, k3}) \cup Permutations({a1, a2})
=============================================================================
