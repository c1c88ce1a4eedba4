------------------------- MODULE MCClientPrograms --------------------------
(***************************************************************************)
(* The purchases that differ from a sound one in at most two fields, and   *)
(* two commands of an operator at once.                                    *)
(***************************************************************************)
EXTENDS ClientPrograms, TLC

CONSTANTS m1, m2

OperatorAssets == {"token", "other"}
Files == {[a \in OperatorAssets |-> cap] : cap \in {0, 1}}

CommandSymmetry == Permutations({m1, m2})

Url == [scheme |-> "https", host |-> "shop", path |-> <<"/item", "s/1">>]
OtherUrls == {[Url EXCEPT !.scheme = "http"], [Url EXCEPT !.host = "other"],
              [Url EXCEPT !.path = <<"/item">>]}

Offer == [ scheme |-> "exact", network |-> "casper-test", asset |-> "token",
           payTo |-> "payee", amount |-> 2, timeout |-> 4, name |-> "Token",
           version |-> "1", decimals |-> 9 ]

\* What the operator signed, as it was signed.
Signed(action, artifact) ==
  [artifact EXCEPT !.signed = SignedAction(action, artifact)]
SignedPins(decisions) == {Signed("provider_decision", d) : d \in decisions}

Pin == Signed("provider_decision",
       [ kind |-> "pin", origin |-> Origin(Url), payee |-> "payee",
         asset |-> "token", network |-> "casper-test", prefix |-> Null,
         ceiling |-> 2, expiresAt |-> 20, signed |-> Null ])
Deny == Signed("provider_decision", [Pin EXCEPT !.kind = "deny"])

Policy == Signed("policy_revision",
          [ effectiveAt |-> 0, networks |-> {"casper-test"}, payers |-> {"payer"},
            cap |-> 5, window |-> 4, maximum |-> 2, maxAge |-> 1, deniedOrigins |-> {},
            deniedPayees |-> {}, deniedAssets |-> {},
            tolerateScheme |-> FALSE, reviewAdvisories |-> FALSE, signed |-> Null ])

Sound ==
  [ request |-> Url,
    charge |-> [version |-> 2, resource |-> Url, others |-> <<>>, offer |-> Offer],
    token |-> [ package |-> "found", contract |-> "bound",
                entryPoints |-> {"transfer_with_authorization"}, flag |-> "absent",
                name |-> "Token", symbol |-> "TKN", decimals |-> 9 ],
    intent |-> [prepared |-> TRUE, preparedAt |-> 6, altered |-> {}, tampered |-> {}],
    policy |-> Policy, decisions |-> <<Pin>>,
    ledger |-> [spent |-> 1, reserved |-> 2, active |-> 1, replayed |-> FALSE],
    execution |-> [ answer |-> "finalized", changed |-> {}, hash |-> "reported",
                    chain |-> "casper-test",
                    entryPoint |-> "transfer_with_authorization",
                    signer |-> "payer", error |-> FALSE, block |-> TRUE ],
    response |-> [observedAt |-> 9],
    clock |-> [evaluated |-> 6, evidenceAge |-> 0, settled |-> 8, recorded |-> 9] ]

Singletons(s) == {{x} : x \in s}
Fields == {"from", "to", "amount", "after", "before", "nonce", "asset"}

\* The other values of the fields of a record.
Offers == [ scheme |-> {"upto"}, network |-> {"casper"}, asset |-> {"other", Null},
            payTo |-> {"other", Null}, amount |-> {0, 3}, timeout |-> {0, 1, 3, 6, 901},
            name |-> {"Other", Null}, version |-> {"2", Null}, decimals |-> {6, Null} ]
Pins == [ kind |-> {"deny"}, origin |-> {<<"http", "shop">>}, payee |-> {"other"},
          asset |-> {"other"}, network |-> {"casper"}, prefix |-> {<<"/item">>, <<"/other">>},
          ceiling |-> {1}, expiresAt |-> {6, 7} ]
PolicyFields ==
  [ effectiveAt |-> {6, 7}, networks |-> {{}}, payers |-> {{}}, cap |-> {4, Null},
    window |-> {3, 6}, maximum |-> {1},
    deniedOrigins |-> {{Origin(Url)}}, deniedPayees |-> {{"payee"}},
    deniedAssets |-> {{"token"}},
    tolerateScheme |-> {TRUE}, reviewAdvisories |-> {TRUE}, maxAge |-> {2} ]

\* The records that differ in one field from r.
Vary(r, others) == UNION {{[r EXCEPT ![f] = v] : v \in others[f]} : f \in DOMAIN others}

Alternatives(c) ==
  [ request |-> OtherUrls,
    charge |-> Vary(c.charge,
                    [ version |-> {1}, resource |-> OtherUrls \cup {Null},
                      others |-> {<<Offer>>, <<[Offer EXCEPT !.scheme = "upto"]>>},
                      offer |-> Vary(c.charge.offer, Offers) ]),
    token |-> Vary(c.token,
                   [ package |-> {"unreadable", "absent", "foreign", "disabled"},
                     contract |-> {"unreadable", "foreign", "unbound"},
                     entryPoints |-> {{"mint"}, KnownEntryPoints, Null},
                     flag |-> {"unreadable", "on", "off"}, name |-> {"Other", Null},
                     symbol |-> {Null}, decimals |-> {6, Null} ]),
    intent |-> Vary(c.intent,
                    [ prepared |-> {FALSE}, preparedAt |-> (2 .. 9) \ {6},
                      altered |-> Singletons(Fields \cup {"name", "version", "payer"}),
                      tampered |-> Singletons(Fields \cup {"digest", "payer"}) ]),
    policy |-> IF c.policy = Null THEN {Policy}
               ELSE {Null} \cup {Signed("policy_revision", p) : p \in Vary(c.policy, PolicyFields)},
    decisions |-> {<<>>, <<Deny, Pin>>, <<Pin, Deny>>}
                  \cup {<<d>> : d \in SignedPins(Vary(Pin, Pins))},
    ledger |-> Vary(c.ledger, [spent |-> {0, 2}, reserved |-> {3}, active |-> {2},
                               replayed |-> {TRUE}]),
    execution |-> Vary(c.execution,
                       [ answer |-> {"error", "unsupported", "pending"},
                         changed |-> Singletons(Fields \cup {"payer"}),
                         hash |-> {"other"}, chain |-> {"casper"}, entryPoint |-> {"transfer"},
                         signer |-> {"thief"}, error |-> {TRUE}, block |-> {FALSE} ]),
    response |-> {[observedAt |-> 8], [observedAt |-> 10]},
    clock |-> Vary(c.clock, [evaluated |-> 2 .. 9, evidenceAge |-> {-1, 1, 2}]) ]

Varied(c) ==
  UNION {{[c EXCEPT ![part] = v] : v \in Alternatives(c)[part]} : part \in DOMAIN c}

NearSound == {Sound} \cup Varied(Sound)
=============================================================================
