# Formal models of AgentPay

AgentPay decides whether a software agent may pay an HTTP 402 (x402) charge on
Casper: it evaluates the charge against the operator's signed policy, reserves
the amount, verifies the settlement on chain, stores a receipt and anchors the
receipt's hash in a registry contract. Beside that it sells trust reports about
tokens and accounts, which an MCP bridge buys, scores and records in the same
registry. This directory holds TLA+ models of that system, the TLC instances
that check them, and TLAPS proofs about them. Paths below are relative to the
repository's root.

## 1. Inventory

| Part | State | Operations | Correct when |
|---|---|---|---|
| PaymentAuditService and its tables (`apps/report-api/src/auditor/service.ts`, `sqliteRepository.ts`) | SQLite tables of checks, reservations, nonces, settlements, receipts, shares, policies | `createCheck`, `cancelCheck`, `verifySettlement`, `recordResponseObservation`, `savePolicy`, shares | admission keeps cap, concurrency and nonce; the three status columns agree; one transaction settles one check; final states stay final |
| ReceiptAnchorPublisher (`registry.ts`) | table `anchor_jobs`, the flag `running`, row copies held across awaits | `enqueue`, `processDue`, `processJob`, `failJob` | rows are never overwritten from stale copies; retries are bounded; a due job ends |
| Registry contract (`contracts/agent-pay-registry`) | decisions, dataset roots, receipts, recorder | `record_decision_with_root`, `record_purchase_receipt`, `set_recorder` | records are append-only, the first binding wins |
| Payment rules (`packages/agent-pay-core/src/payment`, `casperRpc.ts`) | none | normalize, read the token, `evaluatePayment`, `compareSettlement`, receipts | PAY means that every rule held; what was approved, paid and matched with its block gets its receipt |
| AuditorAuth and routes (`auth.ts`, `routes.ts`) | challenges, sessions, agent tokens, revision counters | issue, consume, revoke, authorize | a challenge signs one action; revisions have no gaps; a revocation admits nothing more |
| Report purchase (`app.ts`, `payment.ts`) | in-memory quotes, pending settlements, transaction map, cached token evidence | quote, buy, prune | a transaction buys one report, and who is answered has paid |
| Limits (`securityLimits.ts`, MCP `publicAccess.ts`) | windows and counters per client | consume | never more than the limit per window and per day |
| Probe and market (`probe.ts`, `liveEvidence.ts`) | one deadline; caches and shared scans | probe, resolve | what is reported was answered; a symbol is unambiguous |
| Evidence loaders and trust scoring (`csprCloud.ts`, `accountEvidence.ts`, `trust/rules.ts`) | one check | read facts, score | what was not read does not pass |
| MCP bridge (`apps/mcp-server`) | calls, budget | assess, record, confirm | a verdict is paid for and on record |
| Public artifacts (`publicArtifacts.ts`, `card.ts`) | cards, feed | post, share | a card shows what the registry holds |
| Checked-call client (`packages/agent-pay-client`) | one call | probe, check, sign, pay, poll, observe | signs what was approved for this purchase |
| Operator commands (`apps/cli`, `walletOperatorActions.ts`) | commands, submissions | install policy, pin, deny, issue, revoke | no signed revision is undone unseen |
| Web audit flow (`apps/web/src/audit`) | React state | overlapping async calls | late results never make a wrong payment |
| Pages, scripts, deployment | - | presentation, one-off commands | - |

How they interact. Clients reach the report API over HTTP. A request handler
runs on the Node event loop until its next `await`; SQLite calls are
synchronous, so between two awaits a request is alone in its process. The
service awaits the evidence loader (`service.ts:111`) and the Casper RPC
(`service.ts:301`). The publisher shares the database with the service, is
called by it (`enqueue`, `wake`) and awaits the submission script and the RPC.
The bridge buys reports from the report API with the operator's key and writes
decisions to the registry; the report API reads them back when a card is
posted. The checked-call client, the CLI and the web page use the auditor's
routes. Casper is the only state outside the processes that decisions depend on.

What is hard here: requests that overlap at awaits and write what they read
before; expiry that is lazy and depends on who reads next; a second process on
the same file (`test/auditor/sqliteRepository.test.ts:253`, "serializes cap
admission across two repository connections"); crashes between two transactions
of one request; lost answers of scripts and services after they took effect;
bounded maps that forget; facts read one after the other while they change.
`PROJECT.json` lists each at its line.

## 2. Modules

| Module | Models | Composed in |
|---|---|---|
| `CheckLifecycle` | abstract: the status of a check and the transaction it answers for | implemented by `PaymentLedger` |
| `PaymentLedger` | the service over its tables, transaction by transaction | |
| `PaymentLedgerProofs` | theorems about it | |
| `AnchorPublisher` | the publisher, with the registry and the chain | |
| `AnchorPublisherProofs` | theorems about it | |
| `AuditorAccess` | authentication, signed revisions, agent tokens, shares, call by database call | |
| `AuditorAccessProofs` | theorems about it | |
| `ReportPurchase` | quotes and purchases | |
| `ReportPurchaseProofs` | theorems about it | |
| `PaymentRules` | the payment rules as the steps of one purchase | `CheckedCall` |
| `CheckedCall` | the client library around the rules | `ClientPrograms` |
| `OperatorClient` | the commands that sign revisions | `ClientPrograms` |
| `ClientProgramsProofs` | theorems about these three, in `ClientPrograms` | |
| `TrustRules` | scoring (operators only) | `TrustEvidence`, `TrustCheck` |
| `TrustEvidence` | reading the facts of a subject while it changes | `ReportSources` |
| `PaymentReadiness`, `MarketCache`, `X402Probe`, `RequestLimits` | cached token evidence, market pairs, one probe, one limited route | `ReportSources` |
| `ReportSourcesProofs` | theorems about these five, in `ReportSources` | |
| `RegistryContract`, `PublicArtifacts`, `BridgeAccess` | the contract, the cards and the feed, the bridge's admission and budget | `TrustCheck` |
| `TrustCheck` | paid trust checks from the bridge to the registry and the card | |
| `TrustCheckProofs` | theorems about it, the contract and the artifacts included | |
| `WebAuditFlow` | the audit page | |
| `WebAuditFlowProofs` | theorems about it | |
| `MC...` | instances for TLC | |

Two modules put parts side by side that share no state. `ClientPrograms` follows
a checked call or the commands about one book, `ReportSources` one of its five
parts; an interleaving of the parts is one behaviour of each, so nothing is lost
to properties that speak of one part, and one run serves them all.

### PaymentLedger

A *worker* is one HTTP request being served, `ProcessOf` its process, and
`worker[w].at` the point at which it can be interrupted.

| Code | Actions |
|---|---|
| `createCheck` up to the await | `ReplayCheck` (key known), `RequestCheck` |
| the await and the evaluation | `EvidenceFails`, `Evaluate` |
| `saveCheck`, `saveCheckAndReserve` and their failures | `SaveRefusal`, `SaveAndReserve`, `LoseKeyRace`, `LoseAdmission`, `ReservationThrows` |
| `cancelCheck`: read, release, rewrite | `RequestCancel`, `ReleaseReservation`, `MarkCancelled` |
| `verifySettlement`: tests, RPC, `applySettlement` | `RequestVerify`, `ReceiveProof`, `ApplySettlement`, `DiscardSettlement` |
| `recordResponseObservation` | `RecordObservation` |
| `savePolicy` | `SavePolicy` |
| clock, process death, Casper and the token contract | `Tick`, `Crash`, `Finalize`, `FinalizeOther` |

Each SQLite transaction is one action. `EventLoopFree` says that a request that
holds the event loop between two transactions excludes the others of its
process. `expireReservations`, which every query of reservations runs first, is
part of those actions (`AfterExpiry`, `ReplayAfterExpiry`), never a step of its
own. `Evaluate` merges the queries of the decision: in one process nothing can
come between, and in two processes admission repeats every test.

Left out: what the rules on resource, evidence, provider and field agreement
conclude is one input (`findings`, judged in `PaymentRules`); hashes and audit
timestamps; the table `settlement_attempts`, which is written and never read.
Restarting a failed anchor job and retrying it belong to `AnchorPublisher`; here
`anchorJobs` only records that a job exists.

`LoseAdmission` (`blockReservationFailure` in the code) needs a second process:
in one process nothing runs between evaluation and admission except the clock,
and a later clock only frees amounts.

### AnchorPublisher

A *run* is one invocation of `processDue`; it holds copies of the rows of its
batch across the awaits `submit`, `confirm` and `read`. `Start` is the interval
or a wake-up that finds the flag free, `TakeJob` the head of `processJob`,
`Finish` the `finally` block. `Broadcast` and `Submitted` separate the effect of
the submission script from its answer, so that `SubmitFails` and `Crash` can
lose the answer of a transaction that is on the chain. `Execute` calls
`record_purchase_receipt`, which returns early for a receipt that is recorded
with the same binding (`contract.rs:178-183`), which is why submitting twice is
harmless. The history `abandoned` keeps the transactions whose submission or
run was lost or whose failed job was restarted; `SubmittedOnce` says that of two
transactions for one receipt one is among them.

`next_attempt_at` is abstracted to whether it has passed; the order it gives to
a batch becomes any order.

### AuditorAccess

A *process* serves one handler that is between two database calls
(`handler[p]`): reading, consuming the challenge, saving. In one process no
other handler comes between, two processes on one file interleave there, and
`Crash` ends one. The operations on checks await and so may interleave with
everything; they test the caller before the await only (`calls`). A credential
stands for its row and an artifact for its hash. Revisions of token issues and
revocations are one sequence, kept in two tables whose UNIQUE constraints do
not see each other: two processes can store an issue and a revocation under one
number. `RevisionsSequential` therefore claims exclusiveness for each table and
the absence of gaps for the sequence.

### ReportPurchase

One action is a stretch from one `await` to the next, `PruneExpiredQuotes` the
head of every handler. A snapshot is an object with an identity: the map may
replace it (same quote id) or evict it while a settlement still holds it, and
`CompleteQuoteSettlement` then settles an object that nobody finds.
`forgotten` is history: a transaction whose entry left the map of settled
transactions can be presented again, which is what `TransactionBuysOneQuote`
allows and no more. A JavaScript Map keeps the order of insertion, and eviction
follows it. The validity window of an authorization is compared as the code
does, with five seconds of tolerance for one that is not yet open and a bound on
its length. A transaction is identified with the authorization it executes: the
model takes it that the facilitator spells the hash of one transaction always
the same way, since the code uses the string it is given as the key of the map.
A bounded map is a function from its keys to a value and a place,
place 1 the oldest. With a capacity of one, every eviction happens.

### PaymentRules, CheckedCall, OperatorClient

`PaymentRules` is pure: a behaviour is fixed by its *case* (what the parties
sent, what the node shows, when the steps happen) and runs through
`normalizePaymentRequired`, `loadPaymentAssetEvidence`, `evaluatePayment`,
`compareSettlement` and `buildPurchaseReceipt`. A digest is the record it is a
digest of, and the path of a URL the sequence of its pieces, so that a rule
about a prefix is one about a prefix. A match may come without its block, as
`settlement.ts:85` allows. `CheckedCall` adds the library: every remote call may
fail or lose its answer after it took effect, and the check in an answer may be
one of another purchase (`Responses`). Policies, pins and denials reach the
rules with what the operator signed about them. The evidence of the auditor
never loads holder concentration or contract age, so their rules see `Null`.

`OperatorClient` has two kinds of policy commands, and they differ: a policy of
the CLI is a file that replaces all caps, the wallet copies the current policy
and sets one cap. `Submit` may happen after its command has given up.

### TrustRules, TrustEvidence

`TrustEvidence` reads a token with or without a CSPR.cloud credential, or an
account, query by query; each query fails or is answered with a state of the
chain up to now (a node may lag). `seen` is history: the states a query could
have been answered with. A list of entry points that cannot be parsed leaves
public minting unknown (`Null`). The versions of a contract that are left to ask
are a set of numbers, of which the largest, the newest, is asked next.
`isNotFound` also matches messages of the form "Method not found"; both are one
kind of answer here.

### RegistryContract, PublicArtifacts, BridgeAccess, TrustCheck

A call of the bridge moves through quote, payment, comparison, verification,
score, submission and confirmation; each step may fail, the report API may sell
something else than it quoted in one aspect, the custom submission script may
print another hash, transactions execute in any order or never. `/reports/verify`
answers honestly. Callers with the bearer token may record any decision through
`record_decision`, so the properties speak of answered verdicts and of cards,
not of every record. The cards and the feed are functions from the
card to its place, 1 for the oldest.

### PaymentReadiness, MarketCache, X402Probe, RequestLimits

`PaymentReadiness`: the cached promise, shared by the calls that come while it
is open, with the lifetime it gets when it ends; the configuration of a process
is fixed, so the cache has one key. The lifetime of a quote begins before its
checks. `MarketCache`: a scan of pages shared by its callers, two attempts and a
deadline, then the symbol map. `X402Probe`: time passes only while the probe
waits, and each await after the limit costs at least a millisecond. The
histories `given` and `trail` hold the caller's request and the redirects since,
from which `Due` says anew what the next hop may be sent.
`RequestLimits`: one limited route; requests with other methods pass uncounted.
The bounded map of buckets is a function from the address to the count, the
start and the place of its bucket.

### WebAuditFlow

Buttons change the state and start closures (`calls`); an answer reaches the
closure that asked, with the data of the click. Run numbers are abstracted to
whether a closure is still `current`. A failed step offers what an idle one
offers. A probe may report a request that a redirect changed. Recheck during a
payment drops that payment's answer, which is the intent of the code.

### Mutations

An operator marked `Mutated form: ...` or `(mutation: ...)` stands before a
definition and is that definition with a plausible mistake. It is no part of the
model: each property of each passing run is refuted when one of them takes the
definition's place.

## 3. Runs

| Run | Instance | Shows |
|---|---|---|
| `deployed` | 1 process, 2 requests in flight, 2 operators, 2 checks, 3 charges (one authorization goes to both operators, one with its nonce exceeds the maximum of the policy), 2 transactions, clock 0..1 over two days | `StatusAgreement`, `TransactionExclusive`, `PaidOnce`, `SettledOnChain`, `SettlementFinal`, `ImplementsLifecycle` |
| `processes` | 2 processes, 3 charges that compete in pairs for cap or the only concurrent slot, nonce and key, of which one expires and is settled late within the day, policies that change, 2 checks, 1 transaction, clock 0..2 over two days | `NonceExclusive`, `CapRespected`, `ConcurrencyRespected`, `IdempotentAnswers` |
| `used_nonce` | as `deployed`, 3 charges (two authorizations with one nonce, the first also put to the other operator), clock 0..2, 1 transaction | violates `UsedNonceBlocked` |
| `anchor` | 2 invocations, 2 receipts, 2 transactions, 2 attempts, 1 crash, no symmetry | `CopiesFresh`, `ConfirmedRecorded`, `ConfirmedFinal`, `SubmittedOnce`, `JobsEnd` |
| `access` | 2 processes, 1 operator, 4 challenges, 2 sessions, 2 tokens, 5 artifacts that compete for numbers, 1 check, 1 share | `ChallengeSignsOnce`, `StoredAsSigned`, `RevisionsSequential`, `WithinGrant`, `RevocationStops` |
| `purchase` | 2 quotes, 2 snapshots, 3 authorizations, capacity 1, clock 0..2 with a tolerance of 1 for windows that open later, 1 restart | `TransactionBuysOneQuote`, `AnswersArePaid`, `SettledOnce` |
| `clients` | purchases that differ from a sound one in up to two fields; 2 commands, 2 assets, 2 revisions | `SignsOwnApproved`, `PayJustified`, `ReceiptComplete`, `PreparedInTime`, `NothingUndone` |
| `sources` | 2 calls for readiness; 2 pages, 2 packages, 2 lookups; 2 hosts, 3 addresses of which an answer names up to 2, 2 redirects; 3 clients of which 2 are remembered; 2 contract versions | `ReadinessFresh`, `SymbolJustified`, `ReportsWhatWasAnswered`, `SharesTheTime`, `RateKept`, `PassedHeld`, `ClearJustified` |
| `stale_version` | the subjects of `sources` | violates `SupplyOfActive` |
| `trust` | 3 calls, 1 dataset, 2 registry transactions, daily limit 2, 1 tracked client, 2 days, 1 restart, 1 card, 1 feed entry | `VerdictBacked`, `PublishedRecorded`, `BudgetKept` |
| `web` | 2 requests, 2 terms, 3 keys, 2 calls by button at a time | `PaidAsChecked`, `OnePollLoop` |
| `superseded` | the same | violates `PaymentFollowed` |

Why the bounds suffice.

- Ledger: every race of the service is between two requests about at most two
  checks; two requests in flight, two checks and two transactions contain each
  pair of them. The clock covers before and at an expiry and a change of day.
  The proofs of section 4 need no bound.
- Publisher: two invocations give every overlap, two receipts a batch with a job
  waiting behind another, two attempts the last retry and a middle one, two
  transactions a retry for one receipt or a submission for each.
- Access: a challenge, a revision and a token are each contended for by two
  handlers; a third party adds nothing to a conflict over one row. The
  constraint `Bounded` in `MCAuditorAccess` keeps three questions apart that
  share no row: policies are not signed once a check is asked for, checks are
  served by one process (their rows are `PaymentLedger`'s subject), and the
  fourth challenge is for tokens only.
- Purchase: one place in each map makes each new entry evict the other; two
  snapshots are the one that is replaced and the one that replaces it.
- Late settlement: in `processes` the charge that expires first is settled after
  its expiry on the same day, beside a reservation that was admitted meanwhile,
  so that both limits are passed by what was settled late.
  The constraint `Bounded` in `MCPaymentLedger` keeps two questions apart: the
  charge that shares nonce and key with the others is asked on the first day
  only, and not under the policy that allows one reservation.
- Clients: a rule that fails to notice a deviation shows with that deviation
  alone, one that hides another needs two. Each field of a case has a value on
  either side of each comparison it takes part in.
- Sources: each cache is seen cold, fresh, shared and stale; the probe has a
  slow and a good address, and two redirects, of which the first or the second
  drops the body and the content type; a limit of the
  limiter is passed, hit and forgotten.
- Trust: one more call than the daily limit, a change of day and a restart; the
  one registered dataset is contested by the foreign calls of `Foreign`.
- Web: two outstanding answers are the late one and the current one.

`Max...` constants and the finite sets are the only bounds on behaviour.

Symmetry is used in runs of safety properties, over values that appear in no
definition by name; never in the run with a liveness property.

Deadlock is checked in the runs of the ledger. Elsewhere the system may stop
(all jobs confirmed, a call ended, the bounds of the instance used up), so the
configurations switch the test off.

Fairness. Only `JobsEnd` is a liveness property. It assumes that some invocation
proceeds whenever one can: the interval of `registry.ts:70` keeps starting
`processDue`, and every awaited call ends, since the script and each client
command have a timeout (`registry.ts:332, 365, 384`) and so does the RPC client.
It assumes that `next_attempt_at` passes. Nothing is assumed of the chain: a
transaction may never execute, and the job then fails after its attempts.
Crashes are bounded, as a process that dies for ever proves nothing. The
instance has `BatchSize` equal to the number of receipts: the model forgets the
order of `next_attempt_at`, by which the real query serves every job, and a
smaller batch could leave one out for ever. The client library, the web page
and the bridge promise no progress: a payment that is never confirmed ends
their attempts with an error, by design.

One process or several. `StatusAgreement`, `ImplementsLifecycle` and
`DecisionFinal` (proved, section 4) hold for one process only: with two, a
settlement can be applied between the two transactions of `cancelCheck`, whose
second one rewrites the check. The deployment runs one report API
(`deploy/agentpay/agentpay-report-api.service`). The other properties of the
ledger and all of `access` hold for two.

What some of the checks say, precisely.

- A transaction can be presented for a second quote once its entry has left the
  settled map: after its quote expired, was evicted, or after a restart.
- A token or share that is revoked while a request awaits does not stop that
  request (`RevocationStops` forbids any later admission).
- The public budget is per process and UTC day: a restart starts a new one.
- An address that the limiter has not forgotten gets at most `2 * limit - 1`
  requests within any time of a window's length, not `limit`.
- Reservations that are settled after they expired are counted by the code and
  cannot have been foreseen by any admission. `CapRespected` and
  `ConcurrencyRespected` range over everything the code counts, and say that a
  limit is exceeded by no more than those (`SettledLate`).
- PAY does not need the mint flag: a failed query of `enable_mint_burn` is noted
  in the evidence (`casperRpc.ts:277`) and stops nothing as long as the entry
  points were read. `PayJustified` names every other fact as read and right, with
  the charge, the pin and its ceiling, the policy's networks, denials and limits,
  and the authorization with its payer and window.
- A match without its block settles a check that can never get a receipt, since
  `buildPurchaseReceipt` verifies what it builds (`receipt.ts:369`).
  `ReceiptComplete` says that this is the one reason for which a purchase that
  was approved, paid as approved and observed goes without.
- `SettlementFinal` also says that a reservation that was released is not
  revived, by whatever answer arrives after a cancellation or a crash in one.
- A CLI policy file replaces caps that were signed since it was written;
  `NothingUndone` therefore speaks of the wallet's policies and of what a
  command reports.
- A quote may be bought on token evidence as old as the two lifetimes together.

### Findings

`used_nonce`: a check is admitted, its authorization is paid on chain in time,
the reservation runs out before the settlement is reported, and any query
deletes its row of `authorization_reservations` (`sqliteRepository.ts:978`).
Verification then settles the check and makes the reservation `consumed`, but
the row is not restored, so the replay test (`sqliteRepository.ts:914`), which
counts consumed reservations by that row, admits a second check with the same
nonce. The README promises BLOCK when "The payment details were already used".
The payment itself cannot be repeated, because the token contract spends a nonce
once: `PaidOnce` holds.

`stale_version`: the enabled versions of a token contract are tried newest
first, and one whose query fails is skipped (`csprCloud.ts:492`), also when the
failure is transient. The supply control of an older version is then reported as
passed although the check of the active one was unavailable; the README says
"AgentPay does not mark an unavailable check as passed." `PassedHeld` shows the
weaker fact that holds: what passed was true of some enabled version.

`superseded`: the run number that tells a current closure from a stale one is
documented as changing on reset and recheck (`useAuditFlow.ts:198, 502`). A late
answer of `recordObservation` or `refreshReceipt` changes it too, through
`startReceiptPolling`. A wallet payment in flight is then dropped silently: the
step stays "running" and the transaction that was paid is never verified.

## 4. Proofs

Every invariant and every action property of the passing runs is a theorem, for
every value of the constants that satisfies the assumptions; so is the
refinement of `CheckLifecycle`. The proof modules bound neither checks,
requests, processes, callers, pages nor time.

Not proved, and left to TLC:

- `JobsEnd`, the one liveness property: fairness and `ENABLED` are out of the
  prover's reach.
- The properties of the runs `used_nonce`, `stale_version` and `superseded`,
  which the code violates.

No invariant below is the property itself: each is strengthened until every
step keeps it, and the strengthening says why the code is right.

### What is assumed

The assumptions are those named in the modules, and no others.

| Assumption | Says | Because |
|---|---|---|
| `ConstantsAssumption` | positive amounts and day length, policies with numbers as caps and maximum | the schemas of charges and policies accept no others |
| `PublisherAssumption` | positive attempts and batch size | constants of `registry.ts` |
| `AccessAssumption` | positive lifetimes, well-formed artifacts | artifacts pass their schema before they are compared with a challenge |
| `PurchaseAssumption` | positive lifetime and capacity, validity limits that are times | constants of `app.ts`, the payment header's schema |
| `RulesAssumption` | purchases are `SoundPurchase`: values of the kinds that parsing lets through, controls stored as signed, the times of one clock in order | the rules run on parsed input, and `AlwaysStoredAsSigned` |
| `CallAssumption`, `OperatorAssumption`, `WebAssumption` | positive numbers of attempts, typed policy files, `Null` is no value | constants and options of the programs |
| `RegistryAssumption`, `BridgeAssumption`, `PublicArtifactsAssumption`, `TrustCheckAssumption` | well-formed accounts at installation, positive limits, foreign calls are calls of the contract's entry points | accounts come from the chain, limits from the configuration, and the contract has no other entry points |
| `TrustRulesAssumption`, `TrustEvidenceAssumption` | the thresholds of the rules, typed chain states, `Null` is neither number, boolean nor account | constants of `rules.ts`, answers are parsed |
| `ReadinessAssumption`, `MarketAssumption`, `ProbeAssumption`, `LimitsAssumption` | lifetimes, deadlines and limits are numbers, a failure is kept no longer than evidence | constants of their files |

`StatusAlwaysAgrees`, `DecisionStaysFinal` and `LifecycleImplemented` have the
hypothesis `SingleProcess` (see "One process or several").

### PaymentLedgerProofs

The invariants are layered; each layer is inductive relative to the ones below:

1. `TypeOK /\ IdsSound` (`TypeCorrect`): shapes, and that ids in the hands of a
   request exist or are new and distinct. Without `IdsSound` an insert could
   overwrite the row of another check.
2. `RowsOwned`: nothing refers to a check without a row.
3. `ReplayRowsLive /\ NonceExclusive` (`ReplayInv`): the admission test looks at
   the replay rows only, so exclusiveness of the nonce needs that an active
   reservation has its row and that a row always counts.
4. `LimitInv` gives `CapRespected` and `ConcurrencyRespected`. Neither is
   inductive: when a reservation ends, what is left must have been admissible
   without it. `LiveBounded` and `CapBounded` therefore speak of every nonempty
   part of what a limit bounds: of each such part some member was admitted when
   it counted all the others, under its own policy, since policies change.
   `RowsFinite` makes the counts and sums mean something. The sum over a finite
   set is the one of the community modules; that it grows with the set and by
   what is added to it is proved here by a least counterexample. `CapBounded` is
   about the reservations with a live row; the sum of all that the code counts
   splits into theirs and that of what was settled late (`AmountSplit`).
5. `KeysUnique /\ AnswersStored` (`AnswerInv`) gives `IdempotentAnswers`.
6. `ProofsTrue /\ SpentOnce /\ SettledOnChain /\ FinalAgreement` (`ChainInv`): a
   proof in a request's hands stays true because a finalized transaction does
   not change. `PaidOnce` follows with `TransactionExclusive`.
7. `LoopHeldOnce /\ CancelSound /\ StatusAgreement` (`ProcessInv`), under
   `SingleProcess`: a request that cancels finds the check as it read it,
   because no other request of the process moves meanwhile.

The action properties `SettlementFinal` and `DecisionFinal` and the refinement
`ImplementsLifecycle` follow step by step from these. The refinement maps
`status` to `checks[c].status` and `claim` to the transaction of the settlement
row; decisions, cancellations and settlements map to `Decide`, `Cancel` and
`Report`, everything else to a stutter.

### AnchorPublisherProofs

`RunInv == RunsExclusive /\ CopiesFresh /\ WorkSound` is inductive with
`TypeOK`: one run at a time and under the flag; its copies are the rows of the
table; what it holds is due, which keeps `enqueue` (new and failed jobs only)
away from it. `AttemptsLeft` and `ConfirmedFinal` follow from it. `SubmittedOnce`
needs `TransactionsKnown`: each transaction that was submitted is held by the row
of its job, is in the hands of the run that submits it, or is abandoned; so a
run that finds no hash has none to wait for. `ConfirmedRecorded` needs `HashesSound`: a
hash in the table belongs to a transaction for its receipt, and a chain that
only grows (`ChainGrows`) keeps that true.

### AuditorAccessProofs

- `AccessInv` gives `WithinGrant` and `RevocationStops`. A request tests its
  caller once, before it awaits, so what it does afterwards is justified by what
  cannot be taken back meanwhile: a token's scopes and payers, a check's owner
  (`CallsGranted`, `ChecksGranted`, `SharesBacked`).
- `SigningInv` gives `ChallengeSignsOnce` and `StoredAsSigned`. The UPDATE that
  consumes a challenge is the only test that counts: past it a handler is alone
  with the challenge, in whichever process (`HandlersSound`), and what came of a
  challenge shows that it is spent (`ProducedSpent`).
- `RevisionsInv` gives `RevisionsSequential`. A handler that read the largest
  number may be overtaken before it inserts, so it is not true that its number
  is the next one; it is true that no number below is missing
  (`HandlersInLine`), and the UNIQUE constraint decides the rest.

### ReportPurchaseProofs

`PurchaseInv` relates a snapshot, the settlement that runs on it and the chain
(`SnapshotsSound`: who waits has the payload that is settled, nothing is settled
twice, what is settled was paid for this quote), also for snapshots that the map
no longer holds. `SalesRemembered` says that what was sold is in the map of
transactions or was forgotten, which gives `TransactionBuysOneQuote`;
`SettledOnce` follows from `SnapshotsSound`. The lemmas about `Bounded` say that
pruning and eviction keep the places of a map a numbering of its keys, and
which entries they take.

### WebAuditFlowProofs

`FlowInv`: every approval, on the page or in the hands of a closure, is one for
the terms of its check (`ApprovalsSound`), and the polling loop that runs is
the one of the receipt that is shown (`LoopOfReceipt`). Neither needs that late
answers are dropped, only that they meet closures with the data of their click.

### TrustCheckProofs

- `VerdictInv` gives `VerdictBacked` and `PublishedRecorded`. `CallSound` says
  what a call carries at each step: its quote is of a loaded dataset, what it
  verified it has bought, what it decided follows by the rules from what it
  bought. `ExecutedRecorded` ties the executed transactions to the registry,
  where a decision is never overwritten, and `CardsSound` the cards to both.
- `BudgetInv` gives `BudgetKept`. An account of the budget is a day and a
  process. The limiter's count covers the calls on the current account only;
  that older accounts keep within the limit needs that no account opens again
  (`AccountKnown`), for which days must pass in order (`DaysPass`) and restarts
  count up. `PaymentsSound` adds that a call of the public pays once, what was
  expected.

### ClientProgramsProofs

- `Traced`: what the rules hold was computed by them from a purchase that does
  not change. With it `PayJustified` and `ReceiptComplete` are facts about the
  operators: a decision of `pay` is traced back through every rule that could
  have said otherwise, down to the newest decision of the operator.
  `PreparedInTime` is arithmetic on the window and its skew.
- `CallInv` (`Traced`, `CallSound`, `SignedSound`) gives `SignsOwnApproved`: the
  library compares the check in the answer with its own terms before it signs,
  so an answer about another purchase cannot be signed.
- `OperatorInv` gives `NothingUndone`: whatever carries a signed revision, a
  command or a submission that still arrives, made it from the revision before
  (`CommandsSound`, `ArrivingSound`), which stays because books only grow; a
  revision is accepted at the end of its book only, where it is then found
  (`BooksSound`).

### ReportSourcesProofs

One invariant per part; a behaviour of `ReportSources` follows one part, the
others stand still.

- `ReadinessInv` gives `ReadinessFresh`: evidence that lacks something says so,
  a cache entry lasts what its kind allows, and a request rests on evidence that
  was young when the request came, also when it shares the promise of another.
- `MarketInv` gives `SymbolJustified`: a scan is inside its deadline,
  the pairs it leaves are stamped at most a deadline after they were read, and a
  map of symbols is stamped one lifetime of the pairs later at most, so an
  answer rests on pairs of a bounded age.
- `ProbeInv` gives `ReportsWhatWasAnswered` and `SharesTheTime`. What the next
  hop is sent is what the redirects so far leave of the caller's request. The
  addresses left to ask share the time that is left; after the limit each await
  still costs a millisecond, and `Late` counts how many there can be.
- `LimitsInv` gives `RateKept`. An address with a bucket was admitted since the
  start of the bucket at most as often as it counts, and before, as far as the
  window reaches, less often than the limit; an address without a bucket was
  admitted less often than the limit. Who was told to wait finds the bucket over
  when the wait is.
- `EvidenceInv` gives `PassedHeld` and `ClearJustified`: each fact that a check
  holds was the answer of a state that held since it began (`CheckSound`), and
  the states are those the subject has been in (`SubjectSound`, `SeenSound`).

`TypeCorrect` of the modules that have one, `ReplayRowsAlwaysLive`,
`ReceiptAlwaysBacked`, `DecisionStaysFinal` and `AttemptsAlwaysLeft` state
nothing that a run checks.

Induction. The library's induction theorems take an operator as a parameter,
which the installed provers cannot instantiate. Where a proof needs one, over a
finite set, a number or a length, it takes a least counterexample instead
(`WFMin` of WellFoundedInduction). What a recursive function computes for every
input is not among the theorems.

## 5. Plan

Done: all modules of section 2, their runs, and a theorem for each safety
property of the passing runs.

Left:

1. The chain of `AnchorPublisher` as an abstraction of `RegistryContract`, under
   any history of recorders.
2. An abstract purchase (who is answered has paid, a transaction buys one
   report while it is remembered) that `ReportPurchase` implements, as
   `PaymentLedger` implements `CheckLifecycle`.

## 6. Not modelled

- Pages, scripts and deployment: presentation and one-off commands.
- Data without behaviour: canonical hashing, signature encodings, Merkle proofs
  (a leaf is committed by a root or is not), the rendering of cards and badges,
  prices and token lists, CSPR.name resolution, the wording of readiness and
  status reports, audit timestamps, the activity list of the bridge.
- `settlement_attempts` is written and never read; migrations run once before
  the server listens.
- In the web page: `cancelCheck` of the hook, which no page calls, the history
  of earlier checks and the loading of AgentPay's own service.
- Deadlines of the remote reads behind the evidence are failures of the query.
- Cryptography: a signature names the key and what it signs, and hashes do not
  collide.
