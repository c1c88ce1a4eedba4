--------------------------- MODULE PaymentLedger ---------------------------
(***************************************************************************)
(* The payment auditor of the report API: PaymentAuditService over the     *)
(* tables of SqliteAuditorRepository, from the arrival of a charge to the  *)
(* receipt of the purchase.                                                *)
(*                                                                         *)
(* A worker is one HTTP request being served; ProcessOf names the Node     *)
(* process it runs in.  A request runs until its next await, so a process  *)
(* that is between two database transactions of one request serves no      *)
(* other (EventLoopFree); requests waiting for the evidence loader or the  *)
(* Casper RPC overlap freely.  Two processes on one database file          *)
(* interleave transaction by transaction.                                  *)
(*                                                                         *)
(* Abstractions.  A request stands for the normalized charge, its          *)
(* idempotency key and the prepared authorization; its nonce stands for    *)
(* the pair of payer key and nonce.  What evaluatePayment concludes from   *)
(* the resource, the evidence and the provider decision is one input of    *)
(* Evaluate; what it reads from the ledger is modelled in full.  Hashes,   *)
(* timestamps kept for audit, settlement_attempts (written, never read)    *)
(* and the anchor publisher's own progress are left out.                   *)
(*                                                                         *)
(* An operator marked "mutation" is no part of the model: it stands before *)
(* the definition it could replace, with a mistake a change of that code   *)
(* could make, and a property of a run fails when it does.                 *)
(***************************************************************************)
EXTENDS Integers, FiniteSets, Functions

CONSTANTS
  Operators,     \* operator public keys
  Requests,      \* [operator, key, asset, amount, nonce, expiresAt]
  NoNonce,       \* the nonce of a request without a prepared authorization
  Policies,      \* signed policies, [cap : asset -> Nat, maximum : Nat]
  NoPolicy,
  Checks,        \* check ids (random UUIDs)
  Transactions,  \* transaction hashes
  Observations,  \* response observations, by content
  Workers,       \* requests in flight
  ProcessOf,     \* the process a worker runs in
  Anchoring,     \* TRUE when a ReceiptAnchorPublisher is configured
  DayLength,     \* clock units in a UTC day
  MaxClock       \* bound of the clock (model checking only)

Verdicts == {"match", "mismatch", "pending", "unverifiable"}
FinalVerdicts == {"match", "mismatch"}
CheckStatuses ==
  {"review", "blocked", "reserved", "cancelled", "settlement_pending",
   "settled", "settlement_mismatch", "settlement_unverifiable"}
ReservationStatuses ==
  {"active", "consumed", "released", "quarantined", "expired"}

ASSUME ConstantsAssumption ==
  /\ DayLength \in Nat \ {0}
  /\ MaxClock \in Nat
  /\ Anchoring \in BOOLEAN
  /\ \A q \in Requests : /\ q.operator \in Operators
                         /\ q.amount \in Nat \ {0}
                         /\ q.expiresAt \in Nat
  /\ NoPolicy \notin Policies
  /\ \A p \in Policies : /\ p.maximum \in Nat
                         /\ \A q \in Requests : p.cap[q.asset] \in Nat

VARIABLES
  clock,         \* the time every process reads
  policies,      \* operator -> current policy
  checks,        \* table checks
  reservations,  \* table reservations
  replay,        \* table authorization_reservations, the ids of its rows
  settlements,   \* table settlements
  receipts,      \* tables response_observations and receipts, one transaction
  anchorJobs,    \* table anchor_jobs, the ids of its rows
  worker,        \* where each request in flight stands
  answers,       \* what createCheck has answered so far
  chain          \* what Casper has finalized under a transaction hash

tables == <<policies, checks, reservations, replay, settlements, receipts,
            anchorJobs>>
vars == <<clock, tables, worker, answers, chain>>

NoRow == [status |-> "none"]
NoSettlement == [verdict |-> "none"]
NoReceipt == [body |-> "none"]
Idle == [at |-> "idle"]
Open == [outcome |-> "open"]

CheckRow == [request : Requests, status : CheckStatuses,
             policy : Policies \cup {NoPolicy}]
DecisionRow == [request : Requests, status : {"review", "blocked", "reserved"},
                policy : Policies \cup {NoPolicy}]
ReservationRow == [status : ReservationStatuses, day : Nat]
SettlementRow == [verdict : Verdicts, transaction : Transactions]
ReceiptRow == [body : {"stored"}, observation : Observations,
               transaction : Transactions]

\* The points at which a request can be interrupted: at "evidence" and "rpc"
\* it awaits an external answer, at "proof" the RPC has answered and the
\* continuation is queued; at the others it holds the event loop.
HoldsEventLoop == {"save", "release", "cancel"}
WorkerState ==
  {Idle}
  \cup [at : {"evidence"}, request : Requests]
  \cup [at : {"save"}, id : Checks, row : DecisionRow]
  \cup [at : {"rpc"}, id : Checks, transaction : Transactions]
  \cup [at : {"proof"}, id : Checks, transaction : Transactions,
        verdict : Verdicts]
  \cup [at : {"release", "cancel"}, id : Checks]

\* An authorization as the token contract executes it.
Authorization(q) == [asset |-> q.asset, amount |-> q.amount,
                     nonce |-> q.nonce, expiresAt |-> q.expiresAt]
ChainState ==
  {Open, [outcome |-> "other"]}
  \cup [outcome : {"executed"},
        authorization : {Authorization(q) : q \in Requests}]

DayOf(t) == t \div DayLength
-----------------------------------------------------------------------------
(***************************************************************************)
(* Queries of the repository.                                              *)
(***************************************************************************)
Exists(c) == checks[c] # NoRow

SameKey(q, r) == q.operator = r.operator /\ q.key = r.key
SameNonce(q, r) ==
  q.operator = r.operator /\ q.asset = r.asset /\ q.nonce = r.nonce

\* (mutation: a key unique per content)
KeyOwnersByContent(q) ==
  {c \in Checks : Exists(c) /\ checks[c].request = q}
KeyOwners(q) == {c \in Checks : Exists(c) /\ SameKey(checks[c].request, q)}

Live == {"active", "quarantined"}
Committed == {"active", "quarantined", "consumed"}

\* expireReservations: every query of reservations runs it first, and drops
\* the authorization rows of what it expires.
\* (mutation: quarantined reservations expire too)
LapsedOfAnyKind == {c \in Checks : /\ reservations[c].status \in Live
                                   /\ checks[c].request.expiresAt <= clock}
Lapsed == {c \in Checks : /\ reservations[c].status = "active"
                          /\ checks[c].request.expiresAt <= clock}
AfterExpiry ==
  [c \in Checks |-> IF c \in Lapsed
                      THEN [reservations[c] EXCEPT !.status = "expired"]
                      ELSE reservations[c]]
ReplayAfterExpiry == replay \ Lapsed

\* The live reservations of q's operator, in the table rows.
LiveOf(rows, q) ==
  {c \in Checks : /\ rows[c].status \in Live
                  /\ checks[c].request.operator = q.operator}

\* The amounts charged by a set of checks, added up.
AmountOf(S) == SumFunction([c \in S |-> checks[c].request.amount])

\* Amount under the given statuses in q's asset on a UTC day.
TotalOf(rows, q, day, statuses) ==
  AmountOf({c \in Checks : /\ rows[c].status \in statuses
                           /\ rows[c].day = day
                           /\ checks[c].request.operator = q.operator
                           /\ checks[c].request.asset = q.asset})

ReplayUsed(rows, index, q) ==
  \E c \in index : /\ SameNonce(checks[c].request, q)
                   /\ rows[c].status \in Committed

\* (mutations: the charge itself is not counted; one reservation too many)
CapSpent(rows, q, day, policy) ==
  TotalOf(rows, q, day, Committed) > policy.cap[q.asset]
PassesMaximum(rows, q, policy) ==
  Cardinality(LiveOf(rows, q)) > policy.maximum

ExceedsCap(rows, q, day, policy) ==
  TotalOf(rows, q, day, Committed) + q.amount > policy.cap[q.asset]
ReachesMaximum(rows, q, policy) ==
  Cardinality(LiveOf(rows, q)) >= policy.maximum
-----------------------------------------------------------------------------
(***************************************************************************)
(* Processes.                                                              *)
(***************************************************************************)
EventLoopFree(w) ==
  \A v \in Workers \ {w} :
    ProcessOf[v] = ProcessOf[w] => worker[v].at \notin HoldsEventLoop

Goto(w, state) == worker' = [worker EXCEPT ![w] = state]
Answer(q, c) == answers' = answers \cup {[request |-> q, id |-> c]}

\* A process dies between two transactions: its requests are lost.
Crash(w) ==
  /\ worker' = [v \in Workers |->
                  IF ProcessOf[v] = ProcessOf[w] THEN Idle ELSE worker[v]]
  /\ UNCHANGED <<clock, tables, answers, chain>>

Tick ==
  /\ clock < MaxClock
  /\ clock' = clock + 1
  /\ UNCHANGED <<tables, worker, answers, chain>>

\* An operator installs a policy revision.
SavePolicy(o, p) ==
  /\ policies' = [policies EXCEPT ![o] = p]
  /\ UNCHANGED <<clock, checks, reservations, replay, settlements, receipts,
                 anchorJobs, worker, answers, chain>>
-----------------------------------------------------------------------------
(***************************************************************************)
(* createCheck.                                                            *)
(***************************************************************************)

\* A known key is answered at once if the content agrees, else refused.
ReplayCheck(w, q) ==
  /\ worker[w] = Idle
  /\ EventLoopFree(w)
  /\ \E c \in KeyOwners(q) : checks[c].request = q /\ Answer(q, c)
  /\ UNCHANGED <<clock, tables, worker, chain>>

\* Otherwise the request waits for the asset evidence.
RequestCheck(w, q) ==
  /\ worker[w] = Idle
  /\ EventLoopFree(w)
  /\ KeyOwners(q) = {}
  /\ Goto(w, [at |-> "evidence", request |-> q])
  /\ UNCHANGED <<clock, tables, answers, chain>>

EvidenceFails(w) ==
  /\ worker[w].at = "evidence"
  /\ EventLoopFree(w)
  /\ Goto(w, Idle)
  /\ UNCHANGED <<clock, tables, answers, chain>>

\* evaluatePayment on what the ledger holds; findings is the worst result of
\* the resource, evidence and provider rules.
Blocks(q, findings) ==
  LET policy == policies[q.operator]
  IN  \/ findings = "block"
      \/ /\ policy # NoPolicy
         /\ \/ ExceedsCap(AfterExpiry, q, DayOf(clock), policy)
            \/ ReachesMaximum(AfterExpiry, q, policy)
      \/ /\ q.nonce # NoNonce
         /\ \/ q.expiresAt <= clock
            \/ ReplayUsed(AfterExpiry, ReplayAfterExpiry, q)
NeedsReview(q, findings) ==
  findings = "review" \/ policies[q.operator] = NoPolicy \/ q.nonce = NoNonce

Evaluate(w, c, findings) ==
  /\ worker[w].at = "evidence"
  /\ EventLoopFree(w)
  /\ ~ Exists(c)
  /\ \A v \in Workers : worker[v].at = "save" => worker[v].id # c
  /\ LET q == worker[w].request
         status == IF Blocks(q, findings) THEN "blocked"
                   ELSE IF NeedsReview(q, findings) THEN "review"
                   ELSE "reserved"
     IN  Goto(w, [at |-> "save", id |-> c,
                  row |-> [request |-> q, status |-> status,
                           policy |-> policies[q.operator]]])
  /\ reservations' = AfterExpiry
  /\ replay' = ReplayAfterExpiry
  /\ UNCHANGED <<clock, policies, checks, settlements, receipts, anchorJobs,
                 answers, chain>>

\* INSERT OR IGNORE found the key taken: answer with the row that won, or
\* refuse when its content differs.
LoseKeyRace(w) ==
  LET q == worker[w].row.request
  IN  /\ worker[w].at = "save"
      /\ worker[w].row.status = "reserved" => q.expiresAt > clock
      /\ \E c \in KeyOwners(q) :
           IF checks[c].request = q THEN Answer(q, c) ELSE UNCHANGED answers
      /\ Goto(w, Idle)
      /\ UNCHANGED <<clock, tables, chain>>

\* saveCheck of a BLOCK or REVIEW decision.
SaveRefusal(w) ==
  LET row == worker[w].row
  IN  /\ worker[w].at = "save"
      /\ row.status # "reserved"
      /\ KeyOwners(row.request) = {}
      /\ checks' = [checks EXCEPT ![worker[w].id] = row]
      /\ Answer(row.request, worker[w].id)
      /\ Goto(w, Idle)
      /\ UNCHANGED <<clock, policies, reservations, replay, settlements,
                     receipts, anchorJobs, chain>>

\* saveCheckAndReserve of a PAY decision.  The repository reads its own clock,
\* so the expiry is tested again and the day may be a later one.
\* (mutation: admission trusts the replay check of the evaluation)
AdmissibleByPolicy(row) ==
  LET q == row.request
  IN  /\ ~ ReachesMaximum(AfterExpiry, q, row.policy)
      /\ ~ ExceedsCap(AfterExpiry, q, DayOf(clock), row.policy)
Admissible(row) ==
  LET q == row.request
  IN  /\ ~ ReachesMaximum(AfterExpiry, q, row.policy)
      /\ ~ ReplayUsed(AfterExpiry, ReplayAfterExpiry, q)
      /\ ~ ExceedsCap(AfterExpiry, q, DayOf(clock), row.policy)

SaveAndReserve(w) ==
  LET row == worker[w].row
      c == worker[w].id
  IN  /\ worker[w].at = "save"
      /\ row.status = "reserved"
      /\ KeyOwners(row.request) = {}
      /\ row.request.expiresAt > clock
      /\ Admissible(row)
      /\ checks' = [checks EXCEPT ![c] = row]
      /\ reservations' = [AfterExpiry EXCEPT
                            ![c] = [status |-> "active", day |-> DayOf(clock)]]
      /\ replay' = ReplayAfterExpiry \cup {c}
      /\ Answer(row.request, c)
      /\ Goto(w, Idle)
      /\ UNCHANGED <<clock, policies, settlements, receipts, anchorJobs, chain>>

\* The admission lost: the transaction is rolled back and the decision is
\* rewritten to BLOCK, which SaveRefusal stores.
LoseAdmission(w) ==
  LET row == worker[w].row
  IN  /\ worker[w].at = "save"
      /\ row.status = "reserved"
      /\ KeyOwners(row.request) = {}
      /\ row.request.expiresAt > clock
      /\ ~ Admissible(row)
      /\ Goto(w, [worker[w] EXCEPT !.row.status = "blocked"])
      /\ UNCHANGED <<clock, tables, answers, chain>>

\* prepareReservation throws: the authorization ran out during the decision.
ReservationThrows(w) ==
  /\ worker[w].at = "save"
  /\ worker[w].row.status = "reserved"
  /\ worker[w].row.request.expiresAt <= clock
  /\ Goto(w, Idle)
  /\ UNCHANGED <<clock, tables, answers, chain>>
-----------------------------------------------------------------------------
(***************************************************************************)
(* cancelCheck: read, release the reservation, rewrite the check.          *)
(***************************************************************************)
RequestCancel(w, c) ==
  /\ worker[w] = Idle
  /\ EventLoopFree(w)
  /\ checks[c].status = "reserved"
  /\ Goto(w, [at |-> "release", id |-> c])
  /\ UNCHANGED <<clock, tables, answers, chain>>

ReleaseReservation(w) ==
  LET c == worker[w].id
  IN  /\ worker[w].at = "release"
      /\ IF reservations[c].status \in Live
           THEN /\ reservations' =
                     [reservations EXCEPT ![c].status = "released"]
                /\ replay' = replay \ {c}
                /\ Goto(w, [at |-> "cancel", id |-> c])
           ELSE /\ UNCHANGED <<reservations, replay>>
                /\ Goto(w, Idle)
      /\ UNCHANGED <<clock, policies, checks, settlements, receipts,
                     anchorJobs, answers, chain>>

MarkCancelled(w) ==
  /\ worker[w].at = "cancel"
  /\ checks' = [checks EXCEPT ![worker[w].id].status = "cancelled"]
  /\ Goto(w, Idle)
  /\ UNCHANGED <<clock, policies, reservations, replay, settlements, receipts,
                 anchorJobs, answers, chain>>
-----------------------------------------------------------------------------
(***************************************************************************)
(* verifySettlement.                                                       *)
(***************************************************************************)
Unsettled == {"reserved", "settlement_pending", "settlement_unverifiable"}

\* A settlement that is not final can be checked again, for its own hash only.
\* (mutation: for any hash)
RevisableUnderAnyHash(c, t) ==
  settlements[c] # NoSettlement => settlements[c].verdict \notin FinalVerdicts
Revisable(c, t) ==
  settlements[c] # NoSettlement =>
    /\ settlements[c].verdict \notin FinalVerdicts
    /\ settlements[c].transaction = t

\* A final settlement is answered without a step; anything else asks the RPC.
RequestVerify(w, c, t) ==
  /\ worker[w] = Idle
  /\ EventLoopFree(w)
  /\ checks[c].status \in Unsettled
  /\ Revisable(c, t)
  /\ Goto(w, [at |-> "rpc", id |-> c, transaction |-> t])
  /\ UNCHANGED <<clock, tables, answers, chain>>

\* compareSettlement on the RPC's answer.  The RPC may fail or lag behind.
\* (mutation: any executed transfer matches)
ComparedByOutcome(c, t) ==
  IF chain[t].outcome = "executed" THEN {"match"} ELSE {"mismatch"}
Compared(c, t) ==
  IF chain[t] = Open THEN {}
  ELSE IF chain[t] = [outcome |-> "executed",
                      authorization |-> Authorization(checks[c].request)]
    THEN {"match"} ELSE {"mismatch"}

ReceiveProof(w, verdict) ==
  /\ worker[w].at = "rpc"
  /\ verdict \in {"pending", "unverifiable"}
       \cup Compared(worker[w].id, worker[w].transaction)
  /\ Goto(w, [at |-> "proof", id |-> worker[w].id,
              transaction |-> worker[w].transaction, verdict |-> verdict])
  /\ UNCHANGED <<clock, tables, answers, chain>>

StatusFor(verdict) ==
  CASE verdict = "match" -> "settled"
    [] verdict = "mismatch" -> "settlement_mismatch"
    [] verdict = "pending" -> "settlement_pending"
    [] verdict = "unverifiable" -> "settlement_unverifiable"

\* The reservation status an outcome moves to, and those it may move from.
TargetOf(verdict, current) ==
  CASE verdict = "match" -> "consumed"
    [] verdict = "mismatch" -> "quarantined"
    [] OTHER -> current
SourcesOf(verdict) ==
  CASE verdict = "match" -> {"active", "quarantined", "expired", "consumed"}
    [] verdict = "mismatch" -> {"active", "expired", "quarantined"}
    [] OTHER -> {"active", "expired"}

\* The tests applySettlement repeats inside its transaction.
\* (mutation: no look at other checks)
ApplicableAlone(c, t, verdict) ==
  /\ Revisable(c, t)
  /\ checks[c].status \in Unsettled
  /\ reservations[c].status \in SourcesOf(verdict)
Applicable(c, t, verdict) ==
  /\ Revisable(c, t)
  /\ checks[c].status \in Unsettled
  /\ reservations[c].status \in SourcesOf(verdict)
  /\ \A d \in Checks \ {c} :
       settlements[d] # NoSettlement => settlements[d].transaction # t

ApplySettlement(w) ==
  LET c == worker[w].id
      t == worker[w].transaction
      verdict == worker[w].verdict
  IN  /\ worker[w].at = "proof"
      /\ EventLoopFree(w)
      /\ Applicable(c, t, verdict)
      /\ reservations' = [reservations EXCEPT
                            ![c].status = TargetOf(verdict, @)]
      /\ settlements' = [settlements EXCEPT
                           ![c] = [verdict |-> verdict, transaction |-> t]]
      /\ checks' = [checks EXCEPT ![c].status = StatusFor(verdict)]
      /\ Goto(w, Idle)
      /\ UNCHANGED <<clock, policies, replay, receipts, anchorJobs, answers,
                     chain>>

\* The stored final proof is returned, or the request is refused; rolled back.
DiscardSettlement(w) ==
  /\ worker[w].at = "proof"
  /\ EventLoopFree(w)
  /\ ~ Applicable(worker[w].id, worker[w].transaction, worker[w].verdict)
  /\ Goto(w, Idle)
  /\ UNCHANGED <<clock, tables, answers, chain>>
-----------------------------------------------------------------------------
(***************************************************************************)
(* recordResponseObservation: one transaction that repeats the reads, so   *)
(* one step.  A repeated observation enqueues the anchor job again.        *)
(***************************************************************************)
Receiptable(c) ==
  checks[c].status = "settled" /\ settlements[c].verdict = "match"

RecordObservation(w, c, o) ==
  /\ worker[w] = Idle
  /\ EventLoopFree(w)
  /\ Receiptable(c)
  /\ receipts[c] # NoReceipt => receipts[c].observation = o
  /\ receipts' =
       IF receipts[c] # NoReceipt THEN receipts
       ELSE [receipts EXCEPT
               ![c] = [body |-> "stored", observation |-> o,
                       transaction |-> settlements[c].transaction]]
  /\ anchorJobs' = IF Anchoring THEN anchorJobs \cup {c} ELSE anchorJobs
  /\ UNCHANGED <<clock, policies, checks, reservations, replay, settlements,
                 worker, answers, chain>>
-----------------------------------------------------------------------------
(***************************************************************************)
(* Casper and the token contract: a transaction hash is finalized once; it *)
(* executes an authorization that is still valid and whose nonce is new,   *)
(* or it is some other transaction (a failed or a foreign one).            *)
(***************************************************************************)
NonceSpent(q) ==
  \E t \in Transactions :
    /\ chain[t].outcome = "executed"
    /\ chain[t].authorization.asset = q.asset
    /\ chain[t].authorization.nonce = q.nonce

Finalize(t, q) ==
  /\ chain[t] = Open
  /\ q.nonce # NoNonce
  /\ clock < q.expiresAt
  /\ ~ NonceSpent(q)
  /\ chain' = [chain EXCEPT ![t] = [outcome |-> "executed",
                                    authorization |-> Authorization(q)]]
  /\ UNCHANGED <<clock, tables, worker, answers>>

FinalizeOther(t) ==
  /\ chain[t] = Open
  /\ chain' = [chain EXCEPT ![t] = [outcome |-> "other"]]
  /\ UNCHANGED <<clock, tables, worker, answers>>
-----------------------------------------------------------------------------
Init ==
  /\ clock = 0
  /\ policies = [o \in Operators |-> NoPolicy]
  /\ checks = [c \in Checks |-> NoRow]
  /\ reservations = [c \in Checks |-> NoRow]
  /\ replay = {}
  /\ settlements = [c \in Checks |-> NoSettlement]
  /\ receipts = [c \in Checks |-> NoReceipt]
  /\ anchorJobs = {}
  /\ worker = [w \in Workers |-> Idle]
  /\ answers = {}
  /\ chain = [t \in Transactions |-> Open]

CreateCheck(w) ==
  \/ \E q \in Requests : ReplayCheck(w, q) \/ RequestCheck(w, q)
  \/ EvidenceFails(w)
  \/ \E c \in Checks, findings \in {"pay", "review", "block"} :
       Evaluate(w, c, findings)
  \/ LoseKeyRace(w)
  \/ SaveRefusal(w)
  \/ SaveAndReserve(w)
  \/ LoseAdmission(w)
  \/ ReservationThrows(w)

CancelCheck(w) ==
  \/ \E c \in Checks : RequestCancel(w, c)
  \/ ReleaseReservation(w)
  \/ MarkCancelled(w)

VerifySettlement(w) ==
  \/ \E c \in Checks, t \in Transactions : RequestVerify(w, c, t)
  \/ \E verdict \in Verdicts : ReceiveProof(w, verdict)
  \/ ApplySettlement(w)
  \/ DiscardSettlement(w)

Environment ==
  \/ Tick
  \/ \E o \in Operators, p \in Policies : SavePolicy(o, p)
  \/ \E t \in Transactions, q \in Requests : Finalize(t, q)
  \/ \E t \in Transactions : FinalizeOther(t)

Next ==
  \/ \E w \in Workers :
       \/ CreateCheck(w)
       \/ CancelCheck(w)
       \/ VerifySettlement(w)
       \/ \E c \in Checks, o \in Observations : RecordObservation(w, c, o)
       \/ Crash(w)
  \/ Environment

Spec == Init /\ [][Next]_vars
-----------------------------------------------------------------------------
(***************************************************************************)
(* Properties.                                                             *)
(***************************************************************************)

\* The shape of the tables and of the requests in flight.
TypeOK ==
  /\ clock \in Nat
  /\ policies \in [Operators -> Policies \cup {NoPolicy}]
  /\ checks \in [Checks -> CheckRow \cup {NoRow}]
  /\ reservations \in [Checks -> ReservationRow \cup {NoRow}]
  /\ replay \subseteq Checks
  /\ settlements \in [Checks -> SettlementRow \cup {NoSettlement}]
  /\ receipts \in [Checks -> ReceiptRow \cup {NoReceipt}]
  /\ anchorJobs \subseteq Checks
  /\ worker \in [Workers -> WorkerState]
  /\ answers \subseteq [request : Requests, id : Checks]
  /\ chain \in [Transactions -> ChainState]

\* Authorization rows follow the reservations they belong to through expiry,
\* release and settlement: an active reservation has its row, and a row's
\* reservation still counts.  The replay join and the deletes rely on it.
ReplayRowsLive ==
  \A c \in Checks :
    /\ reservations[c].status = "active" => c \in replay
    /\ c \in replay => reservations[c].status \in Committed

\* UNIQUE (operator, asset, payer, nonce) of authorization_reservations is
\* never hit: admission has always refused the nonce before the insert, even
\* when two processes race.
NonceExclusive ==
  \A c, d \in replay :
    c # d => ~ SameNonce(checks[c].request, checks[d].request)

\* Reservations that count although their authorization row is gone: they
\* expired, and a transaction of theirs was verified afterwards.  No admission
\* can have foreseen them.
SettledLate == {c \in Checks : /\ reservations[c].status \in Committed
                               /\ c \notin replay}

\* Everything the code adds up for an operator, asset and day (getDailyTotals:
\* active, quarantined and consumed reservations, the late ones among them)
\* exceeds the signed cap under which one of the reservations was admitted by
\* no more than what was settled late.
CapRespected ==
  \A c \in replay :
    LET counted == {d \in Checks :
                      /\ reservations[d].status \in Committed
                      /\ reservations[d].day = reservations[c].day
                      /\ checks[d].request.operator = checks[c].request.operator
                      /\ checks[d].request.asset = checks[c].request.asset}
    IN  \E d \in counted \ SettledLate :
          AmountOf(counted)
            <= checks[d].policy.cap[checks[d].request.asset]
                 + AmountOf(counted \cap SettledLate)

\* The same for the reservations the code counts against the maximum of an
\* operator: active ones, and quarantined ones whenever they were settled.
ConcurrencyRespected ==
  \A o \in Operators :
    LET counted == {c \in Checks : /\ reservations[c].status \in Live
                                   /\ checks[c].request.operator = o}
    IN  counted \ SettledLate # {} =>
          \E c \in counted \ SettledLate :
            Cardinality(counted)
              <= checks[c].policy.maximum
                   + Cardinality(counted \cap SettledLate)

\* checks.status, reservations.status and settlements are three tables that
\* createCheck, cancelCheck, expiry and applySettlement move separately; they
\* tell one story.  A crash inside cancelCheck may leave a reserved check
\* whose reservation is already released.
StatusAgreement ==
  \A c \in Checks :
    LET verdict == settlements[c].verdict
        held == reservations[c].status
    IN  /\ checks[c].status \in {"none", "review", "blocked"} =>
             verdict = "none" /\ held = "none"
        /\ checks[c].status = "reserved" =>
             verdict = "none" /\ held \in {"active", "expired", "released"}
        /\ checks[c].status = "cancelled" =>
             verdict = "none" /\ held = "released"
        /\ checks[c].status = "settlement_pending" =>
             verdict = "pending" /\ held \in {"active", "expired"}
        /\ checks[c].status = "settlement_unverifiable" =>
             verdict = "unverifiable" /\ held \in {"active", "expired"}
        /\ checks[c].status = "settled" =>
             verdict = "match" /\ held = "consumed"
        /\ checks[c].status = "settlement_mismatch" =>
             verdict = "mismatch" /\ held = "quarantined"

\* One transaction settles one check, whatever requests race.
TransactionExclusive ==
  \A c, d \in Checks :
    (c # d /\ settlements[c] # NoSettlement /\ settlements[d] # NoSettlement)
      => settlements[c].transaction # settlements[d].transaction

\* An on-chain payment is counted once: two settled checks of one asset never
\* rest on the same authorization nonce.
PaidOnce ==
  \A c, d \in Checks :
    (c # d /\ checks[c].status = "settled" /\ checks[d].status = "settled")
      => \/ checks[c].request.asset # checks[d].request.asset
         \/ checks[c].request.nonce # checks[d].request.nonce

\* A settled check is backed by a finalized execution of exactly the
\* authorization that was approved.
SettledOnChain ==
  \A c \in Checks :
    checks[c].status = "settled" =>
      chain[settlements[c].transaction] =
        [outcome |-> "executed",
         authorization |-> Authorization(checks[c].request)]

\* A receipt names the transaction of the settlement as it stands, although
\* settlements rows are overwritten in place; only receipts are anchored.
ReceiptBacked ==
  \A c \in Checks :
    /\ receipts[c] # NoReceipt =>
         settlements[c] = [verdict |-> "match",
                           transaction |-> receipts[c].transaction]
    /\ c \in anchorJobs => receipts[c] # NoReceipt

\* Every answer of createCheck for one operator and key names one check, with
\* the content that was asked: no race on the evidence await and no crash
\* before the answer makes a second one.
IdempotentAnswers ==
  /\ \A a \in answers : checks[a.id] # NoRow /\ checks[a.id].request = a.request
  /\ \A a, b \in answers : SameKey(a.request, b.request) => a.id = b.id

\* A final verdict is never revised, and a settlement never changes its
\* transaction, whatever order RPC answers arrive in; and none revives a
\* reservation that was released, also when a crash inside cancelCheck or
\* another process left its check open to settlement.
SettlementFinal ==
  [][\A c \in Checks :
       /\ settlements[c].verdict \in FinalVerdicts => UNCHANGED settlements[c]
       /\ settlements[c] # NoSettlement =>
            settlements'[c].transaction = settlements[c].transaction
       /\ reservations[c].status = "released" =>
            reservations'[c].status = "released"]_vars

\* A check never leaves a terminal status, and what was decided stays.
TerminalStatuses ==
  {"review", "blocked", "cancelled", "settled", "settlement_mismatch"}
DecisionFinal ==
  [][\A c \in Checks :
       checks[c] # NoRow =>
         /\ checks'[c].request = checks[c].request
         /\ checks[c].status \in TerminalStatuses => UNCHANGED checks[c]]_vars

\* The check as its clients see it: the auditor implements CheckLifecycle.
StatusOf == [c \in Checks |-> checks[c].status]
ClaimOf == [c \in Checks |-> IF settlements[c] = NoSettlement THEN {}
                             ELSE {settlements[c].transaction}]
Lifecycle == INSTANCE CheckLifecycle WITH status <- StatusOf, claim <- ClaimOf
ImplementsLifecycle == Lifecycle!Spec

\* The documented rule that payment details already used are blocked: no
\* reservation is admitted for a nonce whose payment has been consumed.
UsedNonceBlocked ==
  [][\A c, d \in Checks :
       (/\ reservations[c].status = "consumed"
        /\ reservations[d] = NoRow
        /\ reservations'[d] # NoRow)
         => ~ SameNonce(checks[c].request, checks'[d].request)]_vars
-----------------------------------------------------------------------------
(***************************************************************************)
(* The strengthening that makes the invariants above inductive.            *)
(***************************************************************************)

\* Ids in the hands of a request: those to be inserted are new and distinct,
\* those being cancelled or settled have their row.
IdsSound ==
  \A w \in Workers :
    /\ worker[w].at = "save" =>
         /\ ~ Exists(worker[w].id)
         /\ \A v \in Workers \ {w} :
              worker[v].at = "save" => worker[v].id # worker[w].id
    /\ worker[w].at \in {"rpc", "proof", "release", "cancel"} =>
         Exists(worker[w].id)

\* Foreign keys: nothing refers to a check that has no row.
RowsOwned ==
  \A c \in Checks :
    ~ Exists(c) => /\ reservations[c] = NoRow
                   /\ settlements[c] = NoSettlement
                   /\ receipts[c] = NoReceipt

\* UNIQUE (operator, idempotency_key) of checks.
KeysUnique ==
  \A c, d \in Checks :
    (c # d /\ Exists(c) /\ Exists(d))
      => ~ SameKey(checks[c].request, checks[d].request)

\* A proof in the hands of a request says what the chain says.
ProofsTrue ==
  \A w \in Workers :
    (worker[w].at = "proof" /\ worker[w].verdict = "match") =>
      chain[worker[w].transaction] =
        [outcome |-> "executed",
         authorization |-> Authorization(checks[worker[w].id].request)]

\* The token contract spends a nonce once.
SpentOnce ==
  \A t, u \in Transactions :
    (t # u /\ chain[t].outcome = "executed" /\ chain[u].outcome = "executed")
      => \/ chain[t].authorization.asset # chain[u].authorization.asset
         \/ chain[t].authorization.nonce # chain[u].authorization.nonce

\* Status and verdict of a check that has been settled.
FinalAgreement ==
  \A c \in Checks :
    checks[c].status = "settled" => settlements[c].verdict = "match"

\* An answer is about a stored check with the content that was asked.
AnswersStored ==
  \A a \in answers : Exists(a.id) /\ checks[a.id].request = a.request

\* The deployment: one process owns the database file.
SingleProcess == \A v, w \in Workers : ProcessOf[v] = ProcessOf[w]

\* An event loop is held by one request at a time; a request that cancels a
\* check finds it as it read it.
LoopHeldOnce ==
  \A v, w \in Workers :
    (/\ v # w
     /\ ProcessOf[v] = ProcessOf[w]
     /\ worker[v].at \in HoldsEventLoop)
      => worker[w].at \notin HoldsEventLoop
CancelSound ==
  \A w \in Workers :
    /\ worker[w].at \in {"release", "cancel"} =>
         checks[worker[w].id].status = "reserved"
    /\ worker[w].at = "cancel" =>
         reservations[worker[w].id].status = "released"

\* The tables hold finitely many checks.
RowsFinite == IsFiniteSet({c \in Checks : Exists(c)})

\* What is to be reserved, or was, was decided under a policy.
ReservedByPolicy ==
  /\ \A w \in Workers :
       (worker[w].at = "save" /\ worker[w].row.status = "reserved")
         => worker[w].row.policy \in Policies
  /\ \A c \in replay : checks[c].policy \in Policies

\* The limits hold of every part of what they bound: of the reservations that
\* are left, the last one admitted counted all the others.
LiveBounded ==
  \A S \in (SUBSET replay) \ {{}} :
    (/\ \A c \in S : reservations[c].status \in Live
     /\ \A c, d \in S : checks[c].request.operator = checks[d].request.operator)
      => \E c \in S : Cardinality(S) <= checks[c].policy.maximum
CapBounded ==
  \A S \in (SUBSET replay) \ {{}} :
    (\A c, d \in S :
       /\ checks[c].request.operator = checks[d].request.operator
       /\ checks[c].request.asset = checks[d].request.asset
       /\ reservations[c].day = reservations[d].day)
      => \E c \in S :
           AmountOf(S) <= checks[c].policy.cap[checks[c].request.asset]

TableInv == TypeOK /\ IdsSound /\ RowsOwned
ReplayInv == ReplayRowsLive /\ NonceExclusive
LimitInv == RowsFinite /\ ReservedByPolicy /\ LiveBounded /\ CapBounded
AnswerInv == KeysUnique /\ AnswersStored
ChainInv == ProofsTrue /\ SpentOnce /\ SettledOnChain /\ FinalAgreement
ProcessInv == LoopHeldOnce /\ CancelSound /\ StatusAgreement
=============================================================================
