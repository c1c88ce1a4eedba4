-------------------------- MODULE ReportPurchase --------------------------
(***************************************************************************)
(* The report API's quotes and purchases: the map of active quotes, the    *)
(* map of settled transactions, and the calls that wait for the evidence,  *)
(* for the x402 facilitator and for the node (app.ts, payment.ts).         *)
(*                                                                         *)
(* Node runs a handler without interruption from one await to the next, so *)
(* an action is such a stretch.  When a settlement ends, every request     *)
(* that awaits its promise is answered before another request is read, so  *)
(* the end of a settlement and its answers are one action.                 *)
(*                                                                         *)
(* A snapshot is an object: a newer quote with the same id replaces it in  *)
(* the map while a settlement may still hold it.  A JavaScript Map is a    *)
(* function from its keys, each with its value and with its place in the   *)
(* order of insertion, 1 being the oldest.                                 *)
(***************************************************************************)
EXTENDS Integers, FiniteSets

CONSTANTS
  Quotes,          \* quote ids: a dataset and one of its reports
  Authorizations,  \* records [nonce, after, before] signed by payers
  Snapshots,       \* identities of the quote snapshots in memory
  NoPayload,       \* null, of every nullable field
  QuoteTtl,        \* clock units a quote lasts
  MaxTimeout,      \* maxTimeoutSeconds of the requirement: how long a window may be
  Tolerance,       \* how far ahead of the clock a window may begin
  MaxActiveQuotes, \* capacity of both maps
  MaxQuoting,      \* bound: quotes whose readiness is being checked
  MaxClock,        \* bound on the clock
  MaxCrashes       \* bound on restarts

(* A payment payload: an authorization and the resource, that is the quote, *)
(* it is meant for.  Two payloads are equal when their hashes are.          *)
Payloads == [authorization : Authorizations, quote : Quotes]

(* A transaction executes one authorization and an authorization runs once, *)
(* so a transaction is named by its authorization.  The maps hold the hash  *)
(* as the facilitator spells it, in upper or lower case; it is assumed to   *)
(* spell the hash of one transaction always the same.                       *)
Settlements == [payload : Payloads, transaction : Authorizations]

ASSUME PurchaseAssumption ==
  /\ QuoteTtl \in Nat \ {0} /\ MaxActiveQuotes \in Nat \ {0}
  /\ MaxTimeout \in Nat /\ Tolerance \in Nat
  /\ MaxClock \in Nat /\ MaxCrashes \in Nat /\ MaxQuoting \in Nat
  /\ \A a \in Authorizations : a.after \in Nat /\ a.before \in Nat
  /\ NoPayload \notin Payloads /\ NoPayload \notin Settlements

VARIABLES
  now,       \* the process clock
  quotes,    \* Map quoteId -> snapshot
  settled,   \* Map transaction -> quoteId (settledTransactionQuotes)
  snapshot,  \* the fields of each snapshot object
  quoting,   \* quotes whose evidence is read and whose readiness is awaited
  attempt,   \* the settlement that runs on each snapshot
  submitted, \* authorizations the facilitator sent to the chain
  executed,  \* authorizations the chain executed, each in its transaction
  sold,      \* history: the answers that carry a report
  forgotten, \* history: transactions whose entry left the settled map
  crashes    \* restarts so far

maps == <<quotes, settled, snapshot, forgotten>>
chain == <<submitted, executed>>
vars == <<now, maps, quoting, attempt, chain, sold, crashes>>

-----------------------------------------------------------------------------
Blank ==
  [ quote |-> NoPayload, expiresAt |-> 0, payable |-> FALSE,
    settlement |-> NoPayload, pending |-> NoPayload ]

Idle == [stage |-> "none", joined |-> {}]

EmptyMap == [k \in {} |-> [value |-> k, place |-> 0]]

Init ==
  /\ now = 0 /\ quotes = EmptyMap /\ settled = EmptyMap
  /\ snapshot = [s \in Snapshots |-> Blank]
  /\ quoting = {}
  /\ attempt = [s \in Snapshots |-> Idle]
  /\ submitted = {} /\ executed = {} /\ sold = {} /\ forgotten = {}
  /\ crashes = 0

-----------------------------------------------------------------------------
(* Maps with a bound. *)
Without(map, ks) ==
  LET kept == DOMAIN map \ ks
  IN [k \in kept |->
        [value |-> map[k].value,
         place |-> Cardinality({j \in kept : map[j].place <= map[k].place})]]

Oldest(map) ==
  CHOOSE k \in DOMAIN map : \A j \in DOMAIN map : map[k].place <= map[j].place

(* An entry that is set again moves to the end; a full map loses its oldest. *)
SetBoundedMapEntry(map, k, v) ==
  LET rest == Without(map, {k})
      kept == IF Cardinality(DOMAIN rest) >= MaxActiveQuotes
                THEN Without(rest, {Oldest(rest)}) ELSE rest
  IN [j \in DOMAIN kept \cup {k} |->
        IF j = k THEN [value |-> v, place |-> Cardinality(DOMAIN kept) + 1]
                 ELSE kept[j]]

Transaction(s) == IF snapshot[s].settlement = NoPayload
                  THEN {} ELSE {snapshot[s].settlement.transaction}

(* What the settled map keeps when these quotes leave the map of quotes: a  *)
(* quote's own transaction goes when it still names that quote.             *)
RemoveSettlementMapping(gone) ==
  Without(settled,
    {t \in DOMAIN settled :
       \E q \in gone : t \in Transaction(quotes[q].value) /\ settled[t].value = q})

Expired(at) == {q \in DOMAIN quotes : snapshot[quotes[q].value].expiresAt <= at}

(* A snapshot that neither the map nor a settlement refers to is garbage.   *)
Collected(map, attempts, fields) ==
  [s \in Snapshots |->
     IF (\E q \in DOMAIN map : map[q].value = s) \/ attempts[s].stage # "none"
     THEN fields[s] ELSE Blank]

(* The maps after `gone` left them. *)
Drop(gone) ==
  /\ quotes' = Without(quotes, gone)
  /\ settled' = RemoveSettlementMapping(gone)
  /\ snapshot' = Collected(quotes', attempt, snapshot)
  /\ forgotten' = forgotten \cup (DOMAIN settled \ DOMAIN settled')

-----------------------------------------------------------------------------
(* GET /reports/quote. *)

(* Every quote and every purchase request first removes expired quotes; one *)
(* that is then refused (400, 402, 409, 410) does nothing else.             *)
PruneExpiredQuotes ==
  /\ Expired(now) # {}
  /\ Drop(Expired(now))
  /\ UNCHANGED <<now, quoting, attempt, chain, sold, crashes>>

(* The evidence of a subject is read; the quote's id follows from it. *)
BuildEvidence(q) ==
  /\ Cardinality(quoting) < MaxQuoting
  /\ quoting' = quoting \cup {[quote |-> q, expiresAt |-> now + QuoteTtl]}
  /\ UNCHANGED <<now, maps, attempt, chain, sold, crashes>>

(* The snapshot of a quote: it is payable when the payment is configured    *)
(* and ready, and nothing is settled on it yet.                             *)
NewSnapshot(b, payable) ==
  [Blank EXCEPT !.quote = b.quote, !.expiresAt = b.expiresAt, !.payable = payable]

(* The readiness is known: the snapshot enters the map, in place of the one *)
(* that has its id, or of the oldest when the map is full.                  *)
StoreQuote(b, s, payable) ==
  LET entries == SetBoundedMapEntry(quotes, b.quote, s)
      gone == DOMAIN quotes \ DOMAIN entries
      fields == [snapshot EXCEPT ![s] = NewSnapshot(b, payable)]
  IN /\ b \in quoting
     /\ snapshot[s] = Blank /\ \A q \in DOMAIN quotes : quotes[q].value # s
     /\ quoting' = quoting \ {b}
     /\ quotes' = entries
     /\ settled' = RemoveSettlementMapping(gone)
     /\ snapshot' = Collected(entries, attempt, fields)
     /\ forgotten' = forgotten \cup (DOMAIN settled \ DOMAIN settled')
     /\ UNCHANGED <<now, attempt, chain, sold, crashes>>

-----------------------------------------------------------------------------
(* POST /reports/buy. *)

(* The payload's resource is the quote's, and its window is not over, does  *)
(* not begin too far ahead and is no longer than the requirement's timeout. *)
ValidatePaymentPayloadBinding(p, s) ==
  LET a == p.authorization
  IN /\ p.quote = snapshot[s].quote
     /\ a.after < a.before /\ now < a.before
     /\ a.after <= now + Tolerance
     /\ a.before - a.after <= MaxTimeout

(* The live, payable snapshot a purchase finds after pruning. *)
Offered(q) ==
  /\ q \in DOMAIN quotes \ Expired(now)
  /\ snapshot[quotes[q].value].payable

Answer(p, settlement, q) ==
  [payload |-> p, transaction |-> settlement.transaction, quote |-> q]

(* A settled quote answers the payload it was settled with. *)
SettledWith(s, p) == snapshot[s].settlement.payload = p

WriteSettledQuote(q, p) ==
  LET s == quotes[q].value
  IN /\ Offered(q)
     /\ snapshot[s].settlement # NoPayload /\ SettledWith(s, p)
     /\ Drop(Expired(now))
     /\ sold' = sold \cup {Answer(p, snapshot[s].settlement, q)}
     /\ UNCHANGED <<now, quoting, attempt, chain, crashes>>

(* Mutated form: a running settlement is shared by every request. *)
SharesAnyPending(s, p) == snapshot[s].pending # NoPayload

(* A settlement that runs is shared by the requests with its payload. *)
SharesPending(s, p) == snapshot[s].pending = p

(* A request that waits or settles first prunes, as every other does. *)
PruneWith(attempts, fields) ==
  /\ quotes' = Without(quotes, Expired(now))
  /\ settled' = RemoveSettlementMapping(Expired(now))
  /\ attempt' = attempts
  /\ snapshot' = Collected(quotes', attempts, fields)
  /\ forgotten' = forgotten \cup (DOMAIN settled \ DOMAIN settled')
  /\ UNCHANGED <<now, quoting, chain, sold, crashes>>

AwaitPending(q, p) ==
  LET s == quotes[q].value
  IN /\ Offered(q)
     /\ snapshot[s].settlement = NoPayload
     /\ SharesPending(s, p)
     /\ PruneWith([attempt EXCEPT ![s].joined = @ \cup {p}], snapshot)

(* Mutated form: a settled snapshot can be settled again. *)
NotPending(s) == snapshot[s].pending = NoPayload

(* No settlement exists and none runs. *)
Unsold(s) ==
  snapshot[s].settlement = NoPayload /\ snapshot[s].pending = NoPayload

BeginSettlement(q, p) ==
  LET s == quotes[q].value
  IN /\ Offered(q)
     /\ Unsold(s)
     /\ ValidatePaymentPayloadBinding(p, s)
     /\ PruneWith([attempt EXCEPT ![s] = [stage |-> "verify", joined |-> {p}]],
                  [snapshot EXCEPT ![s].pending = p])

-----------------------------------------------------------------------------
(* settleX402Payment and what waits for it. *)
Authorization(s) == snapshot[s].pending.authorization

(* The settlement on s ends: its owner clears the pending promise. *)
EndAttempt(s, fields) ==
  /\ attempt' = [attempt EXCEPT ![s] = Idle]
  /\ snapshot' = Collected(quotes, attempt', [fields EXCEPT ![s].pending = NoPayload])

Advance(s, from, to) ==
  /\ attempt[s].stage = from
  /\ attempt' = [attempt EXCEPT ![s].stage = to]
  /\ UNCHANGED <<now, maps, quoting, executed, sold, crashes>>

(* The facilitator verifies the payload. *)
FacilitatorVerifies(s) ==
  Advance(s, "verify", "settle") /\ UNCHANGED submitted

(* It settles: it submits the authorization, or answers with the            *)
(* transaction of one that was submitted before.                            *)
FacilitatorSettles(s) ==
  /\ Advance(s, "settle", "confirm")
  /\ now < Authorization(s).before \/ Authorization(s) \in submitted
  /\ submitted' = submitted \cup {Authorization(s)}

(* A refusal, an error, a timeout or a lost answer at any await: an         *)
(* authorization may have been submitted by then.                           *)
SettlementFails(s) ==
  /\ attempt[s].stage # "none"
  /\ EndAttempt(s, snapshot)
  /\ \/ submitted' = submitted
     \/ attempt[s].stage = "settle" /\ submitted' = submitted \cup {Authorization(s)}
  /\ UNCHANGED <<now, quotes, settled, forgotten, quoting, executed, sold, crashes>>

(* The chain runs a submitted authorization inside its window. *)
Execute(a) ==
  /\ a \in submitted \ executed /\ a.after <= now /\ now < a.before
  /\ executed' = executed \cup {a}
  /\ UNCHANGED <<now, maps, quoting, attempt, submitted, sold, crashes>>

(* Mutated form: the duplicate test is left out. *)
NeverUsed(t, q) == FALSE

(* The transaction was already used for another quote. *)
UsedForOther(t, q) ==
  t \in DOMAIN settled /\ settled[t].value # q

(* What the node shows of the transaction the settlement named. *)
Confirmed(s) == Authorization(s) \in executed

(* confirmPaymentSettlement found the transaction executed as signed: the   *)
(* snapshot the settlement holds is settled, whether the map has it or not. *)
CompleteQuoteSettlement(s) ==
  LET t == Authorization(s)
      q == snapshot[s].quote
      result == [payload |-> snapshot[s].pending, transaction |-> t]
  IN /\ attempt[s].stage = "confirm" /\ Confirmed(s)
     /\ ~ UsedForOther(t, q)
     /\ EndAttempt(s, [snapshot EXCEPT ![s].settlement = result])
     /\ settled' = SetBoundedMapEntry(settled, t, q)
     /\ sold' = sold \cup {Answer(p, result, q) : p \in attempt[s].joined}
     /\ forgotten' = (forgotten \cup (DOMAIN settled \ DOMAIN settled'))
     /\ UNCHANGED <<now, quotes, quoting, chain, crashes>>

RejectDuplicate(s) ==
  /\ attempt[s].stage = "confirm" /\ Confirmed(s)
  /\ UsedForOther(Authorization(s), snapshot[s].quote)
  /\ EndAttempt(s, snapshot)
  /\ UNCHANGED <<now, quotes, settled, forgotten, quoting, chain, sold, crashes>>

-----------------------------------------------------------------------------
Tick ==
  /\ now < MaxClock /\ now' = now + 1
  /\ UNCHANGED <<maps, quoting, attempt, chain, sold, crashes>>

(* Both maps and every call live in memory only. *)
Crash ==
  /\ crashes < MaxCrashes /\ crashes' = crashes + 1
  /\ quotes' = EmptyMap /\ settled' = EmptyMap /\ quoting' = {}
  /\ snapshot' = [s \in Snapshots |-> Blank]
  /\ attempt' = [s \in Snapshots |-> Idle]
  /\ forgotten' = forgotten \cup DOMAIN settled
  /\ UNCHANGED <<now, chain, sold>>

Next ==
  \/ PruneExpiredQuotes
  \/ \E q \in Quotes : BuildEvidence(q)
  \/ \E b \in quoting, s \in Snapshots, payable \in BOOLEAN : StoreQuote(b, s, payable)
  \/ \E q \in DOMAIN quotes, p \in Payloads :
       WriteSettledQuote(q, p) \/ AwaitPending(q, p) \/ BeginSettlement(q, p)
  \/ \E s \in Snapshots : FacilitatorVerifies(s)
  \/ \E s \in Snapshots : FacilitatorSettles(s)
  \/ \E s \in Snapshots : SettlementFails(s)
  \/ \E s \in Snapshots : CompleteQuoteSettlement(s)
  \/ \E s \in Snapshots : RejectDuplicate(s)
  \/ \E a \in Authorizations : Execute(a)
  \/ Tick
  \/ Crash

Spec == Init /\ [][Next]_vars

-----------------------------------------------------------------------------
SnapshotFields ==
  [quote : Quotes \cup {NoPayload}, expiresAt : Nat, payable : BOOLEAN,
   settlement : Settlements \cup {NoPayload}, pending : Payloads \cup {NoPayload}]

Answers == [payload : Payloads, transaction : Authorizations, quote : Quotes]

(* The maps stay inside their capacity, whichever order entries come, go    *)
(* and are set again in.                                                    *)
MapsBounded ==
  \A map \in {quotes, settled} :
    /\ IsFiniteSet(DOMAIN map) /\ Cardinality(DOMAIN map) <= MaxActiveQuotes
    /\ \A k \in DOMAIN map : map[k].place \in 1..Cardinality(DOMAIN map)

TypeOK ==
  /\ now \in 0 .. MaxClock
  /\ crashes \in 0 .. MaxCrashes
  /\ DOMAIN quotes \subseteq Quotes
  /\ \A q \in DOMAIN quotes : quotes[q].value \in Snapshots
  /\ DOMAIN settled \subseteq Authorizations
  /\ \A t \in DOMAIN settled : settled[t].value \in Quotes
  /\ snapshot \in [Snapshots -> SnapshotFields]
  /\ quoting \subseteq [quote : Quotes, expiresAt : Nat]
  /\ attempt \in [Snapshots -> [stage : {"none", "verify", "settle", "confirm"},
                               joined : SUBSET Payloads]]
  /\ submitted \subseteq Authorizations /\ executed \subseteq submitted
  /\ sold \subseteq Answers
  /\ forgotten \subseteq Authorizations
  /\ MapsBounded

(* A transaction buys the report of one quote: a second quote is answered   *)
(* with it only after its entry left the settled map, through the quote's   *)
(* end, the map's bound or a restart (app.ts:399).                          *)
TransactionBuysOneQuote ==
  \A x, y \in sold :
    x.transaction = y.transaction /\ x.quote # y.quote => x.transaction \in forgotten

(* Whoever is answered with a report has signed the authorization of its    *)
(* transaction for that quote, and the chain has executed it: a replayed, a *)
(* shared and a fresh settlement alike (app.ts:341, app.ts:350).            *)
AnswersArePaid ==
  \A x \in sold :
    /\ x.payload.authorization = x.transaction
    /\ x.payload.quote = x.quote
    /\ x.transaction \in executed

(* A snapshot is settled once: no later request, no settlement that was     *)
(* running and no newer quote changes what it was settled with.             *)
SettledOnce ==
  [][\A s \in Snapshots :
       snapshot[s].settlement # NoPayload
         => \/ snapshot'[s].settlement = snapshot[s].settlement
            \/ snapshot'[s] = Blank /\ \A q \in DOMAIN quotes' : quotes'[q].value # s]_vars
=============================================================================
