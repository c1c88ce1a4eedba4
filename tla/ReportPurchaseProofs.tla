----------------------- MODULE ReportPurchaseProofs -----------------------
(***************************************************************************)
(* Proofs about ReportPurchase, for any quotes, authorizations, snapshots, *)
(* lifetimes and capacity.                                                 *)
(***************************************************************************)
EXTENDS ReportPurchase, FiniteSetTheorems, WellFoundedInduction, TLAPS

(***************************************************************************)
(* Maps with a bound.                                                      *)
(***************************************************************************)
LEMMA LeastNatural ==
  ASSUME NEW T, T \subseteq Nat, T # {}
  PROVE  \E x \in T : \A y \in T : x <= y
<1> DEFINE R == OpToRel(<, Nat)
<1>1. IsWellFoundedOn(R, Nat)
  BY NatLessThanWellFounded
<1>2. \A u, v \in Nat : u < v => <<u, v>> \in R
  BY DEF OpToRel
<1> HIDE DEF R
<1>3. PICK x \in T : \A y \in T : ~(<<y, x>> \in R)
  BY <1>1, WFMin
<1>4. ASSUME NEW y \in T
      PROVE  x <= y
  <2>1. x \in Nat /\ y \in Nat
    OBVIOUS
  <2>2. ~(y < x)
    BY <1>2, <1>3, <2>1, Zenon
  <2> QED
    BY <2>1, <2>2
<1> QED
  BY <1>4

\* What an entry loses is its place, not its value.
LEMMA WithoutKeeps ==
  ASSUME NEW map, NEW ks
  PROVE  /\ DOMAIN Without(map, ks) = DOMAIN map \ ks
         /\ \A k \in DOMAIN map \ ks : Without(map, ks)[k].value = map[k].value
BY DEF Without

LEMMA EntryKeeps ==
  ASSUME NEW map, NEW k, NEW v
  PROVE  LET after == SetBoundedMapEntry(map, k, v)
         IN /\ k \in DOMAIN after
            /\ after[k].value = v
            /\ DOMAIN after \subseteq DOMAIN map \cup {k}
            /\ \A j \in DOMAIN after \ {k} :
                 j \in DOMAIN map /\ after[j].value = map[j].value
<1> DEFINE rest == Without(map, {k})
           kept == IF Cardinality(DOMAIN rest) >= MaxActiveQuotes
                     THEN Without(rest, {Oldest(rest)}) ELSE rest
<1>1. /\ DOMAIN rest = DOMAIN map \ {k}
      /\ \A j \in DOMAIN map \ {k} : rest[j].value = map[j].value
  BY WithoutKeeps
<1>2. /\ DOMAIN Without(rest, {Oldest(rest)}) = DOMAIN rest \ {Oldest(rest)}
      /\ \A j \in DOMAIN rest \ {Oldest(rest)} :
           Without(rest, {Oldest(rest)})[j].value = rest[j].value
  BY WithoutKeeps
<1>3. /\ DOMAIN kept \subseteq DOMAIN rest
      /\ \A j \in DOMAIN kept : kept[j].value = rest[j].value
  BY <1>2
<1>4. SetBoundedMapEntry(map, k, v) =
        [j \in DOMAIN kept \cup {k} |->
           IF j = k THEN [value |-> v, place |-> Cardinality(DOMAIN kept) + 1]
                    ELSE kept[j]]
  BY DEF SetBoundedMapEntry
<1> HIDE DEF rest, kept
<1> QED
  BY <1>1, <1>3, <1>4

Bounded(map) ==
  /\ IsFiniteSet(DOMAIN map) /\ Cardinality(DOMAIN map) <= MaxActiveQuotes
  /\ \A k \in DOMAIN map : map[k].place \in 1..Cardinality(DOMAIN map)

\* The places left are counted anew: no more than there are entries.
LEMMA PlacesCounted ==
  ASSUME NEW map, NEW ks, IsFiniteSet(DOMAIN map),
         \A k \in DOMAIN map : map[k].place \in Nat
  PROVE  LET rest == Without(map, ks)
         IN /\ IsFiniteSet(DOMAIN rest)
            /\ Cardinality(DOMAIN rest) <= Cardinality(DOMAIN map)
            /\ \A k \in DOMAIN rest : rest[k].place \in 1..Cardinality(DOMAIN rest)
<1> DEFINE kept == DOMAIN map \ ks
<1>1. /\ IsFiniteSet(kept)
      /\ Cardinality(kept) <= Cardinality(DOMAIN map)
      /\ Cardinality(kept) \in Nat
  BY FS_Subset, FS_CardinalityType
<1>2. ASSUME NEW k \in kept
      PROVE  Cardinality({j \in kept : map[j].place <= map[k].place})
               \in 1..Cardinality(kept)
  <2> DEFINE before == {j \in kept : map[j].place <= map[k].place}
  <2>1. k \in before /\ before \subseteq kept
    OBVIOUS
  <2>2. /\ IsFiniteSet(before)
        /\ Cardinality(before) <= Cardinality(kept)
        /\ Cardinality(before) \in Nat
    BY <1>1, <2>1, FS_Subset, FS_CardinalityType
  <2>3. Cardinality(before) # 0
    BY <2>1, <2>2, FS_EmptySet
  <2> QED
    BY <1>1, <2>2, <2>3
<1>3. Without(map, ks) =
        [k \in kept |->
           [value |-> map[k].value,
            place |-> Cardinality({j \in kept : map[j].place <= map[k].place})]]
  BY DEF Without
<1> HIDE DEF kept
<1> QED
  BY <1>1, <1>2, <1>3

LEMMA WithoutBounded ==
  ASSUME NEW map, NEW ks, Bounded(map)
  PROVE  Bounded(Without(map, ks))
<1>1. /\ IsFiniteSet(DOMAIN map)
      /\ Cardinality(DOMAIN map) \in Nat
      /\ \A k \in DOMAIN map : map[k].place \in Nat
  BY FS_CardinalityType DEF Bounded
<1>2. Cardinality(DOMAIN Without(map, ks)) \in Nat
  BY <1>1, PlacesCounted, FS_CardinalityType
<1> QED
  BY <1>1, <1>2, PlacesCounted, PurchaseAssumption DEF Bounded

LEMMA OldestFound ==
  ASSUME NEW map, DOMAIN map # {}, \A k \in DOMAIN map : map[k].place \in Nat
  PROVE  Oldest(map) \in DOMAIN map
<1> DEFINE T == {map[k].place : k \in DOMAIN map}
<1>1. PICK x \in T : \A y \in T : x <= y
  <2>1. T \subseteq Nat /\ T # {}
    OBVIOUS
  <2> QED
    BY <2>1, LeastNatural
<1>2. \E k \in DOMAIN map : \A j \in DOMAIN map : map[k].place <= map[j].place
  BY <1>1
<1> QED
  BY <1>2 DEF Oldest

LEMMA EntryBounded ==
  ASSUME NEW map, NEW k, NEW v, Bounded(map)
  PROVE  Bounded(SetBoundedMapEntry(map, k, v))
<1> DEFINE rest == Without(map, {k})
           kept == IF Cardinality(DOMAIN rest) >= MaxActiveQuotes
                     THEN Without(rest, {Oldest(rest)}) ELSE rest
           after == SetBoundedMapEntry(map, k, v)
<1>1. Bounded(rest) /\ k \notin DOMAIN rest
  <2>1. DOMAIN rest = DOMAIN map \ {k}
    BY WithoutKeeps
  <2>2. Bounded(rest)
    BY WithoutBounded
  <2> QED
    BY <2>1, <2>2
<1>2. Bounded(kept) /\ DOMAIN kept \subseteq DOMAIN rest
  <2> DEFINE less == Without(rest, {Oldest(rest)})
  <2>1. DOMAIN less = DOMAIN rest \ {Oldest(rest)}
    BY WithoutKeeps
  <2>2. Bounded(less)
    BY <1>1, WithoutBounded
  <2> HIDE DEF rest
  <2> QED
    BY <1>1, <2>1, <2>2
<1>3. Cardinality(DOMAIN kept) < MaxActiveQuotes
  <2>1. CASE Cardinality(DOMAIN rest) >= MaxActiveQuotes
    <3> DEFINE o == Oldest(rest)
    <3>1. IsFiniteSet(DOMAIN rest) /\ Cardinality(DOMAIN rest) \in Nat
      BY <1>1, FS_CardinalityType DEF Bounded
    <3>2. DOMAIN rest # {}
      BY <2>1, FS_EmptySet, PurchaseAssumption
    <3>3. o \in DOMAIN rest
      <4>1. \A j \in DOMAIN rest : rest[j].place \in Nat
        <5> HIDE DEF rest
        <5> QED
          BY <1>1, <3>1 DEF Bounded
      <4> HIDE DEF rest
      <4> QED
        BY <3>2, <4>1, OldestFound
    <3>4. Cardinality(DOMAIN rest \ {o}) = Cardinality(DOMAIN rest) - 1
      BY <3>1, <3>3, FS_RemoveElement
    <3>5. DOMAIN kept = DOMAIN rest \ {o}
      BY <2>1, WithoutKeeps
    <3>6. Cardinality(DOMAIN rest) <= MaxActiveQuotes
      BY <1>1 DEF Bounded
    <3> HIDE DEF rest, kept, o
    <3> QED
      BY <3>1, <3>4, <3>5, <3>6, PurchaseAssumption
  <2>2. CASE ~(Cardinality(DOMAIN rest) >= MaxActiveQuotes)
    <3>1. Cardinality(DOMAIN rest) \in Nat
      BY <1>1, FS_CardinalityType DEF Bounded
    <3>2. kept = rest
      BY <2>2
    <3> HIDE DEF rest, kept
    <3> QED
      BY <2>2, <3>1, <3>2, PurchaseAssumption
  <2> QED
    BY <2>1, <2>2
<1>4. after = [j \in DOMAIN kept \cup {k} |->
                 IF j = k THEN [value |-> v, place |-> Cardinality(DOMAIN kept) + 1]
                          ELSE kept[j]]
  BY DEF SetBoundedMapEntry
<1>5. k \notin DOMAIN kept
  BY <1>1, <1>2
<1> HIDE DEF rest, kept
<1>6. /\ IsFiniteSet(DOMAIN after)
      /\ Cardinality(DOMAIN after) = Cardinality(DOMAIN kept) + 1
      /\ Cardinality(DOMAIN kept) \in Nat
  <2>1. DOMAIN after = DOMAIN kept \cup {k}
    BY <1>4
  <2> QED
    BY <1>2, <1>5, <2>1, FS_AddElement, FS_CardinalityType DEF Bounded
<1>7. \A j \in DOMAIN kept : kept[j].place \in 1..Cardinality(DOMAIN kept)
  BY <1>2 DEF Bounded
<1> HIDE DEF after
<1>8. \A j \in DOMAIN after : after[j].place \in 1..Cardinality(DOMAIN after)
  BY <1>4, <1>5, <1>6, <1>7
<1>9. Bounded(after)
  BY <1>3, <1>6, <1>8, PurchaseAssumption DEF Bounded
<1> QED
  BY <1>9 DEF after
-----------------------------------------------------------------------------
(***************************************************************************)
(* The invariant.                                                          *)
(***************************************************************************)
Attempts ==
  [Snapshots -> [stage : {"none", "verify", "settle", "confirm"},
                 joined : SUBSET Payloads]]

\* What a snapshot and the settlement on it say of each other: who waits has
\* the payload that is settled, nothing is settled twice, and what is settled
\* was paid for this quote.
SoundOn(f, a, done) ==
  /\ f.pending = NoPayload <=> a.stage = "none"
  /\ a.joined \subseteq {f.pending}
  /\ f.pending # NoPayload => f.settlement = NoPayload /\ f.pending.quote = f.quote
  /\ f.settlement # NoPayload =>
       /\ f.settlement.payload.quote = f.quote
       /\ f.settlement.payload.authorization = f.settlement.transaction
       /\ f.settlement.transaction \in done

SnapshotsSound == \A s \in Snapshots : SoundOn(snapshot[s], attempt[s], executed)

QuotesNamed == \A q \in DOMAIN quotes : snapshot[quotes[q].value].quote = q

\* A transaction that bought something is kept with what it bought, until its
\* entry leaves the map.
Remembered(t, q) ==
  t \in forgotten \/ (t \in DOMAIN settled /\ settled[t].value = q)

SalesRemembered ==
  /\ \A x \in sold : Remembered(x.transaction, x.quote)
  /\ \A s \in Snapshots : snapshot[s].settlement # NoPayload =>
       Remembered(snapshot[s].settlement.transaction, snapshot[s].quote)

PurchaseInv ==
  TypeOK /\ SnapshotsSound /\ QuotesNamed /\ AnswersArePaid /\ SalesRemembered

LEMMA BlankTyped == Blank \in SnapshotFields
BY DEF Blank, SnapshotFields

Unreferenced(map, s) == \A q \in DOMAIN map : map[q].value # s

\* Collecting a snapshot takes nothing that the map or a settlement refers to.
LEMMA CollectedKeeps ==
  ASSUME NEW map, NEW attempts \in Attempts, NEW done,
         NEW fields \in [Snapshots -> SnapshotFields],
         \A s \in Snapshots : SoundOn(fields[s], attempts[s], done)
  PROVE  /\ Collected(map, attempts, fields) \in [Snapshots -> SnapshotFields]
         /\ \A s \in Snapshots :
              /\ SoundOn(Collected(map, attempts, fields)[s], attempts[s], done)
              /\ \/ Collected(map, attempts, fields)[s] = fields[s]
                 \/ /\ Collected(map, attempts, fields)[s] = Blank
                    /\ Unreferenced(map, s)
<1> DEFINE after == Collected(map, attempts, fields)
<1>1. ASSUME NEW s \in Snapshots
      PROVE  /\ after[s] \in SnapshotFields
             /\ SoundOn(after[s], attempts[s], done)
             /\ \/ after[s] = fields[s]
                \/ after[s] = Blank /\ Unreferenced(map, s)
  <2>1. CASE (\E q \in DOMAIN map : map[q].value = s) \/ attempts[s].stage # "none"
    <3>1. after[s] = fields[s]
      BY <2>1 DEF Collected
    <3> HIDE DEF after
    <3> QED
      BY <3>1
  <2>2. CASE ~((\E q \in DOMAIN map : map[q].value = s) \/ attempts[s].stage # "none")
    <3>1. after[s] = Blank
      BY <2>2 DEF Collected
    <3>2. fields[s].pending = NoPayload
      BY <2>2 DEF SoundOn
    <3>3. SoundOn(Blank, attempts[s], done)
      BY <2>2, <3>2 DEF SoundOn, Blank
    <3> HIDE DEF after
    <3> QED
      BY <2>2, <3>1, <3>3, BlankTyped DEF Unreferenced
  <2> QED
    BY <2>1, <2>2
<1>2. DOMAIN after = Snapshots /\ after = [s \in Snapshots |-> after[s]]
  BY DEF Collected
<1> HIDE DEF after
<1>3. after \in [Snapshots -> SnapshotFields]
  BY <1>1, <1>2
<1> QED
  BY <1>1, <1>3 DEF after

StillRemembered(t, q) ==
  t \in forgotten' \/ (t \in DOMAIN settled' /\ settled'[t].value = q)

\* What a step may do to the settled map without forgetting a sale.
MappingKept ==
  /\ \A t \in DOMAIN settled \cap DOMAIN settled' :
       settled'[t].value = settled[t].value
  /\ forgotten' = forgotten \cup (DOMAIN settled \ DOMAIN settled')

LEMMA MappingRemembers ==
  ASSUME MappingKept, NEW t, NEW q, Remembered(t, q)
  PROVE  StillRemembered(t, q)
BY DEF MappingKept, Remembered, StillRemembered

LEMMA RemovalKeeps ==
  ASSUME TypeOK, NEW gone, settled' = RemoveSettlementMapping(gone),
         forgotten' = forgotten \cup (DOMAIN settled \ DOMAIN settled')
  PROVE  /\ MappingKept
         /\ DOMAIN settled' \subseteq DOMAIN settled
         /\ Bounded(settled)'
<1> DEFINE ks == {t \in DOMAIN settled :
                    \E q \in gone : t \in Transaction(quotes[q].value)
                                    /\ settled[t].value = q}
<1>1. settled' = Without(settled, ks)
  BY DEF RemoveSettlementMapping
<1>2. Bounded(settled)
  BY DEF TypeOK, MapsBounded, Bounded
<1> HIDE DEF ks
<1>3. /\ DOMAIN settled' = DOMAIN settled \ ks
      /\ \A t \in DOMAIN settled \ ks : settled'[t].value = settled[t].value
  <2>1. /\ DOMAIN Without(settled, ks) = DOMAIN settled \ ks
        /\ \A t \in DOMAIN settled \ ks :
             Without(settled, ks)[t].value = settled[t].value
    BY WithoutKeeps
  <2> QED
    BY <1>1, <2>1
<1>4. Bounded(Without(settled, ks))
  BY <1>2, WithoutBounded
<1>5. Bounded(settled)'
  BY <1>1, <1>4 DEF Bounded
<1> QED
  BY <1>3, <1>5 DEF MappingKept

LEMMA BoundedTogether ==
  ASSUME Bounded(quotes)', Bounded(settled)'
  PROVE  MapsBounded'
BY DEF MapsBounded, Bounded

\* What the steps that only touch snapshots, attempts and maps must show.
StateKept ==
  /\ DOMAIN quotes' \subseteq Quotes
  /\ \A q \in DOMAIN quotes' : quotes'[q].value \in Snapshots
  /\ DOMAIN settled' \subseteq Authorizations
  /\ \A t \in DOMAIN settled' : settled'[t].value \in Quotes
  /\ MapsBounded'
  /\ snapshot' \in [Snapshots -> SnapshotFields]
  /\ attempt' \in Attempts
  /\ forgotten' \subseteq Authorizations
  /\ SnapshotsSound' /\ QuotesNamed'
  /\ \A t, q : Remembered(t, q) => StillRemembered(t, q)
  /\ \A s \in Snapshots : snapshot'[s].settlement # NoPayload =>
       StillRemembered(snapshot'[s].settlement.transaction, snapshot'[s].quote)

\* Nothing that was sold is unsold, and a sale that is added is a sound one.
LEMMA SalesKept ==
  ASSUME PurchaseInv, StateKept, executed \subseteq executed',
         \A x \in sold' \ sold :
           /\ x.payload.authorization = x.transaction
           /\ x.payload.quote = x.quote
           /\ x.transaction \in executed'
           /\ StillRemembered(x.transaction, x.quote)
  PROVE  AnswersArePaid' /\ SalesRemembered'
<1>1. AnswersArePaid'
  BY DEF PurchaseInv, AnswersArePaid
<1>2. SalesRemembered'
  <2>1. \A x \in sold' : StillRemembered(x.transaction, x.quote)
    BY DEF PurchaseInv, StateKept, SalesRemembered
  <2> QED
    BY <2>1 DEF StateKept, SalesRemembered, Remembered, StillRemembered
<1> QED
  BY <1>1, <1>2

\* Every step that first removes the expired quotes.
LEMMA PruneKeeps ==
  ASSUME PurchaseInv, NEW attempts \in Attempts,
         NEW fields \in [Snapshots -> SnapshotFields], NEW gone,
         quotes' = Without(quotes, gone),
         settled' = RemoveSettlementMapping(gone),
         forgotten' = forgotten \cup (DOMAIN settled \ DOMAIN settled'),
         attempt' = attempts,
         snapshot' = Collected(quotes', attempts, fields),
         UNCHANGED executed,
         \A s \in Snapshots :
           /\ SoundOn(fields[s], attempts[s], executed)
           /\ fields[s].quote = snapshot[s].quote
           /\ fields[s].settlement = snapshot[s].settlement
  PROVE  StateKept
<1>1. /\ DOMAIN quotes' = DOMAIN quotes \ gone
      /\ \A q \in DOMAIN quotes \ gone : quotes'[q].value = quotes[q].value
  <2>1. /\ DOMAIN Without(quotes, gone) = DOMAIN quotes \ gone
        /\ \A q \in DOMAIN quotes \ gone :
             Without(quotes, gone)[q].value = quotes[q].value
    BY WithoutKeeps
  <2> QED
    BY <2>1
<1>2. /\ snapshot' \in [Snapshots -> SnapshotFields]
      /\ \A s \in Snapshots :
           /\ SoundOn(snapshot'[s], attempts[s], executed)
           /\ \/ snapshot'[s] = fields[s]
              \/ snapshot'[s] = Blank /\ Unreferenced(quotes', s)
  BY CollectedKeeps
<1>3. /\ MappingKept
      /\ DOMAIN settled' \subseteq DOMAIN settled
      /\ Bounded(settled)'
  BY RemovalKeeps DEF PurchaseInv
<1>4. Bounded(quotes)'
  <2>1. Bounded(Without(quotes, gone))
    BY WithoutBounded DEF PurchaseInv, TypeOK, MapsBounded, Bounded
  <2> QED
    BY <2>1 DEF Bounded
<1>5. SnapshotsSound'
  BY <1>2 DEF SnapshotsSound
<1>6. QuotesNamed'
  BY <1>1, <1>2 DEF PurchaseInv, TypeOK, QuotesNamed, Unreferenced
<1>7. \A t, q : Remembered(t, q) => StillRemembered(t, q)
  BY <1>3, MappingRemembers
<1>8. ASSUME NEW s \in Snapshots, snapshot'[s].settlement # NoPayload
      PROVE  StillRemembered(snapshot'[s].settlement.transaction, snapshot'[s].quote)
  <2>1. snapshot'[s].settlement = snapshot[s].settlement
          /\ snapshot'[s].quote = snapshot[s].quote
    BY <1>2, <1>8 DEF Blank
  <2>2. Remembered(snapshot[s].settlement.transaction, snapshot[s].quote)
    BY <1>8, <2>1 DEF PurchaseInv, SalesRemembered
  <2> QED
    BY <1>3, <2>1, <2>2 DEF MappingKept, Remembered, StillRemembered
<1>9. /\ DOMAIN quotes' \subseteq Quotes
      /\ \A q \in DOMAIN quotes' : quotes'[q].value \in Snapshots
      /\ DOMAIN settled' \subseteq Authorizations
      /\ \A t \in DOMAIN settled' : settled'[t].value \in Quotes
      /\ forgotten' \subseteq Authorizations
  BY <1>1, <1>3 DEF PurchaseInv, TypeOK, MappingKept
<1> QED
  BY <1>2, <1>3, <1>4, <1>5, <1>6, <1>7, <1>8, <1>9, BoundedTogether DEF StateKept
-----------------------------------------------------------------------------
(***************************************************************************)
(* The steps.                                                              *)
(***************************************************************************)
OthersTyped ==
  /\ now \in 0 .. MaxClock
  /\ crashes \in 0 .. MaxCrashes
  /\ quoting \subseteq [quote : Quotes, expiresAt : Nat]
  /\ submitted \subseteq Authorizations /\ executed \subseteq submitted
  /\ sold \subseteq Answers

LEMMA InvariantKept ==
  ASSUME StateKept, OthersTyped', AnswersArePaid', SalesRemembered'
  PROVE  PurchaseInv'
BY DEF StateKept, OthersTyped, PurchaseInv, TypeOK, Attempts

\* The facts about a snapshot that the steps start from.
LEMMA SnapshotFacts ==
  ASSUME PurchaseInv, NEW s \in Snapshots
  PROVE  /\ snapshot[s] \in SnapshotFields
         /\ attempt[s] \in [stage : {"none", "verify", "settle", "confirm"},
                            joined : SUBSET Payloads]
         /\ SoundOn(snapshot[s], attempt[s], executed)
         /\ snapshot \in [Snapshots -> SnapshotFields]
         /\ attempt \in Attempts
BY DEF PurchaseInv, TypeOK, SnapshotsSound, Attempts

LEMMA OfferedFacts ==
  ASSUME PurchaseInv, NEW q \in DOMAIN quotes
  PROVE  /\ quotes[q].value \in Snapshots
         /\ q \in Quotes
         /\ snapshot[quotes[q].value].quote = q
BY DEF PurchaseInv, TypeOK, QuotesNamed

LEMMA ExpiryKeeps ==
  ASSUME PurchaseInv, NEW gone, Drop(gone), UNCHANGED <<attempt, executed>>
  PROVE  StateKept
<1>1. /\ \A s \in Snapshots : SoundOn(snapshot[s], attempt[s], executed)
      /\ snapshot \in [Snapshots -> SnapshotFields]
      /\ attempt \in Attempts
  BY DEF PurchaseInv, TypeOK, SnapshotsSound, Attempts
<1> QED
  BY <1>1, PruneKeeps DEF Drop

LEMMA PruneStep ==
  ASSUME PurchaseInv, PruneExpiredQuotes
  PROVE  PurchaseInv'
<1>1. StateKept
  BY ExpiryKeeps DEF PruneExpiredQuotes, chain
<1>2. OthersTyped' /\ sold' = sold /\ executed' = executed
  BY DEF PurchaseInv, TypeOK, OthersTyped, PruneExpiredQuotes, chain
<1> QED
  BY <1>1, <1>2, SalesKept, InvariantKept

LEMMA WriteSettledStep ==
  ASSUME PurchaseInv, NEW q \in DOMAIN quotes, NEW p \in Payloads,
         WriteSettledQuote(q, p)
  PROVE  PurchaseInv'
<1> DEFINE s == quotes[q].value
           x == Answer(p, snapshot[s].settlement, q)
<1>1. StateKept
  BY ExpiryKeeps DEF WriteSettledQuote, chain
<1>2. /\ snapshot[s].settlement # NoPayload
      /\ snapshot[s].settlement.payload = p
      /\ sold' = sold \cup {x}
      /\ UNCHANGED <<now, crashes, quoting, submitted, executed>>
  BY DEF WriteSettledQuote, SettledWith, chain
<1>3. /\ x.payload = p
      /\ x.quote = q
      /\ x.transaction = snapshot[s].settlement.transaction
  BY DEF Answer
<1>4. /\ s \in Snapshots /\ q \in Quotes
      /\ snapshot[s].quote = q
      /\ snapshot[s] \in SnapshotFields
      /\ SoundOn(snapshot[s], attempt[s], executed)
  BY OfferedFacts, SnapshotFacts
<1>5. x \in Answers
  <2>1. snapshot[s].settlement \in Settlements
    BY <1>2, <1>4 DEF SnapshotFields
  <2> QED
    BY <2>1, <1>4 DEF Settlements, Answers, Answer
<1>6. /\ x.payload.authorization = x.transaction
      /\ x.payload.quote = x.quote
      /\ x.transaction \in executed'
  BY <1>2, <1>3, <1>4 DEF SoundOn
<1>7. StillRemembered(x.transaction, x.quote)
  BY <1>1, <1>2, <1>3, <1>4 DEF PurchaseInv, SalesRemembered, StateKept
<1>8. OthersTyped'
  BY <1>2, <1>5 DEF PurchaseInv, TypeOK, OthersTyped
<1> HIDE DEF x, s
<1> QED
  BY <1>1, <1>2, <1>6, <1>7, <1>8, SalesKept, InvariantKept

LEMMA AwaitStep ==
  ASSUME PurchaseInv, NEW q \in DOMAIN quotes, NEW p \in Payloads,
         AwaitPending(q, p)
  PROVE  PurchaseInv'
<1> DEFINE s == quotes[q].value
           row == [attempt[s] EXCEPT !.joined = @ \cup {p}]
           attempts == [attempt EXCEPT ![s] = row]
<1>1. /\ s \in Snapshots
      /\ attempt[s] \in [stage : {"none", "verify", "settle", "confirm"},
                         joined : SUBSET Payloads]
      /\ SoundOn(snapshot[s], attempt[s], executed)
      /\ snapshot[s].pending = p
  BY OfferedFacts, SnapshotFacts DEF AwaitPending, SharesPending
<1>2. /\ row.stage = attempt[s].stage
      /\ row.joined = attempt[s].joined \cup {p}
      /\ row \in [stage : {"none", "verify", "settle", "confirm"},
                  joined : SUBSET Payloads]
  BY <1>1
<1>3. SoundOn(snapshot[s], row, executed)
  BY <1>1, <1>2 DEF SoundOn
<1>4. PruneWith(attempts, snapshot)
  BY DEF AwaitPending
<1> HIDE DEF row
<1>5. /\ attempts \in Attempts
      /\ \A u \in Snapshots : SoundOn(snapshot[u], attempts[u], executed)
      /\ snapshot \in [Snapshots -> SnapshotFields]
  BY <1>1, <1>2, <1>3 DEF PurchaseInv, TypeOK, SnapshotsSound, Attempts
<1> HIDE DEF attempts, s
<1>6. StateKept
  BY <1>4, <1>5, PruneKeeps DEF PruneWith, chain
<1>7. OthersTyped' /\ sold' = sold /\ executed' = executed
  BY <1>4 DEF PurchaseInv, TypeOK, OthersTyped, PruneWith, chain
<1> QED
  BY <1>6, <1>7, SalesKept, InvariantKept

LEMMA BeginStep ==
  ASSUME PurchaseInv, NEW q \in DOMAIN quotes, NEW p \in Payloads,
         BeginSettlement(q, p)
  PROVE  PurchaseInv'
<1> DEFINE s == quotes[q].value
           field == [snapshot[s] EXCEPT !.pending = p]
           row == [stage |-> "verify", joined |-> {p}]
           fields == [snapshot EXCEPT ![s] = field]
           attempts == [attempt EXCEPT ![s] = row]
<1>1. /\ s \in Snapshots
      /\ snapshot[s] \in SnapshotFields
      /\ SoundOn(snapshot[s], attempt[s], executed)
      /\ snapshot[s].settlement = NoPayload
      /\ p.quote = snapshot[s].quote
  BY OfferedFacts, SnapshotFacts
     DEF BeginSettlement, Unsold, ValidatePaymentPayloadBinding
<1>2. /\ field \in SnapshotFields
      /\ field.pending = p
      /\ field.quote = snapshot[s].quote
      /\ field.settlement = snapshot[s].settlement
  BY <1>1 DEF SnapshotFields
<1>3. SoundOn(field, row, executed)
  BY <1>1, <1>2, PurchaseAssumption DEF SoundOn
<1>4. PruneWith(attempts, fields)
  BY DEF BeginSettlement
<1> HIDE DEF field
<1>5. /\ attempts \in Attempts
      /\ fields \in [Snapshots -> SnapshotFields]
  BY <1>1, <1>2 DEF PurchaseInv, TypeOK, Attempts
<1>6. \A u \in Snapshots : /\ SoundOn(fields[u], attempts[u], executed)
                           /\ fields[u].quote = snapshot[u].quote
                           /\ fields[u].settlement = snapshot[u].settlement
  BY <1>1, <1>2, <1>3 DEF PurchaseInv, TypeOK, SnapshotsSound
<1> HIDE DEF attempts, fields, s
<1>7. StateKept
  BY <1>4, <1>5, <1>6, PruneKeeps DEF PruneWith, chain
<1>8. OthersTyped' /\ sold' = sold /\ executed' = executed
  BY <1>4 DEF PurchaseInv, TypeOK, OthersTyped, PruneWith, chain
<1> QED
  BY <1>7, <1>8, SalesKept, InvariantKept
\* The new snapshot is blank until it is stored, so nothing it replaces or
\* evicts is the snapshot of another entry.
LEMMA StoreStep ==
  ASSUME PurchaseInv, NEW b \in quoting, NEW s \in Snapshots,
         NEW payable \in BOOLEAN, StoreQuote(b, s, payable)
  PROVE  PurchaseInv'
<1> DEFINE field == NewSnapshot(b, payable)
           fields == [snapshot EXCEPT ![s] = field]
           gone == DOMAIN quotes \ DOMAIN quotes'
<1>1. /\ b.quote \in Quotes /\ b.expiresAt \in Nat
      /\ snapshot[s] = Blank
      /\ \A q \in DOMAIN quotes : quotes[q].value # s
      /\ quotes' = SetBoundedMapEntry(quotes, b.quote, s)
      /\ settled' = RemoveSettlementMapping(gone)
      /\ snapshot' = Collected(quotes', attempt, fields)
      /\ forgotten' = forgotten \cup (DOMAIN settled \ DOMAIN settled')
      /\ UNCHANGED <<attempt, executed>>
  BY DEF PurchaseInv, TypeOK, StoreQuote, chain
<1>2. /\ b.quote \in DOMAIN quotes'
      /\ quotes'[b.quote].value = s
      /\ DOMAIN quotes' \subseteq DOMAIN quotes \cup {b.quote}
      /\ \A q \in DOMAIN quotes' \ {b.quote} :
           q \in DOMAIN quotes /\ quotes'[q].value = quotes[q].value
  <2> DEFINE after == SetBoundedMapEntry(quotes, b.quote, s)
  <2>1. /\ b.quote \in DOMAIN after
        /\ after[b.quote].value = s
        /\ DOMAIN after \subseteq DOMAIN quotes \cup {b.quote}
        /\ \A q \in DOMAIN after \ {b.quote} :
             q \in DOMAIN quotes /\ after[q].value = quotes[q].value
    BY EntryKeeps
  <2> QED
    BY <1>1, <2>1
<1>3. Bounded(quotes)'
  <2>1. Bounded(SetBoundedMapEntry(quotes, b.quote, s))
    BY EntryBounded DEF PurchaseInv, TypeOK, MapsBounded, Bounded
  <2> QED
    BY <1>1, <2>1 DEF Bounded
<1>4. /\ field \in SnapshotFields
      /\ field.quote = b.quote
      /\ field.settlement = NoPayload
      /\ field.pending = NoPayload
  BY <1>1 DEF NewSnapshot, Blank, SnapshotFields
<1>5. SoundOn(field, attempt[s], executed)
  BY <1>1, <1>4, SnapshotFacts DEF SoundOn, Blank
<1> HIDE DEF field
<1>6. /\ fields \in [Snapshots -> SnapshotFields]
      /\ attempt \in Attempts
      /\ \A u \in Snapshots : SoundOn(fields[u], attempt[u], executed)
      /\ \A u \in Snapshots \ {s} : fields[u] = snapshot[u]
      /\ fields[s] = field
  BY <1>4, <1>5 DEF PurchaseInv, TypeOK, SnapshotsSound, Attempts
<1> HIDE DEF fields
<1>7. /\ snapshot' \in [Snapshots -> SnapshotFields]
      /\ \A u \in Snapshots :
           /\ SoundOn(snapshot'[u], attempt[u], executed)
           /\ \/ snapshot'[u] = fields[u]
              \/ snapshot'[u] = Blank /\ Unreferenced(quotes', u)
  BY <1>1, <1>6, CollectedKeeps
<1>8. /\ MappingKept
      /\ DOMAIN settled' \subseteq DOMAIN settled
      /\ Bounded(settled)'
  <2> HIDE DEF gone
  <2> QED
    BY <1>1, RemovalKeeps DEF PurchaseInv
<1>9. SnapshotsSound'
  BY <1>1, <1>7 DEF SnapshotsSound
<1>10. QuotesNamed'
  <2> SUFFICES ASSUME NEW q \in DOMAIN quotes'
               PROVE  snapshot'[quotes'[q].value].quote = q
    BY DEF QuotesNamed
  <2>1. CASE q = b.quote
    BY <1>2, <1>4, <1>6, <1>7, <2>1 DEF Unreferenced
  <2>2. CASE q # b.quote
    BY <1>1, <1>2, <1>6, <1>7, <2>2, OfferedFacts DEF Unreferenced
  <2> QED
    BY <2>1, <2>2
<1>11. \A t, q : Remembered(t, q) => StillRemembered(t, q)
  BY <1>8, MappingRemembers DEF Remembered, StillRemembered, MappingKept
<1>12. ASSUME NEW u \in Snapshots, snapshot'[u].settlement # NoPayload
       PROVE  StillRemembered(snapshot'[u].settlement.transaction, snapshot'[u].quote)
  <2>1. snapshot'[u] = snapshot[u]
    BY <1>4, <1>6, <1>7, <1>12 DEF Blank
  <2> QED
    BY <1>11, <1>12, <2>1 DEF PurchaseInv, SalesRemembered
<1>13. /\ DOMAIN quotes' \subseteq Quotes
       /\ \A q \in DOMAIN quotes' : quotes'[q].value \in Snapshots
       /\ DOMAIN settled' \subseteq Authorizations
       /\ \A t \in DOMAIN settled' : settled'[t].value \in Quotes
       /\ forgotten' \subseteq Authorizations
  BY <1>1, <1>2, <1>8 DEF PurchaseInv, TypeOK, MappingKept
<1>14. StateKept
  BY <1>1, <1>3, <1>6, <1>7, <1>8, <1>9, <1>10, <1>11, <1>12, <1>13,
     BoundedTogether DEF StateKept
<1>15. OthersTyped' /\ sold' = sold /\ executed' = executed
  BY DEF PurchaseInv, TypeOK, OthersTyped, StoreQuote, chain
<1> QED
  BY <1>14, <1>15, SalesKept, InvariantKept

\* The settlement on a snapshot ends, and leaves it as it was or settled.
LEMMA EndKeeps ==
  ASSUME PurchaseInv, NEW s \in Snapshots,
         NEW settlement \in Settlements \cup {NoPayload},
         EndAttempt(s, [snapshot EXCEPT ![s].settlement = settlement]),
         UNCHANGED <<quotes, executed>>,
         DOMAIN settled' \subseteq Authorizations,
         \A t \in DOMAIN settled' : settled'[t].value \in Quotes,
         Bounded(settled)',
         forgotten' \subseteq Authorizations,
         \A t, q : Remembered(t, q) => StillRemembered(t, q),
         settlement # NoPayload =>
           /\ settlement.payload.quote = snapshot[s].quote
           /\ settlement.payload.authorization = settlement.transaction
           /\ settlement.transaction \in executed
           /\ StillRemembered(settlement.transaction, snapshot[s].quote)
  PROVE  StateKept
<1> DEFINE field == [snapshot[s] EXCEPT !.settlement = settlement, !.pending = NoPayload]
           fields == [snapshot EXCEPT ![s] = field]
           attempts == [attempt EXCEPT ![s] = Idle]
<1>1. /\ snapshot \in [Snapshots -> SnapshotFields]
      /\ snapshot[s] \in SnapshotFields
      /\ attempt \in Attempts
  BY SnapshotFacts
<1>2. /\ field \in SnapshotFields
      /\ field.quote = snapshot[s].quote
      /\ field.settlement = settlement
      /\ field.pending = NoPayload
  BY <1>1 DEF SnapshotFields
<1>3. attempt' = attempts /\ snapshot' = Collected(quotes, attempts, fields)
  <2>1. [[snapshot EXCEPT ![s].settlement = settlement] EXCEPT ![s].pending = NoPayload]
          = fields
    BY <1>1 DEF SnapshotFields
  <2> QED
    BY <2>1 DEF EndAttempt
<1>4. SoundOn(field, Idle, executed)
  BY <1>2 DEF SoundOn, Idle
<1> HIDE DEF field
<1>5. /\ fields \in [Snapshots -> SnapshotFields]
      /\ attempts \in Attempts
      /\ \A u \in Snapshots \ {s} : fields[u] = snapshot[u]
      /\ fields[s] = field
      /\ \A u \in Snapshots : SoundOn(fields[u], attempts[u], executed)
  BY <1>1, <1>2, <1>4 DEF PurchaseInv, SnapshotsSound, Attempts, Idle
<1> HIDE DEF fields, attempts
<1>6. /\ snapshot' \in [Snapshots -> SnapshotFields]
      /\ \A u \in Snapshots :
           /\ SoundOn(snapshot'[u], attempts[u], executed)
           /\ \/ snapshot'[u] = fields[u]
              \/ snapshot'[u] = Blank /\ Unreferenced(quotes, u)
  BY <1>3, <1>5, CollectedKeeps
<1>7. SnapshotsSound'
  BY <1>3, <1>6 DEF SnapshotsSound
<1>8. QuotesNamed'
  BY <1>2, <1>5, <1>6, OfferedFacts DEF QuotesNamed, Unreferenced
<1>9. ASSUME NEW u \in Snapshots, snapshot'[u].settlement # NoPayload
      PROVE  StillRemembered(snapshot'[u].settlement.transaction, snapshot'[u].quote)
  <2>1. snapshot'[u] = fields[u]
    BY <1>6, <1>9 DEF Blank
  <2>2. CASE u = s
    BY <1>2, <1>5, <1>9, <2>1, <2>2
  <2>3. CASE u # s
    BY <1>5, <1>9, <2>1, <2>3 DEF PurchaseInv, SalesRemembered
  <2> QED
    BY <2>2, <2>3
<1>10. Bounded(quotes)'
  BY DEF PurchaseInv, TypeOK, MapsBounded, Bounded
<1>11. /\ DOMAIN quotes' \subseteq Quotes
       /\ \A q \in DOMAIN quotes' : quotes'[q].value \in Snapshots
  BY DEF PurchaseInv, TypeOK
<1> QED
  BY <1>3, <1>5, <1>6, <1>7, <1>8, <1>9, <1>10, <1>11, BoundedTogether DEF StateKept
\* A settlement that fails, or is refused, leaves the snapshot as it was.
LEMMA FruitlessKeeps ==
  ASSUME PurchaseInv, NEW s \in Snapshots, EndAttempt(s, snapshot),
         UNCHANGED <<quotes, settled, forgotten, executed>>
  PROVE  StateKept
<1> DEFINE settlement == snapshot[s].settlement
<1>1. settlement \in Settlements \cup {NoPayload}
  BY SnapshotFacts DEF SnapshotFields
<1>2. [snapshot EXCEPT ![s].settlement = settlement] = snapshot
  BY SnapshotFacts DEF SnapshotFields
<1>3. EndAttempt(s, [snapshot EXCEPT ![s].settlement = settlement])
  BY <1>2
<1>4. \A t, q : Remembered(t, q) => StillRemembered(t, q)
  BY DEF Remembered, StillRemembered
<1>5. settlement # NoPayload =>
        /\ settlement.payload.quote = snapshot[s].quote
        /\ settlement.payload.authorization = settlement.transaction
        /\ settlement.transaction \in executed
        /\ StillRemembered(settlement.transaction, snapshot[s].quote)
  BY <1>4, SnapshotFacts DEF SoundOn, PurchaseInv, SalesRemembered
<1>6. /\ DOMAIN settled' \subseteq Authorizations
      /\ \A t \in DOMAIN settled' : settled'[t].value \in Quotes
      /\ Bounded(settled)'
      /\ forgotten' \subseteq Authorizations
  BY DEF PurchaseInv, TypeOK, MapsBounded, Bounded
<1> HIDE DEF settlement
<1> QED
  BY <1>1, <1>3, <1>4, <1>5, <1>6, EndKeeps

LEMMA FailureStep ==
  ASSUME PurchaseInv, NEW s \in Snapshots,
         SettlementFails(s) \/ RejectDuplicate(s)
  PROVE  PurchaseInv'
<1>1. EndAttempt(s, snapshot)
  BY DEF SettlementFails, RejectDuplicate
<1>2. UNCHANGED <<quotes, settled, forgotten, executed, now, quoting, sold, crashes>>
  BY DEF SettlementFails, RejectDuplicate, chain
<1>3. StateKept
  BY <1>1, <1>2, FruitlessKeeps
<1>4. submitted' \subseteq Authorizations /\ submitted \subseteq submitted'
  <2>1. attempt[s].stage = "settle" => Authorization(s) \in Authorizations
    BY SnapshotFacts DEF SoundOn, SnapshotFields, Payloads, Authorization
  <2> QED
    BY <2>1 DEF SettlementFails, RejectDuplicate, PurchaseInv, TypeOK, chain
<1>5. OthersTyped'
  BY <1>2, <1>4 DEF PurchaseInv, TypeOK, OthersTyped
<1> QED
  BY <1>2, <1>3, <1>5, SalesKept, InvariantKept

\* The transaction is executed and was not used for another quote: whoever
\* joined has signed this payload for this quote.
LEMMA CompleteStep ==
  ASSUME PurchaseInv, NEW s \in Snapshots, CompleteQuoteSettlement(s)
  PROVE  PurchaseInv'
<1> DEFINE t == Authorization(s)
           q == snapshot[s].quote
           result == [payload |-> snapshot[s].pending, transaction |-> t]
<1>1. /\ attempt[s].stage = "confirm"
      /\ t \in executed
      /\ ~ UsedForOther(t, q)
      /\ EndAttempt(s, [snapshot EXCEPT ![s].settlement = result])
      /\ settled' = SetBoundedMapEntry(settled, t, q)
      /\ sold' = sold \cup {Answer(p, result, q) : p \in attempt[s].joined}
      /\ forgotten' = forgotten \cup (DOMAIN settled \ DOMAIN settled')
      /\ UNCHANGED <<now, quotes, quoting, submitted, executed, crashes>>
  BY DEF CompleteQuoteSettlement, Confirmed, chain
<1>2. /\ snapshot[s].pending \in Payloads
      /\ snapshot[s].pending.quote = q
      /\ attempt[s].joined \subseteq {snapshot[s].pending}
      /\ t = snapshot[s].pending.authorization
      /\ t \in Authorizations
      /\ q \in Quotes
  BY <1>1, SnapshotFacts DEF SoundOn, SnapshotFields, Payloads, Authorization
<1>3. /\ t \in DOMAIN settled'
      /\ settled'[t].value = q
      /\ DOMAIN settled' \subseteq DOMAIN settled \cup {t}
      /\ \A u \in DOMAIN settled' \ {t} :
           u \in DOMAIN settled /\ settled'[u].value = settled[u].value
  <2> DEFINE after == SetBoundedMapEntry(settled, t, q)
  <2>1. /\ t \in DOMAIN after
        /\ after[t].value = q
        /\ DOMAIN after \subseteq DOMAIN settled \cup {t}
        /\ \A u \in DOMAIN after \ {t} :
             u \in DOMAIN settled /\ after[u].value = settled[u].value
    BY EntryKeeps
  <2> QED
    BY <1>1, <2>1
<1>4. Bounded(settled)'
  <2>1. Bounded(SetBoundedMapEntry(settled, t, q))
    BY EntryBounded DEF PurchaseInv, TypeOK, MapsBounded, Bounded
  <2> QED
    BY <1>1, <2>1 DEF Bounded
<1>5. /\ result \in Settlements
      /\ result # NoPayload
      /\ result.payload = snapshot[s].pending
      /\ result.transaction = t
  BY <1>2, PurchaseAssumption DEF Settlements
<1> HIDE DEF t, q, result
<1>6. \A u, k : Remembered(u, k) => StillRemembered(u, k)
  BY <1>1, <1>3 DEF UsedForOther, Remembered, StillRemembered
<1>7. StillRemembered(t, q)
  BY <1>3 DEF StillRemembered
<1>8. /\ DOMAIN settled' \subseteq Authorizations
      /\ \A u \in DOMAIN settled' : settled'[u].value \in Quotes
      /\ forgotten' \subseteq Authorizations
  BY <1>1, <1>2, <1>3 DEF PurchaseInv, TypeOK
<1>9. /\ result.payload.quote = snapshot[s].quote
      /\ result.payload.authorization = result.transaction
      /\ result.transaction \in executed
      /\ StillRemembered(result.transaction, snapshot[s].quote)
  BY <1>1, <1>2, <1>5, <1>7 DEF q
<1>10. StateKept
  BY <1>1, <1>4, <1>5, <1>6, <1>8, <1>9, EndKeeps
<1>11. ASSUME NEW x \in sold' \ sold
       PROVE  /\ x \in Answers
              /\ x.payload.authorization = x.transaction
              /\ x.payload.quote = x.quote
              /\ x.transaction \in executed'
              /\ StillRemembered(x.transaction, x.quote)
  <2>1. PICK p \in attempt[s].joined : x = Answer(p, result, q)
    BY <1>1, <1>11
  <2>2. p = snapshot[s].pending
    BY <1>2
  <2>3. x.payload = p /\ x.transaction = t /\ x.quote = q
    BY <1>5, <2>1 DEF Answer
  <2>4. x \in Answers
    BY <1>2, <1>5, <2>1, <2>2 DEF Answer, Answers
  <2> QED
    BY <1>1, <1>2, <1>7, <2>2, <2>3, <2>4
<1>12. OthersTyped'
  BY <1>1, <1>11 DEF PurchaseInv, TypeOK, OthersTyped
<1> QED
  BY <1>1, <1>10, <1>11, <1>12, SalesKept, InvariantKept

\* Steps that touch no map and no snapshot.
LEMMA FrameKeeps ==
  ASSUME PurchaseInv, UNCHANGED <<quotes, settled, snapshot, forgotten>>,
         executed \subseteq executed', attempt' \in Attempts,
         \A s \in Snapshots :
           /\ attempt'[s].joined = attempt[s].joined
           /\ attempt'[s].stage = "none" <=> attempt[s].stage = "none"
  PROVE  StateKept
<1>1. SnapshotsSound'
  BY DEF PurchaseInv, SnapshotsSound, SoundOn
<1>2. QuotesNamed' /\ MapsBounded'
  BY DEF PurchaseInv, TypeOK, QuotesNamed, MapsBounded
<1>3. \A t, q : Remembered(t, q) => StillRemembered(t, q)
  BY DEF Remembered, StillRemembered
<1> QED
  BY <1>1, <1>2, <1>3 DEF PurchaseInv, TypeOK, SalesRemembered, StateKept

LEMMA AdvanceStep ==
  ASSUME PurchaseInv, NEW s \in Snapshots,
         FacilitatorVerifies(s) \/ FacilitatorSettles(s)
  PROVE  PurchaseInv'
<1>1. PICK from, to \in {"verify", "settle", "confirm"} : Advance(s, from, to)
  BY DEF FacilitatorVerifies, FacilitatorSettles
<1> DEFINE row == [attempt[s] EXCEPT !.stage = to]
<1>2. /\ attempt[s].stage # "none"
      /\ attempt' = [attempt EXCEPT ![s] = row]
      /\ UNCHANGED <<now, quotes, settled, snapshot, forgotten, quoting, executed,
                     sold, crashes>>
  BY <1>1 DEF Advance, maps
<1>3. /\ row \in [stage : {"none", "verify", "settle", "confirm"},
                  joined : SUBSET Payloads]
      /\ row.stage # "none"
      /\ row.joined = attempt[s].joined
  BY <1>1, SnapshotFacts
<1> HIDE DEF row
<1>4. /\ attempt' \in Attempts
      /\ \A u \in Snapshots :
           /\ attempt'[u].joined = attempt[u].joined
           /\ attempt'[u].stage = "none" <=> attempt[u].stage = "none"
  BY <1>2, <1>3 DEF PurchaseInv, TypeOK, Attempts
<1>5. submitted' \subseteq Authorizations /\ submitted \subseteq submitted'
  <2>1. Authorization(s) \in Authorizations
    BY <1>2, SnapshotFacts DEF SoundOn, SnapshotFields, Payloads, Authorization
  <2> QED
    BY <2>1 DEF FacilitatorVerifies, FacilitatorSettles, PurchaseInv, TypeOK
<1>6. StateKept
  BY <1>2, <1>4, FrameKeeps
<1>7. OthersTyped'
  BY <1>2, <1>5 DEF PurchaseInv, TypeOK, OthersTyped
<1> QED
  BY <1>2, <1>6, <1>7, SalesKept, InvariantKept

LEMMA OutsideStep ==
  ASSUME PurchaseInv,
         \/ \E q \in Quotes : BuildEvidence(q)
         \/ \E a \in Authorizations : Execute(a)
         \/ Tick
         \/ UNCHANGED vars
  PROVE  PurchaseInv'
<1>1. /\ UNCHANGED <<quotes, settled, snapshot, forgotten, attempt, sold>>
      /\ executed \subseteq executed'
  BY DEF BuildEvidence, Execute, Tick, vars, maps, chain
<1>2. attempt' \in Attempts
  BY <1>1 DEF PurchaseInv, TypeOK, Attempts
<1>3. StateKept
  BY <1>1, <1>2, FrameKeeps
<1>4. OthersTyped'
  <2>1. now \in Nat /\ QuoteTtl \in Nat
    BY PurchaseAssumption DEF PurchaseInv, TypeOK
  <2>2. CASE \E q \in Quotes : BuildEvidence(q)
    BY <2>1, <2>2 DEF PurchaseInv, TypeOK, OthersTyped, BuildEvidence, chain
  <2>3. CASE \E a \in Authorizations : Execute(a)
    BY <2>3 DEF PurchaseInv, TypeOK, OthersTyped, Execute
  <2>4. CASE Tick
    BY <2>1, <2>4, PurchaseAssumption DEF PurchaseInv, TypeOK, OthersTyped, Tick, chain
  <2>5. CASE UNCHANGED vars
    BY <2>5 DEF PurchaseInv, TypeOK, OthersTyped, vars, chain
  <2> QED
    BY <2>2, <2>3, <2>4, <2>5
<1> QED
  BY <1>1, <1>3, <1>4, SalesKept, InvariantKept

LEMMA EmptyBounded == Bounded(EmptyMap) /\ DOMAIN EmptyMap = {}
BY FS_EmptySet, PurchaseAssumption DEF Bounded, EmptyMap

LEMMA CrashStep ==
  ASSUME PurchaseInv, Crash
  PROVE  PurchaseInv'
<1>1. /\ quotes' = EmptyMap /\ settled' = EmptyMap
      /\ snapshot' = [s \in Snapshots |-> Blank]
      /\ attempt' = [s \in Snapshots |-> Idle]
      /\ forgotten' = forgotten \cup DOMAIN settled
      /\ UNCHANGED <<now, submitted, executed, sold>>
  BY DEF Crash, chain
<1>2. Bounded(quotes)' /\ Bounded(settled)'
  BY <1>1, EmptyBounded DEF Bounded
<1>3. SnapshotsSound' /\ snapshot' \in [Snapshots -> SnapshotFields]
        /\ attempt' \in Attempts
  BY <1>1, BlankTyped DEF SnapshotsSound, SoundOn, Blank, Idle, Attempts
<1>4. \A t, q : Remembered(t, q) => StillRemembered(t, q)
  BY <1>1 DEF Remembered, StillRemembered
<1>5. \A s \in Snapshots : snapshot'[s].settlement = NoPayload
  BY <1>1 DEF Blank
<1>6. QuotesNamed' /\ forgotten' \subseteq Authorizations
  BY <1>1, EmptyBounded DEF QuotesNamed, PurchaseInv, TypeOK
<1>7. StateKept
  BY <1>1, <1>2, <1>3, <1>4, <1>5, <1>6, EmptyBounded, BoundedTogether
     DEF StateKept
<1>8. OthersTyped'
  BY PurchaseAssumption DEF PurchaseInv, TypeOK, OthersTyped, Crash, chain
<1> QED
  BY <1>1, <1>7, <1>8, SalesKept, InvariantKept

LEMMA PurchaseStep == PurchaseInv /\ [Next]_vars => PurchaseInv'
BY PruneStep, WriteSettledStep, AwaitStep, BeginStep, StoreStep, FailureStep,
   CompleteStep, AdvanceStep, OutsideStep, CrashStep
   DEF Next

LEMMA PurchaseInit == Init => PurchaseInv
<1> SUFFICES ASSUME Init
             PROVE  PurchaseInv
  OBVIOUS
<1>1. MapsBounded
  BY EmptyBounded DEF Init, MapsBounded, Bounded
<1>2. TypeOK
  BY <1>1, EmptyBounded, BlankTyped, PurchaseAssumption DEF Init, TypeOK, Idle
<1>3. SnapshotsSound
  BY DEF Init, SnapshotsSound, SoundOn, Blank, Idle
<1>4. QuotesNamed /\ AnswersArePaid /\ SalesRemembered
  BY EmptyBounded DEF Init, QuotesNamed, AnswersArePaid, SalesRemembered, Blank
<1> QED
  BY <1>2, <1>3, <1>4 DEF PurchaseInv

LEMMA PurchaseAlways == Spec => []PurchaseInv
BY PurchaseInit, PurchaseStep, PTL DEF Spec

\* Both maps stay inside their capacity and every field keeps its shape,
\* however quotes replace, evict and outlive one another.
THEOREM TypeCorrect == Spec => []TypeOK
<1>1. PurchaseInv => TypeOK
  BY DEF PurchaseInv
<1> QED
  BY <1>1, PurchaseAlways, PTL

\* Whoever is answered with a report has signed the authorization of its
\* transaction for that quote, and the chain has executed it.
THEOREM AnswersAlwaysPaid == Spec => []AnswersArePaid
<1>1. PurchaseInv => AnswersArePaid
  BY DEF PurchaseInv
<1> QED
  BY <1>1, PurchaseAlways, PTL

\* A transaction that has bought one quote's report buys another's only after
\* its entry left the settled map.
THEOREM TransactionAlwaysBuysOneQuote == Spec => []TransactionBuysOneQuote
<1>1. PurchaseInv => TransactionBuysOneQuote
  BY DEF PurchaseInv, SalesRemembered, Remembered, TransactionBuysOneQuote
<1> QED
  BY <1>1, PurchaseAlways, PTL
LEMMA CollectedEither ==
  ASSUME NEW map, NEW attempts, NEW fields, NEW s \in Snapshots
  PROVE  \/ Collected(map, attempts, fields)[s] = fields[s]
         \/ Collected(map, attempts, fields)[s] = Blank /\ Unreferenced(map, s)
BY DEF Collected, Unreferenced

\* A settled snapshot is never settled again: no settlement runs on one, none
\* starts on one, and a newer quote of the same id has a snapshot of its own.
THEOREM AlwaysSettledOnce == Spec => SettledOnce
<1> DEFINE Kept(s) ==
             snapshot[s].settlement # NoPayload =>
               \/ snapshot'[s].settlement = snapshot[s].settlement
               \/ snapshot'[s] = Blank /\ \A q \in DOMAIN quotes' : quotes'[q].value # s
<1>1. ASSUME NEW s \in Snapshots, NEW fields, NEW attempts,
             snapshot' = Collected(quotes', attempts, fields),
             snapshot[s].settlement # NoPayload =>
               fields[s].settlement = snapshot[s].settlement
      PROVE  Kept(s)
  BY <1>1, CollectedEither DEF Unreferenced
<1>2. ASSUME PurchaseInv, Next, NEW s \in Snapshots
      PROVE  Kept(s)
  <2>1. CASE \/ PruneExpiredQuotes
             \/ \E q \in DOMAIN quotes, p \in Payloads :
                  WriteSettledQuote(q, p) \/ AwaitPending(q, p)
    <3>1. snapshot' = Collected(quotes', attempt', snapshot)
      BY <2>1 DEF PruneExpiredQuotes, WriteSettledQuote, AwaitPending, PruneWith, Drop
    <3> QED
      BY <1>1, <3>1
  <2>2. ASSUME NEW q \in DOMAIN quotes, NEW p \in Payloads, BeginSettlement(q, p)
        PROVE  Kept(s)
    <3> DEFINE fields == [snapshot EXCEPT ![quotes[q].value].pending = p]
    <3>1. snapshot' = Collected(quotes', attempt', fields)
      BY <2>2 DEF BeginSettlement, PruneWith
    <3>2. fields[s].settlement = snapshot[s].settlement
      <4>1. snapshot \in [Snapshots -> SnapshotFields] /\ snapshot[s] \in SnapshotFields
        BY <1>2, SnapshotFacts
      <4> QED
        BY <4>1 DEF SnapshotFields
    <3> HIDE DEF fields
    <3> QED
      BY <1>1, <3>1, <3>2
  <2>3. ASSUME NEW b \in quoting, NEW u \in Snapshots, NEW payable \in BOOLEAN,
               StoreQuote(b, u, payable)
        PROVE  Kept(s)
    <3> DEFINE fields == [snapshot EXCEPT ![u] = NewSnapshot(b, payable)]
    <3>1. snapshot' = Collected(quotes', attempt, fields) /\ snapshot[u] = Blank
      BY <2>3 DEF StoreQuote
    <3>2. snapshot[s].settlement # NoPayload => fields[s] = snapshot[s]
      BY <1>2, <3>1 DEF Blank, PurchaseInv, TypeOK
    <3> HIDE DEF fields
    <3> QED
      BY <1>1, <3>1, <3>2
  <2>4. ASSUME NEW u \in Snapshots, SettlementFails(u) \/ RejectDuplicate(u)
        PROVE  Kept(s)
    <3> DEFINE fields == [snapshot EXCEPT ![u].pending = NoPayload]
    <3>1. snapshot' = Collected(quotes', attempt', fields)
      BY <2>4 DEF SettlementFails, RejectDuplicate, EndAttempt
    <3>2. fields[s].settlement = snapshot[s].settlement
      <4>1. snapshot \in [Snapshots -> SnapshotFields] /\ snapshot[s] \in SnapshotFields
        BY <1>2, SnapshotFacts
      <4> QED
        BY <4>1 DEF SnapshotFields
    <3> HIDE DEF fields
    <3> QED
      BY <1>1, <3>1, <3>2
  <2>5. ASSUME NEW u \in Snapshots, CompleteQuoteSettlement(u)
        PROVE  Kept(s)
    <3> DEFINE result == [payload |-> snapshot[u].pending,
                          transaction |-> Authorization(u)]
               field == [snapshot[u] EXCEPT !.settlement = result, !.pending = NoPayload]
               fields == [snapshot EXCEPT ![u] = field]
    <3>1. snapshot' = Collected(quotes', attempt', fields)
      <4>1. [[snapshot EXCEPT ![u].settlement = result] EXCEPT ![u].pending = NoPayload]
              = fields
        BY <1>2, SnapshotFacts DEF SnapshotFields
      <4> QED
        BY <2>5, <4>1 DEF CompleteQuoteSettlement, EndAttempt
    <3>2. snapshot[u].settlement = NoPayload
      BY <1>2, <2>5, SnapshotFacts DEF CompleteQuoteSettlement, SoundOn
    <3> HIDE DEF field
    <3>3. snapshot[s].settlement # NoPayload => fields[s] = snapshot[s]
      BY <1>2, <3>2 DEF PurchaseInv, TypeOK
    <3> HIDE DEF fields
    <3> QED
      BY <1>1, <3>1, <3>3
  <2>6. CASE Crash
    BY <2>6, EmptyBounded DEF Crash
  <2>7. CASE \/ \E q \in Quotes : BuildEvidence(q)
             \/ \E u \in Snapshots : FacilitatorVerifies(u) \/ FacilitatorSettles(u)
             \/ \E a \in Authorizations : Execute(a)
             \/ Tick
    BY <2>7 DEF BuildEvidence, FacilitatorVerifies, FacilitatorSettles, Advance,
                Execute, Tick, maps
  <2> HIDE DEF Kept
  <2> QED
    BY <1>2, <2>1, <2>2, <2>3, <2>4, <2>5, <2>6, <2>7 DEF Next
<1>3. PurchaseInv /\ [Next]_vars => [\A s \in Snapshots : Kept(s)]_vars
  BY <1>2
<1> QED
  BY <1>3, PurchaseAlways, PTL DEF Spec, SettledOnce
=============================================================================
