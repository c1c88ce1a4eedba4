------------------------ MODULE ReportSourcesProofs ------------------------
(***************************************************************************)
(* Proofs about the sources of the report API.  Each part has an           *)
(* invariant of its own, kept by its own steps; a behaviour of             *)
(* ReportSources follows one part, so every part keeps its invariant.      *)
(***************************************************************************)
EXTENDS ReportSources, FiniteSetTheorems, SequenceTheorems, WellFoundedInduction, TLAPS

\* Numbers that are bounded by one another.
LEMMA LeastNatural ==
  ASSUME NEW T, T \subseteq Nat, T # {}
  PROVE  \E x \in T : \A y \in T : x <= y
<1> DEFINE R == OpToRel(<, Nat)
<1>1. IsWellFoundedOn(R, Nat)
  BY NatLessThanWellFounded
<1>2. \A u, v \in Nat : u < v => <<u, v>> \in R
  BY DEF OpToRel
<1> HIDE DEF R
<1>3. PICK x \in T : \A y \in T : ~(<<y, x>> \in R)
  BY <1>1, WFMin
<1>4. ASSUME NEW y \in T
      PROVE  x <= y
  <2>1. x \in Nat /\ y \in Nat
    OBVIOUS
  <2>2. ~(y < x)
    BY <1>2, <1>3, <2>1, Zenon
  <2> QED
    BY <2>1, <2>2
<1> QED
  BY <1>4

\* The greatest of some of the first n numbers is one of them.
LEMMA GreatestIn ==
  ASSUME NEW n \in Nat, NEW T, T \subseteq 1..n, T # {}
  PROVE  Max(T) \in T
<1> DEFINE D == {n - x : x \in T}
<1>0. \A x \in T : x \in Int /\ x >= 1 /\ x <= n
  OBVIOUS
<1>1. D \subseteq Nat /\ D # {}
  <2>1. \A x \in T : n - x \in Nat
    BY <1>0
  <2> QED
    BY <2>1
<1> HIDE DEF D
<1>2. PICK d \in D : \A e \in D : d <= e
  BY <1>1, LeastNatural
<1> USE DEF D
<1>3. PICK x \in T : d = n - x
  OBVIOUS
<1>4. ASSUME NEW y \in T
      PROVE  x >= y
  <2>1. n - y \in D
    OBVIOUS
  <2>2. n - x <= n - y
    BY <1>2, <1>3, <2>1
  <2> QED
    BY <1>0, <2>2
<1> QED
  BY <1>4 DEF Max

\* The greater of two numbers, and the least of two.
LEMMA GreaterIs ==
  ASSUME NEW x \in Int, NEW y \in Int
  PROVE  Max({x, y}) = IF x >= y THEN x ELSE y
<1> DEFINE m == IF x >= y THEN x ELSE y
<1>1. m \in {x, y} /\ \A z \in {x, y} : m >= z
  OBVIOUS
<1>2. \A k \in {x, y} : (\A z \in {x, y} : k >= z) => k = m
  OBVIOUS
<1> HIDE DEF m
<1>3. Max({x, y}) = m
  BY <1>1, <1>2 DEF Max
<1> QED
  BY <1>3 DEF m

LEMMA LesserIs ==
  ASSUME NEW x \in Int, NEW y \in Int
  PROVE  Min({x, y}) = IF x <= y THEN x ELSE y
<1> DEFINE m == IF x <= y THEN x ELSE y
<1>1. m \in {x, y} /\ \A z \in {x, y} : m <= z
  OBVIOUS
<1>2. \A k \in {x, y} : (\A z \in {x, y} : k <= z) => k = m
  OBVIOUS
<1> HIDE DEF m
<1>3. Min({x, y}) = m
  BY <1>1, <1>2 DEF Min
<1> QED
  BY <1>3 DEF m

-----------------------------------------------------------------------------
(***************************************************************************)
(* PaymentReadiness.  Evidence says what it is without, a cache entry      *)
(* lasts as long as its kind may, and what a request goes on with was      *)
(* young enough when the request came.                                     *)
(***************************************************************************)
EvidenceSound(e) ==
  /\ e \in Evidence
  /\ e.token = "sound" => ~e.missing
  /\ e.token = "unread" => e.errors /\ e.missing

Lifetime(e) == IF e.errors THEN FailureTtl ELSE AssetTtl

CacheSound ==
  \/ cached \in {Nothing, Loading}
  \/ /\ EvidenceSound(cached.evidence)
     /\ cached.expiresAt \in Nat
     /\ cached.expiresAt - cached.evidence.readAt <= Lifetime(cached.evidence)

\* Evidence that a request that came at a time may rest on.
YoungAt(e, t) == EvidenceSound(e) /\ t - e.readAt < Lifetime(e)

RequestSound(r) ==
  \/ r = IdleCall
  \/ /\ r.at = "token" /\ r.begunAt \in Nat
  \/ /\ r.at = "service" /\ r.begunAt \in Nat
     /\ YoungAt(r.evidence, r.begunAt)
     /\ PaymentAssetFailure(r.evidence) = "none"
  \/ /\ r.at = "done" /\ r.begunAt \in Nat
     /\ r.expiresAt = r.begunAt + QuoteTtl
     /\ r.evidence # Nothing => YoungAt(r.evidence, r.begunAt)
     /\ r.reason = "none" => /\ r.evidence # Nothing
                             /\ PaymentAssetFailure(r.evidence) = "none"

ReadinessInv ==
  /\ time \in Nat /\ feeToken \in FeeTokens
  /\ CacheSound
  /\ DOMAIN calls = Calls
  /\ \A k \in Calls : RequestSound(calls[k]) /\ (calls[k].at # "idle" => calls[k].begunAt <= time)

LEMMA NothingIsNoEvidence == \A e : EvidenceSound(e) => e # Nothing
<1> SUFFICES ASSUME NEW e, EvidenceSound(e)
             PROVE  e # Nothing
  OBVIOUS
<1>1. "readAt" \in DOMAIN e
  BY DEF EvidenceSound, Evidence
<1>2. "readAt" \notin DOMAIN Nothing
  BY DEF Nothing
<1> QED
  BY <1>1, <1>2

\* What the node answers now is sound, and read now.
LEMMA ReadIsSound ==
  ASSUME time \in Nat, feeToken \in FeeTokens, NEW e \in ReadNow
  PROVE  EvidenceSound(e) /\ e.readAt = time
<1> DEFINE all == [ token |-> feeToken, readAt |-> time,
                    errors |-> feeToken \in {"absent", "no_metadata"},
                    missing |-> feeToken \in {"absent", "no_entrypoint", "no_metadata"} ]
<1>1. all \in Evidence
  <2>1. (feeToken \in {"absent", "no_metadata"}) \in BOOLEAN
        /\ (feeToken \in {"absent", "no_entrypoint", "no_metadata"}) \in BOOLEAN
    OBVIOUS
  <2> QED
    BY <2>1, Zenon DEF Evidence
<1>2. /\ all.token = feeToken /\ all.readAt = time
      /\ all.missing <=> feeToken \in {"absent", "no_entrypoint", "no_metadata"}
  BY Zenon
<1> HIDE DEF all
<1>3. CASE e = all
  BY <1>1, <1>2, <1>3 DEF EvidenceSound, FeeTokens
<1>4. CASE e = [all EXCEPT !.errors = TRUE]
  <2>1. e \in Evidence /\ e.token = all.token /\ e.missing = all.missing /\ e.readAt = all.readAt
    BY <1>1, <1>4 DEF Evidence
  <2> QED
    BY <1>2, <2>1 DEF EvidenceSound, FeeTokens
<1>5. CASE e = [all EXCEPT !.errors = TRUE, !.missing = TRUE, !.token = "unread"]
  <2>1. /\ e \in Evidence /\ e.token = "unread" /\ e.missing = TRUE /\ e.errors = TRUE
        /\ e.readAt = all.readAt
    BY <1>1, <1>5 DEF Evidence
  <2> QED
    BY <1>2, <2>1 DEF EvidenceSound, FeeTokens
<1> QED
  BY <1>3, <1>4, <1>5 DEF ReadNow, all

\* Evidence without a failure is of a token that was read and is sound.
LEMMA NoFailureMeans ==
  ASSUME NEW e, EvidenceSound(e), PaymentAssetFailure(e) = "none"
  PROVE  e.token = "sound" /\ ~e.missing
<1>1. e # Nothing
  BY NothingIsNoEvidence
<1>2. ~(e.errors /\ e.missing)
  BY <1>1 DEF PaymentAssetFailure
<1>3. e.token \notin {"absent", "no_entrypoint", "no_metadata", "other_metadata"}
  BY <1>1, <1>2 DEF PaymentAssetFailure
<1>4. e.token \in FeeTokens \cup {"unread"}
  BY DEF EvidenceSound, Evidence
<1>5. e.token = "sound"
  BY <1>2, <1>3, <1>4 DEF EvidenceSound, FeeTokens
<1> QED
  BY <1>5 DEF EvidenceSound

\* What a request becomes when it has its evidence, or none.
LEMMA AssessedIsSound ==
  ASSUME NEW call, call.at = "token", call.begunAt \in Nat,
         NEW e, e = Nothing \/ YoungAt(e, call.begunAt)
  PROVE  /\ RequestSound(Assessed(call, e))
         /\ Assessed(call, e).at # "idle" => Assessed(call, e).begunAt = call.begunAt
<1> DEFINE failure == PaymentAssetFailure(e)
<1>1. Nothing = e => failure = "asset_unavailable"
  BY DEF PaymentAssetFailure
<1>2. CASE Assessed(call, e) = IdleCall
  BY <1>2 DEF RequestSound, IdleCall
<1>3. ASSUME NEW reason, reason # "none", Assessed(call, e) = Outcome(call, reason, e)
      PROVE  /\ RequestSound(Assessed(call, e))
             /\ Assessed(call, e).begunAt = call.begunAt
  BY <1>3 DEF RequestSound, Outcome
<1>4. CASE /\ failure = "none"
           /\ Assessed(call, e) = [at |-> "service", kind |-> call.kind,
                                   begunAt |-> call.begunAt, evidence |-> e]
  BY <1>1, <1>4 DEF RequestSound
<1> QED
  BY <1>2, <1>3, <1>4 DEF Assessed

LEMMA ReadinessStep == ReadinessInv /\ [ReadinessNext]_readinessVars => ReadinessInv'
<1> SUFFICES ASSUME ReadinessInv, [ReadinessNext]_readinessVars
             PROVE  ReadinessInv'
  OBVIOUS
<1> USE DEF ReadinessInv
<1>1. ASSUME NEW k \in Calls, NEW kind \in {"quote", "status"}, BeginCheck(k, kind)
      PROVE  ReadinessInv'
  <2> DEFINE call == [at |-> "token", kind |-> kind, begunAt |-> time]
             e == IF ~Configured THEN Nothing ELSE cached.evidence
  <2>1. CacheSound'
    BY <1>1 DEF BeginCheck, CacheSound, Cached
  <2>2. Configured /\ Cached => YoungAt(cached.evidence, time)
    <3> SUFFICES ASSUME Configured, Cached
                 PROVE  YoungAt(cached.evidence, time)
      OBVIOUS
    <3>1. /\ EvidenceSound(cached.evidence) /\ cached.expiresAt \in Nat
          /\ cached.expiresAt - cached.evidence.readAt <= Lifetime(cached.evidence)
          /\ cached.expiresAt > time
      BY DEF Cached, CacheSound
    <3>2. cached.evidence.readAt \in Nat /\ Lifetime(cached.evidence) \in Nat
      BY <3>1, ReadinessAssumption DEF EvidenceSound, Evidence, Lifetime
    <3> QED
      BY <3>1, <3>2 DEF YoungAt
  <2>3. calls'[k] = IF ~Configured \/ Cached THEN Assessed(call, e) ELSE call
    BY <1>1 DEF BeginCheck
  <2>4. RequestSound(call) /\ call.begunAt = time
    BY DEF RequestSound
  <2>5. ~Configured \/ Cached => e = Nothing \/ YoungAt(e, time)
    BY <2>2
  <2>6. ~Configured \/ Cached =>
          /\ RequestSound(Assessed(call, e))
          /\ Assessed(call, e).at # "idle" => Assessed(call, e).begunAt = time
    <3> HIDE DEF e
    <3> QED
      BY <2>5, AssessedIsSound
  <2> HIDE DEF e, call
  <2>7. RequestSound(calls'[k]) /\ (calls'[k].at # "idle" => calls'[k].begunAt = time)
    BY <2>3, <2>4, <2>6
  <2>8. \A l \in Calls : l # k => calls'[l] = calls[l]
    BY <1>1 DEF BeginCheck
  <2> QED
    BY <1>1, <2>1, <2>7, <2>8 DEF BeginCheck
<1>2. ASSUME NEW e, \/ e \in ReadNow /\ AssetLoaded(e)
                    \/ e = Nothing /\ AssetLoadFails
      PROVE  ReadinessInv'
  <2>1. e \in ReadNow => EvidenceSound(e) /\ e.readAt = time
    BY ReadIsSound
  <2>2. e \in ReadNow => \A t \in Nat : t <= time => YoungAt(e, t)
    BY <2>1, ReadinessAssumption DEF YoungAt, Lifetime
  <2>3. CacheSound'
    <3>1. CASE e \in ReadNow /\ AssetLoaded(e)
      <4>1. cached' = [kind |-> "evidence", evidence |-> e, expiresAt |-> ExpiresAt(e)]
        BY <3>1 DEF AssetLoaded
      <4>2. ExpiresAt(e) \in Nat /\ ExpiresAt(e) - e.readAt <= Lifetime(e)
        BY <2>1, <3>1, ReadinessAssumption DEF ExpiresAt, Lifetime
      <4> QED
        BY <2>1, <3>1, <4>1, <4>2 DEF CacheSound
    <3>2. CASE AssetLoadFails
      BY <3>2 DEF AssetLoadFails, CacheSound
    <3> QED
      BY <1>2, <3>1, <3>2
  <2>4. \A l \in Calls : calls'[l] = IF calls[l].at = "token" THEN Assessed(calls[l], e) ELSE calls[l]
    BY <1>2 DEF AssetLoaded, AssetLoadFails, ForTheToken
  <2>5. ASSUME NEW l \in Calls
        PROVE  RequestSound(calls'[l]) /\ (calls'[l].at # "idle" => calls'[l].begunAt <= time)
    <3>1. CASE calls[l].at = "token"
      <4>1. calls[l].begunAt \in Nat /\ calls[l].begunAt <= time
        BY <3>1 DEF RequestSound, IdleCall
      <4>2. e = Nothing \/ YoungAt(e, calls[l].begunAt)
        BY <1>2, <2>2, <4>1
      <4>3. /\ RequestSound(Assessed(calls[l], e))
            /\ Assessed(calls[l], e).at # "idle" => Assessed(calls[l], e).begunAt = calls[l].begunAt
        BY <3>1, <4>1, <4>2, AssessedIsSound
      <4> QED
        BY <2>4, <3>1, <4>1, <4>3
    <3>2. CASE calls[l].at # "token"
      BY <2>4, <3>2
    <3> QED
      BY <3>1, <3>2
  <2> QED
    BY <1>2, <2>3, <2>5 DEF AssetLoaded, AssetLoadFails
<1>3. ASSUME NEW k \in Calls, NEW answered \in BOOLEAN, FacilitatorAnswers(k, answered)
      PROVE  ReadinessInv'
  <2>1. CacheSound'
    BY <1>3 DEF FacilitatorAnswers, CacheSound
  <2>2. PICK reason : calls' = [calls EXCEPT ![k] = Outcome(calls[k], reason, calls[k].evidence)]
    BY <1>3 DEF FacilitatorAnswers
  <2>3. /\ calls[k].at = "service" /\ calls[k].begunAt \in Nat /\ calls[k].begunAt <= time
        /\ YoungAt(calls[k].evidence, calls[k].begunAt)
        /\ PaymentAssetFailure(calls[k].evidence) = "none"
    BY <1>3 DEF FacilitatorAnswers, RequestSound, IdleCall
  <2>4. calls[k].evidence # Nothing
    BY <2>3, NothingIsNoEvidence DEF YoungAt
  <2>5. calls'[k] = Outcome(calls[k], reason, calls[k].evidence)
    BY <2>2
  <2>6. RequestSound(calls'[k]) /\ calls'[k].begunAt <= time
    BY <2>3, <2>4, <2>5 DEF RequestSound, Outcome
  <2>7. \A l \in Calls : l # k => calls'[l] = calls[l]
    BY <2>2
  <2> QED
    BY <1>3, <2>1, <2>2, <2>6, <2>7 DEF FacilitatorAnswers
<1>4. CASE WorldChanges
  BY <1>4 DEF WorldChanges, CacheSound
<1>5. CASE ReadinessTick
  <2>1. time' \in Nat /\ time' = time + 1
    BY <1>5 DEF ReadinessTick
  <2>2. CacheSound'
    BY <1>5 DEF ReadinessTick, CacheSound
  <2>3. RequestSound(IdleCall) /\ IdleCall.at = "idle"
    BY DEF RequestSound, IdleCall
  <2>4. \A l \in Calls : calls'[l] \in {calls[l], IdleCall}
    BY <1>5 DEF ReadinessTick
  <2>5. \A l \in Calls : calls[l].at # "idle" => calls[l].begunAt \in Nat
    BY DEF RequestSound, IdleCall
  <2>6. ASSUME NEW l \in Calls
        PROVE  RequestSound(calls'[l]) /\ (calls'[l].at # "idle" => calls'[l].begunAt <= time')
    BY <2>1, <2>3, <2>4, <2>5
  <2> QED
    BY <1>5, <2>1, <2>2, <2>6 DEF ReadinessTick
<1>6. CASE UNCHANGED readinessVars
  BY <1>6 DEF readinessVars, CacheSound
<1>7. CASE \E e \in ReadNow : AssetLoaded(e)
  BY <1>2, <1>7
<1>8. CASE AssetLoadFails
  BY <1>2, <1>8
<1> QED
  BY <1>1, <1>3, <1>4, <1>5, <1>6, <1>7, <1>8 DEF ReadinessNext

LEMMA ReadinessStart == ReadinessInit => ReadinessInv
BY DEF ReadinessInit, ReadinessInv, CacheSound, RequestSound, IdleCall, FeeTokens

LEMMA IsFresh == ReadinessInv => ReadinessFresh
<1> SUFFICES ASSUME ReadinessInv, NEW k \in Calls
             PROVE  /\ Accepts(calls[k]) =>
                         /\ calls[k].evidence.token = "sound" /\ ~calls[k].evidence.missing
                         /\ time - calls[k].evidence.readAt < AssetTtl + QuoteTtl
                    /\ calls[k].at = "done" /\ calls[k].evidence # Nothing =>
                         calls[k].begunAt - calls[k].evidence.readAt < Lifetime(calls[k].evidence)
  BY Zenon DEF ReadinessFresh, Lifetime
<1> DEFINE r == calls[k]
<1>1. SUFFICES ASSUME r.at = "done"
               PROVE  /\ Accepts(r) =>
                           /\ r.evidence.token = "sound" /\ ~r.evidence.missing
                           /\ time - r.evidence.readAt < AssetTtl + QuoteTtl
                      /\ r.evidence # Nothing =>
                           r.begunAt - r.evidence.readAt < Lifetime(r.evidence)
  BY DEF Accepts
<1>2. /\ r.begunAt \in Nat /\ r.expiresAt = r.begunAt + QuoteTtl
      /\ r.evidence # Nothing => YoungAt(r.evidence, r.begunAt)
      /\ r.reason = "none" => /\ r.evidence # Nothing
                              /\ PaymentAssetFailure(r.evidence) = "none"
  BY <1>1 DEF ReadinessInv, RequestSound, IdleCall
<1> HIDE DEF r
<1>3. ASSUME Accepts(r)
      PROVE  /\ r.evidence.token = "sound" /\ ~r.evidence.missing
             /\ time - r.evidence.readAt < AssetTtl + QuoteTtl
  <2>1. YoungAt(r.evidence, r.begunAt) /\ PaymentAssetFailure(r.evidence) = "none"
    BY <1>2, <1>3 DEF Accepts
  <2>2. r.evidence.readAt \in Nat /\ Lifetime(r.evidence) <= AssetTtl /\ Lifetime(r.evidence) \in Nat
    BY <2>1, ReadinessAssumption DEF YoungAt, EvidenceSound, Evidence, Lifetime
  <2>3. time \in Nat /\ time < r.begunAt + QuoteTtl /\ QuoteTtl \in Nat /\ AssetTtl \in Nat
    BY <1>2, <1>3, ReadinessAssumption DEF Accepts, ReadinessInv
  <2>4. r.begunAt - r.evidence.readAt < Lifetime(r.evidence)
    BY <2>1 DEF YoungAt
  <2> QED
    BY <1>2, <2>1, <2>2, <2>3, <2>4, NoFailureMeans DEF YoungAt
<1> QED
  BY <1>2, <1>3 DEF YoungAt

\* A quote that can be bought was found good, on evidence younger than the two
\* lifetimes together, and no answer rests on failed evidence for longer than
\* the short lifetime, whatever loads are shared, fail and overtake each other.
THEOREM AlwaysFresh == SourcesSpec => []ReadinessFresh
<1>1. SourcesInit => ReadinessInv
  BY ReadinessStart DEF SourcesInit
<1>2. ASSUME ReadinessInv,
             [SourcesNext]_<<vars, readinessVars, marketVars, probeVars, limitVars, followed>>
      PROVE  ReadinessInv'
  <2>1. [ReadinessNext]_readinessVars
    BY <1>2 DEF SourcesNext
  <2> QED
    BY <1>2, <2>1, ReadinessStep
<1> QED
  BY <1>1, <1>2, IsFresh, PTL DEF SourcesSpec

-----------------------------------------------------------------------------
(***************************************************************************)
(* MarketCache.  A scan is inside its deadline; pairs are stamped at most  *)
(* a deadline after their scan began, a map of symbols one lifetime later. *)
(***************************************************************************)
Listed(pairs) == pairs \in SUBSET Tokens /\ IsFiniteSet(pairs)

ScanSound ==
  \/ scan = None
  \/ /\ scan \in [page : 1 .. Pages, attempt : Nat, pairs : SUBSET Tokens,
                  readAt : Nat, deadline : Nat]
     /\ Listed(scan.pairs)
     /\ scan.readAt <= marketClock
     /\ marketClock <= scan.deadline /\ scan.deadline <= scan.readAt + Deadline

PairCacheSound ==
  \/ pairCache = None
  \/ /\ Listed(pairCache.pairs)
     /\ pairCache.at \in Nat /\ pairCache.readAt \in Nat
     /\ pairCache.at <= pairCache.readAt + Deadline

MapSound(c) ==
  /\ Listed(c.pairs) /\ c.symbols = BuildSymbolMap(c.pairs)
  /\ c.at \in Nat /\ c.readAt \in Nat
  /\ c.at <= c.readAt + Deadline + PairTtl

\* An answer, as SymbolJustified wants it.
JustifiedAt(r, now) ==
  r.package # NoAnswer.package =>
    /\ Lists(r.pairs, r.symbol) = {r.package}
    /\ now - r.readAt <= 2 * PairTtl + Deadline

LookupSound(r, now) ==
  /\ r.at = "waiting" => r.now \in Nat /\ r.now <= now
  /\ r.at = "answered" => JustifiedAt(r, now)

MarketInv ==
  /\ marketClock \in Nat
  /\ DOMAIN market = 1 .. Pages /\ \A p \in 1 .. Pages : Listed(market[p])
  /\ ScanSound /\ PairCacheSound
  /\ symbolCache = None \/ MapSound(symbolCache)
  /\ DOMAIN lookups = Lookups
  /\ \A l \in Lookups : LookupSound(lookups[l], marketClock)

\* The packages with a symbol are finitely many, as the pairs are.
LEMMA ListsFinite ==
  ASSUME NEW pairs, Listed(pairs), NEW s
  PROVE  IsFiniteSet(Lists(pairs, s))
<1> DEFINE U == {u \in pairs : u.symbol = s}
           f == [u \in U |-> u.package]
<1>1. IsFiniteSet(U)
  BY FS_Subset DEF Listed
<1>2. Lists(pairs, s) = {f[u] : u \in U}
  BY DEF Lists
<1>3. f \in Surjection(U, Lists(pairs, s))
  BY <1>2 DEF Surjection
<1> QED
  BY <1>1, <1>3, FS_Surjection

\* The map of symbols gives a package to a symbol of no other.
LEMMA MapMeans ==
  ASSUME NEW pairs, Listed(pairs), NEW s \in DOMAIN BuildSymbolMap(pairs),
         BuildSymbolMap(pairs)[s] # NoAnswer.package
  PROVE  Lists(pairs, s) = {BuildSymbolMap(pairs)[s]}
<1> DEFINE L == Lists(pairs, s)
<1>1. Cardinality(L) = 1 /\ BuildSymbolMap(pairs)[s] = CHOOSE p \in L : TRUE
  BY DEF BuildSymbolMap
<1>2. \E x : L = {x}
  BY <1>1, ListsFinite, FS_Singleton
<1> QED
  BY <1>1, <1>2

LEMMA AnswerJustified ==
  ASSUME NEW c, MapSound(c), NEW s, NEW now \in Nat, now <= c.at + PairTtl
  PROVE  JustifiedAt(Answer(c, s), now) /\ Answer(c, s).at = "answered"
<1> DEFINE r == Answer(c, s)
<1>1. /\ r.at = "answered" /\ r.pairs = c.pairs /\ r.symbol = s /\ r.readAt = c.readAt
      /\ r.package = IF s \in DOMAIN c.symbols THEN c.symbols[s] ELSE NoAnswer.package
  BY DEF Answer
<1> HIDE DEF r
<1>2. r.package # NoAnswer.package => Lists(r.pairs, r.symbol) = {r.package}
  BY <1>1, MapMeans DEF MapSound
<1>3. now - r.readAt <= 2 * PairTtl + Deadline
  BY <1>1, MarketAssumption DEF MapSound
<1> QED
  BY <1>1, <1>2, <1>3 DEF JustifiedAt, r

\* A map made of cached pairs, at a time at which they may still be used.
LEMMA SymbolsSound ==
  ASSUME NEW c, Listed(c.pairs), c.readAt \in Nat, NEW now \in Nat,
         now <= c.readAt + Deadline + PairTtl
  PROVE  MapSound(SymbolsOf(c, now)) /\ SymbolsOf(c, now).at = now
BY DEF MapSound, SymbolsOf

LEMMA NewScanSound ==
  ASSUME marketClock \in Nat
  PROVE  /\ NewScan \in [page : 1 .. Pages, attempt : Nat, pairs : SUBSET Tokens,
                         readAt : Nat, deadline : Nat]
         /\ Listed(NewScan.pairs) /\ NewScan.readAt = marketClock
         /\ NewScan.deadline = marketClock + Deadline
<1>1. IsFiniteSet({})
  BY FS_EmptySet
<1> QED
  BY <1>1, MarketAssumption DEF NewScan, Listed

LEMMA JoinedSound ==
  ASSUME MarketInv, JoinScan, UNCHANGED marketClock
  PROVE  ScanSound'
<1>1. CASE scan = None
  <2>1. scan' = NewScan
    BY <1>1 DEF JoinScan
  <2> QED
    BY <2>1, NewScanSound, MarketAssumption DEF MarketInv, ScanSound
<1>2. CASE scan # None
  BY <1>2 DEF JoinScan, MarketInv, ScanSound
<1> QED
  BY <1>1, <1>2

\* Who still waits, or holds an answer from before, is sound as long as the
\* clock stands still; who is failed says nothing.
LEMMA FailedSound == \A now : LookupSound([at |-> "failed"], now) /\ LookupSound([at |-> "idle"], now)
BY DEF LookupSound

LEMMA ReadPageStep == MarketInv /\ ReadPage => MarketInv'
<1> SUFFICES ASSUME MarketInv, ReadPage
             PROVE  MarketInv'
  OBVIOUS
<1> DEFINE pairs == scan.pairs \cup market[scan.page]
           readPairs == [at |-> marketClock, pairs |-> pairs, readAt |-> scan.readAt]
<1>1. /\ scan \in [page : 1 .. Pages, attempt : Nat, pairs : SUBSET Tokens,
                   readAt : Nat, deadline : Nat]
      /\ Listed(scan.pairs) /\ marketClock \in Nat /\ scan.readAt <= marketClock
      /\ marketClock <= scan.deadline /\ scan.deadline <= scan.readAt + Deadline
  BY DEF ReadPage, MarketInv, ScanSound
<1>2. Listed(market[scan.page])
  BY <1>1 DEF MarketInv
<1>3. Listed(pairs)
  BY <1>1, <1>2, FS_Union DEF Listed
<1>4. UNCHANGED <<marketClock, market>>
  BY DEF ReadPage
<1>5. marketClock <= scan.readAt + Deadline /\ scan.readAt \in Nat
  BY <1>1, MarketAssumption
<1>6. CASE scan.page < Pages /\ market[scan.page] # {}
  <2>1. scan' = [scan EXCEPT !.page = @ + 1, !.pairs = pairs]
        /\ UNCHANGED <<pairCache, symbolCache, lookups>>
    BY <1>6 DEF ReadPage
  <2> HIDE DEF pairs
  <2>2. /\ scan'.page = scan.page + 1 /\ scan'.pairs = pairs
        /\ scan'.readAt = scan.readAt /\ scan'.deadline = scan.deadline
        /\ scan'.attempt = scan.attempt
        /\ scan' = [page |-> scan'.page, attempt |-> scan'.attempt, pairs |-> scan'.pairs,
                    readAt |-> scan'.readAt, deadline |-> scan'.deadline]
    BY <1>1, <2>1
  <2>3. scan.page + 1 \in 1 .. Pages
    BY <1>1, <1>6, MarketAssumption
  <2>4. ScanSound'
    <3>1. scan' \in [page : 1 .. Pages, attempt : Nat, pairs : SUBSET Tokens,
                      readAt : Nat, deadline : Nat]
      <4>1. /\ scan'.page \in 1 .. Pages /\ scan'.attempt \in Nat
            /\ scan'.readAt \in Nat /\ scan'.deadline \in Nat
        BY <1>1, <2>2, <2>3
      <4>2. scan'.pairs \in SUBSET Tokens
        BY <1>3, <2>2 DEF Listed
      <4> QED
        BY <2>2, <4>1, <4>2
    <3> QED
      BY <1>1, <1>3, <1>4, <2>2, <3>1, Zenon DEF ScanSound
  <2> QED
    BY <1>4, <2>1, <2>4 DEF MarketInv, PairCacheSound
<1>7. CASE ~(scan.page < Pages /\ market[scan.page] # {}) /\ pairs = {}
  <2>1. /\ scan' = None /\ UNCHANGED <<pairCache, symbolCache>>
        /\ lookups' = [l \in Lookups |-> IF l \in Waiting THEN [at |-> "failed"] ELSE lookups[l]]
    BY <1>7 DEF ReadPage
  <2>2. \A l \in Lookups : lookups'[l] \in {lookups[l], [at |-> "failed"]}
    BY <2>1
  <2>3. \A l \in Lookups : LookupSound(lookups'[l], marketClock)
    BY <2>2, FailedSound DEF MarketInv
  <2> QED
    BY <1>4, <2>1, <2>3 DEF MarketInv, PairCacheSound, ScanSound
<1>8. CASE ~(scan.page < Pages /\ market[scan.page] # {}) /\ pairs # {}
  <2>1. /\ scan' = None /\ pairCache' = readPairs
        /\ lookups' = [l \in Lookups |->
             IF l \in Waiting
             THEN Answer(SymbolsOf(readPairs, marketClock), lookups[l].symbol)
             ELSE lookups[l]]
        /\ \/ UNCHANGED symbolCache
           \/ \E l \in Waiting : symbolCache' = SymbolsOf(readPairs, lookups[l].now)
    BY <1>8 DEF ReadPage
  <2>2. Listed(readPairs.pairs) /\ readPairs.readAt = scan.readAt /\ readPairs.at = marketClock
    BY <1>3
  <2> HIDE DEF readPairs
  <2>3. PairCacheSound'
    BY <1>1, <1>5, <2>1, <2>2 DEF PairCacheSound
  <2>4. \A now \in Nat : now <= marketClock => MapSound(SymbolsOf(readPairs, now))
    <3> SUFFICES ASSUME NEW now \in Nat, now <= marketClock
                 PROVE  MapSound(SymbolsOf(readPairs, now))
      OBVIOUS
    <3>1. now <= readPairs.readAt + Deadline + PairTtl
      BY <1>1, <1>5, <2>2, MarketAssumption
    <3> QED
      BY <1>5, <2>2, <3>1, SymbolsSound
  <2>5. \A l \in Waiting : lookups[l].now \in Nat /\ lookups[l].now <= marketClock
    BY DEF Waiting, MarketInv, LookupSound
  <2>6. symbolCache' = None \/ MapSound(symbolCache')
    BY <2>1, <2>4, <2>5 DEF MarketInv
  <2>7. ASSUME NEW l \in Lookups
        PROVE  LookupSound(lookups'[l], marketClock)
    <3> DEFINE map == SymbolsOf(readPairs, marketClock)
    <3>1. MapSound(map) /\ map.at = marketClock
      <4>1. marketClock <= readPairs.readAt + Deadline + PairTtl
        BY <1>1, <1>5, <2>2, MarketAssumption
      <4> QED
        BY <1>1, <1>5, <2>2, <4>1, SymbolsSound
    <3>2. lookups'[l] = IF l \in Waiting THEN Answer(map, lookups[l].symbol) ELSE lookups[l]
      BY <2>1
    <3> HIDE DEF map
    <3>3. \A s : JustifiedAt(Answer(map, s), marketClock) /\ Answer(map, s).at = "answered"
      BY <1>1, <3>1, AnswerJustified, MarketAssumption
    <3>4. \A s : LookupSound(Answer(map, s), marketClock)
      BY <3>3 DEF LookupSound
    <3> QED
      BY <3>2, <3>4 DEF MarketInv
  <2>8. DOMAIN lookups' = Lookups
    BY <2>1
  <2> QED
    BY <1>4, <2>1, <2>3, <2>6, <2>7, <2>8 DEF MarketInv, ScanSound
<1> QED
  BY <1>6, <1>7, <1>8

LEMMA ResolveStep ==
  ASSUME MarketInv, NEW l \in Lookups, NEW s \in Symbols, ResolveTokenBySymbol(l, s)
  PROVE  MarketInv'
<1>1. UNCHANGED <<marketClock, market, pairCache>> /\ marketClock \in Nat
  BY DEF ResolveTokenBySymbol, MarketInv
<1>2. ASSUME NEW c, MapSound(c), marketClock <= c.at + PairTtl,
             lookups' = [lookups EXCEPT ![l] = Answer(c, s)]
      PROVE  DOMAIN lookups' = Lookups /\ \A k \in Lookups : LookupSound(lookups'[k], marketClock)
  <2>1. LookupSound(Answer(c, s), marketClock)
    BY <1>1, <1>2, AnswerJustified DEF LookupSound
  <2> QED
    BY <1>2, <2>1 DEF MarketInv
<1>3. CASE /\ Fresh(symbolCache)
           /\ lookups' = [lookups EXCEPT ![l] = Answer(symbolCache, s)]
           /\ UNCHANGED <<scan, symbolCache>>
  <2>1. MapSound(symbolCache) /\ marketClock - symbolCache.at <= PairTtl
    BY <1>3 DEF Fresh, MarketInv
  <2>2. marketClock <= symbolCache.at + PairTtl
    BY <1>1, <2>1, MarketAssumption DEF MapSound
  <2>3. DOMAIN lookups' = Lookups /\ \A k \in Lookups : LookupSound(lookups'[k], marketClock)
    BY <1>2, <1>3, <2>1, <2>2
  <2> QED
    BY <1>1, <1>3, <2>3 DEF MarketInv, ScanSound, PairCacheSound
<1>4. CASE /\ ~Fresh(symbolCache) /\ Fresh(pairCache)
           /\ symbolCache' = SymbolsOf(pairCache, marketClock)
           /\ lookups' = [lookups EXCEPT ![l] = Answer(symbolCache', s)]
           /\ UNCHANGED scan
  <2>1. /\ Listed(pairCache.pairs) /\ pairCache.at \in Nat /\ pairCache.readAt \in Nat
        /\ pairCache.at <= pairCache.readAt + Deadline
        /\ marketClock - pairCache.at <= PairTtl
    BY <1>4 DEF Fresh, MarketInv, PairCacheSound
  <2>2. marketClock <= pairCache.readAt + Deadline + PairTtl
    BY <1>1, <2>1, MarketAssumption
  <2> DEFINE c == SymbolsOf(pairCache, marketClock)
  <2>3. MapSound(c) /\ c.at = marketClock
    BY <1>1, <2>1, <2>2, SymbolsSound
  <2>4. symbolCache' = c /\ lookups' = [lookups EXCEPT ![l] = Answer(c, s)]
    BY <1>4
  <2> HIDE DEF c
  <2>5. marketClock <= c.at + PairTtl
    BY <1>1, <2>3, MarketAssumption
  <2>6. DOMAIN lookups' = Lookups /\ \A k \in Lookups : LookupSound(lookups'[k], marketClock)
    BY <1>2, <2>3, <2>4, <2>5
  <2> QED
    BY <1>1, <1>4, <2>3, <2>4, <2>6 DEF MarketInv, ScanSound, PairCacheSound
<1>5. CASE /\ JoinScan
           /\ lookups' = [lookups EXCEPT ![l] = [at |-> "waiting", symbol |-> s, now |-> marketClock]]
           /\ UNCHANGED symbolCache
  <2>1. ScanSound'
    BY <1>1, <1>5, JoinedSound
  <2>2. LookupSound([at |-> "waiting", symbol |-> s, now |-> marketClock], marketClock)
    BY <1>1 DEF LookupSound
  <2>3. DOMAIN lookups' = Lookups /\ \A k \in Lookups : LookupSound(lookups'[k], marketClock)
    BY <1>5, <2>2 DEF MarketInv
  <2> QED
    BY <1>1, <1>5, <2>1, <2>3 DEF MarketInv, PairCacheSound
<1> QED
  BY <1>3, <1>4, <1>5 DEF ResolveTokenBySymbol

LEMMA MarketStep == MarketInv /\ [MarketNext]_marketVars => MarketInv'
<1> SUFFICES ASSUME MarketInv, [MarketNext]_marketVars
             PROVE  MarketInv'
  OBVIOUS
<1>1. CASE FetchMarketState
  <2>1. UNCHANGED marketClock /\ JoinScan
    BY <1>1 DEF FetchMarketState
  <2>2. ScanSound'
    BY <2>1, JoinedSound
  <2> QED
    BY <1>1, <2>2 DEF FetchMarketState, MarketInv, PairCacheSound
<1>2. ASSUME scan' = None,
             lookups' = [l \in Lookups |-> IF l \in Waiting THEN [at |-> "failed"] ELSE lookups[l]],
             UNCHANGED <<marketClock, market, pairCache, symbolCache>>
      PROVE  MarketInv'
  <2>1. \A l \in Lookups : lookups'[l] \in {lookups[l], [at |-> "failed"]}
    BY <1>2
  <2>2. \A l \in Lookups : LookupSound(lookups'[l], marketClock)
    BY <2>1, FailedSound DEF MarketInv
  <2> QED
    BY <1>2, <2>2 DEF MarketInv, PairCacheSound, ScanSound
<1>3. CASE ScanFails
  <2>1. CASE scan.attempt < Attempts
    <3>1. /\ scan' = [NewScan EXCEPT !.attempt = scan.attempt + 1, !.deadline = scan.deadline]
          /\ UNCHANGED <<marketClock, market, pairCache, symbolCache, lookups>>
      BY <1>3, <2>1 DEF ScanFails
    <3>2. /\ scan.attempt \in Nat /\ scan.deadline \in Nat /\ marketClock \in Nat
          /\ marketClock <= scan.deadline /\ scan.deadline <= scan.readAt + Deadline
          /\ scan.readAt \in Nat
      BY <1>3 DEF ScanFails, MarketInv, ScanSound
    <3>3. /\ scan'.pairs = NewScan.pairs /\ scan'.readAt = marketClock
          /\ scan'.deadline = scan.deadline
          /\ scan' \in [page : 1 .. Pages, attempt : Nat, pairs : SUBSET Tokens,
                        readAt : Nat, deadline : Nat]
      <4>1. /\ NewScan \in [page : 1 .. Pages, attempt : Nat, pairs : SUBSET Tokens,
                             readAt : Nat, deadline : Nat]
            /\ NewScan.readAt = marketClock
        BY <3>2, NewScanSound
      <4>2. scan.attempt + 1 \in Nat
        BY <3>2
      <4> DEFINE again == [NewScan EXCEPT !.attempt = scan.attempt + 1]
      <4>3. /\ again \in [page : 1 .. Pages, attempt : Nat, pairs : SUBSET Tokens,
                           readAt : Nat, deadline : Nat]
            /\ again.pairs = NewScan.pairs /\ again.readAt = NewScan.readAt
        BY <4>1, <4>2
      <4>4. scan' = [again EXCEPT !.deadline = scan.deadline]
        BY <3>1, <4>1
      <4> HIDE DEF again
      <4> QED
        BY <3>2, <4>1, <4>3, <4>4
    <3>4. scan.readAt <= marketClock
      BY <1>3 DEF ScanFails, MarketInv, ScanSound
    <3>5. ScanSound'
      BY <3>1, <3>2, <3>3, <3>4, NewScanSound, MarketAssumption DEF ScanSound
    <3> QED
      BY <3>1, <3>5 DEF MarketInv, PairCacheSound
  <2>2. CASE ~(scan.attempt < Attempts)
    BY <1>2, <1>3, <2>2 DEF ScanFails
  <2> QED
    BY <2>1, <2>2
<1>4. CASE DeadlinePasses
  BY <1>2, <1>4 DEF DeadlinePasses
<1>5. ASSUME NEW page \in 1 .. Pages, MarketChanges(page)
      PROVE  MarketInv'
  <2>1. PICK tokens \in SUBSET Tokens :
          IsFiniteSet(tokens) /\ market' = [market EXCEPT ![page] = tokens]
    BY <1>5 DEF MarketChanges
  <2>2. DOMAIN market' = 1 .. Pages /\ \A p \in 1 .. Pages : Listed(market'[p])
    BY <2>1 DEF MarketInv, Listed
  <2> QED
    BY <1>5, <2>2 DEF MarketChanges, MarketInv, ScanSound, PairCacheSound
<1>6. CASE MarketTick
  <2>1. /\ marketClock' = marketClock + 1 /\ marketClock \in Nat
        /\ scan = None \/ marketClock < scan.deadline
        /\ UNCHANGED <<market, scan, pairCache, symbolCache>>
    BY <1>6 DEF MarketTick, MarketInv
  <2>2. ScanSound'
    BY <2>1 DEF MarketInv, ScanSound
  <2>3. ASSUME NEW l \in Lookups
        PROVE  LookupSound(lookups'[l], marketClock')
    <3>1. lookups'[l] = IF l \in Waiting THEN lookups[l] ELSE [at |-> "idle"]
      BY <1>6 DEF MarketTick
    <3>2. CASE l \in Waiting
      BY <2>1, <3>1, <3>2 DEF Waiting, MarketInv, LookupSound
    <3>3. CASE l \notin Waiting
      BY <3>1, <3>3, FailedSound
    <3> QED
      BY <3>2, <3>3
  <2>4. DOMAIN lookups' = Lookups
    BY <1>6 DEF MarketTick
  <2> QED
    BY <2>1, <2>2, <2>3, <2>4 DEF MarketInv, PairCacheSound
<1>7. CASE UNCHANGED marketVars
  BY <1>7 DEF marketVars, MarketInv, ScanSound, PairCacheSound
<1> QED
  BY <1>1, <1>3, <1>4, <1>5, <1>6, <1>7, ReadPageStep, ResolveStep DEF MarketNext

LEMMA MarketStart == MarketInit => MarketInv
<1>1. IsFiniteSet({})
  BY FS_EmptySet
<1> QED
  BY <1>1, FailedSound DEF MarketInit, MarketInv, ScanSound, PairCacheSound, Listed

\* No two packages share a symbol that GET /resolve answers with a package, in
\* the scan behind the answer, and that scan is at most two lifetimes and a
\* deadline old, whoever shared it and whatever failed.
THEOREM SymbolAlwaysJustified == SourcesSpec => []SymbolJustified
<1>1. SourcesInit => MarketInv
  BY MarketStart DEF SourcesInit
<1>2. ASSUME MarketInv,
             [SourcesNext]_<<vars, readinessVars, marketVars, probeVars, limitVars, followed>>
      PROVE  MarketInv'
  <2>1. [MarketNext]_marketVars
    BY <1>2 DEF SourcesNext
  <2> QED
    BY <1>2, <2>1, MarketStep
<1>3. MarketInv => SymbolJustified
  BY DEF MarketInv, LookupSound, JustifiedAt, SymbolJustified
<1> QED
  BY <1>1, <1>2, <1>3, PTL DEF SourcesSpec

-----------------------------------------------------------------------------
(***************************************************************************)
(* X402Probe.  The request of the next hop is what the caller gave, or a   *)
(* bare GET once a redirect made it one.  An address fails within its      *)
(* share, so those after it keep theirs; once the time is over, a lookup   *)
(* or a request takes a millisecond at most.                               *)
(***************************************************************************)
ComposedSound(r) ==
  r \in [url : TargetUrls, method : {"GET", "POST"}, body : BOOLEAN, typed : BOOLEAN]

BareGet == [method |-> "GET", body |-> FALSE, typed |-> FALSE]

ContentSound ==
  /\ Content(request) = Due
  /\ given \in [method : {"GET", "POST"}, body : BOOLEAN, typed : BOOLEAN]

\* What the lookups and requests of n hops may take beyond the limit.
Late(n) == n * (MaxAddresses + 1)

AskSound ==
  LET n == Len(addresses)
      share == (TimeLimit - lookup.since) \div lookup.number
  IN /\ addresses \in Seq(Range(addresses))
     /\ lookup.since \in Nat /\ lookup.number \in 1 .. MaxAddresses
     /\ n \in 1 .. lookup.number
     /\ elapsed <= TimeLimit + Late(redirects) + 1 + lookup.number - n
     /\ share > 0 => TimeLimit - elapsed >= share * n

ProbeInv ==
  /\ redirects \in 0 .. MaxRedirects /\ elapsed \in Nat
  /\ at \in {"resolve", "ask"} => ComposedSound(request) /\ ContentSound
  /\ at = "start" => trail = {}
  /\ at = "answered" =>
       /\ Content(sent.request) = Due
       /\ result.request = [url |-> sent.request.url, method |-> Due.method, body |-> Due.body]
  /\ at \in {"start", "resolve"} => elapsed <= TimeLimit + Late(redirects)
  /\ at = "ask" => AskSound
  /\ elapsed <= TimeLimit + Late(MaxRedirects + 1)

\* A sequence is one of its own elements.
LEMMA OwnRange ==
  ASSUME NEW S, NEW s \in Seq(S)
  PROVE  s \in Seq(Range(s))
<1>1. Len(s) \in Nat /\ s \in [1 .. Len(s) -> S] /\ DOMAIN s = 1 .. Len(s)
  BY LenProperties
<1>2. s \in [1 .. Len(s) -> Range(s)]
  BY <1>1 DEF Range
<1> QED
  BY <1>1, <1>2, SeqDef

LEMMA ProductGrows ==
  ASSUME NEW n \in Nat, NEW m \in Nat, NEW k \in Nat, n <= m
  PROVE  n * k <= m * k
<1>1. PICK d \in Nat : m = n + d
  <2>1. m - n \in Nat /\ m = n + (m - n)
    OBVIOUS
  <2> QED
    BY <2>1
<1>2. m * k = n * k + d * k
  BY <1>1
<1>3. d * k >= 0 /\ d * k \in Int /\ n * k \in Int
  OBVIOUS
<1> QED
  BY <1>2, <1>3

LEMMA LateGrows ==
  ASSUME NEW n \in 0 .. MaxRedirects
  PROVE  /\ Late(n) \in Nat /\ Late(n + 1) \in Nat
         /\ Late(n + 1) = Late(n) + MaxAddresses + 1
         /\ Late(n + 1) <= Late(MaxRedirects + 1) /\ Late(MaxRedirects + 1) \in Nat
<1>1. MaxAddresses + 1 \in Nat /\ n \in Nat /\ MaxRedirects + 1 \in Nat /\ n + 1 <= MaxRedirects + 1
  BY ProbeAssumption
<1>2. (n + 1) * (MaxAddresses + 1) <= (MaxRedirects + 1) * (MaxAddresses + 1)
  BY <1>1, ProductGrows
<1>3. (n + 1) * (MaxAddresses + 1) = n * (MaxAddresses + 1) + (MaxAddresses + 1)
  BY <1>1
<1>4. /\ n * (MaxAddresses + 1) \in Nat /\ (n + 1) * (MaxAddresses + 1) \in Nat
      /\ (MaxRedirects + 1) * (MaxAddresses + 1) \in Nat
  BY <1>1
<1> QED
  BY <1>2, <1>3, <1>4, ProbeAssumption DEF Late

LEMMA QuotientFits ==
  ASSUME NEW a \in Int, NEW n \in Nat \ {0}
  PROVE  /\ a \div n \in Int /\ (a \div n) * n <= a
         /\ \A q \in Int : q * n <= a => q <= a \div n
OBVIOUS

\* What may be spent on a lookup, and on a request.
LEMMA RemainingIs ==
  ASSUME elapsed \in Nat, NEW deadline \in Int
  PROVE  /\ RemainingUntil(deadline) = IF deadline - elapsed <= 1 THEN 1 ELSE deadline - elapsed
         /\ RemainingUntil(deadline) \in Nat
<1>1. deadline - elapsed \in Int
  OBVIOUS
<1>2. Max({1, deadline - elapsed}) = IF 1 >= deadline - elapsed THEN 1 ELSE deadline - elapsed
  BY <1>1, GreaterIs
<1> QED
  BY <1>2 DEF RemainingUntil

LEMMA ShareIs ==
  ASSUME elapsed \in Nat, Len(addresses) \in Nat \ {0}
  PROVE  /\ Share \in Nat
         /\ elapsed + Share <= TimeLimit \/ Share <= 1
         /\ TimeLimit - elapsed >= Len(addresses) =>
              Share <= (TimeLimit - elapsed) \div Len(addresses)
<1> DEFINE n == Len(addresses)
           left == RemainingUntil(TimeLimit)
           q == left \div n
           timeout == Max({1, q})
           deadline == Min({TimeLimit, elapsed + timeout})
<1>1. /\ left = IF TimeLimit - elapsed <= 1 THEN 1 ELSE TimeLimit - elapsed
      /\ left \in Nat
  BY RemainingIs, ProbeAssumption
<1>2. Share = RemainingUntil(deadline)
  BY DEF Share
<1> HIDE DEF left
<1>3. q \in Int
  BY <1>1
<1>4. n <= left => q >= 1
  BY <1>1, QuotientFits
<1> HIDE DEF q
<1>5. timeout = (IF 1 >= q THEN 1 ELSE q) /\ timeout \in Int
  BY <1>3, GreaterIs
<1> HIDE DEF timeout
<1>6. deadline = IF TimeLimit <= elapsed + timeout THEN TimeLimit ELSE elapsed + timeout
  <2>1. TimeLimit \in Int /\ elapsed + timeout \in Int
    BY <1>5, ProbeAssumption
  <2> QED
    BY <2>1, LesserIs
<1>7. deadline \in Int
  BY <1>5, <1>6, ProbeAssumption
<1> HIDE DEF deadline
<1>8. /\ Share = IF deadline - elapsed <= 1 THEN 1 ELSE deadline - elapsed
      /\ Share \in Nat
  BY <1>2, <1>7, RemainingIs
<1>9. elapsed + Share <= TimeLimit \/ Share <= 1
  BY <1>5, <1>6, <1>8, ProbeAssumption
<1>10. ASSUME TimeLimit - elapsed >= n
       PROVE  Share <= (TimeLimit - elapsed) \div n
  <2>1. left = TimeLimit - elapsed
    BY <1>1, <1>10, ProbeAssumption
  <2>2. q = (TimeLimit - elapsed) \div n
    BY <2>1 DEF q
  <2>3. q >= 1
    BY <1>4, <1>10, <2>1
  <2>4. Share <= q
    BY <1>3, <1>5, <1>6, <1>8, <2>3, ProbeAssumption
  <2> QED
    BY <2>2, <2>4
<1> QED
  BY <1>8, <1>9, <1>10

\* Who is asked takes at most its share of what is left.
LEMMA SharesKept ==
  ASSUME NEW left \in Int, NEW n \in Nat, n > 1, NEW s \in Nat, s > 0, left >= s * n,
         NEW spent \in Nat, spent <= left \div n
  PROVE  left - spent >= s * (n - 1)
<1> DEFINE q == left \div n
<1>1. q \in Int /\ q * n <= left /\ s <= q
  BY QuotientFits
<1>2. spent <= q
  OBVIOUS
<1> HIDE DEF q
<1>3. s * (n - 1) <= q * (n - 1)
  BY <1>1, ProductGrows
<1>4. q * (n - 1) = q * n - q
  BY <1>1
<1>5. s * (n - 1) \in Int /\ q * n \in Int
  BY <1>1
<1> QED
  BY <1>1, <1>2, <1>3, <1>4, <1>5

\* The time that a request to the next address takes.
LEMMA PinnedSpends ==
  ASSUME ProbeInv, NEW spent, RequestPinned(spent)
  PROVE  /\ at = "ask" /\ AskSound /\ ComposedSound(request)
         /\ spent \in Nat /\ elapsed' = elapsed + spent /\ elapsed' \in Nat
         /\ elapsed' <= TimeLimit \/ elapsed' <= elapsed + 1
         /\ TimeLimit - elapsed >= Len(addresses) =>
              spent <= (TimeLimit - elapsed) \div Len(addresses)
         /\ elapsed' <= TimeLimit + Late(redirects + 1)
         /\ elapsed' <= TimeLimit + Late(MaxRedirects + 1)
         /\ sent'.request = request /\ ContentSound
<1>1. at = "ask" /\ AskSound /\ ComposedSound(request) /\ elapsed \in Nat
  BY DEF RequestPinned, ProbeInv
<1>2. Len(addresses) \in 1 .. lookup.number /\ lookup.number \in 1 .. MaxAddresses
  BY <1>1 DEF AskSound
<1>3. Len(addresses) \in Nat \ {0}
  BY <1>2, ProbeAssumption
<1>4. /\ Share \in Nat
      /\ elapsed + Share <= TimeLimit \/ Share <= 1
      /\ TimeLimit - elapsed >= Len(addresses) =>
           Share <= (TimeLimit - elapsed) \div Len(addresses)
  BY <1>1, <1>3, ShareIs
<1>5. spent \in 0 .. Share /\ elapsed' = elapsed + spent
  BY DEF RequestPinned, Spend
<1>6. spent \in Nat /\ spent <= Share /\ elapsed' \in Nat
  BY <1>1, <1>4, <1>5
<1>7. elapsed' <= TimeLimit \/ elapsed' <= elapsed + 1
  BY <1>1, <1>4, <1>5, <1>6, ProbeAssumption
<1>8. redirects \in 0 .. MaxRedirects
  BY DEF ProbeInv
<1>9. /\ Late(redirects + 1) \in Nat /\ Late(redirects) \in Nat
      /\ Late(redirects + 1) = Late(redirects) + MaxAddresses + 1
      /\ Late(redirects + 1) <= Late(MaxRedirects + 1) /\ Late(MaxRedirects + 1) \in Nat
  BY <1>8, LateGrows
<1>10. elapsed <= TimeLimit + Late(redirects) + 1 + lookup.number - Len(addresses)
  BY <1>1 DEF AskSound
<1>11. elapsed + 1 <= TimeLimit + Late(redirects + 1)
  <2>1. /\ lookup.number \in Nat /\ lookup.number <= MaxAddresses /\ MaxAddresses \in Nat
        /\ Len(addresses) \in Nat /\ 1 <= Len(addresses) /\ TimeLimit \in Nat
    BY <1>2, <1>3, ProbeAssumption
  <2>2. lookup.number - Len(addresses) <= MaxAddresses - 1
    BY <2>1
  <2>3. elapsed <= TimeLimit + Late(redirects) + 1 + (lookup.number - Len(addresses))
    BY <1>9, <1>10, <2>1
  <2> DEFINE now == Late(redirects)
             next == Late(redirects + 1)
             difference == lookup.number - Len(addresses)
  <2>4. difference \in Int /\ now \in Nat /\ next = now + MaxAddresses + 1
    BY <1>9, <2>1
  <2> HIDE DEF now, next, difference
  <2>5. elapsed <= TimeLimit + now + 1 + difference /\ difference <= MaxAddresses - 1
    BY <2>2, <2>3 DEF now, difference
  <2>6. elapsed + 1 <= TimeLimit + next
    BY <1>1, <2>1, <2>4, <2>5
  <2> QED
    BY <2>6 DEF next
<1>12. elapsed' <= TimeLimit + Late(redirects + 1)
  BY <1>1, <1>6, <1>7, <1>9, <1>11, ProbeAssumption
<1>13. elapsed' <= TimeLimit + Late(MaxRedirects + 1)
  BY <1>6, <1>9, <1>12, ProbeAssumption
<1>14. (TimeLimit - elapsed) \div Len(addresses) \in Int
  BY <1>1, <1>3, QuotientFits, ProbeAssumption
<1>15. TimeLimit - elapsed >= Len(addresses) =>
         spent <= (TimeLimit - elapsed) \div Len(addresses)
  BY <1>4, <1>6, <1>14
<1>16. sent'.request = request /\ ContentSound
  BY DEF RequestPinned, ProbeInv
<1> QED
  BY <1>1, <1>5, <1>6, <1>7, <1>12, <1>13, <1>15, <1>16

\* A probe that ends without an answer.
LEMMA ProbeFails ==
  ASSUME ProbeInv, Fail, elapsed' \in Nat, elapsed' <= TimeLimit + Late(MaxRedirects + 1)
  PROVE  ProbeInv'
BY DEF ProbeInv, Fail, Late

LEMMA AddressFailsStep ==
  ASSUME ProbeInv, NEW spent, AddressFails(spent)
  PROVE  ProbeInv'
<1>1. RequestPinned(spent)
  BY DEF AddressFails
<1>2. /\ at = "ask" /\ AskSound /\ ComposedSound(request)
      /\ spent \in Nat /\ elapsed' = elapsed + spent /\ elapsed' \in Nat
      /\ elapsed' <= TimeLimit \/ elapsed' <= elapsed + 1
      /\ TimeLimit - elapsed >= Len(addresses) =>
           spent <= (TimeLimit - elapsed) \div Len(addresses)
      /\ elapsed' <= TimeLimit + Late(MaxRedirects + 1)
      /\ ContentSound
  BY <1>1, PinnedSpends
<1>3. CASE ~(Len(addresses) > 1)
  BY <1>2, <1>3, ProbeFails DEF AddressFails
<1>4. CASE Len(addresses) > 1
  <2>1. addresses' = Tail(addresses) /\ UNCHANGED <<at, lookup, redirects, request, result, given, trail>>
    BY <1>4 DEF AddressFails
  <2>2. PICK S : addresses \in Seq(S)
    BY <1>2 DEF AskSound
  <2>3. /\ Len(addresses) \in Nat /\ addresses' \in Seq(S)
        /\ Len(addresses') = Len(addresses) - 1
    BY <1>4, <2>1, <2>2
  <2> DEFINE n == Len(addresses)
             share == (TimeLimit - lookup.since) \div lookup.number
  <2>4. /\ lookup.since \in Nat /\ lookup.number \in 1 .. MaxAddresses
        /\ n \in 1 .. lookup.number
        /\ elapsed <= TimeLimit + Late(redirects) + 1 + lookup.number - n
        /\ share > 0 => TimeLimit - elapsed >= share * n
    BY <1>2 DEF AskSound
  <2>5. share \in Int
    BY <2>4, QuotientFits, ProbeAssumption
  <2>6. ASSUME share > 0
        PROVE  TimeLimit - elapsed' >= share * (n - 1)
    <3> HIDE DEF share
    <3>1. elapsed \in Nat /\ TimeLimit - elapsed \in Int /\ TimeLimit - elapsed >= share * n
      BY <2>4, <2>6, ProbeAssumption DEF ProbeInv
    <3>2. share * n >= n
      <4>1. 1 * n <= share * n
        BY <2>3, <2>5, <2>6, ProductGrows
      <4> QED
        BY <2>3, <2>5, <4>1
    <3>3. TimeLimit - elapsed >= n
      BY <2>3, <2>5, <3>1, <3>2
    <3>4. spent <= (TimeLimit - elapsed) \div n
      BY <1>2, <3>3
    <3>5. TimeLimit - elapsed - spent >= share * (n - 1)
      <4>1. share \in Nat /\ n \in Nat /\ n > 1
        BY <1>4, <2>3, <2>5, <2>6
      <4> HIDE DEF n
      <4> QED
        BY <1>2, <2>6, <3>1, <3>4, <4>1, SharesKept
    <3>6. TimeLimit - elapsed - spent = TimeLimit - elapsed'
      BY <1>2, <3>1, ProbeAssumption
    <3> QED
      BY <3>5, <3>6
  <2>7. elapsed' <= TimeLimit + Late(redirects) + 1 + lookup.number - (n - 1)
    <3>1. redirects \in 0 .. MaxRedirects /\ elapsed \in Nat
      BY DEF ProbeInv
    <3>2. Late(redirects) \in Nat
      BY <3>1, LateGrows
    <3>3. lookup.number \in Nat /\ n \in Nat /\ n <= lookup.number /\ TimeLimit \in Nat
      BY <2>3, <2>4, ProbeAssumption
    <3>4. elapsed <= TimeLimit + Late(redirects) + 1 + lookup.number - n
      BY <2>4
    <3> HIDE DEF n
    <3>5. elapsed + 1 <= TimeLimit + Late(redirects) + 1 + lookup.number - (n - 1)
      BY <3>1, <3>2, <3>3, <3>4
    <3>6. TimeLimit <= TimeLimit + Late(redirects) + 1 + lookup.number - (n - 1)
      BY <3>2, <3>3
    <3>7. elapsed' \in Nat /\ (elapsed' <= TimeLimit \/ elapsed' <= elapsed + 1)
      BY <1>2
    <3> QED
      BY <3>1, <3>2, <3>3, <3>5, <3>6, <3>7
  <2>8. n - 1 \in 1 .. lookup.number
    BY <1>4, <2>3, <2>4, ProbeAssumption
  <2>9. addresses' \in Seq(Range(addresses'))
    BY <2>3, OwnRange
  <2>10. AskSound'
    BY <2>1, <2>3, <2>4, <2>6, <2>7, <2>8, <2>9 DEF AskSound, Late
  <2> QED
    BY <1>2, <2>1, <2>10 DEF ProbeInv, Late, ContentSound, Content, Due
<1> QED
  BY <1>3, <1>4

\* Sorting keeps the number of the addresses.
LEMMA SortedLength ==
  ASSUME NEW n \in Nat, NEW S, NEW as \in [1 .. n -> S]
  PROVE  \E Q : FamilyFirst(as) \in Seq(Q) /\ Len(FamilyFirst(as)) = n /\ Len(as) = n
<1>1. as \in Seq(S) /\ Len(as) = n /\ DOMAIN as = 1 .. n
  <2>1. as \in Seq(S)
    BY SeqDef
  <2>2. DOMAIN as = 1 .. n
    OBVIOUS
  <2>3. Len(as) \in Nat /\ DOMAIN as = 1 .. Len(as)
    BY <2>1, LenProperties
  <2>4. \A a, b \in Nat : 1 .. a = 1 .. b => a = b
    OBVIOUS
  <2> QED
    BY <2>1, <2>2, <2>3, <2>4
<1>2. PICK p : FamilyFirst(as) = [i \in 1 .. n |-> as[p[i]]]
  BY <1>1 DEF FamilyFirst
<1> DEFINE Q == {as[p[i]] : i \in 1 .. n}
<1>3. FamilyFirst(as) \in [1 .. n -> Q]
  BY <1>1, <1>2
<1>4. FamilyFirst(as) \in Seq(Q) /\ Len(FamilyFirst(as)) = n
  <2> DEFINE sorted == FamilyFirst(as)
  <2>1. sorted \in [1 .. n -> Q]
    BY <1>3
  <2> HIDE DEF sorted, Q
  <2>2. sorted \in Seq(Q) /\ Len(sorted) = n
    BY <2>1
  <2> QED
    BY <2>2 DEF sorted
<1> QED
  BY <1>1, <1>4

\* What a lookup takes, and what it finds.
LEMMA LookupSpends ==
  ASSUME ProbeInv, at = "resolve", NEW spent, Spend(RemainingUntil(TimeLimit), spent)
  PROVE  /\ elapsed' \in Nat /\ redirects \in 0 .. MaxRedirects
         /\ ComposedSound(request) /\ ContentSound
         /\ Late(redirects) \in Nat
         /\ elapsed' <= TimeLimit + Late(redirects) + 1
         /\ elapsed' <= TimeLimit + Late(MaxRedirects + 1)
<1>1. /\ elapsed \in Nat /\ redirects \in 0 .. MaxRedirects
      /\ ComposedSound(request) /\ ContentSound
      /\ elapsed <= TimeLimit + Late(redirects)
  BY DEF ProbeInv
<1>2. /\ RemainingUntil(TimeLimit) = IF TimeLimit - elapsed <= 1 THEN 1 ELSE TimeLimit - elapsed
      /\ RemainingUntil(TimeLimit) \in Nat
  BY <1>1, RemainingIs, ProbeAssumption
<1>3. spent \in Nat /\ spent <= RemainingUntil(TimeLimit) /\ elapsed' = elapsed + spent
  BY <1>2 DEF Spend
<1>4. elapsed' \in Nat /\ (elapsed' <= TimeLimit \/ elapsed' <= elapsed + 1)
  BY <1>1, <1>2, <1>3, ProbeAssumption
<1>5. /\ Late(redirects) \in Nat /\ Late(redirects + 1) \in Nat
      /\ Late(redirects + 1) = Late(redirects) + MaxAddresses + 1
      /\ Late(redirects + 1) <= Late(MaxRedirects + 1) /\ Late(MaxRedirects + 1) \in Nat
  BY <1>1, LateGrows
<1>6. elapsed' <= TimeLimit + Late(redirects) + 1
  BY <1>1, <1>4, <1>5, ProbeAssumption
<1>7. elapsed' <= TimeLimit + Late(MaxRedirects + 1)
  <2> DEFINE now == Late(redirects)
             next == Late(redirects + 1)
             last == Late(MaxRedirects + 1)
  <2>1. next = now + MaxAddresses + 1 /\ now \in Nat /\ next <= last /\ last \in Nat
        /\ elapsed' <= TimeLimit + now + 1
    BY <1>5, <1>6
  <2> HIDE DEF now, next, last
  <2>2. elapsed' <= TimeLimit + last
    BY <1>4, <2>1, ProbeAssumption
  <2> QED
    BY <2>2 DEF last
<1> QED
  BY <1>1, <1>4, <1>5, <1>6, <1>7

LEMMA LookupStep ==
  ASSUME ProbeInv, NEW spent, NEW answer \in LookupAnswers \cup {<<a>> : a \in Range(Literals)},
         Resolve(answer, spent)
  PROVE  ProbeInv'
<1>1. at = "resolve" /\ Spend(RemainingUntil(TimeLimit), spent) /\ UNCHANGED sent
  BY DEF Resolve
<1>2. /\ elapsed' \in Nat /\ redirects \in 0 .. MaxRedirects
      /\ ComposedSound(request) /\ ContentSound
      /\ Late(redirects) \in Nat
      /\ elapsed' <= TimeLimit + Late(redirects) + 1
      /\ elapsed' <= TimeLimit + Late(MaxRedirects + 1)
  BY <1>1, LookupSpends
<1>3. CASE answer # <<>> /\ \A a \in ToSet(answer) : Permitted(a)
  <2>1. /\ at' = "ask" /\ addresses' = FamilyFirst(answer)
        /\ lookup' = [since |-> elapsed', number |-> Len(answer)]
        /\ UNCHANGED <<request, redirects, result, given, trail>>
    BY <1>3 DEF Resolve
  <2>2. \E n \in 1 .. MaxAddresses : \E S : answer \in [1 .. n -> S]
    <3>1. CASE answer \in LookupAnswers
      <4>1. PICK m \in 0 .. MaxAddresses : answer \in [1 .. m -> Addresses]
        BY <3>1 DEF LookupAnswers, BoundedSeq, SeqOf
      <4>2. m # 0
        <5> SUFFICES ASSUME m = 0
                     PROVE  answer = <<>>
          BY <1>3
        <5>1. 1 .. 0 = {}
          OBVIOUS
        <5> QED
          BY <4>1, <5>1
      <4> QED
        BY <4>1, <4>2
    <3>2. CASE answer \in {<<a>> : a \in Range(Literals)}
      <4>1. PICK a : answer = <<a>>
        BY <3>2
      <4>2. answer \in [1 .. 1 -> {a}]
        BY <4>1
      <4>3. 1 \in 1 .. MaxAddresses
        BY ProbeAssumption
      <4> QED
        BY <4>2, <4>3
    <3> QED
      BY <3>1, <3>2
  <2>3. PICK n \in 1 .. MaxAddresses : \E S : answer \in [1 .. n -> S]
    BY <2>2
  <2>4. n \in Nat /\ n >= 1 /\ n <= MaxAddresses
    BY <2>3, ProbeAssumption
  <2>5. PICK S : answer \in [1 .. n -> S]
    BY <2>3
  <2>6. PICK Q : FamilyFirst(answer) \in Seq(Q) /\ Len(FamilyFirst(answer)) = n /\ Len(answer) = n
    BY <2>4, <2>5, SortedLength
  <2>7. /\ addresses' \in Seq(Q) /\ Len(addresses') = n
        /\ lookup'.since = elapsed' /\ lookup'.number = n
    BY <2>1, <2>6
  <2>8. /\ (TimeLimit - elapsed') \div n \in Int
        /\ ((TimeLimit - elapsed') \div n) * n <= TimeLimit - elapsed'
    <3>1. TimeLimit - elapsed' \in Int /\ n \in Nat \ {0}
      BY <1>2, <2>4, ProbeAssumption
    <3> DEFINE left == TimeLimit - elapsed'
    <3> HIDE DEF left
    <3>2. left \in Int => left \div n \in Int /\ (left \div n) * n <= left
      BY <3>1, QuotientFits
    <3> QED
      BY <3>1, <3>2 DEF left
  <2>9. elapsed' <= TimeLimit + Late(redirects') + 1 + n - n
    BY <1>2, <2>1, <2>4, ProbeAssumption
  <2>10. AskSound'
    <3>1. n \in 1 .. n
      BY <2>4
    <3>2. addresses' \in Seq(Range(addresses'))
      BY <2>7, OwnRange
    <3> QED
      BY <1>2, <2>3, <2>7, <2>8, <2>9, <3>1, <3>2 DEF AskSound, Late
  <2> QED
    BY <1>1, <1>2, <2>1, <2>10 DEF ProbeInv, Late, ContentSound, Content, Due
<1>4. CASE ~(answer # <<>> /\ \A a \in ToSet(answer) : Permitted(a))
  BY <1>1, <1>2, <1>4, ProbeFails DEF Resolve
<1> QED
  BY <1>3, <1>4

\* Where a request goes is no part of its content.
LEMMA ElsewhereSound ==
  ASSUME NEW r, ComposedSound(r), NEW location \in TargetUrls
  PROVE  /\ ComposedSound([r EXCEPT !.url = location])
         /\ Content([r EXCEPT !.url = location]) = Content(r)
BY DEF ComposedSound, Content

LEMMA BareSound ==
  ASSUME NEW r, ComposedSound(r)
  PROVE  /\ ComposedSound([r EXCEPT !.method = "GET", !.body = FALSE, !.typed = FALSE])
         /\ Content([r EXCEPT !.method = "GET", !.body = FALSE, !.typed = FALSE]) = BareGet
<1> DEFINE asGet == [r EXCEPT !.method = "GET"]
           asEmpty == [asGet EXCEPT !.body = FALSE]
           bare == [asEmpty EXCEPT !.typed = FALSE]
<1>1. [r EXCEPT !.method = "GET", !.body = FALSE, !.typed = FALSE] = bare
  BY DEF ComposedSound
<1>2. ComposedSound(bare)
  BY DEF ComposedSound
<1>3. Content(bare) = BareGet
  BY DEF ComposedSound, Content, BareGet
<1> HIDE DEF bare
<1> QED
  BY <1>1, <1>2, <1>3

\* A redirect that is followed asks with a bare GET, or as before.
LEMMA RedirectedSound ==
  ASSUME NEW r, ComposedSound(r), NEW status, NEW location \in TargetUrls
  PROVE  /\ ComposedSound([RedirectedRequest(r, status) EXCEPT !.url = location])
         /\ Content([RedirectedRequest(r, status) EXCEPT !.url = location])
              = IF status = 303 \/ (status \in {301, 302} /\ r.method = "POST")
                THEN BareGet ELSE Content(r)
<1>1. PICK again : again = RedirectedRequest(r, status)
  OBVIOUS
<1>2. /\ ComposedSound(again)
      /\ Content(again) = IF status = 303 \/ (status \in {301, 302} /\ r.method = "POST")
                          THEN BareGet ELSE Content(r)
  BY <1>1, BareSound DEF RedirectedRequest
<1> QED
  BY <1>1, <1>2, ElsewhereSound

\* What is due after one more redirect.
LEMMA DueNext ==
  ASSUME ContentSound, NEW status, given' = given, trail' = trail \cup {status}
  PROVE  Due' = IF status = 303 \/ (status \in {301, 302} /\ request.method = "POST")
                THEN BareGet ELSE Due
<1>1. request.method = Due.method
  BY DEF ContentSound, Content
<1>2. CASE 303 \in trail \/ (given.method = "POST" /\ trail \cap {301, 302} # {})
  <2>1. Due = BareGet
    BY <1>2 DEF Due, BareGet
  <2>2. trail \subseteq trail'
    OBVIOUS
  <2>3. Due' = BareGet
    BY <1>2, <2>2 DEF Due, BareGet
  <2> QED
    BY <2>1, <2>3
<1>3. CASE ~(303 \in trail \/ (given.method = "POST" /\ trail \cap {301, 302} # {}))
  <2>1. Due = given /\ request.method = given.method
    BY <1>1, <1>3 DEF Due
  <2>2. 303 \in trail' <=> status = 303
    BY <1>3
  <2>3. given.method = "POST" => (trail' \cap {301, 302} # {} <=> status \in {301, 302})
    BY <1>3
  <2> QED
    BY <2>1, <2>2, <2>3 DEF Due, BareGet
<1> QED
  BY <1>2, <1>3

LEMMA RedirectedStep ==
  ASSUME ProbeInv, NEW status, NEW location \in {Unset} \cup TargetUrls, NEW spent,
         Redirected(status, location, spent)
  PROVE  ProbeInv'
<1>1. RequestPinned(spent)
  BY DEF Redirected
<1>2. /\ ComposedSound(request) /\ ContentSound /\ elapsed' \in Nat
      /\ elapsed' <= TimeLimit + Late(redirects + 1)
      /\ elapsed' <= TimeLimit + Late(MaxRedirects + 1)
  BY <1>1, PinnedSpends
<1>3. CASE location # Unset /\ redirects < MaxRedirects /\ AcceptsUrl(location)
  <2>1. /\ at' = "resolve" /\ redirects' = redirects + 1
        /\ request' = [RedirectedRequest(request, status) EXCEPT !.url = location]
        /\ trail' = trail \cup {status} /\ given' = given
    BY <1>3 DEF Redirected
  <2>2. PICK next : next = [RedirectedRequest(request, status) EXCEPT !.url = location]
    OBVIOUS
  <2>3. /\ ComposedSound(next)
        /\ Content(next) = IF status = 303 \/ (status \in {301, 302} /\ request.method = "POST")
                           THEN BareGet ELSE Content(request)
    BY <1>2, <1>3, <2>2, RedirectedSound
  <2>4. Content(request)' = Due'
    <3>1. Content(request)' = Content(next)
      BY <2>1, <2>2 DEF Content
    <3>2. Content(request) = Due
      BY <1>2 DEF ContentSound
    <3> QED
      BY <1>2, <2>1, <2>3, <3>1, <3>2, DueNext
  <2>5. ComposedSound(request)' /\ ContentSound'
    BY <1>2, <2>1, <2>2, <2>3, <2>4 DEF ComposedSound, ContentSound
  <2>6. redirects' \in 0 .. MaxRedirects
    BY <1>3, <2>1, ProbeAssumption DEF ProbeInv
  <2> QED
    BY <1>2, <2>1, <2>5, <2>6 DEF ProbeInv, Late
<1>4. CASE ~(location # Unset /\ redirects < MaxRedirects /\ AcceptsUrl(location))
  BY <1>2, <1>4, ProbeFails DEF Redirected
<1> QED
  BY <1>3, <1>4

LEMMA ProbeStep == ProbeInv /\ [ProbeNext]_probeVars => ProbeInv'
<1> SUFFICES ASSUME ProbeInv, [ProbeNext]_probeVars
             PROVE  ProbeInv'
  OBVIOUS
<1>1. ASSUME NEW i \in ProbeInputs, ParseProbeInput(i)
      PROVE  ProbeInv'
  <2>1. /\ request'.url = i.url /\ request'.method = i.method /\ request'.body = i.body
        /\ request'.typed = (i.typed \/ i.body)
        /\ request' = [url |-> request'.url, method |-> request'.method,
                       body |-> request'.body, typed |-> request'.typed]
    BY <1>1, Zenon DEF ParseProbeInput
  <2>2. i.url \in TargetUrls /\ i.method \in {"GET", "POST"} /\ i.body \in BOOLEAN
    BY <1>1 DEF ProbeInputs
  <2>3. (i.typed \/ i.body) \in BOOLEAN
    OBVIOUS
  <2>4. request' \in [url : TargetUrls, method : {"GET", "POST"}, body : BOOLEAN, typed : BOOLEAN]
    BY <2>1, <2>2, <2>3, Zenon
  <2>5. ComposedSound(request')
    BY <2>4 DEF ComposedSound
  <2>6. given' = Content(request') /\ UNCHANGED trail /\ trail = {}
    BY <1>1 DEF ParseProbeInput, ProbeInv
  <2>7. ContentSound'
    BY <2>4, <2>6 DEF ContentSound, Content, Due
  <2> QED
    BY <1>1, <2>5, <2>7 DEF ParseProbeInput, ProbeInv, Late
<1>2. ASSUME NEW spent, LookupFails(spent)
      PROVE  ProbeInv'
  BY <1>2, LookupSpends, ProbeFails DEF LookupFails
<1>3. ASSUME NEW spent, ResponseRefused(spent)
      PROVE  ProbeInv'
  BY <1>3, PinnedSpends, ProbeFails DEF ResponseRefused
<1>4. ASSUME NEW charge, NEW spent, Answered(charge, spent)
      PROVE  ProbeInv'
  <2>1. RequestPinned(spent)
    BY <1>4 DEF Answered
  <2>2. /\ elapsed' \in Nat /\ elapsed' <= TimeLimit + Late(MaxRedirects + 1)
        /\ sent'.request = request /\ ContentSound
    BY <2>1, PinnedSpends
  <2>3. CASE charge = "malformed"
    BY <1>4, <2>2, <2>3, ProbeFails DEF Answered
  <2>4. CASE charge # "malformed"
    <3>1. /\ at' = "answered" /\ result'.request = Reported(request)
          /\ UNCHANGED <<redirects, given, trail>>
      BY <1>4, <2>4 DEF Answered
    <3>2. Due' = Due /\ Content(request) = Due /\ Content(sent.request)' = Content(request)
      BY <2>2, <3>1 DEF Due, ContentSound, Content
    <3>3. Reported(request)
            = [url |-> sent'.request.url, method |-> Due.method, body |-> Due.body]
      BY <2>2, <3>2 DEF Reported, Content
    <3> QED
      BY <2>2, <3>1, <3>2, <3>3 DEF ProbeInv, Late
  <2> QED
    BY <2>3, <2>4
<1>5. CASE UNCHANGED probeVars
  BY <1>5 DEF probeVars, ProbeInv, AskSound, Late, ContentSound, Content, Due
<1> QED
  BY <1>1, <1>2, <1>3, <1>4, <1>5, LookupStep, AddressFailsStep, RedirectedStep DEF ProbeNext

LEMMA ProbeStart == ProbeInit => ProbeInv
<1> SUFFICES ASSUME ProbeInit
             PROVE  ProbeInv
  OBVIOUS
<1>1. 0 \in 0 .. MaxRedirects
  BY ProbeAssumption
<1>2. Late(0) \in Nat /\ Late(MaxRedirects + 1) \in Nat
  BY <1>1, LateGrows
<1>3. 0 <= TimeLimit + Late(0) /\ 0 <= TimeLimit + Late(MaxRedirects + 1)
  BY <1>2, ProbeAssumption
<1> QED
  BY <1>1, <1>3 DEF ProbeInit, ProbeInv

\* Every hop of a probe is sent what the caller gave, or a GET without body
\* and content type once a redirect made it one, whatever redirects came before
\* or after; and the request that is reported is the one that was answered.
THEOREM AlwaysReportsWhatWasAnswered == SourcesSpec => []ReportsWhatWasAnswered
<1>1. SourcesInit => ProbeInv
  BY ProbeStart DEF SourcesInit
<1>2. ASSUME ProbeInv,
             [SourcesNext]_<<vars, readinessVars, marketVars, probeVars, limitVars, followed>>
      PROVE  ProbeInv'
  <2>1. [ProbeNext]_probeVars
    BY <1>2 DEF SourcesNext
  <2> QED
    BY <1>2, <2>1, ProbeStep
<1>3. ProbeInv => ReportsWhatWasAnswered
  BY DEF ProbeInv, ContentSound, ReportsWhatWasAnswered
<1> QED
  BY <1>1, <1>2, <1>3, PTL DEF SourcesSpec

\* However many addresses a lookup returns and whatever the ones before took,
\* those that are left have their share of the time; and a probe ends within
\* its limit and a millisecond for every lookup and request.
THEOREM AlwaysSharesTheTime == SourcesSpec => []SharesTheTime
<1>1. SourcesInit => ProbeInv
  BY ProbeStart DEF SourcesInit
<1>2. ASSUME ProbeInv,
             [SourcesNext]_<<vars, readinessVars, marketVars, probeVars, limitVars, followed>>
      PROVE  ProbeInv'
  <2>1. [ProbeNext]_probeVars
    BY <1>2 DEF SourcesNext
  <2> QED
    BY <1>2, <2>1, ProbeStep
<1>3. ProbeInv => SharesTheTime
  BY DEF ProbeInv, AskSound, SharesTheTime, Late
<1> QED
  BY <1>1, <1>2, <1>3, PTL DEF SourcesSpec

-----------------------------------------------------------------------------
(***************************************************************************)
(* RequestLimits.  An address that has a bucket was admitted as often as   *)
(* the bucket counts since it began, and less than a limit before: the     *)
(* first admission of a bucket leaves the window before the next bucket    *)
(* begins.                                                                 *)
(***************************************************************************)
Since(S, s) == {a \in S : a.at >= s}
After(S, s) == {a \in S : a.at > s}
Before(S, s) == {a \in S : a.at < s}

BucketSound(b, now) ==
  /\ DOMAIN b = {"count", "startedAt", "place"}
  /\ b.count \in 1 .. limit /\ b.startedAt \in 0 .. now

\* The admissions within a window, of an address with a bucket, and of one without.
WithBucket(S, b) ==
  /\ \A a \in S : a.at < b.startedAt + WindowLength
  /\ Cardinality(Since(S, b.startedAt)) <= b.count
  /\ Cardinality(After(S, b.startedAt)) <= b.count - 1
  /\ Cardinality(Before(S, b.startedAt)) <= limit - 1

WithoutBucket(S, now) ==
  /\ \A a \in S : a.at < now
  /\ Cardinality(S) <= limit - 1

InWindow(S, now) ==
  /\ IsFiniteSet(S)
  /\ \A a \in S : a.at \in Int /\ a.at <= now /\ now - a.at < WindowLength

ClientSound(c) ==
  /\ InWindow(served[c], tick)
  /\ c \notin DOMAIN buckets => WithoutBucket(served[c], tick)
  /\ c \in DOMAIN buckets =>
       /\ BucketSound(buckets[c], tick) /\ WithBucket(served[c], buckets[c])
       /\ told[c] # Never => buckets[c].startedAt + WindowLength <= told[c]
  /\ told[c] \in Int

LimitsInv ==
  /\ tick \in Nat /\ limit \in Nat \ {0}
  /\ DOMAIN buckets \subseteq Clients
  /\ DOMAIN served = Clients /\ DOMAIN told = Clients
  /\ \A c \in Clients : ClientSound(c)

LEMMA LimitNumbers == WindowLength \in Nat \ {0} /\ Second \in Nat \ {0} /\ MaxKeys \in Nat \ {0}
BY LimitsAssumption

LEMMA CardinalityAdded ==
  ASSUME NEW S, IsFiniteSet(S), NEW x, NEW T, T \subseteq S \cup {x}
  PROVE  /\ IsFiniteSet(T) /\ Cardinality(T) \in Nat /\ Cardinality(S) \in Nat
         /\ Cardinality(T) <= Cardinality(S) + 1
<1>1. /\ IsFiniteSet(S \cup {x}) /\ Cardinality(S) \in Nat
      /\ Cardinality(S \cup {x}) = Cardinality(S) \/ Cardinality(S \cup {x}) = Cardinality(S) + 1
  BY FS_AddElement, FS_CardinalityType
<1>2. IsFiniteSet(T) /\ Cardinality(T) <= Cardinality(S \cup {x}) /\ Cardinality(T) \in Nat
  BY <1>1, FS_Subset, FS_CardinalityType
<1> QED
  BY <1>1, <1>2

LEMMA CardinalityOfPart ==
  ASSUME NEW S, IsFiniteSet(S), NEW T, T \subseteq S
  PROVE  /\ IsFiniteSet(T) /\ Cardinality(T) \in Nat /\ Cardinality(S) \in Nat
         /\ Cardinality(T) <= Cardinality(S)
BY FS_Subset, FS_CardinalityType

\* When the window of a bucket is over, the first of its admissions is too.
LEMMA WindowOver ==
  ASSUME NEW S, NEW now \in Nat, InWindow(S, now), limit \in Nat \ {0},
         NEW b, BucketSound(b, now), WithBucket(S, b), ~(now - b.startedAt < WindowLength)
  PROVE  WithoutBucket(S, now)
<1>1. b.startedAt \in Nat /\ b.count \in Nat /\ b.count <= limit
  BY DEF BucketSound
<1>2. S = After(S, b.startedAt)
  <2>1. \A a \in S : a.at > b.startedAt
    BY <1>1, LimitNumbers DEF InWindow
  <2> QED
    BY <2>1 DEF After
<1>3. Cardinality(S) <= b.count - 1
  BY <1>2 DEF WithBucket
<1>4. Cardinality(S) \in Nat
  BY FS_CardinalityType DEF InWindow
<1>5. \A a \in S : a.at < now
  BY <1>1, LimitNumbers DEF InWindow, WithBucket
<1> QED
  BY <1>1, <1>3, <1>4, <1>5 DEF WithoutBucket

\* The buckets that a request finds, its own among them.
LEMMA BucketsForIs ==
  ASSUME LimitsInv, NEW c \in Clients, NEW after, after = BucketsFor(c)
  PROVE  /\ c \in DOMAIN after /\ DOMAIN after \ {c} \subseteq DOMAIN buckets
         /\ \A d \in DOMAIN after \ {c} :
              /\ DOMAIN after[d] = {"count", "startedAt", "place"}
              /\ after[d].count = buckets[d].count /\ after[d].startedAt = buckets[d].startedAt
         /\ \/ c \in RunningKeys /\ after = buckets
            \/ /\ c \notin RunningKeys
               /\ DOMAIN after[c] = {"count", "startedAt", "place"}
               /\ after[c].count = 0 /\ after[c].startedAt = tick
<1>1. \A d \in DOMAIN buckets : BucketSound(buckets[d], tick)
  BY DEF LimitsInv, ClientSound
<1>2. CASE c \in RunningKeys
  BY <1>1, <1>2 DEF BucketsFor, RunningKeys, BucketSound
<1>3. CASE c \notin RunningKeys
  <2> DEFINE new == [count |-> 0, startedAt |-> tick, place |-> Cardinality(MakeRoom) + 1]
             placed(d) == [buckets[d] EXCEPT !.place =
                             Cardinality({e \in MakeRoom : buckets[e].place <= @})]
  <2>1. after = [d \in MakeRoom \cup {c} |-> IF d = c THEN new ELSE placed(d)]
    BY <1>3 DEF BucketsFor
  <2>2. MakeRoom \subseteq RunningKeys /\ RunningKeys \subseteq DOMAIN buckets
    BY DEF MakeRoom, RunningKeys
  <2>3. ASSUME NEW d \in DOMAIN buckets
        PROVE  /\ DOMAIN placed(d) = {"count", "startedAt", "place"}
               /\ placed(d).count = buckets[d].count
               /\ placed(d).startedAt = buckets[d].startedAt
    <3>1. DOMAIN buckets[d] = {"count", "startedAt", "place"}
      BY <1>1 DEF BucketSound
    <3> DEFINE place == Cardinality({e \in MakeRoom : buckets[e].place <= buckets[d].place})
    <3>2. placed(d) = [buckets[d] EXCEPT !.place = place]
      OBVIOUS
    <3> HIDE DEF place, placed
    <3> QED
      BY <3>1, <3>2
  <2>4. /\ DOMAIN new = {"count", "startedAt", "place"}
        /\ new.count = 0 /\ new.startedAt = tick
    OBVIOUS
  <2> HIDE DEF new, placed
  <2> QED
    BY <1>3, <2>1, <2>2, <2>3, <2>4
<1> QED
  BY <1>2, <1>3

\* Whoever waits as long as it was told finds the window over.
LEMMA RetryAfterCovers ==
  ASSUME NEW b, b.startedAt \in Nat, tick \in Nat, tick - b.startedAt < WindowLength
  PROVE  /\ tick + Second * RetryAfter(b) \in Int
         /\ b.startedAt + WindowLength <= tick + Second * RetryAfter(b)
<1> DEFINE x == b.startedAt + WindowLength - tick
           q == (x + Second - 1) \div Second
<1>1. x \in Nat /\ x >= 1
  BY LimitNumbers
<1> HIDE DEF x
<1>2. x + Second - 1 \in Int /\ Second \in Nat \ {0}
  BY <1>1, LimitNumbers
<1>3. q \in Int /\ q * Second > x - 1 /\ q >= 1
  <2> DEFINE y == x + Second - 1
  <2>1. y \in Int /\ y >= Second /\ y = x + Second - 1
    BY <1>1, <1>2
  <2> HIDE DEF y
  <2>2. y \div Second \in Int /\ (y \div Second) * Second > y - Second /\ y \div Second >= 1
    BY <1>2, <2>1
  <2> QED
    BY <1>1, <1>2, <2>1, <2>2 DEF y
<1>4. RetryAfter(b) = Max({1, q})
  BY DEF RetryAfter, x
<1> HIDE DEF q
<1>5. RetryAfter(b) = q
  <2>1. Max({1, q}) = IF 1 >= q THEN 1 ELSE q
    BY <1>3, GreaterIs
  <2> QED
    BY <1>3, <1>4, <2>1
<1>6. Second * q >= x /\ Second * q \in Int
  BY <1>1, <1>2, <1>3
<1>7. tick + x = b.startedAt + WindowLength
  BY LimitNumbers DEF x
<1> QED
  BY <1>1, <1>5, <1>6, <1>7

\* Who is without a bucket still, or again, when another address comes.
LEMMA OthersKept ==
  ASSUME LimitsInv, NEW c \in Clients, Consume(c), NEW d \in Clients, d # c
  PROVE  ClientSound(d)'
<1> DEFINE after == BucketsFor(c)
<1>1. /\ c \in DOMAIN after /\ DOMAIN after \ {c} \subseteq DOMAIN buckets
      /\ \A e \in DOMAIN after \ {c} :
           /\ DOMAIN after[e] = {"count", "startedAt", "place"}
           /\ after[e].count = buckets[e].count /\ after[e].startedAt = buckets[e].startedAt
  BY BucketsForIs
<1>2. /\ served'[d] = IF d \in Forgotten(after) THEN {} ELSE served[d]
      /\ told'[d] = told[d]
      /\ DOMAIN buckets' = DOMAIN after
      /\ d \in DOMAIN after => buckets'[d] = after[d]
      /\ UNCHANGED <<tick, limit>>
  <2> HIDE DEF after
  <2>1. \/ /\ buckets' = [after EXCEPT ![c].count = @ + 1]
           /\ \E admission : served' = [[e \in Clients |-> IF e \in Forgotten(after) THEN {} ELSE served[e]]
                                          EXCEPT ![c] = @ \cup {admission}]
           /\ told' = [told EXCEPT ![c] = Never]
        \/ /\ buckets' = after
           /\ served' = [e \in Clients |-> IF e \in Forgotten(after) THEN {} ELSE served[e]]
           /\ \E t : told' = [told EXCEPT ![c] = t]
    BY DEF Consume, after
  <2>2. UNCHANGED <<tick, limit>>
    BY DEF Consume
  <2>3. DOMAIN told = Clients
    BY DEF LimitsInv
  <2> QED
    BY <2>1, <2>2, <2>3
<1> HIDE DEF after
<1>3. ClientSound(d) /\ tick \in Nat /\ limit \in Nat \ {0}
  BY DEF LimitsInv
<1>4. CASE d \in Forgotten(after)
  <2>1. d \notin DOMAIN after /\ served'[d] = {}
    BY <1>2, <1>4 DEF Forgotten
  <2>2. IsFiniteSet({}) /\ Cardinality({}) = 0
    BY FS_EmptySet
  <2>3. 0 <= limit' - 1
    BY <1>2, <1>3
  <2>4. InWindow(served[d], tick)'
    BY <2>1, <2>2, Zenon DEF InWindow
  <2>5. WithoutBucket(served[d], tick)'
    BY <2>1, <2>2, <2>3 DEF WithoutBucket
  <2>6. d \notin DOMAIN buckets' /\ told'[d] \in Int
    BY <1>2, <1>3, <2>1 DEF ClientSound
  <2> QED
    BY <2>4, <2>5, <2>6 DEF ClientSound
<1>5. CASE d \notin Forgotten(after) /\ d \in DOMAIN after
  <2>1. d \in DOMAIN buckets /\ served'[d] = served[d]
    BY <1>1, <1>2, <1>5
  <2>2. /\ DOMAIN buckets'[d] = {"count", "startedAt", "place"}
        /\ buckets'[d].count = buckets[d].count /\ buckets'[d].startedAt = buckets[d].startedAt
    BY <1>1, <1>2, <1>5
  <2> QED
    BY <1>2, <1>3, <1>5, <2>1, <2>2
    DEF ClientSound, InWindow, BucketSound, WithBucket, Since, After, Before
<1>6. CASE d \notin Forgotten(after) /\ d \notin DOMAIN after
  <2>1. served'[d] = served[d] /\ d \notin RunningKeys /\ d \notin DOMAIN buckets'
    BY <1>2, <1>6 DEF Forgotten
  <2>2. WithoutBucket(served[d], tick)
    <3>1. CASE d \notin DOMAIN buckets
      BY <1>3, <3>1 DEF ClientSound
    <3>2. CASE d \in DOMAIN buckets
      BY <1>3, <2>1, <3>2, WindowOver DEF ClientSound, RunningKeys, Running
    <3> QED
      BY <3>1, <3>2
  <2> QED
    BY <1>2, <1>3, <2>1, <2>2 DEF ClientSound, InWindow, WithoutBucket
<1> QED
  BY <1>4, <1>5, <1>6

\* What the bucket of a request counts before it, and what it has admitted.
LEMMA OwnBucket ==
  ASSUME LimitsInv, NEW c \in Clients, NEW b, b = BucketsFor(c)[c]
  PROVE  /\ DOMAIN b = {"count", "startedAt", "place"}
         /\ b.count \in 0 .. limit /\ b.startedAt \in 0 .. tick
         /\ tick - b.startedAt < WindowLength
         /\ \A a \in served[c] : a.at < b.startedAt + WindowLength
         /\ Cardinality(Since(served[c], b.startedAt)) <= b.count
         /\ IF b.count = 0 THEN b.startedAt = tick
            ELSE Cardinality(After(served[c], b.startedAt)) <= b.count - 1
         /\ Cardinality(Before(served[c], b.startedAt)) <= limit - 1
<1> DEFINE S == served[c]
<1>1. ClientSound(c) /\ tick \in Nat /\ limit \in Nat \ {0} /\ InWindow(S, tick)
  BY DEF LimitsInv, ClientSound
<1>2. CASE c \in RunningKeys /\ b = buckets[c]
  <2>1. c \in DOMAIN buckets /\ tick - b.startedAt < WindowLength
    BY <1>2 DEF RunningKeys, Running
  <2>2. BucketSound(b, tick) /\ WithBucket(S, b)
    BY <1>1, <1>2, <2>1 DEF ClientSound
  <2> QED
    BY <1>1, <2>1, <2>2 DEF BucketSound, WithBucket
<1>3. CASE /\ c \notin RunningKeys
           /\ DOMAIN b = {"count", "startedAt", "place"}
           /\ b.count = 0 /\ b.startedAt = tick
  <2>1. WithoutBucket(S, tick)
    <3>1. CASE c \notin DOMAIN buckets
      BY <1>1, <3>1 DEF ClientSound
    <3>2. CASE c \in DOMAIN buckets
      <4>1. ~(tick - buckets[c].startedAt < WindowLength)
        BY <1>3, <3>2 DEF RunningKeys, Running
      <4> QED
        BY <1>1, <3>2, <4>1, WindowOver DEF ClientSound
    <3> QED
      BY <3>1, <3>2
  <2>2. \A a \in S : a.at \in Int /\ a.at < tick
    BY <1>1, <2>1 DEF WithoutBucket, InWindow
  <2>3. Since(S, tick) = {} /\ Before(S, tick) = S
    BY <1>1, <2>2 DEF Since, Before
  <2>4. Cardinality({}) = 0
    BY FS_EmptySet
  <2>5. \A a \in S : a.at < tick + WindowLength
    BY <1>1, <2>2, LimitNumbers
  <2> QED
    BY <1>1, <1>3, <2>1, <2>3, <2>4, <2>5, LimitNumbers DEF WithoutBucket
<1>4. \/ c \in RunningKeys /\ b = buckets[c]
      \/ /\ c \notin RunningKeys
         /\ DOMAIN b = {"count", "startedAt", "place"}
         /\ b.count = 0 /\ b.startedAt = tick
  BY BucketsForIs
<1> QED
  BY <1>2, <1>3, <1>4

LEMMA OwnKept ==
  ASSUME LimitsInv, NEW c \in Clients, Consume(c)
  PROVE  ClientSound(c)'
<1> DEFINE after == BucketsFor(c)
           b == after[c]
           S == served[c]
           s == b.startedAt
           admission == [at |-> tick, nth |-> b.count + 1]
<1>1. /\ DOMAIN b = {"count", "startedAt", "place"}
      /\ b.count \in 0 .. limit /\ s \in 0 .. tick
      /\ tick - s < WindowLength
      /\ \A a \in S : a.at < s + WindowLength
      /\ Cardinality(Since(S, s)) <= b.count
      /\ IF b.count = 0 THEN s = tick ELSE Cardinality(After(S, s)) <= b.count - 1
      /\ Cardinality(Before(S, s)) <= limit - 1
  BY OwnBucket
<1>2. ClientSound(c) /\ tick \in Nat /\ limit \in Nat \ {0} /\ InWindow(S, tick)
  BY DEF LimitsInv, ClientSound
<1>3. c \in DOMAIN after /\ c \notin Forgotten(after)
  BY BucketsForIs DEF Forgotten
<1>4. UNCHANGED <<tick, limit>> /\ DOMAIN told = Clients
  BY DEF Consume, LimitsInv
<1>5. CASE Admitted(b)
  <2>1. /\ buckets' = [after EXCEPT ![c].count = @ + 1]
        /\ served' = [[d \in Clients |-> IF d \in Forgotten(after) THEN {} ELSE served[d]]
                        EXCEPT ![c] = @ \cup {admission}]
        /\ told' = [told EXCEPT ![c] = Never]
    BY <1>5 DEF Consume
  <2> HIDE DEF after, admission
  <2>2. served'[c] = S \cup {admission} /\ told'[c] = Never /\ c \in DOMAIN buckets'
    BY <1>3, <1>4, <2>1
  <2>3. /\ DOMAIN buckets'[c] = {"count", "startedAt", "place"}
        /\ buckets'[c].count = b.count + 1 /\ buckets'[c].startedAt = s
    BY <1>1, <1>3, <2>1
  <2> HIDE DEF b, S, s
  <2>4. admission.at = tick
    BY DEF admission
  <2>5. /\ IsFiniteSet(S)
        /\ \A a \in S : a.at \in Int /\ a.at <= tick /\ tick - a.at < WindowLength
    BY <1>2 DEF InWindow
  <2>6. InWindow(served'[c], tick)
    <3>1. IsFiniteSet(S \cup {admission})
      BY <2>5, FS_AddElement
    <3> QED
      BY <1>2, <2>2, <2>4, <2>5, <3>1, LimitNumbers DEF InWindow
  <2>7. b.count \in Nat /\ b.count < limit /\ s \in Nat /\ s <= tick
    BY <1>1, <1>2, <1>5 DEF Admitted
  <2>8. Cardinality(Since(S \cup {admission}, s)) <= b.count + 1
    <3>1. IsFiniteSet(Since(S, s))
      BY <2>5, CardinalityOfPart DEF Since
    <3>2. Since(S \cup {admission}, s) \subseteq Since(S, s) \cup {admission}
      BY DEF Since
    <3>3. /\ Cardinality(Since(S \cup {admission}, s)) \in Nat
          /\ Cardinality(Since(S, s)) \in Nat
          /\ Cardinality(Since(S \cup {admission}, s)) <= Cardinality(Since(S, s)) + 1
      BY <3>1, <3>2, CardinalityAdded
    <3> QED
      BY <1>1, <2>7, <3>3
  <2>9. Cardinality(After(S \cup {admission}, s)) <= b.count
    <3>1. CASE b.count = 0
      <4>1. After(S \cup {admission}, s) = {}
        BY <1>1, <1>2, <2>4, <2>5, <3>1 DEF After
      <4> QED
        BY <3>1, <4>1, FS_EmptySet
    <3>2. CASE b.count # 0
      <4>1. IsFiniteSet(After(S, s))
        BY <2>5, CardinalityOfPart DEF After
      <4>2. After(S \cup {admission}, s) \subseteq After(S, s) \cup {admission}
        BY DEF After
      <4>3. /\ Cardinality(After(S \cup {admission}, s)) \in Nat
            /\ Cardinality(After(S, s)) \in Nat
            /\ Cardinality(After(S \cup {admission}, s)) <= Cardinality(After(S, s)) + 1
        BY <4>1, <4>2, CardinalityAdded
      <4> QED
        BY <1>1, <2>7, <3>2, <4>3
    <3> QED
      BY <3>1, <3>2
  <2>10. Before(S \cup {admission}, s) = Before(S, s)
    BY <1>2, <2>4, <2>7 DEF Before
  <2>11. \A a \in S \cup {admission} : a.at < s + WindowLength
    BY <1>1, <1>2, <2>4, <2>7, LimitNumbers
  <2>12. BucketSound(buckets[c], tick)'
    <3>1. b.count + 1 \in 1 .. limit /\ s \in 0 .. tick
      BY <1>2, <2>7
    <3> QED
      BY <1>4, <2>3, <3>1 DEF BucketSound
  <2>13. WithBucket(served[c], buckets[c])'
    <3>1. b.count + 1 - 1 = b.count
      BY <2>7
    <3>2. Cardinality(Since(served'[c], buckets'[c].startedAt)) <= buckets'[c].count
      BY <2>2, <2>3, <2>8
    <3>3. Cardinality(After(served'[c], buckets'[c].startedAt)) <= buckets'[c].count - 1
      <4>1. buckets'[c].count - 1 = b.count
        BY <2>3, <2>7
      <4>2. After(served'[c], buckets'[c].startedAt) = After(S \cup {admission}, s)
        BY <2>2, <2>3
      <4> QED
        BY <2>9, <4>1, <4>2
    <3>4. Cardinality(Before(served'[c], buckets'[c].startedAt)) <= limit' - 1
      BY <1>1, <1>4, <2>2, <2>3, <2>10
    <3>5. \A a \in served'[c] : a.at < buckets'[c].startedAt + WindowLength
      BY <2>2, <2>3, <2>11
    <3> QED
      BY <3>2, <3>3, <3>4, <3>5 DEF WithBucket
  <2>14. InWindow(served[c], tick)'
    BY <1>4, <2>6 DEF InWindow
  <2> QED
    BY <2>2, <2>12, <2>13, <2>14 DEF ClientSound, Never
<1>6. CASE ~Admitted(b)
  <2>1. /\ buckets' = after
        /\ served' = [d \in Clients |-> IF d \in Forgotten(after) THEN {} ELSE served[d]]
        /\ told' = [told EXCEPT ![c] = tick + Second * RetryAfter(b)]
    BY <1>6 DEF Consume
  <2>2. served'[c] = S /\ buckets'[c] = b /\ c \in DOMAIN buckets'
    BY <1>3, <2>1
  <2>3. told'[c] = tick + Second * RetryAfter(b)
    BY <1>4, <2>1
  <2> HIDE DEF after, b, S, s
  <2>4. b.count = limit /\ b.count # 0
    BY <1>1, <1>2, <1>6 DEF Admitted
  <2>5. BucketSound(buckets[c], tick)'
    BY <1>1, <1>2, <1>4, <2>2, <2>4 DEF BucketSound, s
  <2>6. WithBucket(served[c], buckets[c])'
    BY <1>1, <1>4, <2>2, <2>4 DEF WithBucket, Since, After, Before, s
  <2>7. told'[c] \in Int /\ b.startedAt + WindowLength <= told'[c]
    BY <1>1, <1>2, <2>3, RetryAfterCovers DEF s
  <2>8. InWindow(served[c], tick)'
    BY <1>2, <1>4, <2>2 DEF InWindow
  <2> QED
    BY <2>2, <2>5, <2>6, <2>7, <2>8 DEF ClientSound
<1> QED
  BY <1>5, <1>6

\* As time passes, admissions leave the window.
LEMMA TickKeeps ==
  ASSUME LimitsInv, LimitTick, NEW c \in Clients
  PROVE  ClientSound(c)'
<1>1. /\ tick' = tick + 1 /\ UNCHANGED <<limit, buckets>>
      /\ served'[c] = {a \in served[c] : tick' - a.at < WindowLength}
      /\ told'[c] \in {Never, told[c]}
  BY DEF LimitTick
<1>2. ClientSound(c) /\ tick \in Nat /\ limit \in Nat \ {0}
  BY DEF LimitsInv
<1>3. served'[c] \subseteq served[c] /\ IsFiniteSet(served[c])
  BY <1>1, <1>2 DEF ClientSound, InWindow
<1>4. InWindow(served[c], tick)'
  BY <1>1, <1>2, <1>3, CardinalityOfPart DEF ClientSound, InWindow
<1>5. told'[c] \in Int
  BY <1>1, <1>2 DEF ClientSound, Never
<1>6. CASE c \notin DOMAIN buckets
  <2>1. WithoutBucket(served[c], tick)
    BY <1>2, <1>6 DEF ClientSound
  <2>2. \A a \in served[c] : a.at \in Int
    BY <1>2 DEF ClientSound, InWindow
  <2>3. Cardinality(served'[c]) \in Nat /\ Cardinality(served[c]) \in Nat
        /\ Cardinality(served'[c]) <= Cardinality(served[c])
    BY <1>3, CardinalityOfPart
  <2>4. WithoutBucket(served[c], tick)'
    BY <1>1, <1>2, <1>3, <2>1, <2>2, <2>3 DEF WithoutBucket
  <2> QED
    BY <1>1, <1>4, <1>5, <1>6, <2>4 DEF ClientSound
<1>7. CASE c \in DOMAIN buckets
  <2> DEFINE b == buckets[c]
             s == b.startedAt
  <2>1. BucketSound(b, tick) /\ WithBucket(served[c], b)
        /\ (told[c] # Never => s + WindowLength <= told[c])
    BY <1>2, <1>7 DEF ClientSound
  <2>2. buckets'[c] = b
    BY <1>1
  <2>3. b.count \in Nat /\ s \in Nat
    BY <1>2, <2>1 DEF BucketSound
  <2> HIDE DEF b, s
  <2>4. /\ Since(served'[c], s) \subseteq Since(served[c], s)
        /\ After(served'[c], s) \subseteq After(served[c], s)
        /\ Before(served'[c], s) \subseteq Before(served[c], s)
    BY <1>3 DEF Since, After, Before
  <2>5. /\ IsFiniteSet(Since(served[c], s)) /\ IsFiniteSet(After(served[c], s))
        /\ IsFiniteSet(Before(served[c], s))
    BY <1>3, CardinalityOfPart DEF Since, After, Before
  <2>6. /\ Cardinality(Since(served'[c], s)) <= Cardinality(Since(served[c], s))
        /\ Cardinality(After(served'[c], s)) <= Cardinality(After(served[c], s))
        /\ Cardinality(Before(served'[c], s)) <= Cardinality(Before(served[c], s))
    BY <2>4, <2>5, CardinalityOfPart
  <2>7. /\ Cardinality(Since(served'[c], s)) \in Nat /\ Cardinality(Since(served[c], s)) \in Nat
        /\ Cardinality(After(served'[c], s)) \in Nat /\ Cardinality(After(served[c], s)) \in Nat
        /\ Cardinality(Before(served'[c], s)) \in Nat /\ Cardinality(Before(served[c], s)) \in Nat
    BY <2>4, <2>5, CardinalityOfPart
  <2>8. WithBucket(served[c], buckets[c])'
    <3>1. /\ Cardinality(Since(served[c], s)) <= b.count
          /\ Cardinality(After(served[c], s)) <= b.count - 1
          /\ Cardinality(Before(served[c], s)) <= limit - 1
          /\ \A a \in served[c] : a.at < s + WindowLength
      BY <2>1 DEF WithBucket, s
    <3>2. /\ Cardinality(Since(served'[c], s)) <= b.count
          /\ Cardinality(After(served'[c], s)) <= b.count - 1
          /\ Cardinality(Before(served'[c], s)) <= limit - 1
      BY <1>2, <2>3, <2>6, <2>7, <3>1
    <3>3. buckets'[c].startedAt = s /\ buckets'[c].count = b.count /\ limit' = limit
      BY <1>1, <2>2 DEF s
    <3>4. \A a \in served'[c] : a.at < buckets'[c].startedAt + WindowLength
      BY <1>3, <3>1, <3>3
    <3>5. /\ Cardinality(Since(served'[c], buckets'[c].startedAt)) <= buckets'[c].count
          /\ Cardinality(After(served'[c], buckets'[c].startedAt)) <= buckets'[c].count - 1
          /\ Cardinality(Before(served'[c], buckets'[c].startedAt)) <= limit' - 1
      BY <3>2, <3>3
    <3> QED
      BY <3>4, <3>5 DEF WithBucket
  <2>9. BucketSound(buckets[c], tick)'
    <3>1. BucketSound(b, tick)
      BY <2>1
    <3> QED
      BY <1>1, <1>2, <2>2, <3>1 DEF BucketSound
  <2>10. told'[c] # Never => buckets'[c].startedAt + WindowLength <= told'[c]
    BY <1>1, <2>1, <2>2 DEF s
  <2> QED
    BY <1>1, <1>4, <1>5, <1>7, <2>8, <2>9, <2>10 DEF ClientSound
<1> QED
  BY <1>6, <1>7

LEMMA LimitsStep == LimitsInv /\ [LimitsNext]_limitVars => LimitsInv'
<1> SUFFICES ASSUME LimitsInv, [LimitsNext]_limitVars
             PROVE  LimitsInv'
  OBVIOUS
<1>1. CASE LimitTick
  <2>1. \A c \in Clients : ClientSound(c)'
    BY <1>1, TickKeeps
  <2> QED
    BY <1>1, <2>1 DEF LimitTick, LimitsInv
<1>2. ASSUME NEW c \in Clients, Consume(c)
      PROVE  LimitsInv'
  <2> DEFINE after == BucketsFor(c)
  <2>1. \A d \in Clients : ClientSound(d)'
    BY <1>2, OthersKept, OwnKept
  <2>2. c \in DOMAIN after /\ DOMAIN after \ {c} \subseteq DOMAIN buckets
    BY BucketsForIs
  <2>3. DOMAIN after \subseteq Clients
    BY <2>2 DEF LimitsInv
  <2>4. DOMAIN buckets' = DOMAIN after /\ UNCHANGED <<tick, limit>>
        /\ DOMAIN served' = Clients /\ DOMAIN told' = Clients
    <3> HIDE DEF after
    <3>1. \/ /\ buckets' = [after EXCEPT ![c].count = @ + 1]
             /\ \E admission : served' = [[e \in Clients |-> IF e \in Forgotten(after) THEN {} ELSE served[e]]
                                            EXCEPT ![c] = @ \cup {admission}]
             /\ told' = [told EXCEPT ![c] = Never]
          \/ /\ buckets' = after
             /\ served' = [e \in Clients |-> IF e \in Forgotten(after) THEN {} ELSE served[e]]
             /\ \E t : told' = [told EXCEPT ![c] = t]
      BY <1>2 DEF Consume, after
    <3>2. UNCHANGED <<tick, limit>>
      BY <1>2 DEF Consume
    <3> QED
      BY <3>1, <3>2 DEF LimitsInv
  <2> HIDE DEF after
  <2> QED
    BY <2>1, <2>3, <2>4 DEF LimitsInv
<1>3. CASE UNCHANGED limitVars
  BY <1>3 DEF limitVars, LimitsInv, ClientSound, InWindow, WithoutBucket, BucketSound, WithBucket,
              Since, After, Before
<1> QED
  BY <1>1, <1>2, <1>3 DEF LimitsNext

LEMMA LimitsStart == LimitsInit => LimitsInv
<1> SUFFICES ASSUME LimitsInit
             PROVE  LimitsInv
  OBVIOUS
<1>1. limit \in Nat \ {0}
  BY LimitsAssumption DEF LimitsInit, EnvPositiveInteger
<1>2. IsFiniteSet({}) /\ Cardinality({}) = 0
  BY FS_EmptySet
<1>3. DOMAIN buckets = {}
  BY DEF LimitsInit
<1>4. ASSUME NEW c \in Clients
      PROVE  ClientSound(c)
  <2>1. served[c] = {} /\ told[c] = Never /\ tick = 0
    BY DEF LimitsInit
  <2>2. InWindow({}, 0) /\ WithoutBucket({}, 0)
    BY <1>1, <1>2 DEF InWindow, WithoutBucket
  <2> QED
    BY <1>3, <2>1, <2>2 DEF ClientSound, Never
<1> QED
  BY <1>1, <1>3, <1>4 DEF LimitsInit, LimitsInv

LEMMA RateIsKept == LimitsInv => RateKept
<1> SUFFICES ASSUME LimitsInv, NEW c \in Clients
             PROVE  /\ Cardinality(served[c]) <= 2 * limit - 1
                    /\ told[c] # Never /\ tick >= told[c] =>
                         (c \in RunningKeys => Admitted(buckets[c]))
  BY DEF RateKept
<1> DEFINE S == served[c]
<1>1. ClientSound(c) /\ tick \in Nat /\ limit \in Nat \ {0}
  BY DEF LimitsInv
<1>2. IsFiniteSet(S) /\ \A a \in S : a.at \in Int
  BY <1>1 DEF ClientSound, InWindow
<1>3. CASE c \notin DOMAIN buckets
  <2>1. Cardinality(S) \in Nat /\ Cardinality(S) <= limit - 1
    BY <1>1, <1>2, <1>3, FS_CardinalityType DEF ClientSound, WithoutBucket
  <2> QED
    BY <1>1, <1>3, <2>1 DEF RunningKeys
<1>4. CASE c \in DOMAIN buckets
  <2> DEFINE b == buckets[c]
             s == b.startedAt
  <2>1. /\ BucketSound(b, tick) /\ WithBucket(S, b)
        /\ told[c] # Never => s + WindowLength <= told[c]
        /\ told[c] \in Int
    BY <1>1, <1>4 DEF ClientSound
  <2>2. b.count \in Nat /\ b.count <= limit /\ s \in Nat
    BY <1>1, <2>1 DEF BucketSound
  <2>3. /\ Cardinality(Since(S, s)) <= b.count
        /\ Cardinality(Before(S, s)) <= limit - 1
    BY <2>1 DEF WithBucket
  <2>4. told[c] # Never /\ tick >= told[c] => c \notin RunningKeys
    BY <1>1, <2>1, <2>2, LimitNumbers DEF RunningKeys, Running
  <2> HIDE DEF b, s, S
  <2>5. S = Since(S, s) \cup Before(S, s) /\ Since(S, s) \subseteq S /\ Before(S, s) \subseteq S
        /\ Since(S, s) \cap Before(S, s) = {}
    BY <1>2, <2>2 DEF Since, Before
  <2>6. /\ IsFiniteSet(Since(S, s)) /\ IsFiniteSet(Before(S, s))
        /\ Cardinality(Since(S, s)) \in Nat /\ Cardinality(Before(S, s)) \in Nat
    BY <1>2, <2>5, CardinalityOfPart
  <2>7. Cardinality(S) = Cardinality(Since(S, s)) + Cardinality(Before(S, s))
    <3>1. Cardinality({}) = 0
      BY FS_EmptySet
    <3>2. Cardinality(Since(S, s) \cup Before(S, s))
            = Cardinality(Since(S, s)) + Cardinality(Before(S, s))
                - Cardinality(Since(S, s) \cap Before(S, s))
      BY <2>6, FS_Union
    <3>3. Cardinality(S) = Cardinality(Since(S, s)) + Cardinality(Before(S, s)) - 0
      BY <2>5, <3>1, <3>2
    <3> QED
      BY <2>6, <3>3
  <2>8. Cardinality(S) <= 2 * limit - 1
    BY <1>1, <2>2, <2>3, <2>6, <2>7
  <2> QED
    BY <2>4, <2>8 DEF S
<1> QED
  BY <1>3, <1>4

\* No address that is remembered gets two limits within any time of a window's
\* length, wherever its windows begin; and who waits as long as it was told is
\* admitted then, however many others came meanwhile.
THEOREM RateAlwaysKept == SourcesSpec => []RateKept
<1>1. SourcesInit => LimitsInv
  BY LimitsStart DEF SourcesInit
<1>2. ASSUME LimitsInv,
             [SourcesNext]_<<vars, readinessVars, marketVars, probeVars, limitVars, followed>>
      PROVE  LimitsInv'
  <2>1. [LimitsNext]_limitVars
    BY <1>2 DEF SourcesNext
  <2> QED
    BY <1>2, <2>1, LimitsStep
<1>3. LimitsInv => RateKept
  BY RateIsKept
<1> QED
  BY <1>1, <1>2, <1>3, PTL DEF SourcesSpec

-----------------------------------------------------------------------------
(***************************************************************************)
(* TrustEvidence.  While a token is read, its facts are those of versions  *)
(* that were enabled at some moment of the check, and the blocks and the   *)
(* holders those of the package; while an account is read, its entity is   *)
(* that of a moment of the check, and an account that exists keeps         *)
(* existing.  The rules make a row, or CLEAR, of nothing else.             *)
(***************************************************************************)
Version == [contract : Installs, enabled : BOOLEAN, height : 0 .. Height]

SubjectSound ==
  /\ versions \in Seq(Version)
  /\ \/ /\ versions # <<>> /\ account = Null /\ holders \in Holdings
        /\ \A i \in DOMAIN versions : versions[i].height >= versions[1].height
     \/ versions = <<>> /\ account \in Accounts
     \/ versions = <<>> /\ account = Null /\ check = Idle

\* What holds now is among what was seen.
SeenSound ==
  check.at \in {"token", "account"} =>
    /\ Now.enabled \subseteq seen.enabled
    /\ account \in seen.accounts
    /\ check.at = "account" => seen.accounts \subseteq Accounts

\* The versions that were enabled at some moment.
Known == {i \in DOMAIN versions : versions[i].contract \in seen.enabled}

IndexerSound(found) ==
  \/ found = Unread
  \/ /\ found.read /\ found.holders \in {holders, Null}
     /\ found.installBlock \in {versions[1].height, Null}
     /\ found.active \subseteq Known

KeysSound(keys) ==
  \/ keys = Unread
  \/ DOMAIN keys = {"read", "left"} /\ keys.read /\ keys.left \subseteq Known

\* The supply control of a version that was enabled, or none.
SupplySound(value) ==
  \/ value = EmptySupplyControl
  \/ \E c \in seen.enabled : /\ c \in Installs
                             /\ value.flag \in {c.flag, Null} /\ value.mint = c.mint

ControlSound(control) == control = Unread \/ (control.read /\ SupplySound(control.value))

EntitySound(entity) ==
  /\ entity.exists \in {TRUE, FALSE, Null}
  /\ entity.exists = TRUE => account.exists
  /\ \/ entity.keys = Null /\ entity.threshold = Null
     \/ \E a \in seen.accounts : /\ a.exists
                                 /\ entity.keys = a.keys /\ entity.threshold = a.threshold

CheckSound ==
  \/ check = Idle
  \/ /\ DOMAIN check = {"at", "credential", "latest", "indexer", "keys", "control"}
     /\ check.at = "token" /\ versions # <<>>
     /\ check.latest \in (0 .. Height) \cup {Null}
     /\ IndexerSound(check.indexer) /\ KeysSound(check.keys) /\ ControlSound(check.control)
  \/ check.at = "account" /\ account \in Accounts /\ versions = <<>> /\ EntitySound(check.entity)
  \/ check.at = "scored"

EvidenceInv ==
  /\ SubjectSound /\ SeenSound /\ CheckSound
  /\ PassedHeld /\ ClearJustified

\* What the rules make of a token's facts.
LEMMA TokenScored ==
  ASSUME NEW facts, NEW rule, rule = ScoreSubject(ExtractSignals(facts)),
         DOMAIN facts = {"mintBurnEnabled", "publicMintEntrypoint", "holderCount",
                         "topHolderPct", "contractAgeBlocks"},
         facts.mintBurnEnabled \in BOOLEAN \cup {Null},
         facts.publicMintEntrypoint \in BOOLEAN \cup {Null},
         facts.holderCount \in (Nat \ {0}) \cup {Null},
         facts.topHolderPct \in Nat \cup {Null},
         facts.contractAgeBlocks \in Int \cup {Null}
  PROVE  /\ rule.passed \subseteq {"mint_burn_disabled", "no_public_mint", "old_contract", "spread_holders"}
         /\ "mint_burn_disabled" \in rule.passed => facts.mintBurnEnabled = FALSE
         /\ "no_public_mint" \in rule.passed => facts.publicMintEntrypoint = FALSE
         /\ "old_contract" \in rule.passed =>
              facts.contractAgeBlocks # Null /\ facts.contractAgeBlocks >= YoungBlocks
         /\ "spread_holders" \in rule.passed =>
              /\ facts.holderCount # Null /\ facts.holderCount > 1
              /\ facts.topHolderPct # Null /\ facts.topHolderPct < 95
         /\ rule.aspect = "CLEAR" =>
              /\ facts.mintBurnEnabled = FALSE \/ facts.publicMintEntrypoint = FALSE
              /\ "old_contract" \in rule.passed /\ "spread_holders" \in rule.passed
<1> DEFINE s == ExtractSignals(facts)
           minting == s.mintBurnEnabled = TRUE
           exposed == s.mintBurnEnabled = Null /\ s.publicMintEntrypoint = TRUE
           concentrated ==
             s.holderCount = 1 \/ (s.topHolderPct # Null /\ s.topHolderPct >= 95)
           spread == /\ s.holderCount # Null /\ s.holderCount > 1
                     /\ s.topHolderPct # Null /\ s.topHolderPct < 95
           young == s.contractAgeBlocks # Null /\ s.contractAgeBlocks < YoungBlocks
           old == s.contractAgeBlocks # Null /\ s.contractAgeBlocks >= YoungBlocks
           unknown == s.mintBurnEnabled = Null /\ s.publicMintEntrypoint = Null
           flags == Flag(minting, "cep18_mint_burn_enabled", "danger")
                    \cup Flag(exposed, "public_mint_entrypoint", "caution")
                    \cup Flag(concentrated, "holder_concentration", "danger")
                    \cup Flag(young, "very_new_contract", "caution")
           notChecked == {k \in SubjectMandatorySignals : s[k] = Null}
                         \cup Label(unknown, "supplyControl")
           passed == Label(s.mintBurnEnabled = FALSE, "mint_burn_disabled")
                     \cup Label(s.mintBurnEnabled # FALSE /\ s.publicMintEntrypoint = FALSE,
                                "no_public_mint")
                     \cup Label(old, "old_contract")
                     \cup Label(spread, "spread_holders")
<1>1. rule = Result(flags, notChecked, passed)
  BY Zenon DEF ScoreSubject
<1>2. /\ s.mintBurnEnabled = facts.mintBurnEnabled
      /\ s.publicMintEntrypoint = facts.publicMintEntrypoint
      /\ s.holderCount = facts.holderCount /\ s.topHolderPct = facts.topHolderPct
      /\ s.contractAgeBlocks = facts.contractAgeBlocks
  BY DEF ExtractSignals, SubjectMandatorySignals
<1>3. rule.passed = passed /\ rule.aspect = Aspect(flags, notChecked)
  BY <1>1 DEF Result
<1>4. /\ passed \subseteq {"mint_burn_disabled", "no_public_mint", "old_contract", "spread_holders"}
      /\ "mint_burn_disabled" \in passed => s.mintBurnEnabled = FALSE
      /\ "no_public_mint" \in passed => s.publicMintEntrypoint = FALSE
      /\ "old_contract" \in passed <=> old
      /\ "spread_holders" \in passed <=> spread
  <2> HIDE DEF s, old, spread
  <2> QED
    BY DEF Label
<1>5. ASSUME rule.aspect = "CLEAR"
      PROVE  ~minting /\ ~exposed /\ ~concentrated /\ ~young /\ ~unknown
             /\ \A k \in SubjectMandatorySignals : s[k] # Null
  <2> HIDE DEF s, minting, exposed, concentrated, young, unknown
  <2>1. flags = {} /\ notChecked = {}
    BY <1>3, <1>5 DEF Aspect
  <2> QED
    BY <2>1 DEF Flag, Label
<1>6. /\ facts.mintBurnEnabled = FALSE \/ facts.mintBurnEnabled = TRUE \/ facts.mintBurnEnabled = Null
      /\ facts.publicMintEntrypoint = FALSE \/ facts.publicMintEntrypoint = TRUE
         \/ facts.publicMintEntrypoint = Null
  OBVIOUS
<1>7. ASSUME rule.aspect = "CLEAR"
      PROVE  facts.mintBurnEnabled = FALSE \/ facts.publicMintEntrypoint = FALSE
  BY <1>2, <1>5, <1>6, <1>7, Zenon
<1>8. ASSUME rule.aspect = "CLEAR"
      PROVE  old /\ spread
  <2>1. s.contractAgeBlocks # Null /\ s.holderCount # Null /\ s.topHolderPct # Null
    BY <1>5, <1>8 DEF SubjectMandatorySignals
  <2>2. ~concentrated /\ ~young
    BY <1>5, <1>8
  <2>3. s.contractAgeBlocks \in Int /\ s.holderCount \in Nat \ {0} /\ s.topHolderPct \in Nat
    BY <1>2, <2>1
  <2> HIDE DEF s
  <2> QED
    BY <2>1, <2>2, <2>3, TrustRulesAssumption
<1> HIDE DEF s, flags, notChecked, passed
<1> QED
  BY <1>2, <1>3, <1>4, <1>7, <1>8

\* What the rules make of an account's facts.
LEMMA AccountScored ==
  ASSUME NEW facts, NEW rule, rule = ScoreAccount(ExtractAccountSignals(facts)),
         DOMAIN facts = AccountMandatorySignals,
         facts.exists \in {TRUE, FALSE, Null},
         facts.balanceMotes \in Nat \cup {Null},
         facts.associatedKeyCount \in Nat \cup {Null},
         facts.keyManagementThreshold \in Nat \cup {Null}
  PROVE  /\ rule.passed \subseteq {"account_exists", "funded", "one_key", "shared_keys"}
         /\ "account_exists" \in rule.passed => facts.exists = TRUE
         /\ "funded" \in rule.passed =>
              facts.balanceMotes # Null /\ facts.balanceMotes >= DustMotes
         /\ "one_key" \in rule.passed => facts.associatedKeyCount = 1
         /\ "shared_keys" \in rule.passed =>
              /\ facts.associatedKeyCount # Null /\ facts.associatedKeyCount > 1
              /\ facts.keyManagementThreshold # Null /\ facts.keyManagementThreshold > 1
         /\ rule.aspect = "CLEAR" =>
              /\ "account_exists" \in rule.passed /\ "funded" \in rule.passed
              /\ facts.associatedKeyCount # Null /\ facts.keyManagementThreshold # Null
              /\ facts.associatedKeyCount > 1 => facts.keyManagementThreshold > 1
<1> DEFINE s == ExtractAccountSignals(facts)
           shared == s.associatedKeyCount # Null /\ s.associatedKeyCount > 1
                       /\ s.keyManagementThreshold # Null
           weak == shared /\ s.keyManagementThreshold <= 1
           dust == s.balanceMotes # Null /\ s.balanceMotes < DustMotes
           absent == s.exists = FALSE
           present == s.exists = TRUE
           funded == s.balanceMotes # Null /\ ~dust
           flags == Flag(absent, "account_not_found", "danger")
                    \cup Flag(weak, "weak_key_management", "caution")
                    \cup Flag(dust, "dust_balance", "caution")
           notChecked == {k \in AccountMandatorySignals : s[k] = Null}
           passed == Label(present, "account_exists")
                     \cup Label(funded, "funded")
                     \cup Label(s.associatedKeyCount = 1, "one_key")
                     \cup Label(shared /\ ~weak, "shared_keys")
<1>1. rule = Result(flags, notChecked, passed)
  BY Zenon DEF ScoreAccount
<1>2. /\ s.exists = facts.exists /\ s.balanceMotes = facts.balanceMotes
      /\ s.associatedKeyCount = facts.associatedKeyCount
      /\ s.keyManagementThreshold = facts.keyManagementThreshold
  BY DEF ExtractAccountSignals, AccountMandatorySignals
<1>3. rule.passed = passed /\ rule.aspect = Aspect(flags, notChecked)
  BY <1>1 DEF Result
<1>4. /\ passed \subseteq {"account_exists", "funded", "one_key", "shared_keys"}
      /\ "account_exists" \in passed <=> present
      /\ "funded" \in passed <=> funded
      /\ "one_key" \in passed => s.associatedKeyCount = 1
      /\ "shared_keys" \in passed => shared /\ ~weak
  <2> HIDE DEF s, present, funded, shared, weak
  <2> QED
    BY DEF Label
<1>5. ASSUME rule.aspect = "CLEAR"
      PROVE  ~absent /\ ~weak /\ ~dust /\ \A k \in AccountMandatorySignals : s[k] # Null
  <2> HIDE DEF s, absent, weak, dust
  <2>1. flags = {} /\ notChecked = {}
    BY <1>3, <1>5 DEF Aspect
  <2> QED
    BY <2>1 DEF Flag
<1>6. ASSUME rule.aspect = "CLEAR"
      PROVE  /\ present /\ funded
             /\ s.associatedKeyCount # Null /\ s.keyManagementThreshold # Null
  <2>1. /\ s.exists # Null /\ s.balanceMotes # Null
        /\ s.associatedKeyCount # Null /\ s.keyManagementThreshold # Null
    BY <1>5, <1>6 DEF AccountMandatorySignals
  <2>2. ~absent /\ ~dust
    BY <1>5, <1>6
  <2>3. present
    BY <1>2, <2>1, <2>2, Zenon
  <2> QED
    BY <2>1, <2>2, <2>3
<1>7. DustMotes \in Nat
  BY TrustRulesAssumption
<1>8. funded => s.balanceMotes # Null /\ s.balanceMotes >= DustMotes
  BY <1>2, <1>7
<1>9. shared /\ ~weak => /\ s.associatedKeyCount # Null /\ s.associatedKeyCount > 1
                         /\ s.keyManagementThreshold # Null /\ s.keyManagementThreshold > 1
  BY <1>2
<1>10. ASSUME rule.aspect = "CLEAR", facts.associatedKeyCount > 1
       PROVE  facts.keyManagementThreshold > 1
  BY <1>2, <1>5, <1>6, <1>9, <1>10
<1> HIDE DEF s, flags, notChecked, passed, shared, weak, funded
<1> QED
  BY <1>2, <1>3, <1>4, <1>6, <1>8, <1>9, <1>10

\* The facts of a token, each with where it is from.
FactsSound(f) ==
  /\ DOMAIN f = {"mintBurnEnabled", "publicMintEntrypoint", "holderCount",
                 "topHolderPct", "contractAgeBlocks"}
  /\ f.mintBurnEnabled \in BOOLEAN \cup {Null}
  /\ f.publicMintEntrypoint \in BOOLEAN \cup {Null}
  /\ f.holderCount \in (Nat \ {0}) \cup {Null}
  /\ f.topHolderPct \in Nat \cup {Null}
  /\ f.contractAgeBlocks \in Int \cup {Null}
  /\ f.mintBurnEnabled = FALSE => \E c \in seen.enabled : c.flag = 0
  /\ f.publicMintEntrypoint = FALSE => \E c \in seen.enabled : c.mint = FALSE
  /\ f.holderCount # Null => f.holderCount = holders.count
  /\ f.topHolderPct # Null => f.topHolderPct = holders.top
  /\ f.contractAgeBlocks # Null =>
       /\ versions[1].height \in Nat
       /\ f.contractAgeBlocks + versions[1].height <= Height

LEMMA FactsAreSound ==
  ASSUME EvidenceInv, check.at = "token", TokenRead, NEW supplied \in BOOLEAN
  PROVE  FactsSound(TokenFacts(supplied))
<1> DEFINE control == IF check.control.read THEN check.control.value ELSE EmptySupplyControl
           other == check.indexer.package = "other"
           enabled == IF control.flag = Null THEN Null ELSE control.flag # 0
           count == IF other THEN Null ELSE HolderCount(check.indexer.holders)
           top == IF other THEN Null ELSE HolderPercentage(check.indexer.holders, supplied)
           age == IF other THEN Null ELSE ContractAge(check.latest, check.indexer.installBlock)
           f == TokenFacts(supplied)
<1>1. /\ DOMAIN f = {"mintBurnEnabled", "publicMintEntrypoint", "holderCount",
                     "topHolderPct", "contractAgeBlocks"}
      /\ f.mintBurnEnabled = enabled /\ f.publicMintEntrypoint = control.mint
      /\ f.holderCount = count /\ f.topHolderPct = top /\ f.contractAgeBlocks = age
  BY DEF TokenFacts
<1>2. /\ versions # <<>> /\ check.latest \in (0 .. Height) \cup {Null}
      /\ IndexerSound(check.indexer) /\ ControlSound(check.control)
  BY DEF EvidenceInv, CheckSound, Idle
<1>3. versions \in Seq(Version) /\ holders \in Holdings
  BY <1>2 DEF EvidenceInv, SubjectSound
<1>4. versions[1].height \in 0 .. Height
  <2>1. 1 \in DOMAIN versions /\ versions[1] \in Version
    BY <1>2, <1>3
  <2> QED
    BY <2>1 DEF Version
<1>5. /\ check.indexer.holders \in {holders, Null}
      /\ check.indexer.installBlock \in {versions[1].height, Null}
  BY <1>2 DEF TokenRead, IndexerSound, Unread
<1>6. holders.count \in Nat /\ holders.top \in Nat
  BY <1>3, TrustEvidenceAssumption
<1>7. SupplySound(control)
  BY <1>2 DEF ControlSound, SupplySound, Unread
<1>8. ASSUME control # EmptySupplyControl
      PROVE  \E c \in seen.enabled :
               /\ c.flag \in {0, 1, Null} /\ c.mint \in BOOLEAN \cup {Null}
               /\ control.flag \in {c.flag, Null} /\ control.mint = c.mint
  BY <1>7, <1>8, TrustEvidenceAssumption DEF SupplySound
<1>9. EmptySupplyControl.flag = Null /\ EmptySupplyControl.mint = Null
  BY DEF EmptySupplyControl
<1> HIDE DEF control, other, f
<1>10. Null \notin Int /\ Null # TRUE /\ Null # FALSE
  BY TrustRulesAssumption
<1>11. enabled \in BOOLEAN \cup {Null} /\ (enabled = FALSE => \E c \in seen.enabled : c.flag = 0)
  <2>1. CASE control.flag = Null
    BY <1>10, <2>1
  <2>2. CASE control.flag # Null
    <3>1. PICK c \in seen.enabled : control.flag = c.flag /\ c.flag \in {0, 1, Null}
      BY <1>8, <1>9, <2>2
    <3>2. enabled = (control.flag # 0)
      BY <2>2
    <3>3. enabled \in BOOLEAN /\ (enabled = FALSE => control.flag = 0)
      BY <3>2, Zenon
    <3> HIDE DEF enabled
    <3> QED
      BY <3>1, <3>3
  <2> QED
    BY <2>1, <2>2
<1>12. /\ control.mint \in BOOLEAN \cup {Null}
       /\ control.mint = FALSE => \E c \in seen.enabled : c.mint = FALSE
  <2>1. CASE control = EmptySupplyControl
    BY <1>9, <1>10, <2>1, Zenon
  <2>2. CASE control # EmptySupplyControl
    <3>1. PICK c \in seen.enabled : c.mint \in BOOLEAN \cup {Null} /\ control.mint = c.mint
      BY <1>8, <2>2
    <3> QED
      BY <3>1, Zenon
  <2> QED
    BY <2>1, <2>2
<1>13. /\ count \in (Nat \ {0}) \cup {Null}
       /\ count # Null => count = holders.count
  BY <1>5, <1>6 DEF HolderCount
<1>14. /\ top \in Nat \cup {Null}
       /\ top # Null => top = holders.top
  BY <1>5, <1>6 DEF HolderPercentage
<1>15. /\ age \in Int \cup {Null}
       /\ age # Null => versions[1].height \in Nat /\ age + versions[1].height <= Height
  <2>1. CASE age # Null
    <3>1. /\ check.latest # Null /\ check.indexer.installBlock # Null
          /\ age = check.latest - check.indexer.installBlock
      BY <2>1 DEF ContractAge
    <3>2. check.latest \in 0 .. Height /\ check.indexer.installBlock = versions[1].height
      BY <1>2, <1>5, <3>1
    <3> HIDE DEF age
    <3> QED
      BY <1>4, <3>1, <3>2, TrustEvidenceAssumption
  <2> QED
    BY <2>1
<1> HIDE DEF enabled, count, top, age
<1>16. /\ f.mintBurnEnabled \in BOOLEAN \cup {Null}
       /\ f.mintBurnEnabled = FALSE => \E c \in seen.enabled : c.flag = 0
  BY <1>1, <1>11, Zenon
<1>17. /\ f.publicMintEntrypoint \in BOOLEAN \cup {Null}
       /\ f.publicMintEntrypoint = FALSE => \E c \in seen.enabled : c.mint = FALSE
  BY <1>1, <1>12, Zenon
<1>18. /\ f.holderCount \in (Nat \ {0}) \cup {Null} /\ f.topHolderPct \in Nat \cup {Null}
       /\ f.contractAgeBlocks \in Int \cup {Null}
       /\ f.holderCount # Null => f.holderCount = holders.count
       /\ f.topHolderPct # Null => f.topHolderPct = holders.top
       /\ f.contractAgeBlocks # Null =>
            /\ versions[1].height \in Nat
            /\ f.contractAgeBlocks + versions[1].height <= Height
  BY <1>1, <1>13, <1>14, <1>15
<1>19. FactsSound(f)
  BY <1>1, <1>16, <1>17, <1>18, Zenon DEF FactsSound
<1> QED
  BY <1>19 DEF f

LEMMA ScoreTokenStep ==
  ASSUME EvidenceInv, ScoreToken
  PROVE  EvidenceInv'
<1>1. PICK supplied \in BOOLEAN : Score(ScoreSubject(ExtractSignals(TokenFacts(supplied))))
  BY DEF ScoreToken
<1> DEFINE f == TokenFacts(supplied)
           rule == ScoreSubject(ExtractSignals(f))
<1>2. check.at = "token" /\ TokenRead /\ UNCHANGED <<versions, holders, account, seen>>
  BY DEF ScoreToken
<1>3. FactsSound(f)
  BY <1>2, FactsAreSound
<1>4. check' = [at |-> "scored", rule |-> rule]
  BY <1>1 DEF Score
<1>5. SubjectSound /\ versions # <<>>
  BY <1>2 DEF EvidenceInv, CheckSound, Idle
<1> HIDE DEF f
<1>6. /\ rule.passed \subseteq {"mint_burn_disabled", "no_public_mint", "old_contract", "spread_holders"}
      /\ "mint_burn_disabled" \in rule.passed => f.mintBurnEnabled = FALSE
      /\ "no_public_mint" \in rule.passed => f.publicMintEntrypoint = FALSE
      /\ "old_contract" \in rule.passed =>
           f.contractAgeBlocks # Null /\ f.contractAgeBlocks >= YoungBlocks
      /\ "spread_holders" \in rule.passed =>
           /\ f.holderCount # Null /\ f.holderCount > 1
           /\ f.topHolderPct # Null /\ f.topHolderPct < 95
      /\ rule.aspect = "CLEAR" =>
           /\ f.mintBurnEnabled = FALSE \/ f.publicMintEntrypoint = FALSE
           /\ "old_contract" \in rule.passed /\ "spread_holders" \in rule.passed
  BY <1>3, TokenScored DEF FactsSound
<1> HIDE DEF rule
<1>7. "old_contract" \in rule.passed => Height >= versions[1].height + YoungBlocks
  <2> SUFFICES ASSUME "old_contract" \in rule.passed
               PROVE  Height >= versions[1].height + YoungBlocks
    OBVIOUS
  <2>1. /\ f.contractAgeBlocks \in Int /\ f.contractAgeBlocks >= YoungBlocks
        /\ versions[1].height \in Nat /\ f.contractAgeBlocks + versions[1].height <= Height
    BY <1>3, <1>6 DEF FactsSound
  <2> QED
    BY <2>1, TrustRulesAssumption, TrustEvidenceAssumption
<1>8. \A label : Passed(label)' <=> label \in rule.passed
  BY <1>4 DEF Passed
<1>9. account = Null
  BY <1>5 DEF SubjectSound
<1>10. PassedHeld'
  BY <1>2, <1>3, <1>6, <1>7, <1>8 DEF PassedHeld, FactsSound, Passed
<1>11. ClearJustified'
  BY <1>2, <1>3, <1>4, <1>6, <1>8, <1>9 DEF ClearJustified, FactsSound, Passed
<1>12. SubjectSound'
  BY <1>2, <1>4, <1>5 DEF SubjectSound, Idle
<1>13. CheckSound' /\ SeenSound'
  BY <1>4 DEF CheckSound, SeenSound
<1> QED
  BY <1>10, <1>11, <1>12, <1>13 DEF EvidenceInv

LEMMA ScoreBalanceStep ==
  ASSUME EvidenceInv, ScoreBalance
  PROVE  EvidenceInv'
<1>1. PICK answer \in {account.balance, Null} :
        Score(ScoreAccount(ExtractAccountSignals(
          [ exists |-> check.entity.exists, balanceMotes |-> Balance(answer),
            associatedKeyCount |-> check.entity.keys,
            deploymentThreshold |-> check.entity.threshold,
            keyManagementThreshold |-> check.entity.threshold ])))
  BY DEF ScoreBalance
<1> DEFINE e == check.entity
           f == [ exists |-> check.entity.exists, balanceMotes |-> Balance(answer),
                  associatedKeyCount |-> check.entity.keys,
                  deploymentThreshold |-> check.entity.threshold,
                  keyManagementThreshold |-> check.entity.threshold ]
           rule == ScoreAccount(ExtractAccountSignals(f))
<1>2. check.at = "account" /\ UNCHANGED <<versions, holders, account, seen>>
  BY DEF ScoreBalance
<1>3. /\ EntitySound(e) /\ account \in Accounts /\ versions = <<>> /\ SubjectSound
      /\ account \in seen.accounts /\ seen.accounts \subseteq Accounts
  BY <1>2 DEF EvidenceInv, CheckSound, Idle, SeenSound
<1>4. check' = [at |-> "scored", rule |-> rule]
  BY <1>1 DEF Score
<1>5. /\ DOMAIN f = AccountMandatorySignals
      /\ f.exists = e.exists /\ f.balanceMotes = Balance(answer)
      /\ f.associatedKeyCount = e.keys /\ f.keyManagementThreshold = e.threshold
  BY DEF AccountMandatorySignals
<1>6. account.balance \in Nat /\ account # Null
  BY <1>3, TrustEvidenceAssumption
<1>7. DustMotes \in Nat \ {0} /\ Null \notin Int /\ TRUE # FALSE /\ Null # TRUE /\ Null # FALSE
  BY TrustRulesAssumption
<1>8. /\ Balance(answer) \in Nat \cup {Null}
      /\ Balance(answer) # Null /\ Balance(answer) >= DustMotes =>
           account.exists /\ Balance(answer) = account.balance
  <2>1. e.exists \in {TRUE, FALSE, Null} /\ (e.exists = TRUE => account.exists)
    BY <1>3 DEF EntitySound
  <2>2. CASE e.exists = FALSE
    <3>1. Balance(answer) = 0
      BY <2>2, Zenon DEF Balance
    <3> QED
      BY <1>7, <3>1
  <2>3. CASE e.exists = Null
    <3>1. Balance(answer) = Null
      BY <1>7, <2>3, Zenon DEF Balance
    <3> QED
      BY <3>1
  <2>4. CASE e.exists = TRUE
    <3>1. Balance(answer) = answer
      BY <1>7, <2>4, Zenon DEF Balance
    <3>2. account.exists
      BY <2>1, <2>4, Zenon
    <3> HIDE DEF e
    <3> QED
      BY <1>1, <1>6, <3>1, <3>2
  <2> QED
    BY <2>1, <2>2, <2>3, <2>4, Zenon
<1>9. \/ e.keys = Null /\ e.threshold = Null
      \/ \E a \in seen.accounts : /\ a.exists /\ a.keys \in Nat /\ a.threshold \in Nat
                                  /\ e.keys = a.keys /\ e.threshold = a.threshold
  BY <1>3, TrustEvidenceAssumption DEF EntitySound
<1>10. e.keys \in Nat \cup {Null} /\ e.threshold \in Nat \cup {Null}
  BY <1>9
<1>11. e.exists \in {TRUE, FALSE, Null} /\ (e.exists = TRUE => account.exists)
  BY <1>3 DEF EntitySound
<1> HIDE DEF e, f
<1>12. /\ f.exists \in {TRUE, FALSE, Null} /\ f.balanceMotes \in Nat \cup {Null}
       /\ f.associatedKeyCount \in Nat \cup {Null} /\ f.keyManagementThreshold \in Nat \cup {Null}
  <2>1. f.exists \in {TRUE, FALSE, Null}
    BY <1>5, <1>11, Zenon
  <2> QED
    BY <1>5, <1>8, <1>10, <2>1
<1>13. /\ rule.passed \subseteq {"account_exists", "funded", "one_key", "shared_keys"}
       /\ "account_exists" \in rule.passed => f.exists = TRUE
       /\ "funded" \in rule.passed =>
            f.balanceMotes # Null /\ f.balanceMotes >= DustMotes
       /\ "one_key" \in rule.passed => f.associatedKeyCount = 1
       /\ "shared_keys" \in rule.passed =>
            /\ f.associatedKeyCount # Null /\ f.associatedKeyCount > 1
            /\ f.keyManagementThreshold # Null /\ f.keyManagementThreshold > 1
       /\ rule.aspect = "CLEAR" =>
            /\ "account_exists" \in rule.passed /\ "funded" \in rule.passed
            /\ f.associatedKeyCount # Null /\ f.keyManagementThreshold # Null
            /\ f.associatedKeyCount > 1 => f.keyManagementThreshold > 1
  BY <1>5, <1>12, AccountScored
<1> HIDE DEF rule
<1>14. "account_exists" \in rule.passed => account.exists
  BY <1>5, <1>11, <1>13, Zenon
<1>15. "funded" \in rule.passed => account.exists /\ account.balance >= DustMotes
  BY <1>5, <1>8, <1>13
<1>16. "one_key" \in rule.passed => \E a \in seen.accounts : a.exists /\ a.keys = 1
  BY <1>5, <1>7, <1>9, <1>13
<1>17. "shared_keys" \in rule.passed =>
         \E a \in seen.accounts : a.exists /\ a.keys > 1 /\ a.threshold > 1
  BY <1>5, <1>9, <1>13
<1>18. rule.aspect = "CLEAR" =>
         \E a \in seen.accounts : a.exists /\ (a.keys > 1 => a.threshold > 1)
  BY <1>5, <1>9, <1>13
<1>19. \A label : Passed(label)' <=> label \in rule.passed
  BY <1>4 DEF Passed
<1>20. PassedHeld'
  <2>1. {"mint_burn_disabled", "no_public_mint", "old_contract", "spread_holders"}
          \cap rule.passed = {}
    BY <1>13
  <2>2. seen' = seen
    BY <1>2
  <2> QED
    BY <1>3, <1>14, <1>15, <1>16, <1>17, <1>19, <2>1, <2>2 DEF PassedHeld, Passed
<1>21. ClearJustified'
  BY <1>2, <1>3, <1>4, <1>6, <1>13, <1>15, <1>18, <1>19 DEF ClearJustified, Passed
<1>22. SubjectSound'
  BY <1>2, <1>3, <1>4 DEF SubjectSound, Idle
<1>23. CheckSound' /\ SeenSound'
  BY <1>4 DEF CheckSound, SeenSound
<1> QED
  BY <1>20, <1>21, <1>22, <1>23 DEF EvidenceInv

\* What a step sees that changes the subject, or leaves it.
LEMMA SeenGrows ==
  ASSUME seen' = Seen, UNCHANGED check, check.at \in {"token", "account"}, SeenSound
  PROVE  /\ seen.enabled \subseteq seen'.enabled /\ Now'.enabled \subseteq seen'.enabled
         /\ seen.accounts \subseteq seen'.accounts /\ account' \in seen'.accounts
BY DEF Seen, Now

\* Contracts are added at the end, and none is removed.
LEMMA KnownGrows ==
  ASSUME versions \in Seq(Version), versions' \in Seq(Version),
         Len(versions) <= Len(versions'),
         \A i \in DOMAIN versions : versions'[i].contract = versions[i].contract,
         seen.enabled \subseteq seen'.enabled
  PROVE  Known \subseteq Known'
<1>1. DOMAIN versions = 1 .. Len(versions) /\ DOMAIN versions' = 1 .. Len(versions')
      /\ Len(versions) \in Nat /\ Len(versions') \in Nat
  BY LenProperties
<1> QED
  BY <1>1 DEF Known

\* A token check keeps its facts while versions are installed and disabled.
LEMMA TokenKept ==
  ASSUME EvidenceInv, check.at \in {"idle", "token"}, seen' = Seen, UNCHANGED <<check, holders, account>>,
         versions # <<>>,
         versions' \in Seq(Version), versions' # <<>>, Len(versions) <= Len(versions'),
         \A i \in DOMAIN versions : /\ versions'[i].contract = versions[i].contract
                                    /\ versions'[i].height = versions[i].height,
         \A i \in DOMAIN versions' \ DOMAIN versions : versions'[i].height = Height
  PROVE  EvidenceInv'
<1>1. versions \in Seq(Version) /\ account = Null /\ holders \in Holdings
      /\ \A i \in DOMAIN versions : versions[i].height >= versions[1].height
  BY DEF EvidenceInv, SubjectSound
<1>2. 1 \in DOMAIN versions /\ versions[1] \in Version
  BY <1>1
<1>3. versions[1].height \in 0 .. Height /\ versions'[1].height = versions[1].height
  BY <1>2 DEF Version
<1>4. SubjectSound'
  <2>1. ASSUME NEW i \in DOMAIN versions'
        PROVE  versions'[i].height >= versions'[1].height
    BY <1>1, <1>3, <2>1, TrustEvidenceAssumption
  <2>2. holders' \in Holdings /\ account' = Null
    BY <1>1
  <2> QED
    BY <2>1, <2>2 DEF SubjectSound
<1>5. ~Passed("old_contract") /\ (check'.at # "scored")
  BY DEF Passed
<1>6. PassedHeld' /\ ClearJustified'
  BY <1>5 DEF PassedHeld, ClearJustified, Passed
<1>7. CASE check = Idle
  <2>1. check' = Idle
    BY <1>7
  <2>2. CheckSound' /\ SeenSound'
    BY <2>1 DEF CheckSound, SeenSound, Idle
  <2> QED
    BY <1>4, <1>6, <2>2 DEF EvidenceInv
<1>8. CASE check # Idle
  <2>1. /\ DOMAIN check = {"at", "credential", "latest", "indexer", "keys", "control"}
        /\ check.at = "token" /\ versions # <<>>
        /\ check.latest \in (0 .. Height) \cup {Null}
        /\ IndexerSound(check.indexer) /\ KeysSound(check.keys) /\ ControlSound(check.control)
    BY <1>8 DEF EvidenceInv, CheckSound
  <2>2. SeenSound
    BY DEF EvidenceInv
  <2>3. /\ seen.enabled \subseteq seen'.enabled /\ Now'.enabled \subseteq seen'.enabled
        /\ seen.accounts \subseteq seen'.accounts /\ account' \in seen'.accounts
    BY <2>1, <2>2, SeenGrows
  <2>4. Known \subseteq Known'
    BY <1>1, <2>3, KnownGrows
  <2>5. IndexerSound(check.indexer)'
    BY <1>3, <2>1, <2>4 DEF IndexerSound
  <2>6. KeysSound(check.keys)'
    BY <2>1, <2>4 DEF KeysSound
  <2>7. ControlSound(check.control)'
    BY <2>1, <2>3 DEF ControlSound, SupplySound
  <2>8. CheckSound'
    BY <2>1, <2>5, <2>6, <2>7 DEF CheckSound
  <2>9. SeenSound'
    BY <2>1, <2>3 DEF SeenSound
  <2> QED
    BY <1>4, <1>6, <2>8, <2>9 DEF EvidenceInv
<1> QED
  BY <1>7, <1>8

LEMMA TokenChangesStep ==
  ASSUME EvidenceInv, TokenChanges(Install) \/ TokenChanges(Disable)
  PROVE  EvidenceInv'
<1>1. check.at \in {"idle", "token"} /\ seen' = Seen /\ UNCHANGED <<check, holders, account>>
  BY DEF TokenChanges, Install, Disable
<1>2. versions \in Seq(Version) /\ Height \in Nat
  BY TrustEvidenceAssumption DEF EvidenceInv, SubjectSound
<1>3. DOMAIN versions = 1 .. Len(versions) /\ Len(versions) \in Nat
  BY <1>2, LenProperties
<1>4. CASE Install
  <2>1. PICK i \in Installs :
          versions' = Append(versions, [contract |-> i, enabled |-> TRUE, height |-> Height])
    BY <1>4 DEF Install
  <2> DEFINE v == [contract |-> i, enabled |-> TRUE, height |-> Height]
  <2>2. v \in Version /\ v.height = Height
    BY <1>2 DEF Version
  <2> HIDE DEF v
  <2>3. versions' = Append(versions, v)
    BY <2>1 DEF v
  <2>4. /\ versions' \in Seq(Version) /\ Len(versions') = Len(versions) + 1
        /\ \A j \in 1 .. Len(versions) : versions'[j] = versions[j]
        /\ versions'[Len(versions) + 1] = v
    BY <1>2, <2>2, <2>3, AppendProperties
  <2>5. DOMAIN versions' = 1 .. Len(versions) + 1
    BY <1>3, <2>4, LenProperties
  <2>6. versions # <<>> /\ versions' # <<>>
    BY <1>4, <1>3, <2>4 DEF Install
  <2>7. \A j \in DOMAIN versions' \ DOMAIN versions : versions'[j].height = Height
    BY <1>3, <2>2, <2>4, <2>5
  <2> QED
    BY <1>1, <1>3, <2>4, <2>6, <2>7, TokenKept
<1>5. CASE Disable
  <2>1. PICK i \in Enabled : versions' = [versions EXCEPT ![i].enabled = FALSE]
    BY <1>5 DEF Disable
  <2>2. i \in 1 .. Len(versions) /\ versions[i] \in Version
    BY <1>2, <1>3, <2>1 DEF Enabled
  <2> DEFINE v == [versions[i] EXCEPT !.enabled = FALSE]
  <2>3. v \in Version /\ v.contract = versions[i].contract /\ v.height = versions[i].height
    BY <2>2 DEF Version
  <2>4. versions' = [versions EXCEPT ![i] = v]
    BY <2>1
  <2> HIDE DEF v
  <2>5. versions' \in Seq(Version) /\ Len(versions') = Len(versions)
        /\ \A j \in 1 .. Len(versions) : versions'[j] = IF j = i THEN v ELSE versions[j]
    BY <1>2, <2>2, <2>3, <2>4, ExceptSeq
  <2>6. DOMAIN versions' = DOMAIN versions
    BY <2>4
  <2>7. versions # <<>> /\ versions' # <<>>
    BY <1>3, <2>2, <2>5
  <2>8. \A j \in DOMAIN versions : /\ versions'[j].contract = versions[j].contract
                                   /\ versions'[j].height = versions[j].height
    BY <1>3, <2>3, <2>5
  <2> QED
    BY <1>1, <1>3, <2>5, <2>6, <2>7, <2>8, TokenKept
<1> QED
  BY <1>4, <1>5 DEF TokenChanges

LEMMA AccountChangesStep ==
  ASSUME EvidenceInv, AccountChanges(ChangeAccount)
  PROVE  EvidenceInv'
<1>1. /\ check.at = "account" /\ seen' = Seen /\ UNCHANGED <<check, versions, holders>>
      /\ account' \in Accounts /\ (account.exists => account'.exists)
  BY DEF AccountChanges, ChangeAccount
<1>2. /\ account \in Accounts /\ versions = <<>> /\ EntitySound(check.entity)
      /\ SeenSound /\ seen.accounts \subseteq Accounts /\ SubjectSound
  BY <1>1 DEF EvidenceInv, CheckSound, Idle, SeenSound
<1>3. /\ seen.enabled \subseteq seen'.enabled /\ Now'.enabled \subseteq seen'.enabled
      /\ seen.accounts \subseteq seen'.accounts /\ account' \in seen'.accounts
  BY <1>1, <1>2, SeenGrows
<1>4. seen'.accounts \subseteq Accounts
  BY <1>1, <1>2 DEF Seen, Now
<1>5. EntitySound(check.entity)'
  <2> DEFINE e == check.entity
  <2>1. /\ e.exists \in {TRUE, FALSE, Null} /\ (e.exists = TRUE => account.exists)
        /\ \/ e.keys = Null /\ e.threshold = Null
           \/ \E a \in seen.accounts : /\ a.exists /\ e.keys = a.keys /\ e.threshold = a.threshold
    BY <1>2 DEF EntitySound
  <2>2. check'.entity = e
    BY <1>1
  <2> HIDE DEF e
  <2>3. e.exists = TRUE => account'.exists
    BY <1>1, <2>1, Zenon
  <2>4. \/ e.keys = Null /\ e.threshold = Null
        \/ \E a \in seen'.accounts : /\ a.exists /\ e.keys = a.keys /\ e.threshold = a.threshold
    BY <1>3, <2>1, Zenon
  <2> QED
    BY <2>1, <2>2, <2>3, <2>4, Zenon DEF EntitySound
<1>6. check'.at = "account" /\ versions' = <<>>
  BY <1>1, <1>2
<1>7. PassedHeld' /\ ClearJustified'
  BY <1>6 DEF PassedHeld, ClearJustified, Passed
<1>8. SubjectSound'
  BY <1>1, <1>2 DEF SubjectSound
<1>9. SeenSound'
  BY <1>3, <1>4 DEF SeenSound
<1>10. CheckSound'
  BY <1>1, <1>5, <1>6 DEF CheckSound
<1> QED
  BY <1>7, <1>8, <1>9, <1>10 DEF EvidenceInv

\* While a token is read, its subject, what was seen and the rows stay as they are.
LEMMA ReadingKept ==
  ASSUME EvidenceInv, check.at = "token", UNCHANGED <<versions, holders, account, seen>>,
         DOMAIN check' = DOMAIN check, check'.at = "token", check'.latest = check.latest,
         IndexerSound(check'.indexer), KeysSound(check'.keys), ControlSound(check'.control)
  PROVE  EvidenceInv'
<1>1. /\ DOMAIN check = {"at", "credential", "latest", "indexer", "keys", "control"}
      /\ versions # <<>> /\ check.latest \in (0 .. Height) \cup {Null}
  BY DEF EvidenceInv, CheckSound, Idle
<1>2. SubjectSound' /\ SeenSound'
  BY <1>1 DEF EvidenceInv, SubjectSound, SeenSound, Now, Enabled
<1>3. PassedHeld' /\ ClearJustified'
  BY DEF PassedHeld, ClearJustified, Passed
<1>4. IndexerSound(check.indexer)' /\ KeysSound(check.keys)' /\ ControlSound(check.control)'
  BY DEF IndexerSound, KeysSound, ControlSound, SupplySound, Known
<1>5. CheckSound'
  BY <1>1, <1>4 DEF CheckSound
<1> QED
  BY <1>2, <1>3, <1>5 DEF EvidenceInv

\* What is known of a token that is read.
LEMMA TokenAtHand ==
  ASSUME EvidenceInv, check.at = "token"
  PROVE  /\ DOMAIN check = {"at", "credential", "latest", "indexer", "keys", "control"}
         /\ IndexerSound(check.indexer) /\ KeysSound(check.keys) /\ ControlSound(check.control)
         /\ versions \in Seq(Version) /\ versions # <<>>
         /\ DOMAIN versions = 1 .. Len(versions) /\ Len(versions) \in Nat \ {0}
         /\ \A i \in DOMAIN versions : versions[i].height >= versions[1].height
                                       /\ versions[i].height \in Nat
         /\ Enabled \subseteq Known /\ Known \subseteq 1 .. Len(versions)
<1>1. /\ DOMAIN check = {"at", "credential", "latest", "indexer", "keys", "control"}
      /\ IndexerSound(check.indexer) /\ KeysSound(check.keys) /\ ControlSound(check.control)
      /\ versions # <<>> /\ Now.enabled \subseteq seen.enabled
  BY DEF EvidenceInv, CheckSound, Idle, SeenSound
<1>2. versions \in Seq(Version)
      /\ \A i \in DOMAIN versions : versions[i].height >= versions[1].height
  BY <1>1 DEF EvidenceInv, SubjectSound
<1>3. DOMAIN versions = 1 .. Len(versions) /\ Len(versions) \in Nat \ {0}
  BY <1>1, <1>2, LenProperties, EmptySeq
<1>4. \A i \in DOMAIN versions : versions[i].height \in Nat
  <2>1. \A i \in DOMAIN versions : versions[i] \in Version
    BY <1>2, <1>3, ElementOfSeq
  <2> QED
    BY <2>1, TrustEvidenceAssumption DEF Version
<1>5. Enabled \subseteq Known /\ Known \subseteq 1 .. Len(versions)
  BY <1>1, <1>3 DEF Now, Enabled, Known
<1> QED
  BY <1>1, <1>2, <1>3, <1>4, <1>5

LEMMA ReadIndexerStep ==
  ASSUME EvidenceInv, ReadIndexer
  PROVE  EvidenceInv'
<1>1. check.at = "token" /\ UNCHANGED <<versions, holders, account, seen>>
  BY DEF ReadIndexer
<1>2. PICK package \in {"cep18", "other", Null}, found \in {holders, Null}, list \in {versions, <<>>} :
        check' = [check EXCEPT !.indexer =
                    [ read |-> TRUE, package |-> package, holders |-> found,
                      installBlock |-> InstallBlock(list), active |-> Active(list) ]]
  BY DEF ReadIndexer
<1>3. /\ DOMAIN check = {"at", "credential", "latest", "indexer", "keys", "control"}
      /\ KeysSound(check.keys) /\ ControlSound(check.control)
      /\ versions \in Seq(Version) /\ versions # <<>>
      /\ DOMAIN versions = 1 .. Len(versions) /\ Len(versions) \in Nat \ {0}
      /\ \A i \in DOMAIN versions : versions[i].height >= versions[1].height
                                    /\ versions[i].height \in Nat
      /\ Enabled \subseteq Known /\ Known \subseteq 1 .. Len(versions)
  BY <1>1, TokenAtHand
<1>4. InstallBlock(list) \in {versions[1].height, Null}
  <2>1. CASE list = <<>>
    BY <2>1 DEF InstallBlock
  <2>2. CASE list = versions
    <3> DEFINE H == {v.height : v \in Range(versions)}
               least == versions[1].height
    <3>1. 1 \in DOMAIN versions
      BY <1>3
    <3>2. least \in H /\ \A h \in H : least <= h /\ h \in Nat
      BY <1>3, <3>1 DEF Range
    <3>3. InstallBlock(versions) = Min(H)
      BY <1>3 DEF InstallBlock
    <3> HIDE DEF H, least
    <3>4. \A h \in H : (\A k \in H : h <= k) => h = least
      BY <3>2
    <3>5. Min(H) = least
      BY <3>2, <3>4 DEF Min
    <3> QED
      BY <2>2, <3>3, <3>5 DEF least
  <2> QED
    BY <1>2, <2>1, <2>2
<1>5. Active(list) \subseteq Known
  <2> DEFINE on == {i \in DOMAIN list : list[i].enabled}
  <2>1. Active(list) = IF on = {} THEN {} ELSE {Max(on)}
    BY DEF Active
  <2>2. on \subseteq Enabled
    <3>1. CASE list = <<>>
      BY <3>1
    <3>2. CASE list = versions
      BY <3>2 DEF Enabled
    <3> QED
      BY <1>2, <3>1, <3>2
  <2>3. on # {} => Max(on) \in on
    <3>1. on \subseteq 1 .. Len(versions) /\ Len(versions) \in Nat
      BY <1>3, <2>2
    <3> HIDE DEF on
    <3> QED
      BY <3>1, GreatestIn
  <2> HIDE DEF on
  <2> QED
    BY <1>3, <2>1, <2>2, <2>3
<1> DEFINE new == [ read |-> TRUE, package |-> package, holders |-> found,
                    installBlock |-> InstallBlock(list), active |-> Active(list) ]
<1>6. IndexerSound(new)
  <2>1. new.read /\ new.holders \in {holders, Null} /\ new.installBlock \in {versions[1].height, Null}
    BY <1>4
  <2>2. new.active \subseteq Known
    BY <1>5
  <2> HIDE DEF new
  <2> QED
    BY <2>1, <2>2 DEF IndexerSound
<1>7. check' = [check EXCEPT !.indexer = new]
  BY <1>2
<1> HIDE DEF new
<1>8. /\ DOMAIN check' = DOMAIN check /\ check'.at = "token" /\ check'.latest = check.latest
      /\ check'.indexer = new /\ check'.keys = check.keys /\ check'.control = check.control
  BY <1>1, <1>3, <1>7
<1> QED
  BY <1>1, <1>3, <1>6, <1>8, ReadingKept

LEMMA ReadPackageStep ==
  ASSUME EvidenceInv, ReadPackage
  PROVE  EvidenceInv'
<1>1. check.at = "token" /\ UNCHANGED <<versions, holders, account, seen>>
  BY DEF ReadPackage
<1>2. /\ DOMAIN check = {"at", "credential", "latest", "indexer", "keys", "control"}
      /\ IndexerSound(check.indexer) /\ ControlSound(check.control)
      /\ Enabled \subseteq Known
  BY <1>1, TokenAtHand
<1>3. PICK left : /\ check' = [check EXCEPT !.keys = [read |-> TRUE, left |-> left]]
                  /\ \/ check.indexer.read /\ left = check.indexer.active
                     \/ left \in {Enabled, {}}
  BY DEF ReadPackage, ActiveLegacyContractKeys
<1>4. left \subseteq Known
  BY <1>2, <1>3 DEF IndexerSound, Unread
<1>5. KeysSound([read |-> TRUE, left |-> left])
  BY <1>4 DEF KeysSound
<1>6. /\ DOMAIN check' = DOMAIN check /\ check'.at = "token" /\ check'.latest = check.latest
      /\ check'.keys = [read |-> TRUE, left |-> left]
      /\ check'.indexer = check.indexer /\ check'.control = check.control
  BY <1>1, <1>2, <1>3
<1> QED
  BY <1>1, <1>2, <1>5, <1>6, ReadingKept

LEMMA ReadSupplyControlStep ==
  ASSUME EvidenceInv, ReadSupplyControl
  PROVE  EvidenceInv'
<1> DEFINE left == check.keys.left
           contract == versions[Max(left)].contract
<1>1. check.at = "token" /\ check.keys.read /\ UNCHANGED <<versions, holders, account, seen>>
  BY DEF ReadSupplyControl
<1>2. /\ DOMAIN check = {"at", "credential", "latest", "indexer", "keys", "control"}
      /\ IndexerSound(check.indexer) /\ KeysSound(check.keys) /\ ControlSound(check.control)
      /\ versions \in Seq(Version) /\ Len(versions) \in Nat \ {0}
      /\ DOMAIN versions = 1 .. Len(versions)
      /\ Known \subseteq 1 .. Len(versions)
  BY <1>1, TokenAtHand
<1>3. DOMAIN check.keys = {"read", "left"} /\ left \subseteq Known
  BY <1>1, <1>2 DEF KeysSound, Unread
<1>4. ASSUME NEW value, SupplySound(value),
             check' = [check EXCEPT !.control = [read |-> TRUE, value |-> value]]
      PROVE  EvidenceInv'
  <2>1. ControlSound([read |-> TRUE, value |-> value])
    BY <1>4 DEF ControlSound
  <2>2. /\ DOMAIN check' = DOMAIN check /\ check'.at = "token" /\ check'.latest = check.latest
        /\ check'.control = [read |-> TRUE, value |-> value]
        /\ check'.indexer = check.indexer /\ check'.keys = check.keys
    BY <1>1, <1>2, <1>4
  <2> QED
    BY <1>1, <1>2, <2>1, <2>2, ReadingKept
<1>5. CASE check' = [check EXCEPT !.control = [read |-> TRUE, value |-> EmptySupplyControl]]
  BY <1>4, <1>5 DEF SupplySound
<1>6. CASE check' = [check EXCEPT !.keys.left = left \ {Max(left)}]
  <2> DEFINE rest == left \ {Max(left)}
             keys == [check.keys EXCEPT !.left = rest]
  <2>1. rest \subseteq Known
    BY <1>3
  <2>2. check' = [check EXCEPT !.keys = keys]
    BY <1>6
  <2> HIDE DEF rest
  <2>3. DOMAIN keys = {"read", "left"} /\ keys.read /\ keys.left = rest
    BY <1>1, <1>3
  <2> HIDE DEF keys
  <2>4. KeysSound(keys)
    BY <2>1, <2>3 DEF KeysSound
  <2>5. /\ DOMAIN check' = DOMAIN check /\ check'.at = "token" /\ check'.latest = check.latest
        /\ check'.keys = keys
        /\ check'.indexer = check.indexer /\ check'.control = check.control
    BY <1>1, <1>2, <2>2
  <2> QED
    BY <1>1, <1>2, <2>4, <2>5, ReadingKept
<1>7. ASSUME left # {}, NEW answered \in BOOLEAN,
             check' = [check EXCEPT !.control =
               [ read |-> TRUE, value |-> [ flag |-> MintBurnFlag(contract, answered),
                                            mint |-> contract.mint ] ]]
      PROVE  EvidenceInv'
  <2> DEFINE value == [flag |-> MintBurnFlag(contract, answered), mint |-> contract.mint]
  <2>1. Max(left) \in left
    <3>1. left \subseteq 1 .. Len(versions) /\ Len(versions) \in Nat
      BY <1>2, <1>3
    <3> HIDE DEF left
    <3> QED
      BY <1>7, <3>1, GreatestIn
  <2>2. contract \in seen.enabled
    BY <1>3, <2>1 DEF Known
  <2>3. contract \in Installs
    <3>1. Max(left) \in 1 .. Len(versions)
      BY <1>2, <1>3, <2>1
    <3>2. versions[Max(left)] \in Version
      BY <1>2, <3>1, ElementOfSeq
    <3> QED
      BY <3>2 DEF Version
  <2> HIDE DEF contract
  <2>4. value.flag \in {contract.flag, Null} /\ value.mint = contract.mint
    BY DEF MintBurnFlag
  <2>5. check' = [check EXCEPT !.control = [read |-> TRUE, value |-> value]]
    BY <1>7 DEF contract
  <2> HIDE DEF value
  <2>6. SupplySound(value)
    BY <2>2, <2>3, <2>4 DEF SupplySound
  <2> QED
    BY <1>4, <2>5, <2>6
<1> QED
  BY <1>5, <1>6, <1>7 DEF ReadSupplyControl

LEMMA StartTokenStep ==
  ASSUME EvidenceInv, StartToken
  PROVE  EvidenceInv'
<1>1. /\ check = Idle /\ versions # <<>> /\ UNCHANGED <<versions, holders, account>>
      /\ seen' = Now
  BY DEF StartToken, chainVars
<1>2. PICK latest \in (0 .. Height) \cup {Null}, credential \in BOOLEAN :
        check' = [ at |-> "token", credential |-> credential, latest |-> latest,
                   indexer |-> Unread, keys |-> Unread, control |-> Unread ]
  BY DEF StartToken
<1>3. /\ DOMAIN check' = {"at", "credential", "latest", "indexer", "keys", "control"}
      /\ check'.at = "token" /\ check'.latest \in (0 .. Height) \cup {Null}
      /\ check'.indexer = Unread /\ check'.keys = Unread /\ check'.control = Unread
  BY <1>2
<1>4. SubjectSound'
  BY <1>1 DEF EvidenceInv, SubjectSound
<1>5. Now' = Now
  BY <1>1 DEF Now, Newest, Enabled
<1>6. SeenSound'
  BY <1>1, <1>3, <1>5 DEF SeenSound, Now
<1>7. CheckSound'
  BY <1>1, <1>3 DEF CheckSound, IndexerSound, KeysSound, ControlSound
<1>8. PassedHeld' /\ ClearJustified'
  BY <1>3 DEF PassedHeld, ClearJustified, Passed
<1> QED
  BY <1>4, <1>6, <1>7, <1>8 DEF EvidenceInv

LEMMA StartAccountStep ==
  ASSUME EvidenceInv, StartAccount
  PROVE  EvidenceInv'
<1>1. /\ check = Idle /\ account # Null /\ UNCHANGED <<versions, holders, account>>
      /\ seen' = Now
  BY DEF StartAccount, chainVars
<1>2. PICK answer \in {account, Null} \cup (IF account.exists THEN {Unread} ELSE {}) :
        check' = [at |-> "account", entity |-> Entity(answer)]
  BY DEF StartAccount
<1>3. versions = <<>> /\ account \in Accounts
  BY <1>1 DEF EvidenceInv, SubjectSound
<1>4. /\ account \in [exists : BOOLEAN, balance : Nat, keys : Nat, threshold : Nat]
      /\ account # Unread
  <2>1. account \in [exists : BOOLEAN, balance : Nat, keys : Nat, threshold : Nat]
    BY <1>3, TrustEvidenceAssumption
  <2>2. "balance" \in DOMAIN account /\ "balance" \notin DOMAIN Unread
    BY <2>1 DEF Unread
  <2> QED
    BY <2>1, <2>2
<1>5. seen'.accounts = {account} /\ seen'.enabled = Now.enabled
  BY <1>1 DEF Now
<1>6. EntitySound(Entity(answer))'
  <2> DEFINE e == Entity(answer)
  <2>1. NoAccount.exists = Null /\ NoAccount.keys = Null /\ NoAccount.threshold = Null
        /\ DOMAIN NoAccount = {"exists", "keys", "threshold"}
    BY DEF NoAccount
  <2>2. account.exists \in BOOLEAN
    BY <1>4
  <2>3. \/ e.exists = Null /\ e.keys = Null /\ e.threshold = Null
        \/ e.exists = TRUE /\ account.exists /\ e.keys = Null /\ e.threshold = Null
        \/ e.exists = TRUE /\ account.exists /\ e.keys = account.keys /\ e.threshold = account.threshold
        \/ e.exists = FALSE /\ e.keys = Null /\ e.threshold = Null
    <3>1. CASE answer = Null
      <4>1. e = NoAccount
        BY <3>1, Zenon DEF Entity
      <4> QED
        BY <2>1, <4>1, Zenon
    <3>2. CASE answer # Null /\ answer = Unread
      <4>1. e = [NoAccount EXCEPT !.exists = TRUE]
        BY <3>2, Zenon DEF Entity
      <4>2. account.exists
        BY <1>2, <1>4, <3>2
      <4>3. e.exists = TRUE /\ e.keys = Null /\ e.threshold = Null
        BY <2>1, <4>1
      <4> QED
        BY <4>2, <4>3, Zenon
    <3>3. CASE answer # Null /\ answer # Unread
      <4>1. answer = account
        BY <1>2, <3>3
      <4>2. CASE account.exists
        <5>1. e = [exists |-> TRUE, keys |-> account.keys, threshold |-> account.threshold]
          BY <3>3, <4>1, <4>2, Zenon DEF Entity
        <5>2. e.exists = TRUE /\ e.keys = account.keys /\ e.threshold = account.threshold
          BY <5>1
        <5> QED
          BY <4>2, <5>2, Zenon
      <4>3. CASE ~account.exists
        <5>1. e = [NoAccount EXCEPT !.exists = FALSE]
          BY <3>3, <4>1, <4>3, Zenon DEF Entity
        <5>2. e.exists = FALSE /\ e.keys = Null /\ e.threshold = Null
          BY <2>1, <5>1
        <5> QED
          BY <5>2, Zenon
      <4> QED
        BY <4>2, <4>3
    <3> QED
      BY <3>1, <3>2, <3>3
  <2> HIDE DEF e
  <2>4. e.exists \in {TRUE, FALSE, Null} /\ (e.exists = TRUE => account.exists)
    <3>1. Null # TRUE /\ TRUE # FALSE
      BY TrustRulesAssumption
    <3> QED
      BY <2>3, <3>1, Zenon
  <2>5. \/ e.keys = Null /\ e.threshold = Null
        \/ \E a \in seen'.accounts : a.exists /\ e.keys = a.keys /\ e.threshold = a.threshold
    <3>1. account \in seen'.accounts
      BY <1>5
    <3> QED
      BY <2>3, <3>1, Zenon
  <2>6. account' = account
    BY <1>1
  <2>7. (e.exists = TRUE => account'.exists)
    BY <2>4, <2>6, Zenon
  <2> QED
    BY <2>4, <2>5, <2>7, Zenon DEF EntitySound, e
<1>7. check'.at = "account" /\ check'.entity = Entity(answer)
  BY <1>2
<1>8. CheckSound'
  BY <1>1, <1>3, <1>6, <1>7, Zenon DEF CheckSound
<1>9. Now'.enabled = Now.enabled
  BY <1>1 DEF Now, Enabled
<1>10. SeenSound'
  BY <1>1, <1>3, <1>5, <1>7, <1>9 DEF SeenSound
<1>11. PassedHeld' /\ ClearJustified'
  BY <1>7 DEF PassedHeld, ClearJustified, Passed
<1>12. SubjectSound'
  BY <1>1, <1>3 DEF EvidenceInv, SubjectSound
<1> QED
  BY <1>8, <1>10, <1>11, <1>12 DEF EvidenceInv

LEMMA EvidenceStep == EvidenceInv /\ [Next]_vars => EvidenceInv'
<1> SUFFICES ASSUME EvidenceInv, [Next]_vars
             PROVE  EvidenceInv'
  OBVIOUS
<1>1. CASE UNCHANGED vars
  <2>1. UNCHANGED <<versions, holders, account, check, seen>>
    BY <1>1 DEF vars
  <2>2. SubjectSound' /\ SeenSound'
    BY <2>1 DEF EvidenceInv, SubjectSound, SeenSound, Now, Enabled
  <2>3. PassedHeld'
    BY <2>1, Zenon DEF EvidenceInv, PassedHeld, Passed
  <2>4. ClearJustified'
    BY <2>1, Zenon DEF EvidenceInv, ClearJustified, Passed
  <2>5. IndexerSound(check.indexer)' = IndexerSound(check.indexer)
        /\ KeysSound(check.keys)' = KeysSound(check.keys)
        /\ ControlSound(check.control)' = ControlSound(check.control)
        /\ EntitySound(check.entity)' = EntitySound(check.entity)
    BY <2>1 DEF IndexerSound, KeysSound, ControlSound, SupplySound, EntitySound, Known
  <2>6. CheckSound'
    BY <2>1, <2>5 DEF EvidenceInv, CheckSound
  <2> QED
    BY <2>2, <2>3, <2>4, <2>6 DEF EvidenceInv
<1> QED
  BY <1>1, TokenChangesStep, AccountChangesStep, StartTokenStep, ReadIndexerStep, ReadPackageStep,
     ReadSupplyControlStep, ScoreTokenStep, StartAccountStep, ScoreBalanceStep DEF Next

LEMMA EvidenceStart == SourcesInit => EvidenceInv
<1> SUFFICES ASSUME SourcesInit
             PROVE  EvidenceInv
  OBVIOUS
<1>1. check = Idle /\ check.at = "idle"
  BY DEF SourcesInit, Init, NoSubject, Idle
<1>2. SubjectSound
  <2>1. CASE NoSubject
    BY <1>1, <2>1 DEF NoSubject, SubjectSound
  <2>2. CASE Init /\ versions = <<>> /\ account \in Accounts
    BY <2>2 DEF SubjectSound
  <2>3. ASSUME NEW i \in Installs, NEW h \in 0 .. Height,
               versions = <<[contract |-> i, enabled |-> TRUE, height |-> h]>>,
               holders \in Holdings, account = Null
        PROVE  SubjectSound
    <3> DEFINE v == [contract |-> i, enabled |-> TRUE, height |-> h]
    <3>1. v \in Version /\ v.height = h /\ h \in Nat
      BY TrustEvidenceAssumption DEF Version
    <3>2. versions = <<v>>
      BY <2>3
    <3> HIDE DEF v
    <3>3. versions \in Seq(Version) /\ versions # <<>> /\ DOMAIN versions = {1} /\ versions[1] = v
      BY <3>1, <3>2
    <3> QED
      BY <2>3, <3>1, <3>3 DEF SubjectSound
  <2> QED
    BY <2>1, <2>2, <2>3 DEF SourcesInit, Init
<1> QED
  BY <1>1, <1>2 DEF EvidenceInv, SeenSound, CheckSound, PassedHeld, ClearJustified, Passed

\* Whatever fails and whatever the subject becomes while it is read, a row that
\* a report shows as passed held at some moment of the check.
THEOREM PassedAlwaysHeld == SourcesSpec => []PassedHeld
<1>1. ASSUME EvidenceInv,
             [SourcesNext]_<<vars, readinessVars, marketVars, probeVars, limitVars, followed>>
      PROVE  EvidenceInv'
  <2>1. [Next]_vars
    BY <1>1 DEF SourcesNext
  <2> QED
    BY <1>1, <2>1, EvidenceStep
<1>2. EvidenceInv => PassedHeld
  BY DEF EvidenceInv
<1> QED
  BY <1>1, <1>2, EvidenceStart, PTL DEF SourcesSpec

\* A report says CLEAR only of a subject of which nothing mandatory was unread,
\* and each check of which passed.
THEOREM ClearAlwaysJustified == SourcesSpec => []ClearJustified
<1>1. ASSUME EvidenceInv,
             [SourcesNext]_<<vars, readinessVars, marketVars, probeVars, limitVars, followed>>
      PROVE  EvidenceInv'
  <2>1. [Next]_vars
    BY <1>1 DEF SourcesNext
  <2> QED
    BY <1>1, <2>1, EvidenceStep
<1>2. EvidenceInv => ClearJustified
  BY DEF EvidenceInv
<1> QED
  BY <1>1, <1>2, EvidenceStart, PTL DEF SourcesSpec
=============================================================================
