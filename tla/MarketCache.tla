---------------------------- MODULE MarketCache ----------------------------
(***************************************************************************)
(* The pair list of CSPR.trade in the report API (liveEvidence.ts): who    *)
(* needs it shares one scan of its pages, tried twice within a deadline;   *)
(* its result is kept for a time, and so is the map of symbols made from   *)
(* it.  GET /resolve answers with the package of a symbol, the market      *)
(* evidence of a token with its pairs.                                     *)
(*                                                                         *)
(* A pair is its two tokens.  The market may change between two pages of a *)
(* scan, and a scan that outlives the deadline goes on without effect.     *)
(* The last two fields of a scan, readAt and seen, are history.            *)
(***************************************************************************)
EXTENDS Integers, FiniteSets

CONSTANTS
  Symbols, Packages,
  Pages,          \* the number of pages of the market
  Lookups,        \* the calls to GET /resolve that may be under way
  PairTtl,        \* SYMBOL_CACHE_TTL_MS
  Deadline,       \* SYMBOL_FETCH_DEADLINE_MS
  Attempts,       \* SYMBOL_FETCH_ATTEMPTS
  MaxTime         \* bound on the clock

ASSUME MarketAssumption ==
  /\ Pages \in Nat \ {0} /\ Attempts \in Nat \ {0}
  /\ PairTtl \in Nat /\ Deadline \in Nat /\ MaxTime \in Nat

VARIABLES
  marketClock,
  market,       \* the tokens each page of the source lists now
  scan,         \* the scan under way: [page, attempt, pairs, deadline, readAt] or None
  pairCache,    \* [at, pairs, readAt] or None
  symbolCache,  \* [at, symbols, readAt] or None
  lookups       \* each call to GET /resolve

marketVars == <<marketClock, market, scan, pairCache, symbolCache, lookups>>

None == [kind |-> "none"]
Tokens == [symbol : Symbols, package : Packages]
NoAnswer == [package |-> "none"]

-----------------------------------------------------------------------------
Lists(pairs, s) == {t.package : t \in {u \in pairs : u.symbol = s}}

(* Mutated form: the last token with a symbol wins.                         *)
AnyOfSymbol(pairs) ==
  [s \in {t.symbol : t \in pairs} |-> CHOOSE p \in Lists(pairs, s) : TRUE]

(* A symbol that two packages use is ambiguous: None. *)
BuildSymbolMap(pairs) ==
  [s \in {t.symbol : t \in pairs} |->
     IF Cardinality(Lists(pairs, s)) = 1
     THEN CHOOSE p \in Lists(pairs, s) : TRUE
     ELSE NoAnswer.package]

Fresh(cache) == cache # None /\ marketClock - cache.at <= PairTtl

(* What a call answers from a map of symbols. *)
Answer(c, s) ==
  [ at |-> "answered", symbol |-> s, readAt |-> c.readAt, pairs |-> c.pairs,
    package |-> IF s \in DOMAIN c.symbols THEN c.symbols[s] ELSE NoAnswer.package ]

NewScan == [page |-> 1, attempt |-> 1, pairs |-> {}, readAt |-> marketClock,
            deadline |-> marketClock + Deadline]

(* currentTradePairs, for a caller that cannot use the cache: it joins the  *)
(* scan or begins one.                                                      *)
JoinScan == scan' = IF scan = None THEN NewScan ELSE scan

SymbolsOf(c, now) ==
  [at |-> now, symbols |-> BuildSymbolMap(c.pairs), pairs |-> c.pairs, readAt |-> c.readAt]

-----------------------------------------------------------------------------
(* GET /resolve.  A map that cannot be used is made again from the pairs,   *)
(* at once when they are cached.  The map has the time of the call.         *)
ResolveTokenBySymbol(l, s) ==
  /\ lookups[l].at # "waiting"
  /\ \/ /\ Fresh(symbolCache)
        /\ lookups' = [lookups EXCEPT ![l] = Answer(symbolCache, s)]
        /\ UNCHANGED <<scan, symbolCache>>
     \/ /\ ~Fresh(symbolCache) /\ Fresh(pairCache)
        /\ symbolCache' = SymbolsOf(pairCache, marketClock)
        /\ lookups' = [lookups EXCEPT ![l] = Answer(symbolCache', s)]
        /\ UNCHANGED scan
     \/ /\ ~Fresh(symbolCache) /\ ~Fresh(pairCache)
        /\ JoinScan
        /\ lookups' = [lookups EXCEPT ![l] = [at |-> "waiting", symbol |-> s, now |-> marketClock]]
        /\ UNCHANGED symbolCache
  /\ UNCHANGED <<marketClock, market, pairCache>>

(* The market evidence of a token is read from the same pairs. *)
FetchMarketState ==
  /\ ~Fresh(pairCache) /\ JoinScan
  /\ UNCHANGED <<marketClock, market, pairCache, symbolCache, lookups>>

Waiting == {l \in Lookups : lookups[l].at = "waiting"}

(* A page of the scan.  The last one fills the cache, and the calls that    *)
(* wait for it are answered; the one that is answered last leaves its map.  *)
ReadPage ==
  /\ scan # None
  /\ LET pairs == scan.pairs \cup market[scan.page]
         readPairs == [at |-> marketClock, pairs |-> pairs, readAt |-> scan.readAt]
     IN IF scan.page < Pages /\ market[scan.page] # {}
        THEN /\ scan' = [scan EXCEPT !.page = @ + 1, !.pairs = pairs]
             /\ UNCHANGED <<pairCache, symbolCache, lookups>>
        ELSE IF pairs = {}
        THEN /\ scan' = None
             /\ lookups' = [l \in Lookups |-> IF l \in Waiting THEN [at |-> "failed"] ELSE lookups[l]]
             /\ UNCHANGED <<pairCache, symbolCache>>
        ELSE /\ scan' = None /\ pairCache' = readPairs
             /\ lookups' = [l \in Lookups |->
                  IF l \in Waiting
                  THEN Answer(SymbolsOf(readPairs, marketClock), lookups[l].symbol)
                  ELSE lookups[l]]
             /\ IF Waiting = {}
                THEN UNCHANGED symbolCache
                ELSE \E l \in Waiting : symbolCache' = SymbolsOf(readPairs, lookups[l].now)
  /\ UNCHANGED <<marketClock, market>>

(* The source refuses a page, or its page count is senseless or too large:  *)
(* the scan begins again, or fails everyone who waits for it.               *)
ScanFails ==
  /\ scan # None
  /\ IF scan.attempt < Attempts
     THEN /\ scan' = [NewScan EXCEPT !.attempt = scan.attempt + 1, !.deadline = scan.deadline]
          /\ UNCHANGED lookups
     ELSE /\ scan' = None
          /\ lookups' = [l \in Lookups |-> IF l \in Waiting THEN [at |-> "failed"] ELSE lookups[l]]
  /\ UNCHANGED <<marketClock, market, pairCache, symbolCache>>

(* withDeadline: whatever the scan still reads is dropped. *)
DeadlinePasses ==
  /\ scan # None /\ marketClock = scan.deadline
  /\ scan' = None
  /\ lookups' = [l \in Lookups |-> IF l \in Waiting THEN [at |-> "failed"] ELSE lookups[l]]
  /\ UNCHANGED <<marketClock, market, pairCache, symbolCache>>

\* A page lists finitely many pairs.
MarketChanges(page) ==
  /\ \E tokens \in SUBSET Tokens :
       IsFiniteSet(tokens) /\ market' = [market EXCEPT ![page] = tokens]
  /\ UNCHANGED <<marketClock, scan, pairCache, symbolCache, lookups>>

(* An answer is of the time it was given at. *)
MarketTick ==
  /\ marketClock < MaxTime
  /\ scan # None => marketClock < scan.deadline
  /\ marketClock' = marketClock + 1
  /\ lookups' = [l \in Lookups |-> IF l \in Waiting THEN lookups[l] ELSE [at |-> "idle"]]
  /\ UNCHANGED <<market, scan, pairCache, symbolCache>>

MarketInit ==
  /\ marketClock = 0 /\ market = [p \in 1 .. Pages |-> {}]
  /\ scan = None /\ pairCache = None /\ symbolCache = None
  /\ lookups = [l \in Lookups |-> [at |-> "idle"]]

MarketNext ==
  \/ \E l \in Lookups, s \in Symbols : ResolveTokenBySymbol(l, s)
  \/ FetchMarketState
  \/ ReadPage
  \/ ScanFails
  \/ DeadlinePasses
  \/ \E p \in 1 .. Pages : MarketChanges(p)
  \/ MarketTick

-----------------------------------------------------------------------------
(* A symbol is answered with a package only when no other token of the scan *)
(* behind the answer had that symbol, and that scan began at most two       *)
(* lifetimes and a deadline ago: the map is stamped when it is asked for,   *)
(* and the pairs it is made of may be as old as one lifetime then           *)
(* (liveEvidence.ts:155, :223, :320).                                       *)
SymbolJustified ==
  \A l \in Lookups :
    lookups[l].at = "answered" /\ lookups[l].package # NoAnswer.package =>
      /\ Lists(lookups[l].pairs, lookups[l].symbol) = {lookups[l].package}
      /\ marketClock - lookups[l].readAt <= 2 * PairTtl + Deadline
=============================================================================
