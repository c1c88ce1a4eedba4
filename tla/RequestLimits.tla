--------------------------- MODULE RequestLimits ---------------------------
(***************************************************************************)
(* The request limits of the report API (FixedWindowRateLimiter of         *)
(* securityLimits.ts, rateLimitMiddleware of app.ts): each limited route   *)
(* counts the requests of an address within a window, remembers a bounded  *)
(* number of addresses, and tells a refused one how long to wait.  Here is *)
(* one such route; served and told are history.                            *)
(***************************************************************************)
EXTENDS Integers, FiniteSetsExt

CONSTANTS
  Clients,        \* the addresses that call the route
  EnvLimits,      \* what the environment may hold as the limit
  DefaultLimit, LargestLimit,
  WindowLength,   \* windowMs, in ticks
  Second,         \* ticks of a second
  MaxKeys,        \* maxTrackedClients
  LastTick        \* bound on the clock

ASSUME LimitsAssumption ==
  /\ EnvLimits \subseteq Int /\ DefaultLimit \in 1 .. LargestLimit /\ LargestLimit \in Nat
  /\ {WindowLength, Second, MaxKeys} \subseteq Nat \ {0} /\ LastTick \in Nat

VARIABLES
  tick,
  limit,     \* requests per window, read when the process starts
  buckets,   \* [count, startedAt, place] of the addresses, place 1 the oldest
  served,    \* the admissions of an address within a window: [at, nth of its bucket]
  told       \* until when an address was told to wait, Never if it was not

limitVars == <<tick, limit, buckets, served, told>>

Never == -1

-----------------------------------------------------------------------------
EnvPositiveInteger(value) == IF value \in 1 .. LargestLimit THEN value ELSE DefaultLimit

Running(bucket) == tick - bucket.startedAt < WindowLength
RunningKeys == {d \in DOMAIN buckets : Running(buckets[d])}

(* The addresses that stay when a new one comes: those whose window is not  *)
(* over, and of them the newest that leave a place.                         *)
MakeRoom ==
  {d \in RunningKeys :
     Cardinality({e \in RunningKeys : buckets[e].place > buckets[d].place}) < MaxKeys - 1}

BucketsFor(c) ==
  IF c \in RunningKeys THEN buckets
  ELSE [d \in MakeRoom \cup {c} |->
          IF d = c THEN [count |-> 0, startedAt |-> tick, place |-> Cardinality(MakeRoom) + 1]
          ELSE [buckets[d] EXCEPT !.place = Cardinality({e \in MakeRoom : buckets[e].place <= @})]]

(* Mutated form: whole seconds that have passed for sure.                   *)
RetryAfterRoundedDown(bucket) ==
  Max({1, (bucket.startedAt + WindowLength - tick) \div Second})

RetryAfter(bucket) ==
  Max({1, (bucket.startedAt + WindowLength - tick + Second - 1) \div Second})

Admitted(bucket) == bucket.count < limit

(* Whose entry is gone although its window is not over. *)
Forgotten(after) == RunningKeys \ DOMAIN after

Consume(c) ==
  LET after == BucketsFor(c)
      remembered == [d \in Clients |-> IF d \in Forgotten(after) THEN {} ELSE served[d]]
      admission == [at |-> tick, nth |-> after[c].count + 1]
  IN /\ IF Admitted(after[c])
        THEN /\ buckets' = [after EXCEPT ![c].count = @ + 1]
             /\ served' = [remembered EXCEPT ![c] = @ \cup {admission}]
             /\ told' = [told EXCEPT ![c] = Never]
        ELSE /\ buckets' = after /\ served' = remembered
             /\ told' = [told EXCEPT ![c] = tick + Second * RetryAfter(after[c])]
     /\ UNCHANGED <<tick, limit>>

LimitTick ==
  /\ tick < LastTick
  /\ tick' = tick + 1
  /\ served' = [c \in Clients |-> {a \in served[c] : tick' - a.at < WindowLength}]
  /\ told' = [c \in Clients |-> IF tick' > told[c] THEN Never ELSE told[c]]
  /\ UNCHANGED <<limit, buckets>>

LimitsInit ==
  /\ tick = 0 /\ buckets = [c \in {} |-> 0]
  /\ \E value \in EnvLimits : limit = EnvPositiveInteger(value)
  /\ served = [c \in Clients |-> {}]
  /\ told = [c \in Clients |-> Never]

LimitsNext == LimitTick \/ \E c \in Clients : Consume(c)

-----------------------------------------------------------------------------
(* An address that is not forgotten gets less than two limits within any    *)
(* time of a window's length, wherever the windows begin; and one that      *)
(* waits as long as it was told is admitted then, although the time is told *)
(* in seconds (securityLimits.ts:27, :42).                                  *)
RateKept ==
  \A c \in Clients :
    /\ Cardinality(served[c]) <= 2 * limit - 1
    /\ told[c] # Never /\ tick >= told[c] =>
         (c \in RunningKeys => Admitted(buckets[c]))
=============================================================================
