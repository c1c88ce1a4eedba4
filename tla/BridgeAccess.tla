---------------------------- MODULE BridgeAccess ----------------------------
(***************************************************************************)
(* Who may call which tool of the HTTP bridge, and how many assessments    *)
(* the public gets at the operator's expense (publicAccess.ts and the      *)
(* middleware of app.ts in apps/mcp-server).                               *)
(***************************************************************************)
EXTENDS Integers, Sequences, SequencesExt, Functions

CONSTANTS
  Clients,              \* addresses of callers
  Options,              \* configurations to start from, before validation
  WindowLength, RequestsPerWindow, DailyLimit, MaxTrackedClients,
  DayLength,            \* clock ticks in a UTC day
  MaxClock              \* bound: the last tick

ASSUME BridgeAssumption ==
  /\ {WindowLength, RequestsPerWindow, DailyLimit, MaxTrackedClients} \subseteq Nat \ {0}
  /\ DayLength \in Nat \ {0} /\ MaxClock \in Nat

VARIABLES
  clock,
  options,    \* of the bridge: set when it starts
  limiter     \* PublicAssessmentLimiter: [day, count, clients]

bridgeVars == <<clock, options, limiter>>

Today == clock \div DayLength

(* options: token, whether a bearer token is configured; open, whether      *)
(* privileged tools are unauthenticated on purpose; origins, whether there  *)
(* is an origin list; public, whether public assessments are on; policy,    *)
(* whether the payee, asset, network and maximum of payments are pinned;    *)
(* testnet, whether all networks are those of the testnet.                  *)
RequireTestnetConfiguration(o) == o.testnet /\ o.policy

StartsWith(o) == o.public => o.origins /\ RequireTestnetConfiguration(o)

FreshLimiter == [day |-> -1, count |-> 0, clients |-> <<>>]

BridgeInit ==
  /\ clock = 0
  /\ options \in {o \in Options : StartsWith(o)}
  /\ limiter = FreshLimiter

Tick == clock < MaxClock /\ clock' = clock + 1 /\ UNCHANGED <<options, limiter>>

-----------------------------------------------------------------------------
(* clients: [client, startedAt, count], in the order of insertion. *)
WindowOf(client) ==
  LET known == {s \in Range(limiter.clients) : s.client = client}
      open == {s \in known : clock - s.startedAt < WindowLength}
  IN IF open # {} THEN CHOOSE s \in open : TRUE
     ELSE [client |-> client, startedAt |-> clock, count |-> 0]

\* An entry that is renewed is the newest; the oldest go when there are too many.
SetBoundedClient(clients, state) ==
  LET all == Append(SelectSeq(clients, LAMBDA s : s.client # state.client), state)
  IN IF Len(all) <= MaxTrackedClients THEN all ELSE Tail(all)

(* Mutated form: the day is counted from the clients that are remembered.   *)
CountedFromClients ==
  FoldSeq(LAMBDA s, sum : IF s.startedAt \div DayLength = Today THEN sum + s.count ELSE sum,
          0, limiter.clients)

\* The count starts again on another day.
CountedToday == IF limiter.day = Today THEN limiter.count ELSE 0

\* The limiter admits the client and counts it, or only notes the day.
Consume(client, allowed) ==
  LET count == CountedToday
      window == WindowOf(client)
  IN /\ allowed = (count < DailyLimit /\ window.count < RequestsPerWindow)
     /\ limiter' = [ day |-> Today,
                     count |-> IF allowed THEN count + 1 ELSE count,
                     clients |->
                       IF allowed
                       THEN SetBoundedClient(limiter.clients, [window EXCEPT !.count = @ + 1])
                       ELSE limiter.clients ]

-----------------------------------------------------------------------------
PrivilegedTools ==
  { "assess_account", "assess_subject", "buy_report", "check_x402_payment",
    "get_payment_receipt", "quote_report", "record_decision",
    "verify_x402_settlement" }
PublicAssessmentTools == {"assess_account", "assess_subject"}
PublicStatusTools == {"payment_status", "registry_status"}

(* request: bearer, "none", "valid" or "invalid"; origin, "none", "listed"  *)
(* or "other"; direct, whether it comes from this machine and no proxy.     *)
OriginAllowed(request) ==
  request.origin = "none" \/ (request.origin = "listed" /\ options.origins)

Admits(request) == options.token /\ request.bearer = "valid"

\* Assessments that the operator pays for and the budget counts.
NeedsBudget(tool, request) ==
  /\ request.bearer = "none"
  /\ tool \in PublicAssessmentTools /\ options.public

Trusted(request) == options.open \/ request.direct

\* What is let through without a budget.
LetThrough(tool, request) ==
  \/ request.bearer # "none" /\ Admits(request)
  \/ /\ request.bearer = "none" /\ ~ NeedsBudget(tool, request)
     /\ \/ tool \in PublicStatusTools
        \/ ~ options.token /\ (Trusted(request) \/ tool \notin PrivilegedTools)

\* The middleware: `admitted` says whether the tool runs.
ToolAuthorization(tool, request, admitted) ==
  \/ /\ OriginAllowed(request) /\ NeedsBudget(tool, request)
     /\ request.origin = "listed"
     /\ Consume(request.client, admitted)
  \/ /\ ~ (OriginAllowed(request) /\ NeedsBudget(tool, request)
                                 /\ request.origin = "listed")
     /\ admitted = (OriginAllowed(request) /\ LetThrough(tool, request))
     /\ UNCHANGED limiter
=============================================================================
