--------------------------- MODULE OperatorClient ---------------------------
(***************************************************************************)
(* How an operator signs: the commands of the CLI (apps/cli:               *)
(* operatorClient.ts, main.ts) and the wallet actions of the web page      *)
(* (walletOperatorActions.ts, useAuditFlow.ts), run at the same time, from *)
(* several places, by one operator.  A command reads what is signed so     *)
(* far, makes the next revision from it, has a challenge for exactly that, *)
(* signs it and submits it.  A call may fail, its answer may be lost, and  *)
(* a submission that was given up may still arrive.                        *)
(*                                                                         *)
(* The API keeps three books of revisions: policies, provider decisions,   *)
(* and token issues together with revocations.  AuditorAccess models what  *)
(* it does to a signed action step by step; here it is one step.           *)
(***************************************************************************)
EXTENDS Integers, Sequences, FiniteSets, SequencesExt

CONSTANTS
  Commands,       \* the commands that may be under way at once
  Assets, Caps,   \* what a policy sets: the daily cap of each asset
  PolicyFiles,    \* the policies the CLI is given
  AgentTokens,
  MaxRevision,    \* bound on the revisions of a book
  MaxArriving     \* bound on the submissions under way

ASSUME OperatorAssumption ==
  /\ Caps \subseteq Nat \ {0} /\ PolicyFiles \subseteq [Assets -> Nat]
  /\ MaxRevision \in Nat /\ MaxArriving \in Nat

VARIABLES
  books,     \* what the API has stored, by book, in the order of the revisions
  commands,  \* each command: [at, intent, revision, content]
  arriving   \* the submissions under way

operatorVars == <<books, commands, arriving>>

Books == {"policies", "decisions", "tokens"}

NoCap == 0

(* What a command is for.  A policy of the CLI is a file that names all     *)
(* caps, one of the wallet sets the cap of the asset of the charge on       *)
(* screen, which it must cover.                                             *)
PolicyFileIntents == [kind : {"install_policy"}, caps : PolicyFiles]
AssetPolicyIntents == [kind : {"save_asset_policy"}, asset : Assets, cap : Caps]
ProviderRuleIntents == [kind : {"provider_rule"}, rule : {"pin", "deny"}]
AgentTokenIntents == [kind : {"issue_token", "revoke_token"}, id : AgentTokens]

Intents == PolicyFileIntents \cup AssetPolicyIntents
             \cup ProviderRuleIntents \cup AgentTokenIntents

BookOf(intent) ==
  CASE intent.kind \in {"install_policy", "save_asset_policy"} -> "policies"
    [] intent.kind = "provider_rule" -> "decisions"
    [] OTHER -> "tokens"

Idles == [at |-> "idle"]

-----------------------------------------------------------------------------
CurrentCaps == IF books.policies = <<>> THEN [a \in Assets |-> NoCap]
               ELSE Last(books.policies).content.caps

(* The policy a command of the CLI signs is its file, whatever is current.  *)
InstallPolicy(intent) == [made |-> "file", caps |-> intent.caps]

(* The wallet keeps the caps of all other assets. *)
SaveAssetPolicy(intent) ==
  [ made |-> "wallet", asset |-> intent.asset, cap |-> intent.cap,
    caps |-> [CurrentCaps EXCEPT ![intent.asset] = intent.cap] ]

ContentOf(intent) ==
  CASE intent.kind = "install_policy" -> InstallPolicy(intent)
    [] intent.kind = "save_asset_policy" -> SaveAssetPolicy(intent)
    [] OTHER -> intent

(* The highest revision of the list, or the nextRevision of the API. *)
NextRevision(book) == Len(books[book]) + 1

(* A command begins with a session: one that was given, or a new one made   *)
(* with a signed challenge.  It may end there.                              *)
BeginCommand(m, intent) ==
  /\ commands[m].at \in {"idle", "done"}
  /\ commands' = [commands EXCEPT ![m] = [at |-> "read", intent |-> intent]]
  /\ UNCHANGED <<books, arriving>>

ReadCurrent(m) ==
  /\ commands[m].at = "read"
  /\ LET intent == commands[m].intent
     IN commands' = [commands EXCEPT ![m] =
          [ at |-> "sign", intent |-> intent, revision |-> NextRevision(BookOf(intent)),
            content |-> ContentOf(intent) ]]
  /\ UNCHANGED <<books, arriving>>

(* Mutated form: the revision that is asked for is the next one by now.     *)
RevisionByNow(m) == NextRevision(BookOf(commands[m].intent))

(* The challenge is bound to the revision and the content that were read.   *)
SignedRevision(m) == commands[m].revision

SignAction(m) ==
  /\ commands[m].at = "sign" /\ Cardinality(arriving) < MaxArriving
  /\ arriving' = arriving \cup
       {[ command |-> m, book |-> BookOf(commands[m].intent),
          revision |-> SignedRevision(m), content |-> commands[m].content ]}
  /\ commands' = [commands EXCEPT ![m].at = "wait", ![m].revision = SignedRevision(m)]
  /\ UNCHANGED books

-----------------------------------------------------------------------------
IssuedTokens == {s.content.id : s \in {t \in ToSet(books.tokens) : t.content.kind = "issue_token"}}
RevokedTokens == {s.content.id : s \in {t \in ToSet(books.tokens) : t.content.kind = "revoke_token"}}

(* The next revision only, and a token is revoked once, after its issue.    *)
(* Its id is new with every issue.                                          *)
Accepted(s) ==
  /\ s.revision = NextRevision(s.book)
  /\ s.content \in [kind : {"revoke_token"}, id : AgentTokens] =>
       s.content.id \in IssuedTokens \ RevokedTokens
  /\ s.content \in [kind : {"issue_token"}, id : AgentTokens] => s.content.id \notin IssuedTokens

WaitsFor(m, s) ==
  /\ commands[m].at = "wait" /\ s.command = m
  /\ commands[m].revision = s.revision /\ commands[m].content = s.content

(* The API stores a submission or refuses it, also because its challenge    *)
(* has expired; the answer reaches the command, or is lost.                 *)
Submit(s, stored, answered) ==
  /\ stored => Accepted(s) /\ s.revision <= MaxRevision
  /\ answered => WaitsFor(s.command, s)
  /\ books' = IF stored
              THEN [books EXCEPT ![s.book] = Append(@, [revision |-> s.revision, content |-> s.content])]
              ELSE books
  /\ arriving' = arriving \ {s}
  /\ commands' = IF answered
                 THEN [commands EXCEPT ![s.command] = IF stored THEN [@ EXCEPT !.at = "done"] ELSE Idles]
                 ELSE commands

(* A call fails or takes too long, the wallet refuses to sign, or the rule  *)
(* was stored but the list after it cannot be read.                         *)
CommandFails(m) ==
  /\ commands[m].at \in {"read", "sign", "wait"}
  /\ commands' = [commands EXCEPT ![m] = Idles]
  /\ UNCHANGED <<books, arriving>>

OperatorInit ==
  /\ books = [b \in Books |-> <<>>]
  /\ commands = [m \in Commands |-> Idles]
  /\ arriving = {}

OperatorSteps(intents) ==
  \/ \E m \in Commands :
       \/ \E intent \in intents : BeginCommand(m, intent)
       \/ ReadCurrent(m)
       \/ SignAction(m)
       \/ CommandFails(m)
  \/ \E s \in arriving, stored \in BOOLEAN, answered \in BOOLEAN : Submit(s, stored, answered)

OperatorNext == OperatorSteps(Intents)

OperatorSpec == OperatorInit /\ [][OperatorNext]_operatorVars

-----------------------------------------------------------------------------
(* What another command has signed meanwhile is not undone unseen: a policy *)
(* of the wallet that is stored has the caps of the one it replaces, except *)
(* for the asset it is about, and a command that reports success has its    *)
(* revision stored as it was signed (walletOperatorActions.ts:44, :91,      *)
(* operatorClient.ts:163).                                                  *)
NothingUndone ==
  /\ \A i \in 1 .. Len(books.policies) :
       LET policy == books.policies[i].content
           before == IF i = 1 THEN [a \in Assets |-> NoCap] ELSE books.policies[i - 1].content.caps
       IN policy.made = "wallet" => policy.caps = [before EXCEPT ![policy.asset] = policy.cap]
  /\ \A m \in Commands :
       commands[m].at = "done" =>
         books[BookOf(commands[m].intent)][commands[m].revision].content = commands[m].content
=============================================================================
