--------------------------- MODULE AuditorAccess ---------------------------
(***************************************************************************)
(* Who may do what in the payment auditor: AuditorAuth, the routes in      *)
(* front of PaymentAuditService, and the tables of challenges, sessions,   *)
(* signed artifacts and agent tokens.                                      *)
(*                                                                         *)
(* An operator proves its key by signing a challenge.  A challenge opens a *)
(* session, or authorizes exactly one artifact: a policy revision, a       *)
(* provider decision, the issue or the revocation of an agent token.  The  *)
(* handlers of these are synchronous, but each is several database calls:  *)
(* it reads, consumes the challenge, then saves.  In one process nothing   *)
(* comes between; two processes on one database file interleave call by    *)
(* call, and a process may die after any of them.  The handlers that await *)
(* (createCheck, verifySettlement) test the caller before the await only.  *)
(*                                                                         *)
(* Abstractions.  A credential stands for its row; an artifact for its     *)
(* hash, which covers every field of it.  What the parsers of the routes   *)
(* reject never reaches the tables and is not an input.  Every request     *)
(* carries the configured Origin.                                          *)
(***************************************************************************)
EXTENDS Integers, FiniteSets, FiniteSetsExt

CONSTANTS
  Processes,     \* report API processes on one database file
  Operators,     \* operator public keys
  Artifacts,     \* [kind, operator, revision, content] an operator may sign
  Challenges,    \* challenge ids (random UUIDs, never issued twice)
  Sessions,      \* session ids
  Tokens,        \* agent token ids
  Checks,        \* check ids
  Shares,        \* ids of receipt shares, each with its secret link
  Payers,        \* payer public keys
  ChallengeTtl, SessionTtl,
  ShareTtl,      \* MAX_RECEIPT_SHARE_TTL_MS
  MaxClock       \* bound of the clock (model checking only)

Scopes == {"checks:write", "settlements:write", "observations:write",
           "receipts:read"}
Kinds == {"policy_revision", "provider_decision", "agent_token_issue",
          "agent_token_revoke"}

\* What the parsers of the routes let through.
WellFormed(a) ==
  /\ a.kind \in Kinds
  /\ a.operator \in Operators
  /\ a.revision \in Nat \ {0}
  /\ a.kind = "agent_token_issue" =>
       a.content \in [scopes : SUBSET Scopes, payers : SUBSET Payers,
                     until : Nat]
  /\ a.kind = "agent_token_revoke" => a.content \in Tokens

ASSUME AccessAssumption ==
  /\ ChallengeTtl \in Nat \ {0}
  /\ SessionTtl \in Nat \ {0}
  /\ ShareTtl \in Nat \ {0}
  /\ MaxClock \in Nat
  /\ \A a \in Artifacts : WellFormed(a)

VARIABLES
  clock,
  challenges,    \* table auth_challenges
  signatures,    \* challenges whose message the operator's wallet has signed
  sessions,      \* table auth_sessions
  signedRows,    \* tables policies and provider_decisions
  tokens,        \* table agent_tokens
  revocations,   \* table agent_token_revocations
  checks,        \* table checks, its owner columns and how far it has come
  shares,        \* table receipt_shares
  handler,       \* the synchronous handler each process is in
  calls,         \* requests admitted and awaiting the evidence or the RPC
  latest         \* the latest operation carried out on a check, and for whom

tables == <<challenges, sessions, signedRows, tokens, revocations, checks>>
vars == <<clock, signatures, tables, shares, handler, calls, latest>>

NoChallenge == [status |-> "none"]
NoSession == [status |-> "none"]
NoToken == [status |-> "none"]
NoCheck == [status |-> "none"]
NoShare == [status |-> "none"]
NoOperation == [scope |-> "none"]
Idle == [at |-> "idle"]
SessionCreate == [kind |-> "session_create"]

Purposes == Artifacts \cup {SessionCreate}
ChallengeRow ==
  [status : {"stored", "used", "pruned"}, operator : Operators,
   action : Purposes, issuedAt : Nat, expiresAt : Nat]
SessionRow == [status : {"stored"}, operator : Operators, expiresAt : Nat,
               challenge : Challenges]
\* A row keeps its signed message or signature, which is that of one challenge.
SignedRow == [artifact : Artifacts, challenge : Challenges]
TokenRow == [status : {"active", "revoked"}, artifact : Artifacts,
             challenge : Challenges]
HandlerState ==
  {Idle}
  \cup [at : {"consume", "save"}, operator : Operators, action : Purposes,
        challenge : Challenges]
Callers ==
  [kind : {"operator"}, id : Operators] \cup [kind : {"agent"}, id : Tokens]
Holders == [kind : {"share"}, id : Shares]
CheckRow == [status : {"filed", "settled", "receipted"}, operator : Operators,
             by : Callers, payer : Payers]
ShareRow == [status : {"active", "revoked"}, check : Checks,
             operator : Operators, expiresAt : Nat]
Operations == [check : Checks, by : Callers \cup Holders, scope : Scopes,
               payer : Payers]
-----------------------------------------------------------------------------
(***************************************************************************)
(* Credentials.                                                            *)
(***************************************************************************)
EventLoopFree(p) == handler[p] = Idle

SessionLive(o) ==
  \E s \in Sessions : /\ sessions[s] # NoSession
                      /\ sessions[s].operator = o
                      /\ sessions[s].expiresAt > clock

GrantOf(t) == tokens[t].artifact.content

\* (mutation: a revoked token still authenticates)
TokenUnexpired(t) == tokens[t] # NoToken /\ clock < GrantOf(t).until
TokenActive(t) == /\ tokens[t] # NoToken
                  /\ tokens[t].status = "active"
                  /\ clock < GrantOf(t).until

Authenticated(who) ==
  \/ who.kind = "operator" /\ SessionLive(who.id)
  \/ who.kind = "agent" /\ TokenActive(who.id)

OperatorOf(who) ==
  IF who.kind = "operator" THEN who.id ELSE tokens[who.id].artifact.operator

HasScope(who, scope) ==
  who.kind = "agent" => scope \in GrantOf(who.id).scopes

MayPayFrom(who, payer) == who.kind = "agent" => payer \in GrantOf(who.id).payers

\* (mutation: any caller of the operator owns the check)
OwnsByOperator(who, c) == OperatorOf(who) = checks[c].operator
Owns(who, c) ==
  IF who.kind = "operator" THEN who.id = checks[c].operator
                           ELSE who = checks[c].by

-----------------------------------------------------------------------------
(***************************************************************************)
(* Challenges.                                                             *)
(***************************************************************************)
Expired(c) == /\ challenges[c] # NoChallenge
              /\ challenges[c].status # "pruned"
              /\ challenges[c].expiresAt <= clock

\* saveChallenge deletes the expired ones, used or not, before it inserts.
Pruned ==
  [c \in Challenges |->
     IF Expired(c) THEN [challenges[c] EXCEPT !.status = "pruned"]
                   ELSE challenges[c]]

NewChallenge(o, action) ==
  [status |-> "stored", operator |-> o, action |-> action,
   issuedAt |-> clock, expiresAt |-> clock + ChallengeTtl]

IssueChallenge(o, c, action) ==
  /\ challenges[c] = NoChallenge
  /\ action # SessionCreate => action.operator = o
  /\ challenges' = [Pruned EXCEPT ![c] = NewChallenge(o, action)]
  /\ UNCHANGED <<clock, signatures, sessions, signedRows, tokens, revocations,
                 checks, handler, calls, latest, shares>>

\* The operator's wallet signs the message of a challenge it was given.
Sign(c) ==
  /\ challenges[c] # NoChallenge
  /\ c \notin signatures
  /\ signatures' = signatures \cup {c}
  /\ UNCHANGED <<clock, tables, shares, handler, calls, latest>>

InTime(c) == challenges[c].issuedAt <= clock /\ clock < challenges[c].expiresAt

\* (mutation: the message is not compared with the submitted artifact)
UsableForAny(c, o, action) ==
  /\ challenges[c] # NoChallenge
  /\ challenges[c].status = "stored"
  /\ (challenges[c].action = SessionCreate) <=> (action = SessionCreate)
  /\ challenges[c].operator = o
  /\ InTime(c)
  /\ c \in signatures
Usable(c, o, action) ==
  /\ challenges[c] # NoChallenge
  /\ challenges[c].status = "stored"
  /\ challenges[c].action = action
  /\ challenges[c].operator = o
  /\ InTime(c)
  /\ c \in signatures

\* (mutation: the UPDATE does not test used_at)
StillPresent(c) == challenges[c].status \in {"stored", "used"} /\ InTime(c)
Unspent(c) == challenges[c].status = "stored" /\ InTime(c)
-----------------------------------------------------------------------------
(***************************************************************************)
(* Signed revisions.  Policies and provider decisions are numbered each in *)
(* their table; the issue and the revocation of tokens share one sequence. *)
(***************************************************************************)
TokenRevisionsOf(o) ==
  {tokens[t].artifact.revision :
     t \in {u \in Tokens : tokens[u] # NoToken
                           /\ tokens[u].artifact.operator = o}}
RevocationRevisionsOf(o) ==
  {r.artifact.revision : r \in {q \in revocations : q.artifact.operator = o}}

RevisionsOf(kind, o) ==
  IF kind \in {"policy_revision", "provider_decision"}
    THEN {r.artifact.revision :
            r \in {q \in signedRows : /\ q.artifact.kind = kind
                                      /\ q.artifact.operator = o}}
    ELSE TokenRevisionsOf(o) \cup RevocationRevisionsOf(o)

IsNext(a) == a.revision = Max(RevisionsOf(a.kind, a.operator) \cup {0}) + 1

Revocable(a) ==
  /\ tokens[a.content] # NoToken
  /\ tokens[a.content].status = "active"
  /\ tokens[a.content].artifact.operator = a.operator
-----------------------------------------------------------------------------
(***************************************************************************)
(* The handlers that spend a challenge.                                    *)
(***************************************************************************)
\* What the handlers test before they consume the challenge.
Request(p, o, c, a) ==
  /\ EventLoopFree(p)
  /\ SessionLive(o)
  /\ a.operator = o
  /\ IsNext(a)
  /\ Usable(c, o, a)
  /\ handler' = [handler EXCEPT ![p] = [at |-> "consume", operator |-> o,
                                        action |-> a, challenge |-> c]]
  /\ UNCHANGED <<clock, signatures, tables, calls, latest, shares>>

PostRevision(p, o, c, a) ==
  a.kind \in {"policy_revision", "provider_decision"} /\ Request(p, o, c, a)

PostAgentToken(p, o, c, a) ==
  a.kind = "agent_token_issue" /\ Request(p, o, c, a)

DeleteAgentToken(p, o, c, a) ==
  a.kind = "agent_token_revoke" /\ Revocable(a) /\ Request(p, o, c, a)

RequestSession(p, o, c) ==
  /\ EventLoopFree(p)
  /\ Usable(c, o, SessionCreate)
  /\ handler' = [handler EXCEPT ![p] = [at |-> "consume", operator |-> o,
                                        action |-> SessionCreate,
                                        challenge |-> c]]
  /\ UNCHANGED <<clock, signatures, tables, calls, latest, shares>>

ConsumeChallenge(p) ==
  /\ handler[p].at = "consume"
  /\ LET c == handler[p].challenge IN
       \/ /\ Unspent(c)
          /\ challenges' = [challenges EXCEPT ![c].status = "used"]
          /\ handler' = [handler EXCEPT ![p].at = "save"]
       \/ /\ ~Unspent(c)
          /\ handler' = [handler EXCEPT ![p] = Idle]
          /\ UNCHANGED challenges
  /\ UNCHANGED <<clock, signatures, sessions, signedRows, tokens, revocations,
                 checks, calls, latest, shares>>

NewSession(o, c) ==
  [status |-> "stored", operator |-> o, expiresAt |-> clock + SessionTtl,
   challenge |-> c]

SaveSession(p, s) ==
  /\ handler[p].at = "save"
  /\ handler[p].action = SessionCreate
  /\ sessions[s] = NoSession
  /\ sessions' = [sessions EXCEPT ![s] =
                    NewSession(handler[p].operator, handler[p].challenge)]
  /\ handler' = [handler EXCEPT ![p] = Idle]
  /\ UNCHANGED <<clock, signatures, challenges, signedRows, tokens,
                 revocations, checks, calls, latest, shares>>

\* UNIQUE(operator_key, revision) of policies and provider_decisions; a
\* submitted signatureMessage that is not the challenge's is refused only here.
\* (mutation: unique by content only)
TakenAsIs(a) == \E r \in signedRows : r.artifact = a
Taken(a) == a.revision \in RevisionsOf(a.kind, a.operator)

SaveRevision(p) ==
  /\ handler[p].at = "save"
  /\ LET a == handler[p].action IN
       /\ a.kind \in {"policy_revision", "provider_decision"}
       /\ \/ UNCHANGED signedRows
          \/ /\ ~Taken(a)
             /\ signedRows' = signedRows \cup
                  {[artifact |-> a, challenge |-> handler[p].challenge]}
  /\ handler' = [handler EXCEPT ![p] = Idle]
  /\ UNCHANGED <<clock, signatures, challenges, sessions, tokens, revocations,
                 checks, calls, latest, shares>>

\* UNIQUE(operator_key, revision) of agent_tokens says nothing of revocations.
SaveToken(p, t) ==
  /\ handler[p].at = "save"
  /\ LET a == handler[p].action IN
       /\ a.kind = "agent_token_issue"
       /\ tokens[t] = NoToken
       /\ tokens' =
            IF a.revision \in TokenRevisionsOf(a.operator)
              THEN tokens
              ELSE [tokens EXCEPT ![t] =
                      [status |-> "active", artifact |-> a,
                       challenge |-> handler[p].challenge]]
  /\ handler' = [handler EXCEPT ![p] = Idle]
  /\ UNCHANGED <<clock, signatures, challenges, sessions, signedRows,
                 revocations, checks, calls, latest, shares>>

\* revokeAgentToken tests the token and the revision again, in a transaction.
RevokeToken(p) ==
  /\ handler[p].at = "save"
  /\ LET a == handler[p].action IN
       /\ a.kind = "agent_token_revoke"
       /\ \/ /\ Revocable(a)
             /\ IsNext(a)
             /\ revocations' =
                  revocations \cup
                    {[artifact |-> a, challenge |-> handler[p].challenge]}
             /\ tokens' = [tokens EXCEPT ![a.content].status = "revoked"]
          \/ /\ ~(Revocable(a) /\ IsNext(a))
             /\ UNCHANGED <<tokens, revocations>>
  /\ handler' = [handler EXCEPT ![p] = Idle]
  /\ UNCHANGED <<clock, signatures, challenges, sessions, signedRows, checks,
                 calls, latest, shares>>

-----------------------------------------------------------------------------
(***************************************************************************)
(* The handlers that await.                                                *)
(***************************************************************************)
AdmitCheck(who, c, payer) ==
  /\ Authenticated(who)
  /\ HasScope(who, "checks:write")
  /\ MayPayFrom(who, payer)
  /\ checks[c] = NoCheck
  /\ \A call \in calls : call.check # c
  /\ calls' = calls \cup {[check |-> c, by |-> who, payer |-> payer,
                           scope |-> "checks:write"]}
  /\ UNCHANGED <<clock, signatures, tables, handler, latest, shares>>

\* The caller's operator was read with the credential, before the await.
FileCheck(call) ==
  /\ call \in calls
  /\ call.scope = "checks:write"
  /\ checks' = [checks EXCEPT ![call.check] =
                  [status |-> "filed", operator |-> OperatorOf(call.by),
                   by |-> call.by, payer |-> call.payer]]
  /\ latest' = call
  /\ calls' = calls \ {call}
  /\ UNCHANGED <<clock, signatures, challenges, sessions, signedRows, tokens,
                 revocations, handler, shares>>

AdmitSettlement(who, c) ==
  /\ Authenticated(who)
  /\ checks[c] # NoCheck
  /\ Owns(who, c)
  /\ HasScope(who, "settlements:write")
  /\ calls' = calls \cup {[check |-> c, by |-> who, scope |-> "settlements:write",
                           payer |-> checks[c].payer]}
  /\ UNCHANGED <<clock, signatures, tables, handler, latest, shares>>

\* The node shows the transaction as approved, or it does not yet.
VerifySettlement(call) ==
  /\ call \in calls
  /\ call.scope = "settlements:write"
  /\ \/ UNCHANGED checks
     \/ /\ checks[call.check].status = "filed"
        /\ checks' = [checks EXCEPT ![call.check].status = "settled"]
  /\ latest' = call
  /\ calls' = calls \ {call}
  /\ UNCHANGED <<clock, signatures, challenges, sessions, signedRows, tokens,
                 revocations, handler, shares>>

\* Cancelling, recording a response and reading a receipt do not await.
Act(who, c, scope) ==
  /\ Authenticated(who)
  /\ checks[c] # NoCheck
  /\ Owns(who, c)
  /\ HasScope(who, scope)
  /\ latest' = [check |-> c, by |-> who, scope |-> scope,
                payer |-> checks[c].payer]
  /\ UNCHANGED <<clock, signatures, challenges, sessions, signedRows, tokens,
                 revocations, handler, calls, shares>>

CancelCheck(who, c) == Act(who, c, "checks:write") /\ UNCHANGED checks

\* The first observation of a settled check makes its receipt.
RecordResponse(who, c) ==
  /\ Act(who, c, "observations:write")
  /\ checks[c].status \in {"settled", "receipted"}
  /\ checks' = [checks EXCEPT ![c].status = "receipted"]

ReadReceipt(who, c) ==
  /\ Act(who, c, "receipts:read")
  /\ checks[c].status = "receipted"
  /\ UNCHANGED checks

\* The evidence or the RPC fails: the request ends with an error.
CallFails(call) ==
  /\ call \in calls
  /\ calls' = calls \ {call}
  /\ UNCHANGED <<clock, signatures, tables, handler, latest, shares>>
-----------------------------------------------------------------------------
(***************************************************************************)
(* Receipt shares: a link that shows one receipt to whoever holds it.      *)
(* Operators only, in their session; the handlers do not await.            *)
(***************************************************************************)
OwnedReceipt(o, c) ==
  /\ SessionLive(o)
  /\ checks[c] # NoCheck
  /\ checks[c].status = "receipted"
  /\ checks[c].operator = o

CreateReceiptShare(o, c, s, ttl) ==
  /\ OwnedReceipt(o, c)
  /\ shares[s] = NoShare
  /\ shares' = [shares EXCEPT ![s] =
                  [status |-> "active", check |-> c, operator |-> o,
                   expiresAt |-> clock + ttl]]
  /\ UNCHANGED <<clock, signatures, tables, handler, calls, latest>>

RevokeReceiptShare(o, s) ==
  /\ shares[s] # NoShare
  /\ OwnedReceipt(o, shares[s].check)
  /\ shares[s].operator = o
  /\ shares[s].status = "active"
  /\ shares' = [shares EXCEPT ![s].status = "revoked"]
  /\ UNCHANGED <<clock, signatures, tables, handler, calls, latest>>

GetSharedReceipt(s) ==
  /\ shares[s] # NoShare
  /\ shares[s].status = "active"
  /\ shares[s].expiresAt > clock
  /\ LET c == shares[s].check IN
       latest' = [check |-> c, by |-> [kind |-> "share", id |-> s],
                  scope |-> "receipts:read", payer |-> checks[c].payer]
  /\ UNCHANGED <<clock, signatures, tables, shares, handler, calls>>
-----------------------------------------------------------------------------
Tick ==
  /\ clock < MaxClock
  /\ clock' = clock + 1
  /\ UNCHANGED <<signatures, tables, handler, calls, latest, shares>>

\* A process dies in a handler: what it consumed stays consumed.
Crash(p) ==
  /\ handler[p] # Idle
  /\ handler' = [handler EXCEPT ![p] = Idle]
  /\ UNCHANGED <<clock, signatures, tables, calls, latest, shares>>

Init ==
  /\ clock = 0
  /\ challenges = [c \in Challenges |-> NoChallenge]
  /\ signatures = {}
  /\ sessions = [s \in Sessions |-> NoSession]
  /\ signedRows = {}
  /\ tokens = [t \in Tokens |-> NoToken]
  /\ revocations = {}
  /\ checks = [c \in Checks |-> NoCheck]
  /\ shares = [s \in Shares |-> NoShare]
  /\ handler = [p \in Processes |-> Idle]
  /\ calls = {}
  /\ latest = NoOperation

Next ==
  \/ \E o \in Operators, c \in Challenges, action \in Purposes :
       IssueChallenge(o, c, action)
  \/ \E c \in Challenges : Sign(c)
  \/ \E p \in Processes, o \in Operators, c \in Challenges :
       \/ RequestSession(p, o, c)
       \/ \E a \in Artifacts : \/ PostRevision(p, o, c, a)
                             \/ PostAgentToken(p, o, c, a)
                             \/ DeleteAgentToken(p, o, c, a)
  \/ \E p \in Processes :
       \/ ConsumeChallenge(p) \/ SaveRevision(p) \/ RevokeToken(p) \/ Crash(p)
       \/ \E s \in Sessions : SaveSession(p, s)
       \/ \E t \in Tokens : SaveToken(p, t)
  \/ \E who \in Callers, c \in Checks :
       \/ \E payer \in Payers : AdmitCheck(who, c, payer)
       \/ AdmitSettlement(who, c)
       \/ CancelCheck(who, c) \/ RecordResponse(who, c) \/ ReadReceipt(who, c)
  \/ \E s \in Shares :
       \/ \E o \in Operators :
            \/ RevokeReceiptShare(o, s)
            \/ \E c \in Checks, ttl \in 1..ShareTtl :
                 CreateReceiptShare(o, c, s, ttl)
       \/ GetSharedReceipt(s)
  \/ \E call \in calls :
       FileCheck(call) \/ VerifySettlement(call) \/ CallFails(call)
  \/ Tick

Spec == Init /\ [][Next]_vars
-----------------------------------------------------------------------------
(***************************************************************************)
(* Properties.                                                             *)
(***************************************************************************)
TypeOK ==
  /\ clock \in 0..MaxClock
  /\ challenges \in [Challenges -> ChallengeRow \cup {NoChallenge}]
  /\ signatures \subseteq Challenges
  /\ sessions \in [Sessions -> SessionRow \cup {NoSession}]
  /\ signedRows \subseteq SignedRow
  /\ tokens \in [Tokens -> TokenRow \cup {NoToken}]
  /\ revocations \subseteq SignedRow
  /\ checks \in [Checks -> CheckRow \cup {NoCheck}]
  /\ shares \in [Shares -> ShareRow \cup {NoShare}]
  /\ handler \in [Processes -> HandlerState]
  /\ calls \subseteq Operations
  /\ latest \in Operations \cup {NoOperation}

\* What a spent challenge has produced, over all tables.
IssuedTokens == {t \in Tokens : tokens[t] # NoToken}
OpenedSessions == {s \in Sessions : sessions[s] # NoSession}
Produced ==
  {<<"session", s, SessionCreate, sessions[s].challenge>> : s \in OpenedSessions}
  \cup {<<"row", r.artifact, r.artifact, r.challenge>> : r \in signedRows}
  \cup {<<"token", t, tokens[t].artifact, tokens[t].challenge>> :
          t \in IssuedTokens}
  \cup {<<"revocation", r.artifact, r.artifact, r.challenge>> :
          r \in revocations}

\* A challenge produces one session or one artifact at most, whichever
\* processes race between reading it and consuming it.
ChallengeSignsOnce ==
  \A x, y \in Produced : x[4] = y[4] => x = y

\* Whatever is stored under an operator was described, field by field, by a
\* challenge of that operator that its wallet signed.
StoredAsSigned ==
  \A x \in Produced :
    LET c == x[4] IN
      /\ c \in signatures
      /\ challenges[c] # NoChallenge
      /\ challenges[c].action = x[3]
      /\ x[3] # SessionCreate => challenges[c].operator = x[3].operator

\* Signed revisions stay a sequence in each table: a conflict between two
\* processes, a refused message or a crash after the challenge was consumed
\* costs the challenge and not the number, no two policies or decisions share
\* a number, and a token is revoked exactly when its signed revocation is kept.
RevisionsSequential ==
  /\ \A o \in Operators, k \in Kinds :
       \A n \in RevisionsOf(k, o) : 1..n \subseteq RevisionsOf(k, o)
  /\ \A r, q \in signedRows :
       (/\ r.artifact.kind = q.artifact.kind
        /\ r.artifact.operator = q.artifact.operator
        /\ r.artifact.revision = q.artifact.revision) => r = q
  /\ \A t \in Tokens :
       (tokens[t] # NoToken /\ tokens[t].status = "revoked") <=>
         \E r \in revocations : r.artifact.content = t

\* An agent only ever acts on checks it filed itself, within the scopes and
\* the payers its operator signed, and a share only shows a receipt that its
\* check's operator has.
WithinGrant ==
  latest # NoOperation =>
    LET c == checks[latest.check]
    IN /\ c # NoCheck
       /\ latest.by.kind = "operator" => c.operator = latest.by.id
       /\ latest.by.kind = "agent" =>
            /\ c.by = latest.by
            /\ latest.scope \in GrantOf(latest.by.id).scopes
            /\ latest.payer \in GrantOf(latest.by.id).payers
       /\ latest.by.kind = "share" =>
            c.status = "receipted" /\ c.operator = shares[latest.by.id].operator

\* What a revocation lets through: requests already awaiting may still finish,
\* and none is admitted after it; a revoked or expired link shows nothing.
Withdrawn ==
  {[kind |-> "agent", id |-> t] :
     t \in {u \in Tokens : tokens[u] # NoToken /\ tokens[u].status = "revoked"}}
  \cup {[kind |-> "share", id |-> s] :
          s \in {u \in Shares : /\ shares[u] # NoShare
                                /\ \/ shares[u].status = "revoked"
                                   \/ shares[u].expiresAt <= clock}}

RevocationStops ==
  [][/\ \A d \in calls' \ calls : d.by \notin Withdrawn
     /\ latest' \notin calls \cup {latest} => latest'.by \notin Withdrawn]_vars
=============================================================================
