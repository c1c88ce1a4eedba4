------------------------ MODULE AuditorAccessProofs ------------------------
(***************************************************************************)
(* Proofs about AuditorAccess, for any operators, processes, credentials,  *)
(* checks, shares, lifetimes and artifacts.                                *)
(***************************************************************************)
EXTENDS AuditorAccess, TLAPS

(***************************************************************************)
(* Next falls into the steps that write credentials and signed rows, and   *)
(* the steps that admit, carry out or show operations on checks.           *)
(***************************************************************************)
HandlerStep(p) ==
  \/ \E o \in Operators, c \in Challenges :
       \/ RequestSession(p, o, c)
       \/ \E a \in Artifacts : \/ PostRevision(p, o, c, a)
                             \/ PostAgentToken(p, o, c, a)
                             \/ DeleteAgentToken(p, o, c, a)
  \/ ConsumeChallenge(p) \/ SaveRevision(p) \/ RevokeToken(p) \/ Crash(p)
  \/ \E s \in Sessions : SaveSession(p, s)
  \/ \E t \in Tokens : SaveToken(p, t)

CredentialStep ==
  \/ \E o \in Operators, c \in Challenges, action \in Purposes :
       IssueChallenge(o, c, action)
  \/ \E c \in Challenges : Sign(c)
  \/ \E p \in Processes : HandlerStep(p)
  \/ Tick

OperationStep ==
  \/ \E who \in Callers, c \in Checks :
       \/ \E payer \in Payers : AdmitCheck(who, c, payer)
       \/ AdmitSettlement(who, c)
       \/ CancelCheck(who, c) \/ RecordResponse(who, c) \/ ReadReceipt(who, c)
  \/ \E s \in Shares :
       \/ \E o \in Operators :
            \/ RevokeReceiptShare(o, s)
            \/ \E c \in Checks, ttl \in 1..ShareTtl :
                 CreateReceiptShare(o, c, s, ttl)
       \/ GetSharedReceipt(s)
  \/ \E call \in calls :
       FileCheck(call) \/ VerifySettlement(call) \/ CallFails(call)

LEMMA NextSplit == Next => CredentialStep \/ OperationStep
BY DEF Next, CredentialStep, OperationStep, HandlerStep

\* An artifact is not the purpose of a session.
LEMMA SessionCreateApart == SessionCreate \notin Artifacts
BY AccessAssumption DEF WellFormed, SessionCreate, Kinds

LEMMA RevocationNamesToken ==
  ASSUME NEW a \in Artifacts, a.kind = "agent_token_revoke"
  PROVE  a.content \in Tokens
BY AccessAssumption DEF WellFormed

LEMMA ArtifactOperator == \A a \in Artifacts : a.operator \in Operators
BY AccessAssumption DEF WellFormed

\* A process that is in a handler holds an operator, a purpose, a challenge.
LEMMA HandlerShape ==
  ASSUME TypeOK, NEW p \in Processes
  PROVE  /\ handler[p].at \in {"idle", "consume", "save"}
         /\ handler[p].at # "idle" =>
              /\ handler[p].operator \in Operators
              /\ handler[p].action \in Purposes
              /\ handler[p].challenge \in Challenges
BY DEF TypeOK, HandlerState, Idle

LEMMA HandlerAdvances ==
  ASSUME TypeOK, NEW p \in Processes, handler[p].at = "consume"
  PROVE  [handler[p] EXCEPT !.at = "save"] \in HandlerState
<1>1. /\ handler[p].operator \in Operators
      /\ handler[p].action \in Purposes
      /\ handler[p].challenge \in Challenges
      /\ handler[p] = [at |-> "consume", operator |-> handler[p].operator,
                       action |-> handler[p].action,
                       challenge |-> handler[p].challenge]
  BY DEF TypeOK, HandlerState, Idle
<1>2. [handler[p] EXCEPT !.at = "save"]
        = [at |-> "save", operator |-> handler[p].operator,
           action |-> handler[p].action, challenge |-> handler[p].challenge]
  BY <1>1
<1> QED
  BY <1>1, <1>2 DEF HandlerState

\* What is saved is an artifact, unless it is a session.
LEMMA SavesArtifact ==
  ASSUME TypeOK, NEW p \in Processes, handler[p].at = "save",
         handler[p].action.kind # "session_create"
  PROVE  handler[p].action \in Artifacts /\ handler[p].challenge \in Challenges
<1>1. handler[p].action \in Purposes /\ handler[p].challenge \in Challenges
  BY HandlerShape
<1> QED
  BY <1>1 DEF Purposes, SessionCreate

CredentialsTyped ==
  /\ clock \in 0..MaxClock
  /\ challenges \in [Challenges -> ChallengeRow \cup {NoChallenge}]
  /\ signatures \subseteq Challenges
  /\ sessions \in [Sessions -> SessionRow \cup {NoSession}]
  /\ signedRows \subseteq SignedRow
  /\ tokens \in [Tokens -> TokenRow \cup {NoToken}]
  /\ revocations \subseteq SignedRow
  /\ handler \in [Processes -> HandlerState]

LEMMA HandlerTyped ==
  ASSUME TypeOK, NEW p \in Processes, HandlerStep(p)
  PROVE  CredentialsTyped'
<1> USE AccessAssumption DEF CredentialsTyped
<1>0. ASSUME NEW o \in Operators, NEW c \in Challenges, NEW a \in Purposes
      PROVE  [at |-> "consume", operator |-> o, action |-> a, challenge |-> c]
               \in HandlerState
  BY DEF HandlerState
<1>1. ASSUME NEW o \in Operators, NEW c \in Challenges, RequestSession(p, o, c)
      PROVE  CredentialsTyped'
  BY <1>0, <1>1 DEF TypeOK, RequestSession, tables, Purposes
<1>2. ASSUME NEW o \in Operators, NEW c \in Challenges, NEW a \in Artifacts,
             Request(p, o, c, a)
      PROVE  CredentialsTyped'
  BY <1>0, <1>2 DEF TypeOK, Request, tables, Purposes
<1>3. CASE ConsumeChallenge(p)
  <2> DEFINE c == handler[p].challenge
  <2>1. c \in Challenges
    BY <1>3, HandlerShape DEF ConsumeChallenge
  <2>2. ASSUME Unspent(c)
        PROVE  [challenges[c] EXCEPT !.status = "used"] \in ChallengeRow
    BY <2>1, <2>2 DEF TypeOK, Unspent, ChallengeRow, NoChallenge
  <2>3. challenges' \in [Challenges -> ChallengeRow \cup {NoChallenge}]
    <3>1. CASE UNCHANGED challenges
      BY <3>1 DEF TypeOK
    <3>2. CASE ~ UNCHANGED challenges
      <4>1. /\ Unspent(c)
            /\ challenges' = [challenges EXCEPT ![c] =
                                [challenges[c] EXCEPT !.status = "used"]]
        BY <1>3, <3>2 DEF ConsumeChallenge
      <4> QED
        BY <2>1, <2>2, <4>1 DEF TypeOK
    <3> QED
      BY <3>1, <3>2
  <2>4. [handler[p] EXCEPT !.at = "save"] \in HandlerState
    BY <1>3, HandlerAdvances DEF ConsumeChallenge
  <2>5. handler' \in [Processes -> HandlerState]
    <3>1. \/ handler' = [handler EXCEPT ![p] = [handler[p] EXCEPT !.at = "save"]]
          \/ handler' = [handler EXCEPT ![p] = Idle]
      BY <1>3 DEF ConsumeChallenge
    <3> QED
      BY <2>4, <3>1 DEF TypeOK, HandlerState
  <2> QED
    BY <1>3, <2>3, <2>5 DEF TypeOK, ConsumeChallenge
<1>4. CASE SaveRevision(p)
  <2>1. handler[p].action \in Artifacts /\ handler[p].challenge \in Challenges
    BY <1>4, SavesArtifact DEF SaveRevision
  <2>2. signedRows' \subseteq SignedRow
    BY <1>4, <2>1 DEF TypeOK, SaveRevision, SignedRow
  <2> QED
    BY <1>4, <2>2 DEF TypeOK, SaveRevision, HandlerState
<1>5. CASE RevokeToken(p)
  <2>1. handler[p].action \in Artifacts /\ handler[p].challenge \in Challenges
    BY <1>5, SavesArtifact DEF RevokeToken
  <2>2. revocations' \subseteq SignedRow
    BY <1>5, <2>1 DEF TypeOK, RevokeToken, SignedRow
  <2>3. tokens' \in [Tokens -> TokenRow \cup {NoToken}]
    <3> DEFINE t == handler[p].action.content
    <3>1. t \in Tokens
      BY <1>5, <2>1, RevocationNamesToken DEF RevokeToken
    <3>2. CASE UNCHANGED tokens
      BY <3>2 DEF TypeOK
    <3>3. CASE ~ UNCHANGED tokens
      <4>1. /\ tokens[t] # NoToken
            /\ tokens' = [tokens EXCEPT ![t] =
                            [tokens[t] EXCEPT !.status = "revoked"]]
        BY <1>5, <3>3 DEF RevokeToken, Revocable
      <4>2. [tokens[t] EXCEPT !.status = "revoked"] \in TokenRow
        BY <3>1, <4>1 DEF TypeOK, TokenRow
      <4> QED
        BY <3>1, <4>1, <4>2 DEF TypeOK
    <3> QED
      BY <3>2, <3>3
  <2> QED
    BY <1>5, <2>2, <2>3 DEF TypeOK, RevokeToken, HandlerState
<1>6. CASE Crash(p)
  BY <1>6 DEF TypeOK, Crash, tables, HandlerState
<1>7. ASSUME NEW s \in Sessions, SaveSession(p, s)
      PROVE  CredentialsTyped'
  <2>1. NewSession(handler[p].operator, handler[p].challenge) \in SessionRow
    BY <1>7, HandlerShape DEF TypeOK, SaveSession, NewSession, SessionRow
  <2> QED
    BY <1>7, <2>1 DEF TypeOK, SaveSession, HandlerState
<1>8. ASSUME NEW t \in Tokens, SaveToken(p, t)
      PROVE  CredentialsTyped'
  <2>1. handler[p].action \in Artifacts /\ handler[p].challenge \in Challenges
    BY <1>8, SavesArtifact DEF SaveToken
  <2>2. [status |-> "active", artifact |-> handler[p].action,
         challenge |-> handler[p].challenge] \in TokenRow
    BY <2>1 DEF TokenRow
  <2>3. tokens' \in [Tokens -> TokenRow \cup {NoToken}]
    BY <1>8, <2>2 DEF TypeOK, SaveToken
  <2> QED
    BY <1>8, <2>3 DEF TypeOK, SaveToken, HandlerState
<1> QED
  BY <1>1, <1>2, <1>3, <1>4, <1>5, <1>6, <1>7, <1>8
     DEF HandlerStep, PostRevision, PostAgentToken, DeleteAgentToken

LEMMA CredentialTyped ==
  ASSUME TypeOK, CredentialStep
  PROVE  CredentialsTyped'
<1>1. ASSUME NEW o \in Operators, NEW c \in Challenges, NEW action \in Purposes,
             IssueChallenge(o, c, action)
      PROVE  CredentialsTyped'
  <2>1. NewChallenge(o, action) \in ChallengeRow
    BY AccessAssumption DEF TypeOK, NewChallenge, ChallengeRow
  <2>2. Pruned \in [Challenges -> ChallengeRow \cup {NoChallenge}]
    <3>1. ASSUME NEW d \in Challenges, Expired(d)
          PROVE  [challenges[d] EXCEPT !.status = "pruned"] \in ChallengeRow
      BY <3>1 DEF TypeOK, Expired, ChallengeRow
    <3> QED
      BY <3>1 DEF TypeOK, Pruned
  <2>3. challenges' \in [Challenges -> ChallengeRow \cup {NoChallenge}]
    BY <1>1, <2>1, <2>2 DEF IssueChallenge
  <2> QED
    BY <1>1, <2>3 DEF TypeOK, CredentialsTyped, IssueChallenge
<1>2. ASSUME NEW c \in Challenges, Sign(c)
      PROVE  CredentialsTyped'
  BY <1>2 DEF TypeOK, CredentialsTyped, Sign, tables
<1>3. CASE Tick
  BY <1>3, AccessAssumption DEF TypeOK, CredentialsTyped, Tick, tables
<1> QED
  BY <1>1, <1>2, <1>3, HandlerTyped DEF CredentialStep

(***************************************************************************)
(* The operations on checks.                                               *)
(***************************************************************************)
\* A token that was issued is never taken back, only revoked.
Issued(who) == who.kind = "agent" => tokens[who.id] # NoToken

\* What the filing of a check by someone presupposes.
MayFile(who, payer) ==
  Issued(who) /\ HasScope(who, "checks:write") /\ MayPayFrom(who, payer)

\* A request that awaits was allowed when it was admitted, and is still about
\* the check it was admitted for; a check is filed by one request.
CallsGranted ==
  \A call \in calls :
    /\ call.by \in Callers
    /\ call.scope \in {"checks:write", "settlements:write"}
    /\ Issued(call.by)
    /\ HasScope(call.by, call.scope)
    /\ call.scope = "checks:write" =>
         /\ checks[call.check] = NoCheck
         /\ MayFile(call.by, call.payer)
         /\ \A other \in calls : other.check = call.check => other = call
    /\ call.scope = "settlements:write" =>
         /\ checks[call.check] # NoCheck
         /\ Owns(call.by, call.check)
         /\ call.payer = checks[call.check].payer

\* A stored check was filed by someone who was allowed to, under his operator.
ChecksGranted ==
  \A c \in Checks : checks[c] # NoCheck =>
    /\ Issued(checks[c].by)
    /\ MayPayFrom(checks[c].by, checks[c].payer)
    /\ checks[c].operator = OperatorOf(checks[c].by)

\* A share is one of a receipt, and of the operator who has it.
SharesBacked ==
  \A s \in Shares : shares[s] # NoShare =>
    LET c == checks[shares[s].check]
    IN c # NoCheck /\ c.status = "receipted" /\ c.operator = shares[s].operator

\* What was shown last through a share was shown through one that exists.
ShareShown ==
  latest # NoOperation /\ latest.by.kind = "share" =>
    shares[latest.by.id] # NoShare

AccessInv ==
  /\ TypeOK
  /\ CallsGranted /\ ChecksGranted /\ SharesBacked /\ ShareShown /\ WithinGrant

\* An issued token keeps the artifact it was issued with.
TokensKept ==
  \A t \in Tokens : tokens[t] # NoToken =>
    tokens'[t] # NoToken /\ tokens'[t].artifact = tokens[t].artifact

LEMMA CredentialFrame ==
  ASSUME TypeOK, CredentialStep
  PROVE  UNCHANGED <<checks, shares, calls, latest>> /\ TokensKept
<1>1. ASSUME NEW p \in Processes, HandlerStep(p)
      PROVE  UNCHANGED <<checks, shares, calls, latest>> /\ TokensKept
  <2>1. CASE RevokeToken(p)
    <3> DEFINE t == handler[p].action.content
    <3>1. UNCHANGED tokens
            \/ tokens' = [tokens EXCEPT ![t] =
                             [tokens[t] EXCEPT !.status = "revoked"]]
      BY <2>1 DEF RevokeToken
    <3>2. ASSUME NEW u \in Tokens, tokens[u] # NoToken
          PROVE  /\ [tokens[u] EXCEPT !.status = "revoked"] # NoToken
                 /\ [tokens[u] EXCEPT !.status = "revoked"].artifact
                      = tokens[u].artifact
      BY <3>2 DEF TypeOK, TokenRow, NoToken
    <3>3. TokensKept
      BY <3>1, <3>2 DEF TypeOK, TokensKept
    <3> QED
      BY <2>1, <3>3 DEF RevokeToken
  <2>2. ASSUME NEW t \in Tokens, SaveToken(p, t)
        PROVE  UNCHANGED <<checks, shares, calls, latest>> /\ TokensKept
    BY <2>2 DEF TypeOK, SaveToken, TokensKept
  <2>3. CASE ~ RevokeToken(p) /\ ~ \E t \in Tokens : SaveToken(p, t)
    <3>1. UNCHANGED <<tokens, checks, shares, calls, latest>>
      BY <1>1, <2>3
         DEF HandlerStep, RequestSession, PostRevision, PostAgentToken,
             DeleteAgentToken, Request, ConsumeChallenge, SaveRevision, Crash,
             SaveSession, tables
    <3> QED
      BY <3>1 DEF TokensKept
  <2> QED
    BY <2>1, <2>2, <2>3
<1>2. ASSUME ~ \E p \in Processes : HandlerStep(p)
      PROVE  UNCHANGED <<tokens, checks, shares, calls, latest>>
  BY <1>2 DEF CredentialStep, IssueChallenge, Sign, Tick, tables
<1> QED
  BY <1>1, <1>2 DEF TokensKept

LEMMA OperationFrame ==
  OperationStep =>
    UNCHANGED <<clock, challenges, signatures, sessions, signedRows, tokens,
                revocations, handler>>
BY DEF OperationStep, AdmitCheck, AdmitSettlement, CancelCheck, RecordResponse,
       ReadReceipt, Act, RevokeReceiptShare, CreateReceiptShare,
       GetSharedReceipt, FileCheck, VerifySettlement, CallFails, tables

\* What an issued token grants, and whose it is, does not change.
LEMMA GrantKept ==
  ASSUME TokensKept, NEW who \in Callers, Issued(who)
  PROVE  /\ Issued(who)'
         /\ OperatorOf(who)' = OperatorOf(who)
         /\ \A scope : HasScope(who, scope)' <=> HasScope(who, scope)
         /\ \A payer : MayPayFrom(who, payer)' <=> MayPayFrom(who, payer)
BY DEF TokensKept, Callers, Issued, OperatorOf, HasScope, MayPayFrom, GrantOf

\* Signing changes nothing that an operation was allowed by.
LEMMA CredentialStepKeeps ==
  ASSUME AccessInv, CredentialStep
  PROVE  (CallsGranted /\ ChecksGranted /\ SharesBacked /\ ShareShown /\ WithinGrant)'
<1>1. UNCHANGED <<checks, shares, calls, latest>> /\ TokensKept
  BY CredentialFrame DEF AccessInv
<1>2. CallsGranted'
  BY <1>1, GrantKept DEF AccessInv, CallsGranted, MayFile, Owns
<1>3. ChecksGranted'
  <2> SUFFICES ASSUME NEW c \in Checks, checks[c] # NoCheck
               PROVE  /\ Issued(checks[c].by)'
                      /\ MayPayFrom(checks[c].by, checks[c].payer)'
                      /\ checks[c].operator = OperatorOf(checks[c].by)'
    BY <1>1 DEF ChecksGranted
  <2>1. checks[c].by \in Callers
    BY DEF AccessInv, TypeOK, CheckRow
  <2> QED
    BY <1>1, <2>1, GrantKept DEF AccessInv, ChecksGranted
<1>4. SharesBacked'
  BY <1>1 DEF AccessInv, SharesBacked
<1>6. ShareShown'
  BY <1>1 DEF AccessInv, ShareShown
<1>5. WithinGrant'
  <2> SUFFICES ASSUME latest # NoOperation
               PROVE  WithinGrant'
    BY <1>1 DEF WithinGrant
  <2>1. latest.check \in Checks /\ latest.by \in Callers \cup Holders
    BY DEF AccessInv, TypeOK, Operations
  <2>2. CASE latest.by.kind = "agent"
    <3>1. Issued(latest.by) /\ latest.by.id \in Tokens
      BY <2>1, <2>2
         DEF AccessInv, ChecksGranted, WithinGrant, Callers, Holders
    <3> QED
      BY <1>1, <2>2, <3>1 DEF AccessInv, WithinGrant, TokensKept, GrantOf, Issued
  <2>3. CASE latest.by.kind # "agent"
    BY <1>1, <2>3 DEF AccessInv, WithinGrant
  <2> QED
    BY <2>2, <2>3
<1> QED
  BY <1>2, <1>3, <1>4, <1>5, <1>6

OperationsTyped ==
  /\ checks \in [Checks -> CheckRow \cup {NoCheck}]
  /\ shares \in [Shares -> ShareRow \cup {NoShare}]
  /\ calls \subseteq Operations
  /\ latest \in Operations \cup {NoOperation}

OperationInv ==
  /\ OperationsTyped
  /\ CallsGranted /\ ChecksGranted /\ SharesBacked /\ ShareShown /\ WithinGrant

LEMMA CallerOperator ==
  ASSUME TypeOK, NEW who \in Callers, Issued(who)
  PROVE  OperatorOf(who) \in Operators
BY ArtifactOperator DEF TypeOK, Callers, Issued, OperatorOf, TokenRow

LEMMA AuthenticatedIssued ==
  ASSUME NEW who \in Callers, Authenticated(who)
  PROVE  Issued(who)
BY DEF Authenticated, Issued, TokenActive

\* A request is admitted.
LEMMA AdmissionKeeps ==
  ASSUME AccessInv, NEW who \in Callers, NEW c \in Checks,
         AdmitSettlement(who, c) \/ \E payer \in Payers : AdmitCheck(who, c, payer)
  PROVE  OperationInv'
<1>1. UNCHANGED <<tokens, checks, shares, latest>>
  BY DEF AdmitSettlement, AdmitCheck, tables
<1>2. ASSUME NEW payer \in Payers, AdmitCheck(who, c, payer)
      PROVE  calls' \subseteq Operations /\ CallsGranted'
  <2> DEFINE new == [check |-> c, by |-> who, payer |-> payer,
                     scope |-> "checks:write"]
  <2>1. /\ calls' = calls \cup {new}
        /\ checks[c] = NoCheck
        /\ MayFile(who, payer)
        /\ \A call \in calls : call.check # c
    BY <1>2, AuthenticatedIssued DEF AdmitCheck, MayFile
  <2>2. new \in Operations
    BY DEF Operations, Scopes
  <2>3. CallsGranted'
    BY <1>1, <2>1 DEF AccessInv, CallsGranted, MayFile, Issued, HasScope,
                      MayPayFrom, GrantOf, Owns
  <2> QED
    BY <2>1, <2>2, <2>3 DEF AccessInv, TypeOK
<1>3. ASSUME AdmitSettlement(who, c)
      PROVE  calls' \subseteq Operations /\ CallsGranted'
  <2> DEFINE new == [check |-> c, by |-> who, scope |-> "settlements:write",
                     payer |-> checks[c].payer]
  <2>1. /\ calls' = calls \cup {new}
        /\ checks[c] # NoCheck
        /\ Owns(who, c)
        /\ Issued(who)
        /\ HasScope(who, "settlements:write")
    BY <1>3, AuthenticatedIssued DEF AdmitSettlement
  <2>2. new \in Operations
    BY <2>1 DEF AccessInv, TypeOK, CheckRow, Operations, Scopes
  <2>3. CallsGranted'
    BY <1>1, <2>1 DEF AccessInv, CallsGranted, MayFile, Issued, HasScope,
                      MayPayFrom, GrantOf, Owns
  <2> QED
    BY <2>1, <2>2, <2>3 DEF AccessInv, TypeOK
<1> QED
  BY <1>1, <1>2, <1>3
     DEF AccessInv, TypeOK, OperationInv, OperationsTyped, ChecksGranted,
         SharesBacked, ShareShown, WithinGrant, Issued, MayPayFrom, OperatorOf,
         GrantOf

\* The check is filed: it was not there, and the request was the only one.
LEMMA FilingKeeps ==
  ASSUME AccessInv, NEW call \in calls, FileCheck(call), UNCHANGED tokens
  PROVE  OperationInv'
<1> DEFINE row == [status |-> "filed", operator |-> OperatorOf(call.by),
                   by |-> call.by, payer |-> call.payer]
<1>1. /\ call \in Operations
      /\ call.by \in Callers
      /\ call.check \in Checks
      /\ call.payer \in Payers
      /\ checks[call.check] = NoCheck
      /\ MayFile(call.by, call.payer)
      /\ \A other \in calls : other.check = call.check => other = call
  BY DEF AccessInv, TypeOK, CallsGranted, FileCheck, Operations
<1>2. /\ checks' = [checks EXCEPT ![call.check] = row]
      /\ latest' = call
      /\ calls' = calls \ {call}
      /\ UNCHANGED <<tokens, shares>>
  BY DEF FileCheck
<1>3. row \in CheckRow /\ row # NoCheck
  BY <1>1, CallerOperator DEF AccessInv, MayFile, CheckRow, NoCheck
<1>4. OperationsTyped'
  BY <1>1, <1>2, <1>3 DEF AccessInv, TypeOK, OperationsTyped
<1>5. \A other \in calls' : checks'[other.check] = checks[other.check]
  BY <1>1, <1>2 DEF AccessInv, TypeOK
<1>6. CallsGranted'
  BY <1>2, <1>5 DEF AccessInv, CallsGranted, MayFile, Issued, HasScope,
                    MayPayFrom, GrantOf, Owns, OperatorOf
<1>7. ChecksGranted'
  BY <1>1, <1>2, <1>3
     DEF AccessInv, TypeOK, ChecksGranted, MayFile, Issued, HasScope,
         MayPayFrom, GrantOf, OperatorOf
<1>8. SharesBacked'
  <2>1. \A s \in Shares : shares[s] # NoShare => shares[s].check # call.check
    BY <1>1 DEF AccessInv, SharesBacked
  <2>2. \A s \in Shares : shares[s] # NoShare => shares[s].check \in Checks
    BY DEF AccessInv, TypeOK, ShareRow
  <2> QED
    BY <1>2, <2>1, <2>2 DEF AccessInv, TypeOK, SharesBacked
<1>9. WithinGrant'
  <2>1. checks'[call.check] = row
    BY <1>1, <1>2 DEF AccessInv, TypeOK
  <2>2. call.scope = "checks:write"
    BY DEF FileCheck
  <2>3. call.by.kind # "share"
    BY <1>1 DEF Callers
  <2> QED
    BY <1>1, <1>2, <1>3, <2>1, <2>2, <2>3
       DEF WithinGrant, MayFile, HasScope, MayPayFrom, GrantOf, OperatorOf
<1>10. ShareShown'
  BY <1>1, <1>2 DEF ShareShown, Callers
<1> QED
  BY <1>4, <1>6, <1>7, <1>8, <1>9, <1>10 DEF OperationInv

\* A stored check keeps whose it is, and a receipt stays one.
ChecksKept ==
  \A c \in Checks : checks[c] # NoCheck =>
    /\ checks'[c] # NoCheck
    /\ checks'[c].by = checks[c].by
    /\ checks'[c].operator = checks[c].operator
    /\ checks'[c].payer = checks[c].payer
    /\ checks[c].status = "receipted" => checks'[c].status = "receipted"

LEMMA AdvanceKeeps ==
  ASSUME TypeOK, NEW c \in Checks, checks[c] # NoCheck,
         NEW status \in {"settled", "receipted"},
         checks[c].status = "receipted" => status = "receipted",
         checks' = [checks EXCEPT ![c].status = status]
  PROVE  checks' \in [Checks -> CheckRow \cup {NoCheck}] /\ ChecksKept
<1> DEFINE row == [checks[c] EXCEPT !.status = status]
<1>1. /\ row \in CheckRow
      /\ row # NoCheck
      /\ row.by = checks[c].by
      /\ row.operator = checks[c].operator
      /\ row.payer = checks[c].payer
      /\ row.status = status
  BY DEF TypeOK, CheckRow, NoCheck
<1>2. checks' = [checks EXCEPT ![c] = row]
  OBVIOUS
<1>3. checks' \in [Checks -> CheckRow \cup {NoCheck}]
  BY <1>1, <1>2 DEF TypeOK
<1>4. ChecksKept
  BY <1>1, <1>2 DEF TypeOK, ChecksKept
<1> QED
  BY <1>3, <1>4

\* With the checks kept, the requests left and the shares are as sound as before.
LEMMA ProgressKeeps ==
  ASSUME AccessInv, ChecksKept, calls' \subseteq calls, UNCHANGED <<tokens, shares>>,
         \A c \in Checks : checks[c] = NoCheck => checks'[c] = NoCheck
  PROVE  CallsGranted' /\ ChecksGranted' /\ SharesBacked'
<1>1. CallsGranted'
  <2>1. \A call \in calls : call.check \in Checks
    BY DEF AccessInv, TypeOK, Operations
  <2> QED
    BY <2>1 DEF AccessInv, ChecksKept, CallsGranted, MayFile, Issued, HasScope,
                MayPayFrom, GrantOf, Owns, OperatorOf
<1>2. ChecksGranted'
  BY DEF AccessInv, ChecksKept, ChecksGranted, Issued, MayPayFrom, GrantOf,
         OperatorOf
<1>3. SharesBacked'
  <2>1. \A s \in Shares : shares[s] # NoShare => shares[s].check \in Checks
    BY DEF AccessInv, TypeOK, ShareRow
  <2> QED
    BY <2>1 DEF AccessInv, ChecksKept, SharesBacked
<1> QED
  BY <1>1, <1>2, <1>3

\* What an operation on a stored check must satisfy to be within the grant.
LEMMA OperationWithinGrant ==
  ASSUME AccessInv, ChecksKept, UNCHANGED tokens,
         NEW who \in Callers, NEW c \in Checks,
         checks[c] # NoCheck, Owns(who, c), Issued(who),
         latest'.check = c, latest'.by = who,
         HasScope(who, latest'.scope), latest'.payer = checks[c].payer
  PROVE  WithinGrant' /\ ShareShown'
<1>1. who.kind = "agent" => checks[c].by = who /\ checks[c].payer \in GrantOf(who.id).payers
  <2> SUFFICES ASSUME who.kind = "agent"
               PROVE  checks[c].by = who /\ checks[c].payer \in GrantOf(who.id).payers
    OBVIOUS
  <2>1. checks[c].by = who
    BY DEF Owns
  <2> QED
    BY <2>1 DEF AccessInv, ChecksGranted, MayPayFrom
<1>2. who.kind = "operator" => checks[c].operator = who.id
  BY DEF Owns
<1>3. who.kind # "share"
  BY DEF Callers
<1> QED
  BY <1>1, <1>2, <1>3 DEF WithinGrant, ShareShown, ChecksKept, HasScope, GrantOf

LEMMA SettlementKeeps ==
  ASSUME AccessInv, NEW call \in calls, VerifySettlement(call), UNCHANGED tokens
  PROVE  OperationInv'
<1>1. /\ call \in Operations
      /\ call.by \in Callers
      /\ call.check \in Checks
      /\ call.scope = "settlements:write"
      /\ checks[call.check] # NoCheck
      /\ Owns(call.by, call.check)
      /\ Issued(call.by)
      /\ HasScope(call.by, call.scope)
      /\ call.payer = checks[call.check].payer
  BY DEF AccessInv, TypeOK, CallsGranted, VerifySettlement, Operations
<1>2. /\ latest' = call
      /\ calls' = calls \ {call}
      /\ UNCHANGED <<tokens, shares>>
  BY DEF VerifySettlement
<1>3. /\ checks' \in [Checks -> CheckRow \cup {NoCheck}]
      /\ ChecksKept
      /\ \A c \in Checks : checks[c] = NoCheck => checks'[c] = NoCheck
  <2>1. CASE UNCHANGED checks
    BY <2>1 DEF AccessInv, TypeOK, ChecksKept
  <2>2. CASE /\ checks[call.check].status = "filed"
             /\ checks' = [checks EXCEPT ![call.check].status = "settled"]
    BY <1>1, <2>2, AdvanceKeeps DEF AccessInv
  <2> QED
    BY <2>1, <2>2 DEF VerifySettlement
<1>4. OperationsTyped'
  BY <1>1, <1>2, <1>3 DEF AccessInv, TypeOK, OperationsTyped
<1>5. WithinGrant' /\ ShareShown'
  BY <1>1, <1>2, <1>3, OperationWithinGrant
<1> QED
  BY <1>2, <1>3, <1>4, <1>5, ProgressKeeps DEF OperationInv

\* Cancelling, recording a response and reading a receipt.
LEMMA ActKeeps ==
  ASSUME AccessInv, NEW who \in Callers, NEW c \in Checks, UNCHANGED tokens,
         CancelCheck(who, c) \/ RecordResponse(who, c) \/ ReadReceipt(who, c)
  PROVE  OperationInv'
<1>1. PICK scope \in Scopes : Act(who, c, scope)
  BY DEF CancelCheck, RecordResponse, ReadReceipt, Scopes
<1>2. /\ checks[c] # NoCheck
      /\ Owns(who, c)
      /\ HasScope(who, scope)
      /\ Issued(who)
      /\ latest' = [check |-> c, by |-> who, scope |-> scope,
                    payer |-> checks[c].payer]
      /\ UNCHANGED <<calls, shares>>
  BY <1>1, AuthenticatedIssued DEF Act
<1>3. /\ checks' \in [Checks -> CheckRow \cup {NoCheck}]
      /\ ChecksKept
      /\ \A d \in Checks : checks[d] = NoCheck => checks'[d] = NoCheck
  <2>1. CASE RecordResponse(who, c)
    BY <1>2, <2>1, AdvanceKeeps DEF AccessInv, RecordResponse
  <2>2. CASE CancelCheck(who, c) \/ ReadReceipt(who, c)
    BY <2>2 DEF AccessInv, TypeOK, ChecksKept, CancelCheck, ReadReceipt
  <2> QED
    BY <2>1, <2>2
<1>4. OperationsTyped'
  BY <1>2, <1>3 DEF AccessInv, TypeOK, OperationsTyped, Operations, CheckRow
<1>5. WithinGrant' /\ ShareShown'
  BY <1>2, <1>3, OperationWithinGrant
<1> QED
  BY <1>2, <1>3, <1>4, <1>5, ProgressKeeps DEF OperationInv

LEMMA ShareKeeps ==
  ASSUME AccessInv, NEW s \in Shares, UNCHANGED tokens,
         \/ \E o \in Operators :
              \/ RevokeReceiptShare(o, s)
              \/ \E c \in Checks, ttl \in 1..ShareTtl :
                   CreateReceiptShare(o, c, s, ttl)
         \/ GetSharedReceipt(s)
  PROVE  OperationInv'
<1>0. UNCHANGED <<checks, calls>>
  BY DEF RevokeReceiptShare, CreateReceiptShare, GetSharedReceipt, tables
<1>1. CallsGranted' /\ ChecksGranted'
  BY <1>0 DEF AccessInv, CallsGranted, ChecksGranted, MayFile, Issued, HasScope,
              MayPayFrom, GrantOf, Owns, OperatorOf
<1>2. ASSUME NEW o \in Operators, RevokeReceiptShare(o, s)
      PROVE  OperationInv'
  <2> DEFINE row == [shares[s] EXCEPT !.status = "revoked"]
  <2>1. /\ row \in ShareRow
        /\ row # NoShare
        /\ row.check = shares[s].check
        /\ row.operator = shares[s].operator
    BY <1>2 DEF AccessInv, TypeOK, RevokeReceiptShare, ShareRow, NoShare
  <2>2. shares' = [shares EXCEPT ![s] = row] /\ UNCHANGED latest
    BY <1>2 DEF RevokeReceiptShare
  <2>3. OperationsTyped'
    BY <1>0, <2>1, <2>2 DEF AccessInv, TypeOK, OperationsTyped
  <2>4. \A u \in Shares : shares[u] # NoShare =>
          /\ shares'[u] # NoShare
          /\ shares'[u].check = shares[u].check
          /\ shares'[u].operator = shares[u].operator
    BY <2>1, <2>2 DEF AccessInv, TypeOK
  <2>5. SharesBacked'
    BY <1>0, <1>2, <2>1, <2>2 DEF AccessInv, TypeOK, SharesBacked, RevokeReceiptShare
  <2>6. WithinGrant' /\ ShareShown'
    <3>1. latest # NoOperation /\ latest.by.kind = "share" => latest.by.id \in Shares
      BY DEF AccessInv, TypeOK, Operations, Callers, Holders
    <3> QED
      BY <1>0, <2>2, <2>4, <3>1
         DEF AccessInv, ShareShown, WithinGrant, GrantOf
  <2> QED
    BY <1>1, <2>3, <2>5, <2>6 DEF OperationInv
<1>3. ASSUME NEW o \in Operators, NEW c \in Checks, NEW ttl \in 1..ShareTtl,
             CreateReceiptShare(o, c, s, ttl)
      PROVE  OperationInv'
  <2> DEFINE row == [status |-> "active", check |-> c, operator |-> o,
                     expiresAt |-> clock + ttl]
  <2>1. row \in ShareRow /\ row # NoShare
    BY AccessAssumption DEF AccessInv, TypeOK, ShareRow, NoShare
  <2>2. /\ shares' = [shares EXCEPT ![s] = row]
        /\ UNCHANGED latest
        /\ shares[s] = NoShare
        /\ checks[c] # NoCheck
        /\ checks[c].status = "receipted"
        /\ checks[c].operator = o
    BY <1>3 DEF CreateReceiptShare, OwnedReceipt
  <2>3. OperationsTyped'
    BY <1>0, <2>1, <2>2 DEF AccessInv, TypeOK, OperationsTyped
  <2>4. SharesBacked'
    BY <1>0, <2>1, <2>2 DEF AccessInv, TypeOK, SharesBacked
  <2>5. WithinGrant' /\ ShareShown'
    <3>1. latest # NoOperation /\ latest.by.kind = "share" => latest.by.id # s
      BY <2>2 DEF AccessInv, ShareShown
    <3>2. latest # NoOperation /\ latest.by.kind = "share" => latest.by.id \in Shares
      BY DEF AccessInv, TypeOK, Operations, Callers, Holders
    <3> QED
      BY <1>0, <2>2, <3>1, <3>2
         DEF AccessInv, TypeOK, ShareShown, WithinGrant, GrantOf
  <2> QED
    BY <1>1, <2>3, <2>4, <2>5 DEF OperationInv
<1>4. CASE GetSharedReceipt(s)
  <2>1. /\ shares[s] # NoShare
        /\ UNCHANGED shares
        /\ latest' = [check |-> shares[s].check, by |-> [kind |-> "share", id |-> s],
                      scope |-> "receipts:read",
                      payer |-> checks[shares[s].check].payer]
    BY <1>4 DEF GetSharedReceipt
  <2>2. /\ shares[s].check \in Checks
        /\ checks[shares[s].check] # NoCheck
        /\ checks[shares[s].check] \in CheckRow
    BY <2>1 DEF AccessInv, TypeOK, SharesBacked, ShareRow
  <2>3. latest' \in Operations
    BY <2>1, <2>2 DEF Operations, Holders, Scopes, CheckRow
  <2>4. OperationsTyped' /\ SharesBacked'
    BY <1>0, <2>1, <2>3 DEF AccessInv, TypeOK, OperationsTyped, SharesBacked
  <2>5. WithinGrant' /\ ShareShown'
    BY <1>0, <2>1 DEF AccessInv, SharesBacked, ShareShown, WithinGrant
  <2> QED
    BY <1>1, <2>4, <2>5 DEF OperationInv
<1> QED
  BY <1>2, <1>3, <1>4

LEMMA CallEndKeeps ==
  ASSUME AccessInv, NEW call \in calls, CallFails(call)
  PROVE  OperationInv'
BY DEF AccessInv, TypeOK, OperationInv, OperationsTyped, CallFails, tables,
       CallsGranted, ChecksGranted, SharesBacked, ShareShown, WithinGrant,
       MayFile, Issued, HasScope, MayPayFrom, GrantOf, Owns, OperatorOf

LEMMA AccessStep == AccessInv /\ [Next]_vars => AccessInv'
<1>1. ASSUME AccessInv, CredentialStep
      PROVE  AccessInv'
  <2>1. TypeOK /\ UNCHANGED <<checks, shares, calls, latest>>
    BY <1>1, CredentialFrame DEF AccessInv
  <2>2. TypeOK'
    BY <1>1, <2>1, CredentialTyped DEF TypeOK, CredentialsTyped
  <2> QED
    BY <1>1, <2>2, CredentialStepKeeps DEF AccessInv
<1>2. ASSUME AccessInv, OperationStep
      PROVE  AccessInv'
  <2>1. UNCHANGED <<clock, challenges, signatures, sessions, signedRows, tokens,
                    revocations, handler>>
    BY <1>2, OperationFrame
  <2>2. OperationInv'
    BY <1>2, <2>1, AdmissionKeeps, FilingKeeps, SettlementKeeps, ActKeeps,
       ShareKeeps, CallEndKeeps DEF OperationStep
  <2>3. TypeOK'
    BY <1>2, <2>1, <2>2 DEF AccessInv, TypeOK, OperationInv, OperationsTyped
  <2> QED
    BY <2>2, <2>3 DEF AccessInv, OperationInv
<1>3. ASSUME AccessInv, UNCHANGED vars
      PROVE  AccessInv'
  BY <1>3 DEF AccessInv, vars, tables, TypeOK, CallsGranted, ChecksGranted,
              SharesBacked, ShareShown, WithinGrant, MayFile, Issued, HasScope,
              MayPayFrom, GrantOf, Owns, OperatorOf
<1> QED
  BY <1>1, <1>2, <1>3, NextSplit

LEMMA AccessInit == Init => AccessInv
BY AccessAssumption
   DEF Init, AccessInv, TypeOK, CallsGranted, ChecksGranted, SharesBacked,
       ShareShown, WithinGrant, HandlerState

LEMMA AccessAlways == Spec => []AccessInv
BY AccessInit, AccessStep, PTL DEF Spec

\* Tables, handlers and requests keep their shape.
THEOREM TypeCorrect == Spec => []TypeOK
<1>1. AccessInv => TypeOK
  BY DEF AccessInv
<1> QED
  BY <1>1, AccessAlways, PTL

\* Whatever is done to a check is done by the operator it belongs to, by the
\* agent that filed it within the scopes and payers its operator signed, or
\* shows a receipt through a share of that operator: also when the token was
\* revoked or the session ended while the request awaited.
THEOREM AlwaysWithinGrant == Spec => []WithinGrant
<1>1. AccessInv => WithinGrant
  BY DEF AccessInv
<1> QED
  BY <1>1, AccessAlways, PTL

\* A revoked token or share, or one that ran out, admits nothing and shows
\* nothing: what is still carried out for it was admitted before.
THEOREM RevocationAlwaysStops == Spec => RevocationStops
<1> DEFINE Stops == /\ \A d \in calls' \ calls : d.by \notin Withdrawn
                    /\ latest' \notin calls \cup {latest} =>
                         latest'.by \notin Withdrawn
<1>1. ASSUME NEW who \in Callers, Authenticated(who)
      PROVE  who \notin Withdrawn
  BY <1>1 DEF Callers, Authenticated, TokenActive, Withdrawn
<1>2. ASSUME AccessInv, Next
      PROVE  Stops
  <2>1. CASE CredentialStep
    BY <1>2, <2>1, CredentialFrame DEF AccessInv
  <2>2. ASSUME NEW who \in Callers, NEW c \in Checks, NEW payer \in Payers,
               AdmitCheck(who, c, payer)
        PROVE  Stops
    <3>1. who \notin Withdrawn
      BY <1>1, <2>2 DEF AdmitCheck
    <3> QED
      BY <2>2, <3>1 DEF AdmitCheck
  <2>3. ASSUME NEW who \in Callers, NEW c \in Checks, AdmitSettlement(who, c)
        PROVE  Stops
    <3>1. who \notin Withdrawn
      BY <1>1, <2>3 DEF AdmitSettlement
    <3> QED
      BY <2>3, <3>1 DEF AdmitSettlement
  <2>4. ASSUME NEW who \in Callers, NEW c \in Checks,
               CancelCheck(who, c) \/ RecordResponse(who, c) \/ ReadReceipt(who, c)
        PROVE  Stops
    <3>1. PICK scope \in Scopes : Act(who, c, scope)
      BY <2>4 DEF CancelCheck, RecordResponse, ReadReceipt, Scopes
    <3>2. who \notin Withdrawn
      BY <1>1, <3>1 DEF Act
    <3> QED
      BY <3>1, <3>2 DEF Act
  <2>5. ASSUME NEW s \in Shares, GetSharedReceipt(s)
        PROVE  Stops
    <3>1. [kind |-> "share", id |-> s] \notin Withdrawn
      <4>1. /\ shares[s] # NoShare
            /\ shares[s].status # "revoked"
            /\ ~(shares[s].expiresAt <= clock)
        <5>1. shares[s].expiresAt \in Nat /\ clock \in Nat
          BY <1>2, <2>5, AccessAssumption
             DEF AccessInv, TypeOK, ShareRow, GetSharedReceipt
        <5> QED
          BY <2>5, <5>1 DEF GetSharedReceipt
      <4> QED
        BY <4>1, Zenon DEF Withdrawn
    <3> QED
      BY <2>5, <3>1 DEF GetSharedReceipt
  <2>6. ASSUME NEW s \in Shares, NEW o \in Operators,
               \/ RevokeReceiptShare(o, s)
               \/ \E c \in Checks, ttl \in 1..ShareTtl :
                    CreateReceiptShare(o, c, s, ttl)
        PROVE  Stops
    BY <2>6 DEF RevokeReceiptShare, CreateReceiptShare
  <2>7. ASSUME NEW call \in calls,
               FileCheck(call) \/ VerifySettlement(call) \/ CallFails(call)
        PROVE  Stops
    BY <2>7 DEF FileCheck, VerifySettlement, CallFails
  <2> QED
    BY <1>2, <2>1, <2>2, <2>3, <2>4, <2>5, <2>6, <2>7, NextSplit DEF OperationStep
<1>3. AccessInv /\ [Next]_vars => [Stops]_vars
  BY <1>2
<1> QED
  BY <1>3, AccessAlways, PTL DEF Spec, RevocationStops
-----------------------------------------------------------------------------
(***************************************************************************)
(* Signed artifacts.                                                       *)
(***************************************************************************)
\* What a handler has read of its challenge stays true, and once it is past
\* the UPDATE no other handler is, or ever was, past it with this challenge.
HandlersSound ==
  \A p \in Processes : handler[p].at # "idle" =>
    LET c == handler[p].challenge
        a == handler[p].action
    IN /\ c \in signatures
       /\ challenges[c] # NoChallenge
       /\ challenges[c].action = a
       /\ a # SessionCreate => challenges[c].operator = a.operator
       /\ handler[p].at = "save" =>
            /\ challenges[c].status # "stored"
            /\ \A x \in Produced : x[4] # c
            /\ \A q \in Processes :
                 q # p /\ handler[q].at = "save" => handler[q].challenge # c

ProducedSpent == \A x \in Produced : challenges[x[4]].status # "stored"

SigningInv == HandlersSound /\ ProducedSpent /\ StoredAsSigned /\ ChallengeSignsOnce

\* Signatures stay, a challenge keeps what it is for, and a spent one is spent.
ChallengesKept ==
  /\ signatures \subseteq signatures'
  /\ \A c \in Challenges : challenges[c] # NoChallenge =>
       /\ challenges'[c] # NoChallenge
       /\ challenges'[c].action = challenges[c].action
       /\ challenges'[c].operator = challenges[c].operator
       /\ challenges[c].status # "stored" => challenges'[c].status # "stored"

LEMMA ProducedElements ==
  ASSUME TypeOK, NEW x \in Produced
  PROVE  x[4] \in Challenges
BY DEF TypeOK, Produced, OpenedSessions, IssuedTokens, SessionRow, SignedRow,
       TokenRow

LEMMA ProducedSame ==
  ASSUME UNCHANGED <<sessions, signedRows, tokens, revocations>>
  PROVE  Produced' = Produced
BY DEF Produced, OpenedSessions, IssuedTokens

LEMMA IssueKeeps ==
  ASSUME TypeOK, NEW o \in Operators, NEW c \in Challenges, NEW action \in Purposes,
         IssueChallenge(o, c, action)
  PROVE  ChallengesKept
<1>1. ASSUME NEW d \in Challenges, challenges[d] # NoChallenge
      PROVE  /\ Pruned[d] # NoChallenge
             /\ Pruned[d].action = challenges[d].action
             /\ Pruned[d].operator = challenges[d].operator
             /\ challenges[d].status # "stored" => Pruned[d].status # "stored"
  <2>1. challenges[d] \in ChallengeRow
    BY <1>1 DEF TypeOK
  <2>2. LET row == [challenges[d] EXCEPT !.status = "pruned"]
        IN /\ row # NoChallenge
           /\ row.action = challenges[d].action
           /\ row.operator = challenges[d].operator
           /\ row.status = "pruned"
    BY <2>1 DEF ChallengeRow, NoChallenge
  <2>3. Pruned[d] \in {challenges[d], [challenges[d] EXCEPT !.status = "pruned"]}
    BY DEF Pruned
  <2> QED
    BY <1>1, <2>2, <2>3
<1>2. /\ challenges[c] = NoChallenge
      /\ challenges' = [Pruned EXCEPT ![c] = NewChallenge(o, action)]
      /\ UNCHANGED signatures
  BY DEF IssueChallenge
<1>3. DOMAIN Pruned = Challenges
  BY DEF Pruned
<1>4. \A d \in Challenges : challenges[d] # NoChallenge => challenges'[d] = Pruned[d]
  BY <1>2, <1>3
<1> QED
  BY <1>1, <1>2, <1>4 DEF ChallengesKept

LEMMA ConsumeKeeps ==
  ASSUME TypeOK, NEW p \in Processes, ConsumeChallenge(p)
  PROVE  ChallengesKept
<1> DEFINE c == handler[p].challenge
           row == [challenges[c] EXCEPT !.status = "used"]
<1>1. CASE UNCHANGED challenges
  BY <1>1 DEF ChallengesKept, ConsumeChallenge
<1>2. CASE ~ UNCHANGED challenges
  <2>1. /\ challenges' = [challenges EXCEPT ![c] = row]
        /\ challenges[c].status = "stored"
        /\ c \in Challenges
        /\ UNCHANGED signatures
    BY <1>2, HandlerShape DEF ConsumeChallenge, Unspent
  <2>2. /\ row # NoChallenge
        /\ row.action = challenges[c].action
        /\ row.operator = challenges[c].operator
        /\ row.status = "used"
    BY <2>1 DEF TypeOK, ChallengeRow, NoChallenge
  <2> QED
    BY <2>1, <2>2 DEF TypeOK, ChallengesKept
<1> QED
  BY <1>1, <1>2

LEMMA ChallengesAlwaysKept ==
  ASSUME TypeOK, CredentialStep
  PROVE  ChallengesKept
<1>1. ASSUME NEW p \in Processes, HandlerStep(p), ~ ConsumeChallenge(p)
      PROVE  UNCHANGED <<challenges, signatures>>
  BY <1>1 DEF HandlerStep, RequestSession, PostRevision, PostAgentToken,
              DeleteAgentToken, Request, SaveRevision, RevokeToken, Crash,
              SaveSession, SaveToken, tables
<1>2. ASSUME NEW c \in Challenges, Sign(c)
      PROVE  UNCHANGED challenges /\ signatures \subseteq signatures'
  BY <1>2 DEF Sign, tables
<1>3. ASSUME Tick
      PROVE  UNCHANGED <<challenges, signatures>>
  BY <1>3 DEF Tick, tables
<1> QED
  BY <1>1, <1>2, <1>3, IssueKeeps, ConsumeKeeps
     DEF CredentialStep, ChallengesKept
\* What a process writes beyond what was there comes from the purpose and the
\* challenge its handler holds, and ends that handler.
Wrote(p, x) ==
  /\ handler[p].at = "save"
  /\ x[4] = handler[p].challenge
  /\ x[3] = handler[p].action
  /\ handler' = [handler EXCEPT ![p] = Idle]

LEMMA ProducedStep ==
  ASSUME TypeOK, NEW p \in Processes, HandlerStep(p)
  PROVE  \/ Produced' = Produced
         \/ \E x : Produced' \subseteq Produced \cup {x} /\ Wrote(p, x)
<1>1. ASSUME NEW s \in Sessions, SaveSession(p, s)
      PROVE  \E x : Produced' \subseteq Produced \cup {x} /\ Wrote(p, x)
  <2> DEFINE x == <<"session", s, SessionCreate, handler[p].challenge>>
  <2>1. /\ \A u \in Sessions \ {s} : sessions'[u] = sessions[u]
        /\ sessions'[s].challenge = handler[p].challenge
        /\ UNCHANGED <<signedRows, tokens, revocations>>
    BY <1>1 DEF TypeOK, SaveSession, NewSession
  <2>2. Produced' \subseteq Produced \cup {x}
    BY <2>1 DEF Produced, OpenedSessions, IssuedTokens
  <2>3. Wrote(p, x)
    BY <1>1 DEF SaveSession, Wrote
  <2> QED
    BY <2>2, <2>3
<1>2. CASE SaveRevision(p)
  <2> DEFINE a == handler[p].action
             x == <<"row", a, a, handler[p].challenge>>
  <2>1. /\ signedRows' \subseteq
             signedRows \cup {[artifact |-> a, challenge |-> handler[p].challenge]}
        /\ signedRows \subseteq signedRows'
        /\ UNCHANGED <<sessions, tokens, revocations>>
    BY <1>2 DEF SaveRevision
  <2>2. Produced' \subseteq Produced \cup {x}
    BY <2>1 DEF Produced, OpenedSessions, IssuedTokens
  <2>3. Wrote(p, x)
    BY <1>2 DEF SaveRevision, Wrote
  <2> QED
    BY <2>2, <2>3
<1>3. ASSUME NEW t \in Tokens, SaveToken(p, t)
      PROVE  \E x : Produced' \subseteq Produced \cup {x} /\ Wrote(p, x)
  <2> DEFINE x == <<"token", t, handler[p].action, handler[p].challenge>>
  <2>1. /\ \A u \in Tokens \ {t} : tokens'[u] = tokens[u]
        /\ tokens'[t] # NoToken => /\ tokens'[t].artifact = handler[p].action
                                  /\ tokens'[t].challenge = handler[p].challenge
        /\ UNCHANGED <<sessions, signedRows, revocations>>
    BY <1>3 DEF TypeOK, SaveToken
  <2>2. Produced' \subseteq Produced \cup {x}
    BY <2>1 DEF Produced, OpenedSessions, IssuedTokens
  <2>3. Wrote(p, x)
    BY <1>3 DEF SaveToken, Wrote
  <2> QED
    BY <2>2, <2>3
<1>4. CASE RevokeToken(p)
  <2> DEFINE a == handler[p].action
             x == <<"revocation", a, a, handler[p].challenge>>
  <2>1. /\ revocations' \subseteq
             revocations \cup {[artifact |-> a, challenge |-> handler[p].challenge]}
        /\ UNCHANGED <<sessions, signedRows>>
    BY <1>4 DEF RevokeToken
  <2>2. ASSUME NEW t \in Tokens, tokens'[t] # NoToken
        PROVE  /\ tokens[t] # NoToken
               /\ tokens'[t].artifact = tokens[t].artifact
               /\ tokens'[t].challenge = tokens[t].challenge
    <3>1. CASE tokens'[t] = tokens[t]
      BY <2>2, <3>1
    <3>2. CASE tokens'[t] # tokens[t]
      <4>1. /\ tokens'[t] = [tokens[t] EXCEPT !.status = "revoked"]
            /\ tokens[t] # NoToken
        BY <1>4, <3>2 DEF TypeOK, RevokeToken, Revocable
      <4> QED
        BY <4>1 DEF TypeOK, TokenRow
    <3> QED
      BY <3>1, <3>2
  <2>3. Produced' \subseteq Produced \cup {x}
    BY <2>1, <2>2 DEF Produced, OpenedSessions, IssuedTokens
  <2>4. Wrote(p, x)
    BY <1>4 DEF RevokeToken, Wrote
  <2> QED
    BY <2>3, <2>4
<1>5. CASE /\ ~ \E s \in Sessions : SaveSession(p, s)
           /\ ~ \E t \in Tokens : SaveToken(p, t)
           /\ ~ SaveRevision(p) /\ ~ RevokeToken(p)
  <2>1. UNCHANGED <<sessions, signedRows, tokens, revocations>>
    BY <1>5 DEF HandlerStep, RequestSession, PostRevision, PostAgentToken,
                DeleteAgentToken, Request, ConsumeChallenge, Crash, tables
  <2> QED
    BY <2>1, ProducedSame
<1> QED
  BY <1>1, <1>2, <1>3, <1>4, <1>5

\* A new handler holds what it read: a challenge of the caller, signed and for
\* this very purpose, that nothing has spent.
LEMMA RequestSound ==
  ASSUME TypeOK, NEW p \in Processes, NEW o \in Operators, NEW c \in Challenges,
         RequestSession(p, o, c)
           \/ \E a \in Artifacts : Request(p, o, c, a)
  PROVE  /\ \A q \in Processes \ {p} : handler'[q] = handler[q]
         /\ handler'[p].at = "consume"
         /\ handler'[p].challenge = c
         /\ c \in signatures
         /\ challenges[c] # NoChallenge
         /\ challenges[c].action = handler'[p].action
         /\ handler'[p].action # SessionCreate =>
              challenges[c].operator = handler'[p].action.operator
         /\ UNCHANGED <<challenges, signatures, sessions, signedRows, tokens,
                        revocations>>
BY DEF TypeOK, RequestSession, Request, Usable, tables

LEMMA StoredKept ==
  ASSUME SigningInv, TypeOK, ChallengesKept, Produced' = Produced
  PROVE  (ProducedSpent /\ StoredAsSigned /\ ChallengeSignsOnce)'
BY ProducedElements
   DEF SigningInv, ChallengesKept, ProducedSpent, StoredAsSigned,
       ChallengeSignsOnce

LEMMA HandlersKept ==
  ASSUME SigningInv, TypeOK, ChallengesKept, Produced' = Produced,
         UNCHANGED handler
  PROVE  HandlersSound'
BY HandlerShape DEF SigningInv, ChallengesKept, HandlersSound

LEMMA SigningHandlerStep ==
  ASSUME SigningInv, TypeOK, NEW p \in Processes, HandlerStep(p)
  PROVE  SigningInv'
<1>0. ChallengesKept
  BY ChallengesAlwaysKept DEF CredentialStep
<1>1. ASSUME NEW o \in Operators, NEW c \in Challenges,
             RequestSession(p, o, c)
               \/ \E a \in Artifacts : Request(p, o, c, a)
      PROVE  SigningInv'
  <2>1. Produced' = Produced
    BY <1>1, RequestSound, ProducedSame
  <2>2. HandlersSound'
    BY <1>1, <2>1, RequestSound DEF SigningInv, HandlersSound
  <2> QED
    BY <1>0, <2>1, <2>2, StoredKept DEF SigningInv
<1>2. CASE ConsumeChallenge(p)
  <2> DEFINE c == handler[p].challenge
  <2>1. Produced' = Produced
    BY <1>2, ProducedSame DEF ConsumeChallenge
  <2>2. CASE handler' = [handler EXCEPT ![p] = Idle]
    <3>1. ASSUME NEW q \in Processes, handler'[q].at # "idle"
          PROVE  handler'[q] = handler[q]
      BY <2>2, <3>1 DEF TypeOK, Idle
    <3>2. HandlersSound'
      BY <1>0, <2>1, <3>1, HandlerShape DEF SigningInv, ChallengesKept, HandlersSound
    <3> QED
      BY <1>0, <2>1, <3>2, StoredKept DEF SigningInv
  <2>3. CASE handler' # [handler EXCEPT ![p] = Idle]
    <3>1. /\ challenges[c].status = "stored"
          /\ challenges' = [challenges EXCEPT ![c] =
                              [challenges[c] EXCEPT !.status = "used"]]
          /\ handler' = [handler EXCEPT ![p] = [handler[p] EXCEPT !.at = "save"]]
          /\ handler[p].at = "consume"
      BY <1>2, <2>3 DEF ConsumeChallenge, Unspent
    <3>2. /\ handler'[p].at = "save"
          /\ handler'[p].challenge = c
          /\ handler'[p].action = handler[p].action
          /\ \A q \in Processes \ {p} : handler'[q] = handler[q]
      <4>1. handler'[p] = [handler[p] EXCEPT !.at = "save"]
        BY <3>1 DEF TypeOK
      <4>2. handler[p] \in [at : {"consume", "save"}, operator : Operators,
                            action : Purposes, challenge : Challenges]
        BY <3>1 DEF TypeOK, HandlerState, Idle
      <4> QED
        BY <3>1, <4>1, <4>2 DEF TypeOK
    <3>3. challenges'[c].status # "stored"
      <4>1. c \in Challenges /\ challenges[c] \in ChallengeRow
        BY <3>1, HandlerShape DEF TypeOK, SigningInv, HandlersSound
      <4> QED
        BY <3>1, <4>1 DEF TypeOK, ChallengeRow
    <3>4. \A x \in Produced : x[4] # c
      BY <3>1 DEF SigningInv, ProducedSpent
    <3>5. \A q \in Processes : q # p /\ handler[q].at = "save" =>
             handler[q].challenge # c
      BY <3>1 DEF SigningInv, HandlersSound
    <3>6. HandlersSound'
      BY <1>0, <2>1, <3>1, <3>2, <3>3, <3>4, <3>5, HandlerShape
         DEF SigningInv, HandlersSound, ChallengesKept
    <3> QED
      BY <1>0, <2>1, <3>6, StoredKept DEF SigningInv
  <2> QED
    BY <1>0, <2>1, <2>2, <2>3, StoredKept DEF SigningInv
<1>3. CASE /\ handler' = [handler EXCEPT ![p] = Idle]
           /\ UNCHANGED challenges
  <2>1. ASSUME NEW q \in Processes, handler'[q].at # "idle"
        PROVE  q # p /\ handler'[q] = handler[q]
    BY <1>3, <2>1 DEF TypeOK, Idle
  <2>2. CASE Produced' = Produced
    <3>1. HandlersSound'
      BY <1>0, <2>1, <2>2, HandlerShape DEF SigningInv, HandlersSound, ChallengesKept
    <3> QED
      BY <1>0, <2>2, <3>1, StoredKept DEF SigningInv
  <2>3. ASSUME NEW x, Produced' \subseteq Produced \cup {x}, Wrote(p, x)
        PROVE  SigningInv'
    <3>1. /\ x[4] \in Challenges
          /\ \A y \in Produced : y[4] # x[4]
          /\ x[4] \in signatures
          /\ challenges[x[4]] # NoChallenge
          /\ challenges[x[4]].status # "stored"
          /\ challenges[x[4]].action = x[3]
          /\ x[3] # SessionCreate => challenges[x[4]].operator = x[3].operator
          /\ \A q \in Processes : q # p /\ handler[q].at = "save" =>
                handler[q].challenge # x[4]
      BY <2>3, HandlerShape DEF Wrote, SigningInv, HandlersSound
    <3>2. HandlersSound'
      BY <1>0, <2>1, <2>3, <3>1, HandlerShape
         DEF SigningInv, HandlersSound, ChallengesKept
    <3>3. (ProducedSpent /\ StoredAsSigned /\ ChallengeSignsOnce)'
      BY <1>0, <2>3, <3>1, ProducedElements
         DEF SigningInv, ChallengesKept, ProducedSpent, StoredAsSigned,
             ChallengeSignsOnce
    <3> QED
      BY <3>2, <3>3 DEF SigningInv
  <2> QED
    BY <2>2, <2>3, ProducedStep
<1> QED
  BY <1>1, <1>2, <1>3
     DEF HandlerStep, PostRevision, PostAgentToken, DeleteAgentToken,
         SaveRevision, SaveToken, SaveSession, RevokeToken, Crash, tables

LEMMA SigningStep == TypeOK /\ SigningInv /\ [Next]_vars => SigningInv'
<1> SUFFICES ASSUME TypeOK, SigningInv, [Next]_vars
             PROVE  SigningInv'
  OBVIOUS
<1>1. ASSUME NEW o \in Operators, NEW c \in Challenges, NEW action \in Purposes,
             IssueChallenge(o, c, action)
      PROVE  SigningInv'
  <2>1. ChallengesKept /\ Produced' = Produced /\ UNCHANGED handler
    BY <1>1, IssueKeeps, ProducedSame DEF IssueChallenge
  <2> QED
    BY <2>1, StoredKept, HandlersKept DEF SigningInv
<1>2. CASE (\E c \in Challenges : Sign(c)) \/ Tick \/ OperationStep \/ UNCHANGED vars
  <2>1. /\ UNCHANGED <<challenges, sessions, signedRows, tokens, revocations,
                       handler>>
        /\ signatures \subseteq signatures'
    BY <1>2, OperationFrame DEF Sign, Tick, tables, vars
  <2>2. ChallengesKept
    BY <2>1 DEF ChallengesKept
  <2> QED
    BY <2>1, <2>2, ProducedSame, StoredKept, HandlersKept DEF SigningInv
<1> QED
  BY <1>1, <1>2, SigningHandlerStep, NextSplit DEF CredentialStep

LEMMA SigningInit == Init => SigningInv
BY DEF Init, SigningInv, HandlersSound, ProducedSpent, StoredAsSigned,
       ChallengeSignsOnce, Produced, OpenedSessions, IssuedTokens, Idle

LEMMA SigningAlways == Spec => []SigningInv
BY SigningInit, SigningStep, TypeCorrect, PTL DEF Spec

\* A challenge opens one session or authorizes one stored artifact at most,
\* whichever processes read it before one of them consumed it.
THEOREM ChallengeAlwaysSignsOnce == Spec => []ChallengeSignsOnce
<1>1. SigningInv => ChallengeSignsOnce
  BY DEF SigningInv
<1> QED
  BY <1>1, SigningAlways, PTL

\* Every session, policy, decision, token and revocation in the tables has a
\* challenge that its operator signed for exactly this purpose.
THEOREM AlwaysStoredAsSigned == Spec => []StoredAsSigned
<1>1. SigningInv => StoredAsSigned
  BY DEF SigningInv
<1> QED
  BY <1>1, SigningAlways, PTL
-----------------------------------------------------------------------------
(***************************************************************************)
(* The numbers of signed revisions.                                        *)
(***************************************************************************)
\* Without a largest number, IsNext would not say which one comes next.
RevisionsGapless ==
  \A o \in Operators, k \in Kinds : \E m \in Nat : RevisionsOf(k, o) = 1..m

\* What IsNext let through may be overtaken, but leaves no gap.
HandlersInLine ==
  \A p \in Processes :
    LET a == handler[p].action
    IN handler[p].at # "idle" /\ a \in Artifacts =>
         1..(a.revision - 1) \subseteq RevisionsOf(a.kind, a.operator)

OnePerNumber ==
  \A r, q \in signedRows :
    (/\ r.artifact.kind = q.artifact.kind
     /\ r.artifact.operator = q.artifact.operator
     /\ r.artifact.revision = q.artifact.revision) => r = q

RevokedBySigned ==
  \A t \in Tokens :
    (tokens[t] # NoToken /\ tokens[t].status = "revoked") <=>
      \E r \in revocations : r.artifact.content = t

RevisionsInv ==
  RevisionsGapless /\ HandlersInLine /\ OnePerNumber /\ RevokedBySigned

LEMMA MaxOfRange ==
  ASSUME NEW m \in Nat
  PROVE  Max(1..m \cup {0}) = m
<1>1. m \in 1..m \cup {0} /\ \A y \in 1..m \cup {0} : m >= y
  OBVIOUS
<1>2. \A x \in 1..m \cup {0} :
        (\A y \in 1..m \cup {0} : x >= y) => x = m
  BY <1>1
<1> QED
  BY <1>1, <1>2 DEF Max

\* A number that leaves no gap extends the sequence or is in it.
LEMMA RangeGrows ==
  ASSUME NEW m \in Nat, NEW n \in Nat \ {0}, 1..(n - 1) \subseteq 1..m
  PROVE  \E h \in Nat : 1..m \cup {n} = 1..h
<1>1. CASE n <= m
  BY <1>1
<1>2. CASE n > m
  <2>1. n = m + 1
    <3>1. n - 1 >= 1 => n - 1 \in 1..m
      BY <1>2
    <3> QED
      BY <1>2, <3>1
  <2> QED
    BY <2>1
<1> QED
  BY <1>1, <1>2

LEMMA ArtifactShape ==
  ASSUME NEW a \in Artifacts
  PROVE  a.kind \in Kinds /\ a.operator \in Operators /\ a.revision \in Nat \ {0}
BY AccessAssumption DEF WellFormed

\* What a step may add to a sequence: the number its handler holds.
Grows(k, o, p) ==
  LET a == handler[p].action
  IN /\ handler[p].at = "save"
     /\ a \in Artifacts
     /\ RevisionsOf(k, o) = RevisionsOf(a.kind, a.operator)
     /\ RevisionsOf(k, o)' = RevisionsOf(k, o) \cup {a.revision}

LEMMA RevisionsSame ==
  ASSUME NEW k, NEW o, UNCHANGED <<signedRows, tokens, revocations>>
  PROVE  RevisionsOf(k, o)' = RevisionsOf(k, o)
BY DEF RevisionsOf, TokenRevisionsOf, RevocationRevisionsOf

LEMMA RevisionsGrow ==
  ASSUME TypeOK, NEW p \in Processes, HandlerStep(p), NEW k \in Kinds, NEW o
  PROVE  RevisionsOf(k, o)' = RevisionsOf(k, o) \/ Grows(k, o, p)
<1> DEFINE a == handler[p].action
<1>1. CASE SaveRevision(p)
  <2>1. a \in Artifacts /\ handler[p].at = "save"
    BY <1>1, SavesArtifact DEF SaveRevision
  <2>2. UNCHANGED <<tokens, revocations>>
    BY <1>1 DEF SaveRevision
  <2>3. CASE UNCHANGED signedRows
    BY <2>2, <2>3, RevisionsSame
  <2>4. CASE signedRows' = signedRows \cup
               {[artifact |-> a, challenge |-> handler[p].challenge]}
    <3>1. CASE k \in {"policy_revision", "provider_decision"} /\ k = a.kind
                 /\ o = a.operator
      BY <2>1, <2>4, <3>1 DEF RevisionsOf, Grows
    <3>2. CASE k \in {"policy_revision", "provider_decision"}
                 /\ ~(k = a.kind /\ o = a.operator)
      BY <2>4, <3>2 DEF RevisionsOf
    <3>3. CASE k \notin {"policy_revision", "provider_decision"}
      BY <2>2, <3>3 DEF RevisionsOf, TokenRevisionsOf, RevocationRevisionsOf
    <3> QED
      BY <3>1, <3>2, <3>3
  <2> QED
    BY <1>1, <2>3, <2>4 DEF SaveRevision
<1>2. CASE k \in {"policy_revision", "provider_decision"} /\ ~SaveRevision(p)
  <2>1. UNCHANGED signedRows
    BY <1>2 DEF HandlerStep, RequestSession, PostRevision, PostAgentToken,
                DeleteAgentToken, Request, ConsumeChallenge, RevokeToken, Crash,
                SaveSession, SaveToken, tables
  <2> QED
    BY <1>2, <2>1 DEF RevisionsOf
<1>3. CASE k \notin {"policy_revision", "provider_decision"} /\ RevokeToken(p)
  <2>1. a \in Artifacts /\ handler[p].at = "save" /\ a.kind = "agent_token_revoke"
    BY <1>3, SavesArtifact DEF RevokeToken
  <2>2. CASE UNCHANGED <<tokens, revocations>>
    BY <1>3, <2>2, RevisionsSame DEF RevokeToken
  <2>3. CASE ~UNCHANGED <<tokens, revocations>>
    <3>1. /\ revocations' = revocations \cup
               {[artifact |-> a, challenge |-> handler[p].challenge]}
          /\ tokens[a.content] # NoToken
          /\ tokens' = [tokens EXCEPT ![a.content] =
                          [tokens[a.content] EXCEPT !.status = "revoked"]]
      BY <1>3, <2>3 DEF RevokeToken, Revocable
    <3>2. \A t \in Tokens : /\ tokens'[t] # NoToken <=> tokens[t] # NoToken
                            /\ tokens[t] # NoToken =>
                                 tokens'[t].artifact = tokens[t].artifact
      <4>1. ASSUME NEW t \in Tokens, tokens[t] # NoToken
            PROVE  /\ [tokens[t] EXCEPT !.status = "revoked"] # NoToken
                   /\ [tokens[t] EXCEPT !.status = "revoked"].artifact
                        = tokens[t].artifact
        BY <4>1 DEF TypeOK, TokenRow, NoToken
      <4> QED
        BY <3>1, <4>1 DEF TypeOK
    <3>3. TokenRevisionsOf(o)' = TokenRevisionsOf(o)
      BY <3>2 DEF TokenRevisionsOf
    <3>4. RevocationRevisionsOf(o)' =
            RevocationRevisionsOf(o) \cup
              (IF o = a.operator THEN {a.revision} ELSE {})
      <4> DEFINE row == [artifact |-> a, challenge |-> handler[p].challenge]
      <4>0. row.artifact = a /\ revocations' = revocations \cup {row}
        BY <3>1
      <4> HIDE DEF row
      <4>1. CASE o = a.operator
        <5>1. {q \in revocations' : q.artifact.operator = o}
                = {q \in revocations : q.artifact.operator = o} \cup {row}
          BY <4>0, <4>1
        <5>2. {r.artifact.revision :
                 r \in {q \in revocations : q.artifact.operator = o} \cup {row}}
                = RevocationRevisionsOf(o) \cup {a.revision}
          BY <4>0 DEF RevocationRevisionsOf
        <5> QED
          BY <4>1, <5>1, <5>2 DEF RevocationRevisionsOf
      <4>2. CASE o # a.operator
        <5>1. {q \in revocations' : q.artifact.operator = o}
                = {q \in revocations : q.artifact.operator = o}
          BY <4>0, <4>2
        <5> QED
          BY <4>2, <5>1 DEF RevocationRevisionsOf
      <4> QED
        BY <4>1, <4>2
    <3> QED
      BY <1>3, <2>1, <3>3, <3>4 DEF RevisionsOf, Grows
  <2> QED
    BY <2>2, <2>3
<1>4. ASSUME k \notin {"policy_revision", "provider_decision"},
             NEW t \in Tokens, SaveToken(p, t)
      PROVE  RevisionsOf(k, o)' = RevisionsOf(k, o) \/ Grows(k, o, p)
  <2>1. a \in Artifacts /\ handler[p].at = "save" /\ a.kind = "agent_token_issue"
    BY <1>4, SavesArtifact DEF SaveToken
  <2>2. CASE UNCHANGED tokens
    BY <1>4, <2>2, RevisionsSame DEF SaveToken
  <2>3. CASE ~UNCHANGED tokens
    <3>1. /\ tokens[t] = NoToken
          /\ tokens'[t] # NoToken
          /\ tokens'[t].artifact = a
          /\ \A u \in Tokens \ {t} : tokens'[u] = tokens[u]
          /\ UNCHANGED revocations
      BY <1>4, <2>3 DEF TypeOK, SaveToken, NoToken
    <3>2. TokenRevisionsOf(o)' =
            TokenRevisionsOf(o) \cup
              (IF o = a.operator THEN {a.revision} ELSE {})
      BY <3>1 DEF TokenRevisionsOf
    <3>3. RevocationRevisionsOf(o)' = RevocationRevisionsOf(o)
      BY <3>1 DEF RevocationRevisionsOf
    <3> QED
      BY <1>4, <2>1, <3>2, <3>3 DEF RevisionsOf, Grows
  <2> QED
    BY <2>2, <2>3
<1>5. CASE /\ ~SaveRevision(p) /\ ~RevokeToken(p)
           /\ ~ \E t \in Tokens : SaveToken(p, t)
  <2>1. UNCHANGED <<signedRows, tokens, revocations>>
    BY <1>5 DEF HandlerStep, RequestSession, PostRevision, PostAgentToken,
                DeleteAgentToken, Request, ConsumeChallenge, Crash, SaveSession,
                tables
  <2> QED
    BY <2>1, RevisionsSame
<1> QED
  BY <1>1, <1>2, <1>3, <1>4, <1>5

LEMMA GaplessStep ==
  ASSUME TypeOK, RevisionsInv, NEW p \in Processes, HandlerStep(p)
  PROVE  /\ RevisionsGapless'
         /\ \A k \in Kinds, o \in Operators :
              RevisionsOf(k, o) \subseteq RevisionsOf(k, o)'
<1> SUFFICES ASSUME NEW k \in Kinds, NEW o \in Operators
             PROVE  /\ \E m \in Nat : RevisionsOf(k, o)' = 1..m
                    /\ RevisionsOf(k, o) \subseteq RevisionsOf(k, o)'
  BY DEF RevisionsGapless
<1>1. PICK m \in Nat : RevisionsOf(k, o) = 1..m
  BY DEF RevisionsInv, RevisionsGapless
<1>2. CASE RevisionsOf(k, o)' = RevisionsOf(k, o)
  BY <1>1, <1>2
<1>3. CASE Grows(k, o, p)
  <2> DEFINE n == handler[p].action.revision
  <2>1. /\ n \in Nat \ {0}
        /\ 1..(n - 1) \subseteq 1..m
        /\ RevisionsOf(k, o)' = 1..m \cup {n}
    BY <1>1, <1>3, ArtifactShape DEF Grows, RevisionsInv, HandlersInLine
  <2>2. \E h \in Nat : 1..m \cup {n} = 1..h
    BY <2>1, RangeGrows
  <2> QED
    BY <1>1, <2>1, <2>2
<1> QED
  BY <1>2, <1>3, RevisionsGrow

LEMMA InLineStep ==
  ASSUME TypeOK, RevisionsInv, NEW p \in Processes, HandlerStep(p)
  PROVE  HandlersInLine'
<1> SUFFICES ASSUME NEW q \in Processes, NEW a \in Artifacts,
                    handler'[q].at # "idle", handler'[q].action = a
             PROVE  1..(a.revision - 1) \subseteq RevisionsOf(a.kind, a.operator)'
  BY DEF HandlersInLine, RevisionsOf, TokenRevisionsOf, RevocationRevisionsOf
<1>0. RevisionsOf(a.kind, a.operator) \subseteq RevisionsOf(a.kind, a.operator)'
  BY GaplessStep, ArtifactShape
<1>1. ASSUME handler[q].at # "idle", handler[q].action = a
      PROVE  1..(a.revision - 1) \subseteq RevisionsOf(a.kind, a.operator)
  BY <1>1 DEF RevisionsInv, HandlersInLine
<1>2. ASSUME NEW o \in Operators, NEW c \in Challenges, NEW b \in Artifacts,
             Request(p, o, c, b)
      PROVE  1..(a.revision - 1) \subseteq RevisionsOf(a.kind, a.operator)
  <2>1. CASE q = p
    <3>1. a = b /\ IsNext(a)
      BY <1>2, <2>1 DEF TypeOK, Request
    <3>2. PICK m \in Nat : RevisionsOf(a.kind, a.operator) = 1..m
      BY ArtifactShape DEF RevisionsInv, RevisionsGapless
    <3>3. a.revision = m + 1
      BY <3>1, <3>2, MaxOfRange DEF IsNext
    <3> QED
      BY <3>2, <3>3
  <2>2. CASE q # p
    BY <1>1, <1>2, <2>2 DEF TypeOK, Request
  <2> QED
    BY <2>1, <2>2
<1>3. CASE ConsumeChallenge(p)
  <2>1. \/ handler' = [handler EXCEPT ![p] = [handler[p] EXCEPT !.at = "save"]]
        \/ handler' = [handler EXCEPT ![p] = Idle]
    BY <1>3 DEF ConsumeChallenge
  <2>2. handler[p] \in [at : {"consume", "save"}, operator : Operators,
                        action : Purposes, challenge : Challenges]
    BY <1>3 DEF TypeOK, ConsumeChallenge, HandlerState, Idle
  <2>3. [handler[p] EXCEPT !.at = "save"].action = handler[p].action
    BY <2>2
  <2>4. handler[q].at # "idle" /\ handler[q].action = a
    <3>1. CASE q = p
      BY <2>1, <2>2, <2>3, <3>1 DEF TypeOK, Idle
    <3>2. CASE q # p
      BY <2>1, <3>2 DEF TypeOK
    <3> QED
      BY <3>1, <3>2
  <2> QED
    BY <1>0, <1>1, <2>4
<1>4. ASSUME NEW o \in Operators, NEW c \in Challenges, RequestSession(p, o, c)
      PROVE  1..(a.revision - 1) \subseteq RevisionsOf(a.kind, a.operator)
  BY <1>1, <1>4, SessionCreateApart DEF TypeOK, RequestSession
<1>5. CASE handler' = [handler EXCEPT ![p] = Idle]
  BY <1>0, <1>1, <1>5 DEF TypeOK, Idle
<1> QED
  BY <1>0, <1>2, <1>3, <1>4, <1>5
     DEF HandlerStep, PostRevision, PostAgentToken, DeleteAgentToken,
         SaveRevision, SaveToken, SaveSession, RevokeToken, Crash

LEMMA RowsStep ==
  ASSUME TypeOK, RevisionsInv, NEW p \in Processes, HandlerStep(p)
  PROVE  OnePerNumber'
<1>1. CASE SaveRevision(p)
  <2> DEFINE a == handler[p].action
  <2>1. a.kind \in {"policy_revision", "provider_decision"}
    BY <1>1 DEF SaveRevision
  <2>2. ASSUME ~Taken(a), NEW r \in signedRows
        PROVE  ~(/\ r.artifact.kind = a.kind
                 /\ r.artifact.operator = a.operator
                 /\ r.artifact.revision = a.revision)
    BY <2>1, <2>2 DEF Taken, RevisionsOf
  <2> QED
    BY <1>1, <2>2 DEF SaveRevision, RevisionsInv, OnePerNumber
<1>2. CASE ~SaveRevision(p)
  <2>1. UNCHANGED signedRows
    BY <1>2 DEF HandlerStep, RequestSession, PostRevision, PostAgentToken,
                DeleteAgentToken, Request, ConsumeChallenge, RevokeToken, Crash,
                SaveSession, SaveToken, tables
  <2> QED
    BY <2>1 DEF RevisionsInv, OnePerNumber
<1> QED
  BY <1>1, <1>2

LEMMA RevokedStep ==
  ASSUME TypeOK, RevisionsInv, NEW p \in Processes, HandlerStep(p)
  PROVE  RevokedBySigned'
<1>1. CASE RevokeToken(p) /\ ~UNCHANGED <<tokens, revocations>>
  <2> DEFINE a == handler[p].action
             row == [artifact |-> a, challenge |-> handler[p].challenge]
  <2>0. row.artifact = a
    OBVIOUS
  <2>1. /\ revocations' = revocations \cup {row}
        /\ tokens[a.content] # NoToken
        /\ tokens' = [tokens EXCEPT ![a.content] =
                        [tokens[a.content] EXCEPT !.status = "revoked"]]
    BY <1>1 DEF RevokeToken, Revocable
  <2>2. a.content \in Tokens
    BY <1>1, SavesArtifact, RevocationNamesToken DEF RevokeToken
  <2>3. /\ tokens'[a.content] # NoToken
        /\ tokens'[a.content].status = "revoked"
        /\ \A t \in Tokens \ {a.content} : tokens'[t] = tokens[t]
    <3>1. LET revoked == [tokens[a.content] EXCEPT !.status = "revoked"]
          IN revoked # NoToken /\ revoked.status = "revoked"
      BY <2>1, <2>2 DEF TypeOK, TokenRow, NoToken
    <3> QED
      BY <2>1, <2>2, <3>1 DEF TypeOK
  <2> HIDE DEF row
  <2>4. \E r \in revocations' : r.artifact.content = a.content
    BY <2>0, <2>1
  <2>5. ASSUME NEW t \in Tokens \ {a.content}
        PROVE  (\E r \in revocations' : r.artifact.content = t) <=>
                  \E r \in revocations : r.artifact.content = t
    BY <2>0, <2>1
  <2> QED
    BY <2>2, <2>3, <2>4, <2>5 DEF RevisionsInv, RevokedBySigned
<1>2. ASSUME NEW t \in Tokens, SaveToken(p, t)
      PROVE  RevokedBySigned'
  <2>1. /\ tokens[t] = NoToken
        /\ tokens'[t] # NoToken => tokens'[t].status = "active"
        /\ \A u \in Tokens \ {t} : tokens'[u] = tokens[u]
        /\ UNCHANGED revocations
    BY <1>2 DEF TypeOK, SaveToken
  <2> QED
    BY <2>1 DEF RevisionsInv, RevokedBySigned
<1>3. CASE UNCHANGED <<tokens, revocations>>
  BY <1>3 DEF RevisionsInv, RevokedBySigned
<1> QED
  BY <1>1, <1>2, <1>3
     DEF HandlerStep, RequestSession, PostRevision, PostAgentToken,
         DeleteAgentToken, Request, ConsumeChallenge, SaveRevision, Crash,
         SaveSession, tables

LEMMA RevisionsStep == TypeOK /\ RevisionsInv /\ [Next]_vars => RevisionsInv'
<1> SUFFICES ASSUME TypeOK, RevisionsInv, [Next]_vars
             PROVE  RevisionsInv'
  OBVIOUS
<1>1. ASSUME NEW p \in Processes, HandlerStep(p)
      PROVE  RevisionsInv'
  BY <1>1, GaplessStep, InLineStep, RowsStep, RevokedStep DEF RevisionsInv
<1>2. CASE UNCHANGED <<signedRows, tokens, revocations, handler>>
  <2>1. (RevisionsGapless /\ HandlersInLine)'
    <3>1. \A k \in Kinds : \A o : RevisionsOf(k, o)' = RevisionsOf(k, o)
      BY <1>2, RevisionsSame
    <3>2. RevisionsGapless'
      BY <3>1 DEF RevisionsInv, RevisionsGapless
    <3>3. HandlersInLine'
      BY <1>2, <3>1, ArtifactShape DEF RevisionsInv, HandlersInLine
    <3> QED
      BY <3>2, <3>3
  <2>2. (OnePerNumber /\ RevokedBySigned)'
    BY <1>2 DEF RevisionsInv, OnePerNumber, RevokedBySigned
  <2> QED
    BY <2>1, <2>2 DEF RevisionsInv
<1> QED
  BY <1>1, <1>2, OperationFrame, NextSplit
     DEF CredentialStep, IssueChallenge, Sign, Tick, tables, vars

LEMMA RevisionsInit == Init => RevisionsInv
<1> SUFFICES ASSUME Init
             PROVE  RevisionsInv
  OBVIOUS
<1>1. \A o \in Operators, k \in Kinds : RevisionsOf(k, o) = {}
  BY DEF Init, RevisionsOf, TokenRevisionsOf, RevocationRevisionsOf
<1>2. {} = 1..0
  OBVIOUS
<1> QED
  BY <1>1, <1>2
     DEF Init, RevisionsInv, RevisionsGapless, HandlersInLine, OnePerNumber,
         RevokedBySigned, Idle, NoToken

LEMMA RevisionsAlways == Spec => []RevisionsInv
BY RevisionsInit, RevisionsStep, TypeCorrect, PTL DEF Spec

\* Whatever two processes race for, whatever is refused or dies after its
\* challenge was spent, the numbers in the tables stay 1, 2, 3 without a gap,
\* no policy or decision shares its number, and a token is revoked exactly
\* when the signed revocation is kept.
THEOREM RevisionsAlwaysSequential == Spec => []RevisionsSequential
<1>1. RevisionsInv => RevisionsSequential
  <2> SUFFICES ASSUME RevisionsInv, NEW o \in Operators, NEW k \in Kinds,
                      NEW n \in RevisionsOf(k, o)
               PROVE  1..n \subseteq RevisionsOf(k, o)
    BY DEF RevisionsInv, OnePerNumber, RevokedBySigned, RevisionsSequential
  <2>1. PICK m \in Nat : RevisionsOf(k, o) = 1..m
    BY DEF RevisionsInv, RevisionsGapless
  <2> QED
    BY <2>1
<1> QED
  BY <1>1, RevisionsAlways, PTL
=============================================================================
