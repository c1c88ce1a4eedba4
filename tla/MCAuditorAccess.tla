-------------------------- MODULE MCAuditorAccess --------------------------
(***************************************************************************)
(* Instances of AuditorAccess for TLC.                                     *)
(***************************************************************************)
EXTENDS AuditorAccess, TLC

CONSTANTS p1, p2, o1, c1, c2, c3, c4, s1, s2, t1, t2, k1, w1, w2, a1, a2, h1

Artifact(kind, revision, content) ==
  [kind |-> kind, operator |-> o1, revision |-> revision, content |-> content]

Grant(scopes) == [scopes |-> scopes, payers |-> {w1}, until |-> 1]

\* Two first policies compete; a second token and a revocation need a first
\* token, and both want the second number.
SignedArtifacts ==
  {Artifact("policy_revision", 1, a1), Artifact("policy_revision", 1, a2),
   Artifact("agent_token_issue", 1, Grant({"checks:write"})),
   Artifact("agent_token_issue", 2, Grant({"checks:write", "settlements:write"})),
   Artifact("agent_token_revoke", 2, t1)}

\* Bounds: once a check is asked for, no policy is signed and one process
\* serves; a fourth challenge is issued for tokens only, with one session and
\* before any check.
Requested == calls # {} \/ \E k \in Checks : checks[k] # NoCheck
Issued == {c \in Challenges : challenges[c] # NoChallenge}
ForPolicies == {c \in Issued : challenges[c].action.kind = "policy_revision"}
Bounded ==
  /\ Requested => /\ ForPolicies = {}
                  /\ Cardinality({p \in Processes : handler[p] # Idle}) < 2
  /\ Cardinality(Issued) > 3 =>
       ~Requested /\ ForPolicies = {} /\ Cardinality(OpenedSessions) < 2

Symmetric == Permutations(Challenges) \cup Permutations(Processes)
             \cup Permutations(Sessions)
=============================================================================
