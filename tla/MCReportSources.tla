--------------------------- MODULE MCReportSources --------------------------
(***************************************************************************)
(* Two requests that need the payment to be ready, a market of two pages,  *)
(* a probe of up to two addresses per lookup and two redirects, three      *)
(* addresses of which a limit remembers two, and the subjects of           *)
(* MCTrustEvidence.                                                        *)
(***************************************************************************)
EXTENDS ReportSources, MCTrustEvidence

CONSTANTS k1, k2, l1, l2, p1, p2, c1, c2, c3

Symmetry == Permutations({k1, k2})

Environments ==
  LET sound == [fields |-> "complete", url |-> "valid", authorization |-> "set"]
  IN {sound, [sound EXCEPT !.fields = "incomplete"], [sound EXCEPT !.url = "invalid"],
      [sound EXCEPT !.authorization = "missing"]}

Literal == [family |-> 4, class |-> "public"]
LiteralHosts == ("numeric" :> Literal)
ProbeAddresses ==
  {[family |-> 4, class |-> "public"], [family |-> 6, class |-> "loopback"],
   [family |-> 4, class |-> "private"]}
=============================================================================
