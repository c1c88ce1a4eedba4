--------------------------- MODULE ReportSources ---------------------------
(***************************************************************************)
(* What the report API has in memory beside its quotes: the report in the  *)
(* making, what it read of the fee token and the payment service, the      *)
(* pairs of CSPR.trade, the progress of a probe of a paid service, and the *)
(* counts of its request limits.  They share no state, so a behaviour that *)
(* interleaves them is one of each; here a behaviour follows one of them,  *)
(* and the others stand still.                                             *)
(***************************************************************************)
EXTENDS TrustEvidence, PaymentReadiness, MarketCache, X402Probe, RequestLimits

VARIABLE followed   \* the one that runs

NoSubject ==
  /\ versions = <<>> /\ holders = Null /\ account = Null /\ check = Idle
  /\ seen = [enabled |-> {}, newest |-> {}, accounts |-> {}]

SourcesInit ==
  /\ ReadinessInit /\ MarketInit /\ ProbeInit /\ LimitsInit
  /\ followed \in {"evidence", "readiness", "market", "probe", "limits"}
  /\ IF followed = "evidence" THEN Init ELSE NoSubject
  /\ followed # "limits" => limit = EnvPositiveInteger(DefaultLimit)
  /\ followed # "readiness" => configuration = CHOOSE c \in Configurations : TRUE

SourcesNext ==
  /\ \/ /\ followed = "evidence" /\ Next
        /\ UNCHANGED <<readinessVars, marketVars, probeVars, limitVars>>
     \/ /\ followed = "readiness" /\ ReadinessNext
        /\ UNCHANGED <<vars, marketVars, probeVars, limitVars>>
     \/ /\ followed = "market" /\ MarketNext
        /\ UNCHANGED <<vars, readinessVars, probeVars, limitVars>>
     \/ /\ followed = "probe" /\ ProbeNext
        /\ UNCHANGED <<vars, readinessVars, marketVars, limitVars>>
     \/ /\ followed = "limits" /\ LimitsNext
        /\ UNCHANGED <<vars, readinessVars, marketVars, probeVars>>
  /\ UNCHANGED followed

SourcesSpec ==
  SourcesInit /\ [][SourcesNext]_<<vars, readinessVars, marketVars, probeVars, limitVars, followed>>
=============================================================================
