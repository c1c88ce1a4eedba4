------------------------- MODULE WebAuditFlowProofs -------------------------
(***************************************************************************)
(* What the payment checker of the web app promises whichever answer comes *)
(* late and whatever the user changes meanwhile, proved for any requests,  *)
(* terms, bounds and number of calls in flight. PaidAsChecked needs that   *)
(* every approval, on the page or held by a closure, is one for the terms  *)
(* of its check; OnePollLoop needs that the loop which runs is the loop of *)
(* the receipt that is shown.                                              *)
(***************************************************************************)
EXTENDS WebAuditFlow, FiniteSetTheorems, TLAPS

Loops(S) == {c \in S : c.kind \in {"timer", "poll"}}
Paying(S) == {c \in S : c.kind \in {"wallet", "paid"}}

(* The report API says PAY only for an authorization of the check's terms.  *)
Sound(x) == x.verdict = "pay" => x.draft = x.terms

ApprovalsSound ==
  /\ check.data # Null => Sound(check.data)
  /\ \A c \in Paying(calls) : Sound(c.data.check)

LoopOfReceipt ==
  /\ \A c, d \in Loops(calls) : c = d
  /\ \A c \in Loops(calls) : receipt.data = c.data.id /\ receipt.poll # "terminal"

FlowInv == TypeOK /\ ApprovalsSound /\ PaidAsChecked /\ LoopOfReceipt

-----------------------------------------------------------------------------
(* The states of a step. *)
LEMMA StepStates ==
  ASSUME NEW D
  PROVE  /\ Idle \in Step(D) /\ Failed \in Step(D) /\ Running \in Step(D)
         /\ \A d \in D : Success(d) \in Step(D) /\ Success(d).data = d
         /\ Idle.data = Null /\ Failed.data = Null /\ Running.data = Null
BY DEF Idle, Failed, Running, Success, Step

(* The states of the receipt. *)
LEMMA ReceiptStates ==
  /\ IdleReceipt \in [data : Keys \cup {Null}, poll : {"idle", "polling", "terminal"}]
  /\ \A id \in Keys, terminal \in BOOLEAN :
       Receipt(id, terminal) \in [data : Keys \cup {Null}, poll : {"idle", "polling", "terminal"}]
BY DEF IdleReceipt, Receipt

(* The closures that buttons and answers start. *)
LEMMA Started ==
  /\ \A r \in Requests : Call("probe", [request |-> r]) \in Closures
  /\ \A k \in Keys, r \in Requests, t \in Terms, d \in Terms \cup {Null} :
       Call("check", [id |-> k, request |-> r, terms |-> t, draft |-> d]) \in Closures
  /\ \A k \in Keys : /\ Call("verify", [id |-> k]) \in Closures
                     /\ Call("observe", [id |-> k]) \in Closures
                     /\ Call("refresh", [id |-> k]) \in Closures
                     /\ [Call("settle", [id |-> k]) EXCEPT !.attempt = 1] \in Closures
  /\ \A x \in Checks, g \in Charges, r \in Requests :
       Call("wallet", [check |-> x, charge |-> g, request |-> r, signature |-> Null]) \in Payments
  /\ \A k \in Keys, n \in 1 .. PollAttempts : Timer(k, n) \subseteq Closures
<1>0. PollAttempts \in Nat \ {0} /\ SettlementAttempts \in Nat \ {0}
  BY WebAssumption
<1>1. \A r \in Requests : Call("probe", [request |-> r]) \in Waiting({"probe"}, [request : Requests], {0})
  BY DEF Call, Waiting
<1>2. \A k \in Keys, r \in Requests, t \in Terms, d \in Terms \cup {Null} :
        Call("check", [id |-> k, request |-> r, terms |-> t, draft |-> d])
          \in Waiting({"check"}, [id : Keys, request : Requests, terms : Terms,
                                  draft : Terms \cup {Null}], {0})
  BY DEF Call, Waiting
<1>3. \A k \in Keys : /\ Call("verify", [id |-> k]) \in Waiting({"verify", "observe", "refresh"}, [id : Keys], {0})
                      /\ Call("observe", [id |-> k]) \in Waiting({"verify", "observe", "refresh"}, [id : Keys], {0})
                      /\ Call("refresh", [id |-> k]) \in Waiting({"verify", "observe", "refresh"}, [id : Keys], {0})
  BY DEF Call, Waiting
<1>4. \A k \in Keys : [Call("settle", [id |-> k]) EXCEPT !.attempt = 1]
                        \in Waiting({"settle"}, [id : Keys], 1 .. SettlementAttempts)
  <2> SUFFICES ASSUME NEW k \in Keys
               PROVE  [Call("settle", [id |-> k]) EXCEPT !.attempt = 1]
                        \in Waiting({"settle"}, [id : Keys], 1 .. SettlementAttempts)
    OBVIOUS
  <2>1. 1 \in 1 .. SettlementAttempts
    BY <1>0
  <2>2. Call("settle", [id |-> k]) \in Waiting({"settle"}, [id : Keys], {0})
    BY DEF Call, Waiting
  <2>3. \A c \in Waiting({"settle"}, [id : Keys], {0}) :
          [c EXCEPT !.attempt = 1] \in Waiting({"settle"}, [id : Keys], 1 .. SettlementAttempts)
    BY <2>1 DEF Waiting
  <2> QED
    BY <2>2, <2>3
<1>5. \A x \in Checks, g \in Charges, r \in Requests :
        Call("wallet", [check |-> x, charge |-> g, request |-> r, signature |-> Null]) \in Payments
  BY DEF Call, Payments
<1>6. \A k \in Keys, n \in 1 .. PollAttempts :
        Timer(k, n) \subseteq Waiting({"timer", "poll"}, [id : Keys], 1 .. PollAttempts)
  <2> SUFFICES ASSUME NEW k \in Keys, NEW n \in 1 .. PollAttempts
               PROVE  [kind |-> "timer", data |-> [id |-> k], attempt |-> n, current |-> TRUE]
                        \in Waiting({"timer", "poll"}, [id : Keys], 1 .. PollAttempts)
    BY DEF Timer
  <2> QED
    BY DEF Waiting
<1> QED
  BY <1>1, <1>2, <1>3, <1>4, <1>5, <1>6 DEF Closures

(* Asking for an observation, for the check of any closure.                 *)
LEMMA ObserveTyped ==
  ASSUME NEW id \in Keys \cup {Null}, NEW waiting, waiting \subseteq Closures, Observe(id, waiting)
  PROVE  calls' \subseteq Closures /\ observation' \in Step({"recorded"})
<1>1. id # Null => Call("observe", [id |-> id]) \in Closures
  BY Started
<1>2. Running \in Step({"recorded"}) /\ Failed \in Step({"recorded"})
  BY StepStates
<1> QED
  BY <1>1, <1>2 DEF Observe

(* The result of a verification is whether it is a match.                   *)
LEMMA VerdictStep == \A v \in Verdicts : Success(v = "match") \in Step(BOOLEAN)
<1>1. \A b \in BOOLEAN : Success(b) \in Step(BOOLEAN)
  BY StepStates
<1> QED
  BY <1>1

(* The shape of a closure by its kind. *)
LEMMA ClosureShapes ==
  ASSUME NEW c \in Closures
  PROVE  /\ c.kind \in {"wallet", "paid", "probe", "check", "verify", "observe", "refresh",
                        "timer", "poll", "settle"}
         /\ c.kind \in {"wallet", "paid"} => c \in Payments
         /\ c.kind = "probe" => c.data \in [request : Requests]
         /\ c.kind = "check" => c.data \in [id : Keys, request : Requests, terms : Terms,
                                            draft : Terms \cup {Null}]
         /\ c.kind \in {"verify", "observe", "refresh", "timer", "poll", "settle"} => c.data.id \in Keys
         /\ c.kind \in {"timer", "poll"} =>
              c \in Waiting({"timer", "poll"}, [id : Keys], 1 .. PollAttempts)
         /\ c.kind = "settle" => c \in Waiting({"settle"}, [id : Keys], 1 .. SettlementAttempts)
<1>1. CASE c \in Payments
  BY <1>1 DEF Payments
<1>2. CASE c \in Waiting({"probe"}, [request : Requests], {0})
  BY <1>2 DEF Waiting
<1>3. CASE c \in Waiting({"check"}, [id : Keys, request : Requests, terms : Terms,
                                     draft : Terms \cup {Null}], {0})
  BY <1>3 DEF Waiting
<1>4. CASE c \in Waiting({"verify", "observe", "refresh"}, [id : Keys], {0})
  BY <1>4 DEF Waiting
<1>5. CASE c \in Waiting({"timer", "poll"}, [id : Keys], 1 .. PollAttempts)
  BY <1>5 DEF Waiting
<1>6. CASE c \in Waiting({"settle"}, [id : Keys], 1 .. SettlementAttempts)
  BY <1>6 DEF Waiting
<1> QED
  BY <1>1, <1>2, <1>3, <1>4, <1>5, <1>6 DEF Closures

(* What supersedes a run leaves no loop, and of the payments their data.    *)
LEMMA SupersededCalls ==
  ASSUME NEW S, S \subseteq Closures
  PROVE  /\ Superseded(S) \subseteq Closures
         /\ Loops(Superseded(S)) = {}
         /\ \A c \in Superseded(S) : c.kind \in {"wallet", "paid"} =>
              \E d \in S : d.kind = c.kind /\ d.data = c.data
<1> SUFFICES ASSUME NEW c \in Superseded(S)
             PROVE  /\ c \in Closures
                    /\ c.kind \notin {"timer", "poll"}
                    /\ c.kind \in {"wallet", "paid"} =>
                         \E d \in S : d.kind = c.kind /\ d.data = c.data
  BY DEF Loops
<1>1. PICK d \in S :
        /\ d.kind \notin {"timer", "poll", "settle"}
        /\ c = IF d.kind \in {"wallet", "paid"} THEN [d EXCEPT !.current = FALSE] ELSE d
  BY DEF Superseded
<1>2. CASE d.kind \in {"wallet", "paid"}
  <2>1. d \in Payments
    BY <1>2, ClosureShapes
  <2>2. c \in Payments /\ c.kind = d.kind /\ c.data = d.data
    BY <1>1, <1>2, <2>1 DEF Payments
  <2> QED
    BY <2>2, <1>2 DEF Closures
<1>3. CASE d.kind \notin {"wallet", "paid"}
  BY <1>1, <1>3
<1> QED
  BY <1>2, <1>3

-----------------------------------------------------------------------------
(* Every button keeps the shape of the page and of what waits.              *)
LEMMA ButtonsTyped == TypeOK /\ Buttons => TypeOK'
<1> SUFFICES ASSUME TypeOK, Buttons PROVE TypeOK'
  OBVIOUS
<1> USE DEF TypeOK
<1>0. MaxKeys \in Nat \ {0} /\ Superseded(calls) \subseteq Closures
  BY WebAssumption, SupersededCalls
<1>1. CASE SetToken
  BY <1>1 DEF SetToken, steps
<1>2. CASE \E r \in Requests : SetProbeInput(r)
  BY <1>2 DEF SetProbeInput, steps
<1>3. CASE SignOut
  BY <1>0, <1>3, StepStates, ReceiptStates DEF SignOut, ClearPollTimer
<1>4. CASE RunProbe
  BY <1>0, <1>4, StepStates, ReceiptStates, Started DEF RunProbe, ClearPollTimer
<1>5. CASE PreparePaymentDetails
  BY <1>5 DEF PreparePaymentDetails, HasCharge, steps, Step, Charges
<1>6. CASE \E t \in Terms : PasteAuthorization(t)
  BY <1>6, StepStates DEF PasteAuthorization
<1>7. ASSUME NEW k \in Keys, NEW waiting, waiting \subseteq Closures, HasCharge,
             ExecuteCheck(k, waiting)
      PROVE  check' \in Step(Checks) /\ calls' \subseteq Closures
  <2>1. probe.data \in Charges
    BY <1>7 DEF HasCharge, Step
  <2>2. probe.data.request \in Requests /\ probe.data.terms \in Terms
    BY <2>1 DEF Charges
  <2> QED
    BY <1>7, <2>2, StepStates, Started DEF ExecuteCheck
<1>8. ASSUME MintKey PROVE minted' \in 0 .. MaxKeys /\ minted' \in Keys
  BY <1>0, <1>8 DEF MintKey, Keys
<1>9. CASE RunCheck
  <2>1. key' \in Keys /\ minted' \in 0 .. MaxKeys /\ stored' \in Checks \cup {Null}
    BY <1>8, <1>9 DEF RunCheck
  <2>2. HasCharge /\ ExecuteCheck(key', calls)
    BY <1>9 DEF RunCheck
  <2>3. check' \in Step(Checks) /\ calls' \subseteq Closures
    BY <1>7, <2>1, <2>2
  <2> QED
    BY <1>9, <2>1, <2>3 DEF RunCheck
<1>10. CASE Recheck
  <2>1. key' \in Keys /\ minted' \in 0 .. MaxKeys /\ stored' \in Checks \cup {Null}
    BY <1>8, <1>10 DEF Recheck
  <2>2. HasCharge /\ ExecuteCheck(key', ClearPollTimer) /\ ClearPollTimer \subseteq Closures
    BY <1>0, <1>10 DEF Recheck, ClearPollTimer
  <2>3. check' \in Step(Checks) /\ calls' \subseteq Closures
    BY <1>7, <2>1, <2>2
  <2> QED
    BY <1>10, <2>1, <2>3, StepStates, ReceiptStates DEF Recheck
<1>11. CASE VerifySettlement
  <2>1. check.data.id \in Keys
    BY <1>11 DEF VerifySettlement, IsPay, Step, Checks, Keys
  <2> QED
    BY <1>11, <2>1, StepStates, Started DEF VerifySettlement
<1>12. CASE RecordObservation
  <2>1. check.data # Null => check.data.id \in Keys
    BY DEF Step, Checks, Keys
  <2>2. Observe(IF check.data = Null THEN Null ELSE check.data.id, calls)
    BY <1>12 DEF RecordObservation
  <2>3. calls' \subseteq Closures /\ observation' \in Step({"recorded"})
    BY <2>1, <2>2, ObserveTyped
  <2> QED
    BY <1>12, <2>3 DEF RecordObservation
<1>13. CASE RefreshReceipt
  BY <1>13, Started DEF RefreshReceipt, steps
<1>14. CASE PayWithWallet
  <2>1. check.data \in Checks /\ (probe.data # Null => probe.data \in Charges)
    BY <1>14 DEF PayWithWallet, IsPay, Step
  <2>2. Payments \subseteq Closures
    BY DEF Closures
  <2>3. calls' \subseteq Closures
    BY <1>0, <1>14, <2>1, <2>2, Started DEF PayWithWallet, ClearPollTimer
  <2> QED
    BY <1>14, <2>3, StepStates, ReceiptStates DEF PayWithWallet
<1> QED
  BY <1>1, <1>2, <1>3, <1>4, <1>5, <1>6, <1>9, <1>10, <1>11, <1>12, <1>13, <1>14 DEF Buttons

(* And so does every answer.                                                *)
LEMMA AnswersTyped == TypeOK /\ Answers => TypeOK'
<1> SUFFICES ASSUME TypeOK, Answers PROVE TypeOK'
  OBVIOUS
<1> USE DEF TypeOK
<1>0. MaxKeys \in Nat \ {0} /\ PollAttempts \in Nat \ {0} /\ SettlementAttempts \in Nat \ {0}
  BY WebAssumption
<1>1. PICK c \in calls :
        \/ ProbeAnswers(c) \/ CheckAnswers(c) \/ VerifyAnswers(c) \/ ObservationAnswers(c)
        \/ PollReceipt(c) \/ PollAnswers(c) \/ RefreshAnswers(c)
        \/ SignCheckedPayment(c) \/ PaymentFails(c) \/ PaymentSubmitted(c) \/ SettlementPolled(c)
  BY DEF Answers
<1> c \in Closures
  OBVIOUS
<1>2. calls \ {c} \subseteq Closures /\ Superseded(calls \ {c}) \subseteq Closures
  BY SupersededCalls
<1>3. ASSUME NEW id \in Keys, NEW terminal \in BOOLEAN,
             StartReceiptPolling(id, terminal, calls \ {c})
      PROVE  /\ receipt' \in [data : Keys \cup {Null}, poll : {"idle", "polling", "terminal"}]
             /\ calls' \subseteq Closures
  <2>1. 1 \in 1 .. PollAttempts
    BY <1>0
  <2> QED
    BY <1>2, <1>3, <2>1, ReceiptStates, Started DEF StartReceiptPolling
<1>4. CASE ProbeAnswers(c)
  BY <1>2, <1>4, StepStates DEF ProbeAnswers
<1>5. CASE CheckAnswers(c)
  <2>1. stored' \in Checks \cup {Null}
    BY <1>5 DEF CheckAnswers, CreateCheck
  <2>2. check' \in Step(Checks)
    BY <1>5, StepStates DEF CheckAnswers
  <2> QED
    BY <1>2, <1>5, <2>1, <2>2 DEF CheckAnswers
<1>6. CASE VerifyAnswers(c)
  <2>1. \A v \in Verdicts : Success(v = "match") \in Step(BOOLEAN)
    BY VerdictStep
  <2>2. settlement' \in Step(BOOLEAN)
    BY <1>6, <2>1, StepStates DEF VerifyAnswers
  <2> QED
    BY <1>2, <1>6, <2>2 DEF VerifyAnswers
<1>7. CASE ObservationAnswers(c)
  <2>1. c.data.id \in Keys
    BY <1>7, ClosureShapes DEF ObservationAnswers
  <2>2. /\ receipt' \in [data : Keys \cup {Null}, poll : {"idle", "polling", "terminal"}]
        /\ calls' \subseteq Closures
    BY <1>2, <1>3, <1>7, <2>1 DEF ObservationAnswers
  <2> QED
    BY <1>7, <2>2, StepStates DEF ObservationAnswers
<1>8. CASE PollReceipt(c)
  <2>1. c \in Waiting({"timer", "poll"}, [id : Keys], 1 .. PollAttempts)
    BY <1>8, ClosureShapes DEF PollReceipt
  <2>2. [c EXCEPT !.kind = "poll"] \in Waiting({"timer", "poll"}, [id : Keys], 1 .. PollAttempts)
    BY <2>1 DEF Waiting
  <2>3. calls' \subseteq Closures
    BY <1>2, <1>8, <2>2 DEF PollReceipt, Closures
  <2> QED
    BY <1>8, <2>3 DEF PollReceipt, steps
<1>9. CASE PollAnswers(c)
  <2>1. c.data.id \in Keys /\ c \in Waiting({"timer", "poll"}, [id : Keys], 1 .. PollAttempts)
    BY <1>9, ClosureShapes DEF PollAnswers
  <2>2. c.attempt < PollAttempts => c.attempt + 1 \in 1 .. PollAttempts
    BY <1>0, <2>1 DEF Waiting
  <2>3. c.attempt \in 1 .. PollAttempts
    BY <2>1 DEF Waiting
  <2>4. calls' \subseteq Closures
    BY <1>0, <1>2, <1>9, <2>1, <2>2, <2>3, Started DEF PollAnswers
  <2>5. receipt' \in [data : Keys \cup {Null}, poll : {"idle", "polling", "terminal"}]
    BY <1>9, <2>1, ReceiptStates DEF PollAnswers
  <2> QED
    BY <1>9, <2>4, <2>5 DEF PollAnswers
<1>10. CASE RefreshAnswers(c)
  <2>1. c.data.id \in Keys
    BY <1>10, ClosureShapes DEF RefreshAnswers
  <2>2. /\ receipt' \in [data : Keys \cup {Null}, poll : {"idle", "polling", "terminal"}]
        /\ calls' \subseteq Closures
    BY <1>2, <1>3, <1>10, <2>1 DEF RefreshAnswers
  <2> QED
    BY <1>10, <2>2 DEF RefreshAnswers
<1>11. CASE SignCheckedPayment(c)
  <2>1. c \in Payments
    BY <1>11, ClosureShapes DEF SignCheckedPayment
  <2>2. \A answer \in WalletAnswers : [c EXCEPT !.kind = "paid", !.data.signature = answer] \in Payments
    BY <2>1 DEF Payments
  <2>3. calls' \subseteq Closures
    BY <1>2, <1>11, <2>2 DEF SignCheckedPayment, Closures
  <2> QED
    BY <1>11, <2>3 DEF SignCheckedPayment, steps
<1>12. CASE PaymentFails(c)
  BY <1>2, <1>12, StepStates DEF PaymentFails
<1>13. CASE PaymentSubmitted(c)
  <2>1. c \in Payments
    BY <1>13, ClosureShapes DEF PaymentSubmitted
  <2>2. c.data.check.id \in Keys
    BY <2>1 DEF Payments, Checks, Keys
  <2>3. calls' \subseteq Closures
    BY <1>2, <1>13, <2>2, Started DEF PaymentSubmitted
  <2> QED
    BY <1>13, <2>3, StepStates DEF PaymentSubmitted
<1>14. CASE SettlementPolled(c)
  <2>1. c.data.id \in Keys /\ c \in Waiting({"settle"}, [id : Keys], 1 .. SettlementAttempts)
    BY <1>14, ClosureShapes DEF SettlementPolled
  <2>2. c.attempt < SettlementAttempts =>
          [c EXCEPT !.attempt = @ + 1] \in Waiting({"settle"}, [id : Keys], 1 .. SettlementAttempts)
    <3> SUFFICES ASSUME c.attempt < SettlementAttempts
                 PROVE  [c EXCEPT !.attempt = c.attempt + 1]
                          \in Waiting({"settle"}, [id : Keys], 1 .. SettlementAttempts)
      OBVIOUS
    <3>1. c.attempt + 1 \in 1 .. SettlementAttempts
      BY <1>0, <2>1 DEF Waiting
    <3> QED
      BY <2>1, <3>1 DEF Waiting
  <2>3. ASSUME Observe(c.data.id, calls \ {c})
        PROVE  calls' \subseteq Closures /\ observation' \in Step({"recorded"})
    BY <1>2, <2>1, <2>3, ObserveTyped
  <2>5. calls' \subseteq Closures /\ observation' \in Step({"recorded"})
    BY <1>2, <1>14, <2>2, <2>3 DEF SettlementPolled, Closures
  <2>6. settlement' \in Step(BOOLEAN)
    BY <1>14, VerdictStep, StepStates DEF SettlementPolled
  <2> QED
    BY <1>14, <2>5, <2>6 DEF SettlementPolled
<1> QED
  BY <1>1, <1>4, <1>5, <1>6, <1>7, <1>8, <1>9, <1>10, <1>11, <1>12, <1>13, <1>14

-----------------------------------------------------------------------------
(* What most steps do to the payments and to the loop that are in flight.   *)
PaymentsKept ==
  \A c \in Paying(calls') : \E d \in Paying(calls) : d.kind = c.kind /\ d.data = c.data

LoopKept ==
  \/ Loops(calls') = {}
  \/ /\ Loops(calls') \subseteq Loops(calls)
     /\ receipt'.data = receipt.data
     /\ receipt.poll # "terminal" => receipt'.poll # "terminal"

(* A button starts no loop, supersedes what runs when it changes the        *)
(* receipt, and clears the check or leaves it alone. Only payWithWallet     *)
(* starts a payment.                                                        *)
LEMMA ButtonsKeep ==
  TypeOK /\ Buttons => /\ PaymentsKept \/ PayWithWallet
                       /\ LoopKept
                       /\ check'.data = Null \/ check' = check
<1> SUFFICES ASSUME TypeOK, Buttons
             PROVE  /\ PaymentsKept \/ PayWithWallet
                    /\ LoopKept
                    /\ check'.data = Null \/ check' = check
  OBVIOUS
<1>0. calls \subseteq Closures
  BY DEF TypeOK
<1>1. Loops(Superseded(calls)) = {}
  BY <1>0, SupersededCalls
<1>2. ASSUME calls' = calls, receipt' = receipt PROVE PaymentsKept /\ LoopKept
  BY <1>2 DEF PaymentsKept, LoopKept
<1>3. ASSUME NEW T, T = calls \/ T = Superseded(calls), receipt' = receipt \/ T = Superseded(calls),
             \/ calls' = T
             \/ \E kind \in {"probe", "check", "verify", "observe", "refresh"} : \E d :
                  calls' = T \cup {Call(kind, d)}
      PROVE  PaymentsKept /\ LoopKept
  <2>1. \A c \in Paying(T) : \E d \in Paying(calls) : d.kind = c.kind /\ d.data = c.data
    BY <1>0, <1>3, SupersededCalls DEF Paying
  <2>2. CASE calls' = T
    BY <1>1, <1>3, <2>1, <2>2 DEF PaymentsKept, LoopKept
  <2>3. ASSUME NEW kind \in {"probe", "check", "verify", "observe", "refresh"}, NEW d,
               calls' = T \cup {Call(kind, d)}
        PROVE  PaymentsKept /\ LoopKept
    <3>1. Call(kind, d).kind = kind
      BY DEF Call
    <3>2. Paying(calls') = Paying(T) /\ Loops(calls') = Loops(T)
      BY <2>3, <3>1 DEF Paying, Loops
    <3> QED
      BY <1>1, <1>3, <2>1, <3>2 DEF PaymentsKept, LoopKept
  <2> QED
    BY <1>3, <2>2, <2>3
<1>4. CASE SetToken
  BY <1>2, <1>4 DEF SetToken, steps
<1>5. CASE \E r \in Requests : SetProbeInput(r)
  BY <1>2, <1>5 DEF SetProbeInput, steps
<1>6. CASE SignOut
  BY <1>3, <1>6, StepStates DEF SignOut, ClearPollTimer
<1>7. CASE RunProbe
  BY <1>3, <1>7, StepStates DEF RunProbe, ClearPollTimer
<1>8. CASE PreparePaymentDetails
  BY <1>2, <1>8 DEF PreparePaymentDetails, steps
<1>9. CASE \E t \in Terms : PasteAuthorization(t)
  BY <1>2, <1>9 DEF PasteAuthorization
<1>10. CASE RunCheck
  BY <1>3, <1>10, StepStates DEF RunCheck, ExecuteCheck
<1>11. CASE Recheck
  BY <1>3, <1>11, StepStates DEF Recheck, ExecuteCheck, ClearPollTimer
<1>12. CASE VerifySettlement
  BY <1>3, <1>12 DEF VerifySettlement
<1>13. CASE RecordObservation
  BY <1>3, <1>13 DEF RecordObservation, Observe
<1>14. CASE RefreshReceipt
  BY <1>3, <1>14 DEF RefreshReceipt, steps
<1>15. CASE PayWithWallet
  <2>1. check' = check
    BY <1>15 DEF PayWithWallet
  <2>2. CASE token /\ probe.data # Null
    <3>1. PICK d : calls' = Superseded(calls) \cup {Call("wallet", d)}
      BY <1>15, <2>2 DEF PayWithWallet, ClearPollTimer
    <3>2. Loops(calls') = {}
      BY <1>1, <3>1 DEF Loops, Call
    <3> QED
      BY <1>15, <2>1, <3>2 DEF LoopKept
  <2>3. CASE ~(token /\ probe.data # Null)
    BY <1>2, <1>15, <2>1, <2>3 DEF PayWithWallet
  <2> QED
    BY <2>2, <2>3
<1> QED
  BY <1>4, <1>5, <1>6, <1>7, <1>8, <1>9, <1>10, <1>11, <1>12, <1>13, <1>14, <1>15 DEF Buttons

(* An answer ends its closure. A loop goes on from its own answer only, and *)
(* is started by an answer that brings a receipt and supersedes the others. *)
FollowsLoop ==
  \A c, d \in Loops(calls') : c = d /\ receipt'.data = c.data.id /\ receipt'.poll # "terminal"

LEMMA TimerFollows ==
  ASSUME NEW id, NEW attempt, NEW terminal \in BOOLEAN,
         receipt' = Receipt(id, terminal),
         Loops(calls') \subseteq IF terminal THEN {} ELSE Timer(id, attempt)
  PROVE  FollowsLoop
<1>1. \A c \in Timer(id, attempt) :
        c = [kind |-> "timer", data |-> [id |-> id], attempt |-> attempt, current |-> TRUE]
  BY DEF Timer
<1> DEFINE timer == [kind |-> "timer", data |-> [id |-> id], attempt |-> attempt, current |-> TRUE]
<1>2. timer.data.id = id
  OBVIOUS
<1> HIDE DEF timer
<1>3. \A c, d \in Timer(id, attempt) : c = d /\ c.data.id = id
  <2>1. \A c \in Timer(id, attempt) : c = timer
    BY <1>1 DEF timer
  <2> QED
    BY <1>2, <2>1
<1> QED
  BY <1>3 DEF FollowsLoop, Receipt

LEMMA AnswersKeep ==
  ASSUME TypeOK, LoopOfReceipt, Answers
  PROVE  /\ PaymentsKept \/ \E c \in calls : SignCheckedPayment(c)
         /\ LoopKept \/ FollowsLoop
         /\ check'.data # Null => Sound(check'.data) \/ check' = check
<1>0. calls \subseteq Closures
  BY DEF TypeOK
<1>1. PICK c \in calls :
        \/ ProbeAnswers(c) \/ CheckAnswers(c) \/ VerifyAnswers(c) \/ ObservationAnswers(c)
        \/ PollReceipt(c) \/ PollAnswers(c) \/ RefreshAnswers(c)
        \/ SignCheckedPayment(c) \/ PaymentFails(c) \/ PaymentSubmitted(c) \/ SettlementPolled(c)
  BY DEF Answers
<1>2. c \in Closures /\ calls \ {c} \subseteq Closures
  BY <1>0
<1>3. /\ Loops(Superseded(calls \ {c})) = {}
      /\ \A e \in Paying(Superseded(calls \ {c})) :
           \E d \in Paying(calls) : d.kind = e.kind /\ d.data = e.data
  BY <1>2, SupersededCalls DEF Paying
<1>4. c.kind \in {"timer", "poll"} => Loops(calls \ {c}) = {}
  BY DEF Loops, LoopOfReceipt
<1>5. ASSUME calls' = calls \ {c}
      PROVE  /\ PaymentsKept /\ Loops(calls') \subseteq Loops(calls)
             /\ receipt' = receipt \/ receipt' = [receipt EXCEPT !.poll = "idle"] => LoopKept
  <2>1. PaymentsKept /\ Loops(calls') \subseteq Loops(calls)
    BY <1>5 DEF PaymentsKept, Paying, Loops
  <2>2. receipt \in [data : Keys \cup {Null}, poll : {"idle", "polling", "terminal"}]
    BY DEF TypeOK
  <2>3. receipt' = [receipt EXCEPT !.poll = "idle"] =>
          receipt'.data = receipt.data /\ receipt'.poll # "terminal"
    BY <2>2
  <2> QED
    BY <2>1, <2>3 DEF LoopKept
<1>6. ASSUME NEW new, new.kind \notin {"timer", "poll", "wallet", "paid"}, receipt' = receipt,
             calls' = (calls \ {c}) \cup {new}
      PROVE  PaymentsKept /\ LoopKept
  BY <1>6 DEF PaymentsKept, LoopKept, Paying, Loops
<1>7. ASSUME NEW id, NEW terminal \in BOOLEAN, StartReceiptPolling(id, terminal, calls \ {c})
      PROVE  PaymentsKept /\ FollowsLoop
  <2>1. \A d \in Timer(id, 1) : d.kind = "timer"
    BY DEF Timer
  <2>2. /\ Loops(calls') \subseteq IF terminal THEN {} ELSE Timer(id, 1)
        /\ Paying(calls') \subseteq Paying(Superseded(calls \ {c}))
    BY <1>3, <1>7, <2>1 DEF StartReceiptPolling, Loops, Paying
  <2>3. receipt' = Receipt(id, terminal)
    BY <1>7 DEF StartReceiptPolling
  <2>4. FollowsLoop
    BY <2>2, <2>3, TimerFollows
  <2> QED
    BY <1>3, <2>2, <2>4 DEF PaymentsKept
<1>8. CASE ProbeAnswers(c)
  BY <1>5, <1>8 DEF ProbeAnswers
<1>9. CASE CheckAnswers(c)
  <2>1. \A answer \in Checks : CreateCheck(c.data, answer) => Sound(answer)
    BY DEF CreateCheck, Sound
  <2>2. check'.data # Null => Sound(check'.data)
    BY <1>9, <2>1 DEF CheckAnswers, Success, Failed, Idle
  <2> QED
    BY <1>5, <1>9, <2>2 DEF CheckAnswers
<1>10. CASE VerifyAnswers(c)
  BY <1>5, <1>10 DEF VerifyAnswers
<1>11. CASE ObservationAnswers(c)
  BY <1>5, <1>7, <1>11 DEF ObservationAnswers
<1>12. CASE PollReceipt(c)
  <2> DEFINE new == [c EXCEPT !.kind = "poll"]
  <2>1. c \in Waiting({"timer", "poll"}, [id : Keys], 1 .. PollAttempts) /\ c \in Loops(calls)
    BY <1>2, <1>12, ClosureShapes DEF PollReceipt, Loops
  <2>2. new.kind = "poll" /\ new.data = c.data
    BY <2>1 DEF Waiting
  <2>3. calls' = (calls \ {c}) \cup {new} /\ receipt' = receipt /\ check' = check
    BY <1>12 DEF PollReceipt, steps
  <2> HIDE DEF new
  <2>4. Loops(calls') = {new} /\ PaymentsKept
    BY <1>4, <2>1, <2>2, <2>3 DEF Loops, PaymentsKept, Paying
  <2>5. FollowsLoop
    BY <2>1, <2>2, <2>3, <2>4 DEF FollowsLoop, LoopOfReceipt
  <2> QED
    BY <2>3, <2>4, <2>5
<1>13. CASE PollAnswers(c)
  <2>1. check' = check
    BY <1>13 DEF PollAnswers
  <2>2. ASSUME NEW terminal \in BOOLEAN, receipt' = Receipt(c.data.id, terminal),
               calls' = (calls \ {c}) \cup
                 IF terminal \/ c.attempt >= PollAttempts THEN {}
                 ELSE Timer(c.data.id, c.attempt + 1)
        PROVE  PaymentsKept /\ FollowsLoop
    <3>1. \A d \in Timer(c.data.id, c.attempt + 1) : d.kind = "timer"
      BY DEF Timer
    <3>2. c.kind = "poll"
      BY <1>13 DEF PollAnswers
    <3>3. /\ Loops(calls') \subseteq IF terminal THEN {} ELSE Timer(c.data.id, c.attempt + 1)
          /\ Paying(calls') \subseteq Paying(calls)
      BY <1>4, <2>2, <3>1, <3>2 DEF Loops, Paying
    <3>4. FollowsLoop
      BY <2>2, <3>3, TimerFollows
    <3> QED
      BY <3>3, <3>4 DEF PaymentsKept
  <2> QED
    BY <1>5, <1>13, <2>1, <2>2 DEF PollAnswers
<1>14. CASE RefreshAnswers(c)
  BY <1>5, <1>7, <1>14 DEF RefreshAnswers
<1>15. CASE SignCheckedPayment(c)
  <2>1. PICK answer \in WalletAnswers :
          calls' = (calls \ {c}) \cup {[c EXCEPT !.kind = "paid", !.data.signature = answer]}
    BY <1>15 DEF SignCheckedPayment
  <2>2. c \in Payments
    BY <1>2, <1>15, ClosureShapes DEF SignCheckedPayment
  <2> DEFINE new == [c EXCEPT !.kind = "paid", !.data.signature = answer]
  <2>3. new.kind = "paid"
    BY <2>2 DEF Payments
  <2> HIDE DEF new
  <2>4. Loops(calls') \subseteq Loops(calls)
    BY <2>1, <2>3 DEF Loops, new
  <2>5. receipt' = receipt /\ check' = check
    BY <1>15 DEF SignCheckedPayment, steps
  <2> QED
    BY <1>15, <2>4, <2>5 DEF LoopKept
<1>16. CASE PaymentFails(c)
  BY <1>5, <1>16 DEF PaymentFails
<1>17. CASE PaymentSubmitted(c)
  <2> DEFINE new == [Call("settle", [id |-> c.data.check.id]) EXCEPT !.attempt = 1]
  <2>1. new.kind = "settle"
    BY DEF Call
  <2>2. receipt' = receipt /\ check' = check
    BY <1>17 DEF PaymentSubmitted
  <2>3. calls' = calls \ {c} \/ calls' = (calls \ {c}) \cup {new}
    BY <1>17 DEF PaymentSubmitted
  <2> HIDE DEF new
  <2> QED
    BY <1>5, <1>6, <2>1, <2>2, <2>3
<1>18. CASE SettlementPolled(c)
  <2> DEFINE new == [c EXCEPT !.attempt = @ + 1]
  <2>1. c \in Waiting({"settle"}, [id : Keys], 1 .. SettlementAttempts)
    BY <1>2, <1>18, ClosureShapes DEF SettlementPolled
  <2>2. new.kind = "settle"
    BY <2>1 DEF Waiting
  <2>3. receipt' = receipt /\ check' = check
    BY <1>18 DEF SettlementPolled
  <2>4. Call("observe", [id |-> c.data.id]).kind = "observe"
    BY DEF Call
  <2>5. \/ calls' = calls \ {c}
        \/ calls' = (calls \ {c}) \cup {new}
        \/ calls' = (calls \ {c}) \cup {Call("observe", [id |-> c.data.id])}
    BY <1>18 DEF SettlementPolled, Observe
  <2> HIDE DEF new
  <2> QED
    BY <1>5, <1>6, <2>2, <2>3, <2>4, <2>5
<1> QED
  BY <1>1, <1>8, <1>9, <1>10, <1>11, <1>12, <1>13, <1>14, <1>15, <1>16, <1>17, <1>18

-----------------------------------------------------------------------------
(* The properties from what the steps keep.                                 *)
LEMMA LoopStep == LoopOfReceipt /\ (LoopKept \/ FollowsLoop) => LoopOfReceipt'
<1>1. LoopOfReceipt /\ LoopKept => LoopOfReceipt'
  BY DEF LoopOfReceipt, LoopKept
<1>2. FollowsLoop => LoopOfReceipt'
  BY DEF LoopOfReceipt, FollowsLoop
<1> QED
  BY <1>1, <1>2

LEMMA PaymentStep ==
  ApprovalsSound /\ PaidAsChecked /\ PaymentsKept
    => PaidAsChecked' /\ \A c \in Paying(calls') : Sound(c.data.check)
BY DEF ApprovalsSound, PaidAsChecked, PaymentsKept, Paying

(* What is signed has passed the three comparisons of walletPayment.ts.     *)
LEMMA SignStep ==
  ASSUME TypeOK, ApprovalsSound, PaidAsChecked, NEW c \in calls, SignCheckedPayment(c)
  PROVE  ApprovalsSound' /\ PaidAsChecked'
<1>1. PICK answer \in WalletAnswers :
        /\ SignWalletAuthorization(answer)
        /\ calls' = (calls \ {c}) \cup {[c EXCEPT !.kind = "paid", !.data.signature = answer]}
  BY DEF SignCheckedPayment
<1>2. c \in Payments /\ c \in Paying(calls)
  BY ClosureShapes DEF SignCheckedPayment, TypeOK, Paying
<1> DEFINE new == [c EXCEPT !.kind = "paid", !.data.signature = answer]
<1>3. /\ new.kind = "paid" /\ new.data.signature = answer /\ new.data.check = c.data.check
      /\ new.data.charge = c.data.charge /\ new.data.request = c.data.request
  BY <1>2 DEF Payments
<1>4. calls' = (calls \ {c}) \cup {new}
  BY <1>1
<1> HIDE DEF new
<1>5. Sound(c.data.check)
  BY <1>2 DEF ApprovalsSound
<1>6. /\ c.data.check.verdict = "pay" /\ c.data.check.status = "reserved"
      /\ c.data.charge.terms = c.data.check.terms /\ c.data.request = c.data.check.request
  BY DEF SignCheckedPayment, ApprovedAuthorization, CheckedChallenge, CheckedRequest
<1>7. answer = [account |-> "payer", digest |-> "approved"]
  BY <1>1 DEF SignWalletAuthorization, WalletAnswers
<1>8. PaidAsChecked'
  BY <1>3, <1>4, <1>5, <1>6, <1>7 DEF PaidAsChecked, Sound
<1>9. check' = check
  BY DEF SignCheckedPayment, steps
<1>10. ApprovalsSound'
  BY <1>3, <1>4, <1>5, <1>9 DEF ApprovalsSound, Paying
<1> QED
  BY <1>8, <1>10

(* What the wallet is asked for is the approval on the page.                *)
LEMMA WalletStep ==
  ASSUME TypeOK, ApprovalsSound, PaidAsChecked, PayWithWallet
  PROVE  ApprovalsSound' /\ PaidAsChecked'
<1>1. check' = check /\ IsPay
  BY DEF PayWithWallet
<1>2. CASE ~(token /\ probe.data # Null)
  <2>1. calls' = calls
    BY <1>2 DEF PayWithWallet
  <2> QED
    BY <1>1, <2>1 DEF ApprovalsSound, PaidAsChecked, Paying
<1>3. CASE token /\ probe.data # Null
  <2> DEFINE new == Call("wallet", [check |-> check.data, charge |-> probe.data,
                                    request |-> input, signature |-> Null])
  <2>1. calls' = Superseded(calls) \cup {new}
    BY <1>3 DEF PayWithWallet, ClearPollTimer
  <2>2. new.kind = "wallet" /\ new.data.check = check.data
    BY DEF Call
  <2> HIDE DEF new
  <2>3. \A c \in Superseded(calls) : c.kind \in {"wallet", "paid"} =>
          \E d \in calls : d.kind = c.kind /\ d.data = c.data
    BY SupersededCalls DEF TypeOK
  <2>4. Sound(check.data)
    BY <1>1 DEF IsPay, ApprovalsSound
  <2>5. PaidAsChecked'
    BY <2>1, <2>2, <2>3 DEF PaidAsChecked
  <2>6. ApprovalsSound'
    BY <1>1, <2>1, <2>2, <2>3, <2>4 DEF ApprovalsSound, Paying
  <2> QED
    BY <2>5, <2>6
<1> QED
  BY <1>2, <1>3

LEMMA FlowInductive == FlowInv /\ [Next]_vars => FlowInv'
<1> SUFFICES ASSUME FlowInv, [Next]_vars PROVE FlowInv'
  OBVIOUS
<1>0. TypeOK /\ ApprovalsSound /\ PaidAsChecked /\ LoopOfReceipt
  BY DEF FlowInv
<1>1. CASE Buttons
  <2>1. TypeOK' /\ LoopOfReceipt'
    BY <1>0, <1>1, ButtonsTyped, ButtonsKeep, LoopStep
  <2>2. CASE PayWithWallet
    BY <1>0, <2>1, <2>2, WalletStep DEF FlowInv
  <2>3. CASE PaymentsKept
    <3>1. check'.data = Null \/ check' = check
      BY <1>0, <1>1, ButtonsKeep
    <3> QED
      BY <1>0, <2>1, <2>3, <3>1, PaymentStep DEF FlowInv, ApprovalsSound
  <2> QED
    BY <1>0, <1>1, <2>2, <2>3, ButtonsKeep
<1>2. CASE Answers
  <2>1. TypeOK' /\ LoopOfReceipt'
    BY <1>0, <1>2, AnswersTyped, AnswersKeep, LoopStep
  <2>2. CASE \E c \in calls : SignCheckedPayment(c)
    BY <1>0, <2>1, <2>2, SignStep DEF FlowInv
  <2>3. CASE PaymentsKept
    <3>1. check'.data # Null => Sound(check'.data) \/ check' = check
      BY <1>0, <1>2, AnswersKeep
    <3> QED
      BY <1>0, <2>1, <2>3, <3>1, PaymentStep DEF FlowInv, ApprovalsSound
  <2> QED
    BY <1>0, <1>2, <2>2, <2>3, AnswersKeep
<1>3. CASE UNCHANGED vars
  BY <1>0, <1>3 DEF FlowInv, vars, steps, TypeOK, ApprovalsSound, PaidAsChecked, LoopOfReceipt
<1> QED
  BY <1>1, <1>2, <1>3 DEF Next

LEMMA FlowInit == Init => FlowInv
<1> SUFFICES ASSUME Init PROVE FlowInv
  OBVIOUS
<1>1. calls = {} /\ check = Idle
  BY DEF Init
<1>2. TypeOK
  <2>1. MaxKeys \in Nat
    BY WebAssumption
  <2>2. /\ probe \in Step(Charges) /\ check \in Step(Checks) /\ settlement \in Step(BOOLEAN)
        /\ payment \in Step({"sent"}) /\ observation \in Step({"recorded"})
    BY StepStates, Zenon DEF Init
  <2>3. receipt \in [data : Keys \cup {Null}, poll : {"idle", "polling", "terminal"}]
    BY ReceiptStates DEF Init
  <2>4. token = FALSE /\ minted = 0 /\ calls = {}
    BY DEF Init
  <2>5. token \in BOOLEAN /\ calls \subseteq Closures
    BY <2>4
  <2>6. minted \in 0 .. MaxKeys
    BY <2>1, <2>4
  <2> QED
    BY <2>2, <2>3, <2>5, <2>6 DEF Init, TypeOK
<1>3. ApprovalsSound /\ PaidAsChecked /\ LoopOfReceipt
  BY <1>1, StepStates DEF ApprovalsSound, PaidAsChecked, LoopOfReceipt, Paying, Loops
<1> QED
  BY <1>2, <1>3 DEF FlowInv

LEMMA FlowAlways == Spec => []FlowInv
BY FlowInit, FlowInductive, PTL DEF Spec

(* The steps of the page, its closures and the stored check keep their      *)
(* shape, and no loop counts further than its attempts.                     *)
THEOREM TypeCorrect == Spec => []TypeOK
<1>1. FlowInv => TypeOK
  BY DEF FlowInv
<1> QED
  BY <1>1, FlowAlways, PTL

(* Whatever overlaps, a request leaves with a signature only as the report  *)
(* API has approved it (walletPayment.ts:37).                               *)
THEOREM AlwaysPaidAsChecked == Spec => []PaidAsChecked
<1>1. FlowInv => PaidAsChecked
  BY DEF FlowInv
<1> QED
  BY <1>1, FlowAlways, PTL

(* At most one loop polls, and it polls the receipt on the page             *)
(* (useAuditFlow.ts:198).                                                   *)
THEOREM AlwaysOnePollLoop == Spec => []OnePollLoop
<1>1. LoopOfReceipt => OnePollLoop
  <2> SUFFICES ASSUME LoopOfReceipt PROVE OnePollLoop
    OBVIOUS
  <2> DEFINE loops == {c \in calls : c.kind \in {"timer", "poll"}}
  <2>1. \A c, d \in loops : c = d
    BY DEF LoopOfReceipt, Loops
  <2>2. \A c \in loops : receipt.data = c.data.id /\ receipt.poll # "terminal"
    BY DEF LoopOfReceipt, Loops
  <2>3. loops = {} \/ \E c : loops = {c}
    BY <2>1
  <2> HIDE DEF loops
  <2>4. Cardinality(loops) = 0 \/ Cardinality(loops) = 1
    BY <2>3, FS_EmptySet, FS_Singleton
  <2>5. Cardinality(loops) <= 1
    BY <2>4
  <2> QED
    BY <2>2, <2>5 DEF OnePollLoop, loops
<1>2. FlowInv => OnePollLoop
  BY <1>1 DEF FlowInv
<1> QED
  BY <1>2, FlowAlways, PTL
=============================================================================
