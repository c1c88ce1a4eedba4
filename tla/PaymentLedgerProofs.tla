------------------------ MODULE PaymentLedgerProofs ------------------------
(***************************************************************************)
(* Proofs about PaymentLedger, for any sets of requests, workers,          *)
(* processes, transactions and any clock.                                  *)
(***************************************************************************)
EXTENDS PaymentLedger, FiniteSetTheorems, WellFoundedInduction, TLAPS

\* Expiring the reservations of the past keeps the shape of their table.
LEMMA ExpiryTyped ==
  ASSUME TypeOK
  PROVE  AfterExpiry \in [Checks -> ReservationRow \cup {NoRow}]
<1>1. SUFFICES ASSUME NEW c \in Lapsed
               PROVE  [reservations[c] EXCEPT !.status = "expired"]
                        \in ReservationRow
  BY DEF AfterExpiry, TypeOK
<1>2. reservations[c] \in ReservationRow
  BY DEF Lapsed, TypeOK, NoRow
<1> QED
  BY <1>2 DEF ReservationRow, ReservationStatuses

\* What a request in flight carries at each point where it can be interrupted.
LEMMA WorkerShape ==
  ASSUME TypeOK, NEW w \in Workers
  PROVE  /\ worker[w].at = "evidence" => worker[w].request \in Requests
         /\ worker[w].at = "save" => /\ worker[w].id \in Checks
                                     /\ worker[w].row \in DecisionRow
                                     /\ worker[w].row \in CheckRow
         /\ worker[w].at \in {"rpc", "proof"} =>
              /\ worker[w].id \in Checks
              /\ worker[w].transaction \in Transactions
         /\ worker[w].at = "proof" => worker[w].verdict \in Verdicts
         /\ worker[w].at \in {"release", "cancel"} => worker[w].id \in Checks
BY DEF TypeOK, WorkerState, Idle, DecisionRow, CheckRow, CheckStatuses

\* The day of a reservation is a number.
LEMMA DayTyped ==
  ASSUME TypeOK
  PROVE  DayOf(clock) \in Nat
BY ConstantsAssumption DEF TypeOK, DayOf

\* Every table keeps its shape through every handler.
LEMMA TypeStep == TypeOK /\ IdsSound /\ [Next]_vars => TypeOK'
<1> SUFFICES ASSUME TypeOK, IdsSound, [Next]_vars
             PROVE  TypeOK'
  OBVIOUS
<1> USE ConstantsAssumption
<1>1. CASE UNCHANGED vars
  BY <1>1 DEF TypeOK, vars, tables
<1>2. ASSUME NEW w \in Workers, CreateCheck(w)
      PROVE  TypeOK'
  <2>1. ASSUME NEW q \in Requests, ReplayCheck(w, q)
        PROVE  TypeOK'
    BY <2>1 DEF TypeOK, ReplayCheck, Answer, tables, KeyOwners
  <2>2. ASSUME NEW q \in Requests, RequestCheck(w, q)
        PROVE  TypeOK'
    BY <2>2 DEF TypeOK, RequestCheck, Goto, tables, WorkerState
  <2>3. CASE EvidenceFails(w)
    BY <2>3 DEF TypeOK, EvidenceFails, Goto, tables, WorkerState
  <2>4. ASSUME NEW c \in Checks, NEW f \in {"pay", "review", "block"},
               Evaluate(w, c, f)
        PROVE  TypeOK'
    BY <2>4, ExpiryTyped
       DEF TypeOK, Evaluate, Goto, WorkerState, DecisionRow, Idle,
           ReplayAfterExpiry
  <2>5. CASE LoseKeyRace(w)
    <3>1. worker[w].row.request \in Requests
      BY <2>5, WorkerShape DEF LoseKeyRace, CheckRow
    <3>2. answers' \subseteq [request : Requests, id : Checks]
      BY <2>5, <3>1 DEF TypeOK, LoseKeyRace, Answer, KeyOwners
    <3> QED
      BY <2>5, <3>2 DEF TypeOK, LoseKeyRace, Goto, tables, WorkerState
  <2>6. CASE SaveRefusal(w)
    <3>1. /\ worker[w].id \in Checks
          /\ worker[w].row \in CheckRow
      BY <2>6, WorkerShape DEF SaveRefusal
    <3>2. answers' \subseteq [request : Requests, id : Checks]
      BY <2>6, <3>1 DEF TypeOK, SaveRefusal, Answer, CheckRow
    <3>3. worker' \in [Workers -> WorkerState]
      BY <2>6 DEF TypeOK, SaveRefusal, Goto, WorkerState
    <3> QED
      BY <2>6, <3>1, <3>2, <3>3 DEF TypeOK, SaveRefusal
  <2>7. CASE SaveAndReserve(w)
    <3>1. /\ worker[w].id \in Checks
          /\ worker[w].row \in CheckRow
      BY <2>7, WorkerShape DEF SaveAndReserve
    <3>2. [status |-> "active", day |-> DayOf(clock)] \in ReservationRow
      BY DayTyped DEF ReservationRow, ReservationStatuses
    <3>3. /\ checks' \in [Checks -> CheckRow \cup {NoRow}]
          /\ reservations' \in [Checks -> ReservationRow \cup {NoRow}]
      BY <2>7, <3>1, <3>2, ExpiryTyped DEF TypeOK, SaveAndReserve
    <3>4. answers' \subseteq [request : Requests, id : Checks]
      BY <2>7, <3>1 DEF TypeOK, SaveAndReserve, Answer, CheckRow
    <3>5. /\ replay' \subseteq Checks
          /\ worker' \in [Workers -> WorkerState]
      BY <2>7, <3>1 DEF TypeOK, SaveAndReserve, Goto, WorkerState,
             ReplayAfterExpiry
    <3> QED
      BY <2>7, <3>3, <3>4, <3>5 DEF TypeOK, SaveAndReserve
  <2>8. CASE LoseAdmission(w)
    BY <2>8 DEF TypeOK, LoseAdmission, Goto, tables, WorkerState, Idle,
                DecisionRow
  <2>9. CASE ReservationThrows(w)
    BY <2>9 DEF TypeOK, ReservationThrows, Goto, tables, WorkerState
  <2> QED
    BY <1>2, <2>1, <2>2, <2>3, <2>4, <2>5, <2>6, <2>7, <2>8, <2>9
       DEF CreateCheck
<1>3. ASSUME NEW w \in Workers, CancelCheck(w)
      PROVE  TypeOK'
  <2>1. ASSUME NEW c \in Checks, RequestCancel(w, c)
        PROVE  TypeOK'
    BY <2>1 DEF TypeOK, RequestCancel, Goto, tables, WorkerState
  <2>2. CASE ReleaseReservation(w)
    <3>1. worker[w].id \in Checks
      BY <2>2, WorkerShape DEF ReleaseReservation
    <3>2. reservations' \in [Checks -> ReservationRow \cup {NoRow}]
      BY <2>2, <3>1
         DEF TypeOK, ReleaseReservation, NoRow, Live, ReservationRow,
             ReservationStatuses
    <3>3. worker' \in [Workers -> WorkerState]
      BY <2>2, <3>1 DEF TypeOK, ReleaseReservation, Goto, WorkerState
    <3> QED
      BY <2>2, <3>2, <3>3 DEF TypeOK, ReleaseReservation
  <2>3. CASE MarkCancelled(w)
    <3>1. worker[w].id \in Checks /\ checks[worker[w].id] \in CheckRow
      BY <2>3, WorkerShape DEF MarkCancelled, TypeOK, IdsSound, Exists
    <3>2. checks' \in [Checks -> CheckRow \cup {NoRow}]
      BY <2>3, <3>1 DEF TypeOK, MarkCancelled, CheckRow, CheckStatuses
    <3> QED
      BY <2>3, <3>2 DEF TypeOK, MarkCancelled, Goto, WorkerState
  <2> QED
    BY <1>3, <2>1, <2>2, <2>3 DEF CancelCheck
<1>4. ASSUME NEW w \in Workers, VerifySettlement(w)
      PROVE  TypeOK'
  <2>1. ASSUME NEW c \in Checks, NEW t \in Transactions, RequestVerify(w, c, t)
        PROVE  TypeOK'
    BY <2>1 DEF TypeOK, RequestVerify, Goto, tables, WorkerState
  <2>2. ASSUME NEW verdict \in Verdicts, ReceiveProof(w, verdict)
        PROVE  TypeOK'
    BY <2>2, WorkerShape DEF TypeOK, ReceiveProof, Goto, tables, WorkerState
  <2>3. CASE ApplySettlement(w)
    <3>1. /\ worker[w].id \in Checks
          /\ worker[w].transaction \in Transactions
          /\ worker[w].verdict \in Verdicts
      BY <2>3, WorkerShape DEF ApplySettlement
    <3>2. StatusFor(worker[w].verdict) \in CheckStatuses
      BY <3>1 DEF StatusFor, CheckStatuses, Verdicts
    <3>3. checks[worker[w].id] \in CheckRow
      BY <2>3, <3>1 DEF TypeOK, ApplySettlement, Applicable, Unsettled, NoRow
    <3>4. checks' \in [Checks -> CheckRow \cup {NoRow}]
      BY <2>3, <3>1, <3>2, <3>3 DEF TypeOK, ApplySettlement, CheckRow
    <3>5. reservations[worker[w].id] \in ReservationRow
      BY <2>3, <3>1
         DEF TypeOK, ApplySettlement, Applicable, SourcesOf, NoRow
    <3>6. TargetOf(worker[w].verdict, reservations[worker[w].id].status)
            \in ReservationStatuses
      BY <3>5 DEF TargetOf, ReservationRow, ReservationStatuses
    <3>7. reservations' \in [Checks -> ReservationRow \cup {NoRow}]
      BY <2>3, <3>1, <3>5, <3>6 DEF TypeOK, ApplySettlement, ReservationRow
    <3>8. settlements' \in [Checks -> SettlementRow \cup {NoSettlement}]
      BY <2>3, <3>1 DEF TypeOK, ApplySettlement, SettlementRow
    <3> QED
      BY <2>3, <3>4, <3>7, <3>8
         DEF TypeOK, ApplySettlement, Goto, WorkerState
  <2>4. CASE DiscardSettlement(w)
    BY <2>4 DEF TypeOK, DiscardSettlement, Goto, tables, WorkerState
  <2> QED
    BY <1>4, <2>1, <2>2, <2>3, <2>4 DEF VerifySettlement
<1>5. ASSUME NEW w \in Workers, NEW c \in Checks, NEW o \in Observations,
             RecordObservation(w, c, o)
      PROVE  TypeOK'
  <2>1. settlements[c].transaction \in Transactions
    BY <1>5 DEF TypeOK, RecordObservation, Receiptable, NoSettlement,
                SettlementRow
  <2> QED
    BY <1>5, <2>1 DEF TypeOK, RecordObservation, ReceiptRow
<1>6. ASSUME NEW w \in Workers, Crash(w)
      PROVE  TypeOK'
  BY <1>6 DEF TypeOK, Crash, tables, WorkerState
<1>7. CASE Environment
  <2>1. CASE Tick
    BY <2>1 DEF TypeOK, Tick, tables
  <2>2. ASSUME NEW o \in Operators, NEW p \in Policies, SavePolicy(o, p)
        PROVE  TypeOK'
    BY <2>2 DEF TypeOK, SavePolicy
  <2>3. ASSUME NEW t \in Transactions, NEW q \in Requests, Finalize(t, q)
        PROVE  TypeOK'
    BY <2>3 DEF TypeOK, Finalize, tables, ChainState
  <2>4. ASSUME NEW t \in Transactions, FinalizeOther(t)
        PROVE  TypeOK'
    BY <2>4 DEF TypeOK, FinalizeOther, tables, ChainState
  <2> QED
    BY <1>7, <2>1, <2>2, <2>3, <2>4 DEF Environment
<1> QED
  BY <1>1, <1>2, <1>3, <1>4, <1>5, <1>6, <1>7 DEF Next


\* The steps that write a table of the ledger; every other step leaves all of
\* them alone.
LEMMA TableSteps ==
  ASSUME [Next]_vars
  PROVE  \/ UNCHANGED <<checks, reservations, replay, settlements, receipts,
                        anchorJobs>>
         \/ \E w \in Workers, c \in Checks, f \in {"pay", "review", "block"} :
              Evaluate(w, c, f)
         \/ \E w \in Workers :
              \/ SaveRefusal(w)
              \/ SaveAndReserve(w)
              \/ ReleaseReservation(w)
              \/ MarkCancelled(w)
              \/ ApplySettlement(w)
         \/ \E w \in Workers, c \in Checks, o \in Observations :
              RecordObservation(w, c, o)
<1>1. CASE UNCHANGED vars
  BY <1>1 DEF vars, tables
<1>2. ASSUME NEW w \in Workers, CreateCheck(w)
      PROVE  \/ UNCHANGED <<checks, reservations, replay, settlements,
                            receipts, anchorJobs>>
             \/ \E c \in Checks, f \in {"pay", "review", "block"} :
                  Evaluate(w, c, f)
             \/ SaveRefusal(w)
             \/ SaveAndReserve(w)
  BY <1>2 DEF CreateCheck, ReplayCheck, RequestCheck, EvidenceFails,
              LoseKeyRace, LoseAdmission, ReservationThrows, tables
<1>3. ASSUME NEW w \in Workers, CancelCheck(w)
      PROVE  \/ UNCHANGED <<checks, reservations, replay, settlements,
                            receipts, anchorJobs>>
             \/ ReleaseReservation(w)
             \/ MarkCancelled(w)
  BY <1>3 DEF CancelCheck, RequestCancel, tables
<1>4. ASSUME NEW w \in Workers, VerifySettlement(w)
      PROVE  \/ UNCHANGED <<checks, reservations, replay, settlements,
                            receipts, anchorJobs>>
             \/ ApplySettlement(w)
  BY <1>4 DEF VerifySettlement, RequestVerify, ReceiveProof,
              DiscardSettlement, tables
<1>5. ASSUME NEW w \in Workers, Crash(w)
      PROVE  UNCHANGED <<checks, reservations, replay, settlements, receipts,
                         anchorJobs>>
  BY <1>5 DEF Crash, tables
<1>6. CASE Environment
  BY <1>6 DEF Environment, Tick, SavePolicy, Finalize, FinalizeOther, tables
<1> QED
  BY <1>1, <1>2, <1>3, <1>4, <1>5, <1>6 DEF Next

\* No step deletes a check or changes its request.
LEMMA RowsKept ==
  ASSUME TypeOK, IdsSound, [Next]_vars, NEW c \in Checks, Exists(c)
  PROVE  Exists(c)' /\ checks'[c].request = checks[c].request
<1>0. checks[c] \in CheckRow /\ checks[c].status # "none"
  BY DEF TypeOK, Exists, CheckRow, CheckStatuses
<1>1. CASE UNCHANGED <<checks, reservations, replay, settlements, receipts,
                       anchorJobs>>
  BY <1>1 DEF Exists
<1>2. ASSUME NEW w \in Workers, NEW d \in Checks,
             NEW f \in {"pay", "review", "block"}, Evaluate(w, d, f)
      PROVE  checks' = checks
  BY <1>2 DEF Evaluate
<1>3. ASSUME NEW w \in Workers, SaveRefusal(w) \/ SaveAndReserve(w)
      PROVE  checks'[c] = checks[c]
  BY <1>3, WorkerShape DEF SaveRefusal, SaveAndReserve, IdsSound, TypeOK
<1>4. ASSUME NEW w \in Workers, ReleaseReservation(w)
      PROVE  checks' = checks
  BY <1>4 DEF ReleaseReservation
<1>5. ASSUME NEW w \in Workers, MarkCancelled(w)
      PROVE  Exists(c)' /\ checks'[c].request = checks[c].request
  BY <1>0, <1>5, WorkerShape
     DEF MarkCancelled, TypeOK, Exists, NoRow, CheckRow
<1>6. ASSUME NEW w \in Workers, ApplySettlement(w)
      PROVE  Exists(c)' /\ checks'[c].request = checks[c].request
  <2>1. /\ worker[w].id \in Checks
        /\ StatusFor(worker[w].verdict) # "none"
    BY <1>6, WorkerShape DEF ApplySettlement, StatusFor, Verdicts
  <2> QED
    BY <1>0, <1>6, <2>1 DEF ApplySettlement, TypeOK, Exists, NoRow, CheckRow
<1>7. ASSUME NEW w \in Workers, NEW d \in Checks, NEW o \in Observations,
             RecordObservation(w, d, o)
      PROVE  checks' = checks
  BY <1>7 DEF RecordObservation
<1> QED
  BY <1>1, <1>2, <1>3, <1>4, <1>5, <1>6, <1>7, TableSteps DEF Exists

\* A request only ever holds an id it may insert or one that has its row.
LEMMA IdsStep == TypeOK /\ IdsSound /\ [Next]_vars => IdsSound'
<1> SUFFICES ASSUME TypeOK, IdsSound, [Next]_vars
             PROVE  IdsSound'
  OBVIOUS
\* Workers that stand still, or are reset, keep their part of IdsSound as
\* long as no check is inserted.
<1>1. ASSUME checks' = checks,
             \A v \in Workers : worker'[v] = worker[v] \/ worker'[v] = Idle
      PROVE  IdsSound'
  BY <1>1 DEF IdsSound, Exists, Idle
<1>2. CASE UNCHANGED vars
  BY <1>1, <1>2 DEF vars, tables
<1>3. ASSUME NEW w \in Workers, CreateCheck(w)
      PROVE  IdsSound'
  <2>1. ASSUME NEW q \in Requests, ReplayCheck(w, q) \/ RequestCheck(w, q)
        PROVE  IdsSound'
    BY <2>1 DEF ReplayCheck, RequestCheck, Goto, TypeOK, IdsSound, Exists,
                tables
  <2>2. CASE EvidenceFails(w) \/ LoseKeyRace(w) \/ ReservationThrows(w)
    BY <1>1, <2>2 DEF EvidenceFails, LoseKeyRace, ReservationThrows, Goto,
                      TypeOK, tables
  <2>3. ASSUME NEW c \in Checks, NEW f \in {"pay", "review", "block"},
               Evaluate(w, c, f)
        PROVE  IdsSound'
    <3>1. /\ worker'[w].at = "save" /\ worker'[w].id = c
          /\ \A v \in Workers \ {w} : worker'[v] = worker[v]
          /\ checks' = checks
          /\ ~ Exists(c)
          /\ \A v \in Workers : worker[v].at = "save" => worker[v].id # c
      BY <2>3 DEF Evaluate, Goto, TypeOK
    <3> QED
      BY <3>1 DEF IdsSound, Exists
  <2>4. CASE SaveRefusal(w) \/ SaveAndReserve(w)
    <3>1. /\ worker[w].at = "save"
          /\ worker'[w] = Idle
          /\ \A v \in Workers \ {w} : worker'[v] = worker[v]
          /\ \A c \in Checks \ {worker[w].id} : checks'[c] = checks[c]
      BY <2>4, WorkerShape DEF SaveRefusal, SaveAndReserve, Goto, TypeOK
    <3> QED
      BY <3>1, WorkerShape, RowsKept DEF IdsSound, Exists, Idle
  <2>5. CASE LoseAdmission(w)
    BY <2>5, WorkerShape DEF LoseAdmission, Goto, TypeOK, IdsSound, Exists,
                             tables, WorkerState, CheckRow
  <2> QED
    BY <1>3, <2>1, <2>2, <2>3, <2>4, <2>5 DEF CreateCheck
<1>4. ASSUME NEW w \in Workers, CancelCheck(w)
      PROVE  IdsSound'
  <2>1. ASSUME NEW c \in Checks, RequestCancel(w, c)
        PROVE  IdsSound'
    BY <2>1 DEF RequestCancel, Goto, TypeOK, IdsSound, Exists, tables, NoRow
  <2>2. CASE ReleaseReservation(w)
    BY <2>2 DEF ReleaseReservation, Goto, TypeOK, IdsSound, Exists, Idle
  <2>3. CASE MarkCancelled(w)
    <3>1. /\ worker'[w] = Idle
          /\ \A v \in Workers \ {w} : worker'[v] = worker[v]
          /\ worker[w].id \in Checks
          /\ \A c \in Checks \ {worker[w].id} : checks'[c] = checks[c]
          /\ Exists(worker[w].id)
      BY <2>3, WorkerShape DEF MarkCancelled, Goto, TypeOK, IdsSound
    <3> QED
      BY <3>1, WorkerShape, RowsKept DEF IdsSound, Exists, Idle
  <2> QED
    BY <1>4, <2>1, <2>2, <2>3 DEF CancelCheck
<1>5. ASSUME NEW w \in Workers, VerifySettlement(w)
      PROVE  IdsSound'
  <2>1. ASSUME NEW c \in Checks, NEW t \in Transactions, RequestVerify(w, c, t)
        PROVE  IdsSound'
    BY <2>1 DEF RequestVerify, Unsettled, Goto, TypeOK, IdsSound, Exists,
                tables, NoRow
  <2>2. ASSUME NEW verdict \in Verdicts, ReceiveProof(w, verdict)
        PROVE  IdsSound'
    BY <2>2 DEF ReceiveProof, Goto, TypeOK, IdsSound, Exists, tables
  <2>3. CASE ApplySettlement(w)
    <3>1. /\ worker'[w] = Idle
          /\ \A v \in Workers \ {w} : worker'[v] = worker[v]
          /\ worker[w].id \in Checks
          /\ \A c \in Checks \ {worker[w].id} : checks'[c] = checks[c]
          /\ Exists(worker[w].id)
      BY <2>3, WorkerShape DEF ApplySettlement, Goto, TypeOK, IdsSound
    <3> QED
      BY <3>1, WorkerShape, RowsKept DEF IdsSound, Exists, Idle
  <2>4. CASE DiscardSettlement(w)
    BY <1>1, <2>4 DEF DiscardSettlement, Goto, TypeOK, tables
  <2> QED
    BY <1>5, <2>1, <2>2, <2>3, <2>4 DEF VerifySettlement
<1>6. ASSUME NEW w \in Workers, NEW c \in Checks, NEW o \in Observations,
             RecordObservation(w, c, o)
      PROVE  IdsSound'
  BY <1>1, <1>6 DEF RecordObservation
<1>7. ASSUME NEW w \in Workers, Crash(w)
      PROVE  IdsSound'
  BY <1>1, <1>7 DEF Crash, tables
<1>8. CASE Environment
  BY <1>1, <1>8
     DEF Environment, Tick, SavePolicy, Finalize, FinalizeOther, tables
<1> QED
  BY <1>2, <1>3, <1>4, <1>5, <1>6, <1>7, <1>8 DEF Next

\* Type correctness of the whole auditor, and the ids in flight.
THEOREM TypeCorrect == Spec => [](TypeOK /\ IdsSound)
<1>1. Init => TypeOK /\ IdsSound
  BY ConstantsAssumption
     DEF Init, TypeOK, WorkerState, ChainState, IdsSound, Idle
<1>2. (TypeOK /\ IdsSound) /\ [Next]_vars => (TypeOK /\ IdsSound)'
  BY TypeStep, IdsStep
<1> QED
  BY <1>1, <1>2, PTL DEF Spec
-----------------------------------------------------------------------------
(***************************************************************************)
(* The tables refer to one another soundly.                                *)
(***************************************************************************)

\* Nothing is reserved, settled or receipted for a check without a row.
LEMMA OwnedStep ==
  TypeOK /\ IdsSound /\ RowsOwned /\ [Next]_vars => RowsOwned'
<1> SUFFICES ASSUME TypeOK, IdsSound, RowsOwned, [Next]_vars,
                    NEW c \in Checks, ~ Exists(c)'
             PROVE  /\ reservations'[c] = NoRow
                    /\ settlements'[c] = NoSettlement
                    /\ receipts'[c] = NoReceipt
  BY DEF RowsOwned
<1>0. /\ ~ Exists(c)
      /\ reservations[c] = NoRow
      /\ settlements[c] = NoSettlement
      /\ receipts[c] = NoReceipt
  BY RowsKept DEF RowsOwned
<1>1. CASE UNCHANGED <<checks, reservations, replay, settlements, receipts,
                       anchorJobs>>
  BY <1>0, <1>1
<1>2. AfterExpiry[c] = NoRow
  BY <1>0 DEF AfterExpiry, Lapsed, NoRow
<1>3. ASSUME NEW w \in Workers, NEW d \in Checks,
             NEW f \in {"pay", "review", "block"}, Evaluate(w, d, f)
      PROVE  /\ reservations'[c] = NoRow
             /\ UNCHANGED <<settlements, receipts>>
  BY <1>2, <1>3 DEF Evaluate
<1>4. ASSUME NEW w \in Workers, SaveRefusal(w)
      PROVE  UNCHANGED <<reservations, settlements, receipts>>
  BY <1>4 DEF SaveRefusal
<1>5. ASSUME NEW w \in Workers, SaveAndReserve(w)
      PROVE  /\ reservations'[c] = NoRow
             /\ UNCHANGED <<settlements, receipts>>
  <2>1. worker[w].id \in Checks /\ worker[w].row \in CheckRow
    BY <1>5, WorkerShape DEF SaveAndReserve
  <2>2. c # worker[w].id
    BY <1>5, <2>1
       DEF SaveAndReserve, Exists, TypeOK, CheckRow, CheckStatuses, NoRow
  <2> QED
    BY <1>2, <1>5, <2>2 DEF SaveAndReserve, AfterExpiry
<1>6. ASSUME NEW w \in Workers, ReleaseReservation(w) \/ MarkCancelled(w)
      PROVE  /\ reservations'[c] = NoRow
             /\ UNCHANGED <<settlements, receipts>>
  <2>1. worker[w].id \in Checks /\ Exists(worker[w].id)
    BY <1>6, WorkerShape DEF ReleaseReservation, MarkCancelled, IdsSound
  <2> QED
    BY <1>0, <1>6, <2>1 DEF ReleaseReservation, MarkCancelled, TypeOK
<1>7. ASSUME NEW w \in Workers, ApplySettlement(w)
      PROVE  /\ reservations'[c] = NoRow
             /\ settlements'[c] = NoSettlement
             /\ receipts' = receipts
  <2>1. worker[w].id \in Checks /\ Exists(worker[w].id)
    BY <1>7, WorkerShape DEF ApplySettlement, IdsSound
  <2> QED
    BY <1>0, <1>7, <2>1 DEF ApplySettlement, TypeOK
<1>8. ASSUME NEW w \in Workers, NEW d \in Checks, NEW o \in Observations,
             RecordObservation(w, d, o)
      PROVE  /\ UNCHANGED <<reservations, settlements>>
             /\ receipts'[c] = NoReceipt
  BY <1>0, <1>8 DEF RecordObservation, Receiptable, TypeOK, Exists, NoRow
<1> QED
  BY <1>0, <1>1, <1>3, <1>4, <1>5, <1>6, <1>7, <1>8, TableSteps

\* What every later proof starts from.
LEMMA TableInvariant == Spec => []TableInv
<1>1. Init => TableInv
  BY ConstantsAssumption
     DEF Init, TableInv, TypeOK, WorkerState, ChainState, IdsSound, Idle,
         RowsOwned
<1>2. TableInv /\ [Next]_vars => TableInv'
  BY TypeStep, IdsStep, OwnedStep DEF TableInv
<1> QED
  BY <1>1, <1>2, PTL DEF Spec
-----------------------------------------------------------------------------
(***************************************************************************)
(* Authorizations: the replay index and the nonces it holds.               *)
(***************************************************************************)

\* What expireReservations leaves: rows and index still agree, nothing new
\* counts, and requests are untouched.
LEMMA ExpirySound ==
  ASSUME TableInv, ReplayInv, NEW c \in Checks
  PROVE  /\ AfterExpiry[c].status = "active" => c \in replay \ Lapsed
         /\ c \in replay \ Lapsed => AfterExpiry[c].status \in Committed
         /\ AfterExpiry[c].status \in Committed =>
              AfterExpiry[c] = reservations[c]
<1>1. CASE c \in Lapsed
  <2>1. reservations[c] \in ReservationRow
    BY <1>1 DEF Lapsed, TableInv, TypeOK, NoRow
  <2>2. AfterExpiry[c].status = "expired"
    BY <1>1, <2>1 DEF AfterExpiry, ReservationRow
  <2> QED
    BY <1>1, <2>2 DEF Committed
<1>2. CASE c \notin Lapsed
  BY <1>2 DEF AfterExpiry, ReplayInv, ReplayRowsLive
<1> QED
  BY <1>1, <1>2

\* An authorization row lives as long as its reservation counts, and no two
\* rows hold one nonce, whatever the processes interleave.
LEMMA ReplayStep == TableInv /\ ReplayInv /\ [Next]_vars => ReplayInv'
<1> SUFFICES ASSUME TableInv, ReplayInv, [Next]_vars
             PROVE  ReplayInv'
  OBVIOUS
<1> USE DEF ReplayInv
<1>0. \A c \in replay : Exists(c) /\ c \in Checks
  BY DEF TableInv, TypeOK, RowsOwned, ReplayRowsLive, NoRow, Committed
<1>1. \A c \in replay : Exists(c)' /\ checks'[c].request = checks[c].request
  BY <1>0, RowsKept DEF TableInv
\* Steps that add no row: it is enough that rows and index agree.
<1>2. ASSUME replay' \subseteq replay, ReplayRowsLive'
      PROVE  ReplayInv'
  BY <1>0, <1>1, <1>2 DEF NonceExclusive, SameNonce
<1>3. CASE UNCHANGED <<checks, reservations, replay, settlements, receipts,
                       anchorJobs>>
  BY <1>2, <1>3 DEF ReplayRowsLive
<1>4. ASSUME NEW w \in Workers, NEW d \in Checks,
             NEW f \in {"pay", "review", "block"}, Evaluate(w, d, f)
      PROVE  ReplayInv'
  BY <1>2, <1>4, ExpirySound DEF Evaluate, ReplayAfterExpiry, ReplayRowsLive
<1>5. ASSUME NEW w \in Workers, SaveRefusal(w) \/ MarkCancelled(w)
      PROVE  ReplayInv'
  BY <1>2, <1>5 DEF SaveRefusal, MarkCancelled, ReplayRowsLive
<1>6. ASSUME NEW w \in Workers, SaveAndReserve(w)
      PROVE  ReplayInv'
  <2> DEFINE c == worker[w].id
             q == worker[w].row.request
  <2>1. c \in Checks /\ c \notin replay /\ checks'[c].request = q
    BY <1>0, <1>6, WorkerShape DEF SaveAndReserve, TableInv, IdsSound, TypeOK
  <2>2. replay' = (replay \ Lapsed) \cup {c}
    BY <1>6 DEF SaveAndReserve, ReplayAfterExpiry
  <2>3. /\ reservations'[c].status = "active"
        /\ \A d \in Checks \ {c} : reservations'[d] = AfterExpiry[d]
    BY <1>6, <2>1 DEF SaveAndReserve, AfterExpiry
  <2>4. ReplayRowsLive'
    BY <2>1, <2>2, <2>3, ExpirySound DEF ReplayRowsLive, Committed
  <2>5. \A d \in replay \ Lapsed : ~ SameNonce(checks[d].request, q)
    BY <1>0, <1>6, ExpirySound DEF SaveAndReserve, Admissible, ReplayUsed,
           ReplayAfterExpiry
  <2>6. \A d \in replay \ Lapsed :
          ~ SameNonce(checks'[d].request, checks'[c].request)
    BY <1>1, <2>1, <2>5
  <2>7. NonceExclusive'
    BY <1>1, <2>2, <2>6 DEF NonceExclusive, SameNonce
  <2> QED
    BY <2>4, <2>7
<1>7. ASSUME NEW w \in Workers, ReleaseReservation(w)
      PROVE  ReplayInv'
  <2>1. worker[w].id \in Checks
    BY <1>7, WorkerShape DEF ReleaseReservation, TableInv
  <2>2. CASE reservations[worker[w].id].status \in Live
    <3>1. reservations[worker[w].id] \in ReservationRow
      BY <2>1, <2>2 DEF TableInv, TypeOK, NoRow, Live
    <3> QED
      BY <1>2, <1>7, <2>1, <2>2, <3>1
         DEF ReleaseReservation, ReplayRowsLive, TableInv, TypeOK,
             ReservationRow
  <2>3. CASE reservations[worker[w].id].status \notin Live
    BY <1>2, <1>7, <2>3 DEF ReleaseReservation, ReplayRowsLive
  <2> QED
    BY <2>2, <2>3
<1>8. ASSUME NEW w \in Workers, ApplySettlement(w)
      PROVE  ReplayInv'
  <2> DEFINE c == worker[w].id
             v == worker[w].verdict
  <2>1. c \in Checks /\ v \in Verdicts
    BY <1>8, WorkerShape DEF ApplySettlement, TableInv
  <2>2. reservations[c].status \in SourcesOf(v)
    BY <1>8 DEF ApplySettlement, Applicable
  <2>3. reservations[c] \in ReservationRow
    BY <2>1, <2>2 DEF TableInv, TypeOK, NoRow, SourcesOf
  <2>4. /\ reservations'[c].status = TargetOf(v, reservations[c].status)
        /\ \A d \in Checks \ {c} : reservations'[d] = reservations[d]
        /\ replay' = replay
    BY <1>8, <2>1, <2>3 DEF ApplySettlement, TableInv, TypeOK, ReservationRow
  <2>5. /\ TargetOf(v, reservations[c].status) = "active" => c \in replay
        /\ c \in replay =>
             TargetOf(v, reservations[c].status) \in Committed
    BY <2>1 DEF TargetOf, ReplayRowsLive, Committed
  <2> QED
    BY <1>2, <2>4, <2>5 DEF ReplayRowsLive
<1>9. ASSUME NEW w \in Workers, NEW d \in Checks, NEW o \in Observations,
             RecordObservation(w, d, o)
      PROVE  ReplayInv'
  BY <1>2, <1>9 DEF RecordObservation, ReplayRowsLive
<1> QED
  BY <1>3, <1>4, <1>5, <1>6, <1>7, <1>8, <1>9, TableSteps

\* The replay index agrees with the reservations, always.
THEOREM ReplayRowsAlwaysLive == Spec => []ReplayRowsLive
<1>1. Init => ReplayInv
  BY DEF Init, ReplayInv, ReplayRowsLive, NonceExclusive, NoRow
<1>2. ReplayInv => ReplayRowsLive
  BY DEF ReplayInv
<1> QED
  BY <1>1, <1>2, ReplayStep, TableInvariant, PTL DEF Spec

\* No two authorization rows ever hold one nonce of one operator and asset.
THEOREM NonceAlwaysExclusive == Spec => []NonceExclusive
<1>1. Init => ReplayInv
  BY DEF Init, ReplayInv, ReplayRowsLive, NonceExclusive, NoRow
<1>2. ReplayInv => NonceExclusive
  BY DEF ReplayInv
<1> QED
  BY <1>1, <1>2, ReplayStep, TableInvariant, PTL DEF Spec
-----------------------------------------------------------------------------
(***************************************************************************)
(* Sums over finite sets, for the totals of the ledger.                    *)
(***************************************************************************)

\* A sum over a set, as the fold adds it up: one element is chosen, and the
\* others are added up in the same way.
Chosen(T) == CHOOSE x \in T : TRUE
Summed(f, g, T) == IF T = {} THEN 0 ELSE f[Chosen(T)] + g[T \ {Chosen(T)}]
SumsOf(f, S, g) == g = [T \in SUBSET S |-> Summed(f, g, T)]

\* The sum of the community modules is defined by such a function.
LEMMA SumIs ==
  ASSUME NEW f, NEW S
  PROVE  SumFunctionOnSet(f, S) = (CHOOSE g : SumsOf(f, S, g))[S]
BY DEF SumFunctionOnSet, FoldFunctionOnSet, MapThenFoldSet, SumsOf, Summed, Chosen

\* A set of numbers that is not empty has a least one.
LEMMA LeastNatural ==
  ASSUME NEW T, T \subseteq Nat, T # {}
  PROVE  \E x \in T : \A y \in T : x <= y
<1> DEFINE R == OpToRel(<, Nat)
<1>1. IsWellFoundedOn(R, Nat)
  BY NatLessThanWellFounded
<1>2. \A u, v \in Nat : u < v => <<u, v>> \in R
  BY DEF OpToRel
<1> HIDE DEF R
<1>3. PICK x \in T : \A y \in T : ~(<<y, x>> \in R)
  BY <1>1, WFMin
<1>4. ASSUME NEW y \in T
      PROVE  x <= y
  <2>1. x \in Nat /\ y \in Nat
    OBVIOUS
  <2>2. ~(y < x)
    BY <1>2, <1>3, <2>1, Zenon
  <2> QED
    BY <2>1, <2>2
<1> QED
  BY <1>4

\* A set of finite sets that is not empty has one of the smallest.
LEMMA SmallestSet ==
  ASSUME NEW F, F # {}, \A S \in F : IsFiniteSet(S)
  PROVE  \E S \in F : \A T \in F : ~ (T \subseteq S /\ T # S)
<1> DEFINE sizes == {Cardinality(S) : S \in F}
<1>1. sizes \subseteq Nat /\ sizes # {}
  BY FS_CardinalityType
<1>2. PICK n \in sizes : \A m \in sizes : n <= m
  BY <1>1, LeastNatural
<1>3. PICK S \in F : n = Cardinality(S)
  BY <1>2
<1>4. ASSUME NEW T \in F, T \subseteq S, T # S
      PROVE  FALSE
  <2>1. IsFiniteSet(S) /\ IsFiniteSet(T)
    OBVIOUS
  <2>2. /\ Cardinality(T) <= Cardinality(S)
        /\ Cardinality(T) # Cardinality(S)
    BY <1>4, <2>1, FS_Subset
  <2>3. n <= Cardinality(T)
    BY <1>2
  <2>4. Cardinality(T) \in Nat /\ Cardinality(S) \in Nat
    BY <2>1, FS_CardinalityType
  <2> QED
    BY <2>2, <2>3, <2>4, <1>3
<1> QED
  BY <1>4

\* What is chosen is an element.
LEMMA ChosenIn ==
  ASSUME NEW T, T # {}
  PROVE  Chosen(T) \in T
BY DEF Chosen

\* Sums over the subsets of a set agree with the sums over the subsets of a
\* part of it: a smallest subset on which they differ is impossible.
LEMMA SumsUnique ==
  ASSUME NEW f, NEW S, IsFiniteSet(S), NEW g, NEW h, SumsOf(f, S, g),
         NEW R, R \subseteq S, SumsOf(f, R, h)
  PROVE  g[R] = h[R]
<1> DEFINE F == {T \in SUBSET R : g[T] # h[T]}
<1>1. SUFFICES ASSUME F # {}
               PROVE  FALSE
  BY DEF F
<1>2. \A T \in F : IsFiniteSet(T)
  BY FS_Subset
<1> HIDE DEF F
<1>3. PICK T \in F : \A U \in F : ~ (U \subseteq T /\ U # T)
  BY <1>1, <1>2, SmallestSet
<1> USE DEF F
<1>4. g[T] = Summed(f, g, T) /\ h[T] = Summed(f, h, T)
  BY DEF SumsOf
<1>5. T # {}
  BY <1>4 DEF Summed
<1>6. Chosen(T) \in T
  BY <1>5, ChosenIn
<1>7. g[T \ {Chosen(T)}] = h[T \ {Chosen(T)}]
  BY <1>3, <1>6
<1> QED
  BY <1>4, <1>5, <1>7 DEF Summed

\* There are such sums over a finite set, by the smallest set without.
LEMMA SumsExist ==
  ASSUME NEW f, NEW S, IsFiniteSet(S)
  PROVE  \E g : SumsOf(f, S, g)
<1> DEFINE F == {T \in SUBSET S : ~ \E g : SumsOf(f, T, g)}
           sums(T) == CHOOSE g : SumsOf(f, T, g)
<1>1. SUFFICES ASSUME F # {}
               PROVE  FALSE
  BY DEF F
<1>2. \A T \in F : IsFiniteSet(T)
  BY FS_Subset
<1> HIDE DEF F
<1>3. PICK T \in F : \A U \in F : ~ (U \subseteq T /\ U # T)
  BY <1>1, <1>2, SmallestSet
<1> USE DEF F
<1>4. ASSUME NEW U \in SUBSET T, U # T
      PROVE  SumsOf(f, U, sums(U)) /\ IsFiniteSet(U)
  <2>1. \E g : SumsOf(f, U, g)
    BY <1>3, <1>4
  <2>2. IsFiniteSet(U)
    BY FS_Subset
  <2> QED
    BY <2>1, <2>2
<1> DEFINE value(U) == IF U = {} THEN 0
                       ELSE f[Chosen(U)] + sums(U \ {Chosen(U)})[U \ {Chosen(U)}]
           g == [U \in SUBSET T |-> value(U)]
<1>5. ASSUME NEW U \in SUBSET T, U # T
      PROVE  sums(U)[U] = value(U)
  <2>1. SumsOf(f, U, sums(U)) /\ IsFiniteSet(U)
    BY <1>4, <1>5
  <2>2. sums(U)[U] = Summed(f, sums(U), U)
    BY <2>1 DEF SumsOf
  <2>3. CASE U = {}
    BY <2>2, <2>3 DEF Summed
  <2>4. CASE U # {}
    <3> DEFINE V == U \ {Chosen(U)}
    <3>1. V \subseteq U /\ V \in SUBSET T /\ V # T
      BY <2>4, ChosenIn
    <3>2. SumsOf(f, V, sums(V))
      BY <1>4, <3>1
    <3>3. sums(U)[V] = sums(V)[V]
      BY <2>1, <3>1, <3>2, SumsUnique
    <3> QED
      BY <2>2, <2>4, <3>3 DEF Summed
  <2> QED
    BY <2>3, <2>4
<1>6. ASSUME NEW U \in SUBSET T
      PROVE  g[U] = Summed(f, g, U)
  <2>1. CASE U = {}
    BY <2>1 DEF Summed
  <2>2. CASE U # {}
    <3> DEFINE V == U \ {Chosen(U)}
    <3>1. V \in SUBSET T /\ V # T
      BY <2>2, ChosenIn
    <3>2. g[V] = sums(V)[V]
      BY <1>5, <3>1
    <3>3. g[U] = f[Chosen(U)] + sums(V)[V]
      BY <2>2
    <3> QED
      BY <2>2, <3>2, <3>3 DEF Summed
  <2> QED
    BY <2>1, <2>2
<1>7. SumsOf(f, T, g)
  BY <1>6 DEF SumsOf
<1> QED
  BY <1>7

\* The equation of the recursive definition.
LEMMA SumUnfolds ==
  ASSUME NEW f, NEW S, IsFiniteSet(S), S # {}
  PROVE  SumFunctionOnSet(f, S)
           = f[Chosen(S)] + SumFunctionOnSet(f, S \ {Chosen(S)})
<1> DEFINE R == S \ {Chosen(S)}
           g == CHOOSE h : SumsOf(f, S, h)
           k == CHOOSE h : SumsOf(f, R, h)
<1>1. R \subseteq S /\ IsFiniteSet(R)
  BY FS_Subset
<1>2. SumsOf(f, S, g)
  BY SumsExist
<1>3. SumsOf(f, R, k)
  BY <1>1, SumsExist
<1>4. g[R] = k[R]
  BY <1>1, <1>2, <1>3, SumsUnique
<1>5. g[S] = f[Chosen(S)] + g[R]
  BY <1>2 DEF SumsOf, Summed
<1> QED
  BY <1>4, <1>5, SumIs

\* Nothing adds up to zero.
LEMMA SumOfNone ==
  ASSUME NEW f
  PROVE  SumFunctionOnSet(f, {}) = 0
<1>1. PICK g : SumsOf(f, {}, g) /\ SumFunctionOnSet(f, {}) = g[{}]
  BY FS_EmptySet, SumsExist, SumIs
<1> QED
  BY <1>1 DEF SumsOf, Summed

\* Numbers add up to a number.
LEMMA SumTyped ==
  ASSUME NEW f, NEW S, IsFiniteSet(S), \A x \in S : f[x] \in Nat
  PROVE  SumFunctionOnSet(f, S) \in Nat
<1> DEFINE F == {T \in SUBSET S : SumFunctionOnSet(f, T) \notin Nat}
<1>1. SUFFICES ASSUME F # {}
               PROVE  FALSE
  BY DEF F
<1>2. \A T \in F : IsFiniteSet(T)
  BY FS_Subset
<1> HIDE DEF F
<1>3. PICK T \in F : \A U \in F : ~ (U \subseteq T /\ U # T)
  BY <1>1, <1>2, SmallestSet
<1> USE DEF F
<1>4. T # {}
  BY SumOfNone
<1>5. Chosen(T) \in T
  BY <1>4, ChosenIn
<1>6. SumFunctionOnSet(f, T \ {Chosen(T)}) \in Nat
  BY <1>3, <1>5
<1>7. SumFunctionOnSet(f, T) = f[Chosen(T)] + SumFunctionOnSet(f, T \ {Chosen(T)})
  BY <1>2, <1>4, SumUnfolds
<1> QED
  BY <1>5, <1>6, <1>7

\* The order in which the elements are chosen does not matter.
LEMMA SumWithout ==
  ASSUME NEW f, NEW S, IsFiniteSet(S), \A x \in S : f[x] \in Nat, NEW y \in S
  PROVE  SumFunctionOnSet(f, S) = f[y] + SumFunctionOnSet(f, S \ {y})
<1> DEFINE F == {T \in SUBSET S : \E z \in T : SumFunctionOnSet(f, T)
                                    # f[z] + SumFunctionOnSet(f, T \ {z})}
<1>1. SUFFICES ASSUME F # {}
               PROVE  FALSE
  BY DEF F
<1>2. \A T \in F : IsFiniteSet(T)
  BY FS_Subset
<1> HIDE DEF F
<1>3. PICK T \in F : \A U \in F : ~ (U \subseteq T /\ U # T)
  BY <1>1, <1>2, SmallestSet
<1> USE DEF F
<1>4. PICK z \in T : SumFunctionOnSet(f, T) # f[z] + SumFunctionOnSet(f, T \ {z})
  OBVIOUS
<1> DEFINE c == Chosen(T)
<1>5. c \in T /\ T # {}
  BY ChosenIn
<1>6. SumFunctionOnSet(f, T) = f[c] + SumFunctionOnSet(f, T \ {c})
  BY <1>2, <1>5, SumUnfolds
<1>7. z # c
  BY <1>4, <1>6
<1>8. SumFunctionOnSet(f, T \ {c}) = f[z] + SumFunctionOnSet(f, (T \ {c}) \ {z})
  <2>1. T \ {c} \subseteq T /\ T \ {c} # T /\ z \in T \ {c}
    BY <1>5, <1>7
  <2>2. T \ {c} \notin F
    BY <1>3, <2>1, Zenon
  <2> QED
    BY <2>1, <2>2
<1>9. SumFunctionOnSet(f, T \ {z}) = f[c] + SumFunctionOnSet(f, (T \ {z}) \ {c})
  <2>1. T \ {z} \subseteq T /\ T \ {z} # T /\ c \in T \ {z}
    BY <1>5, <1>7
  <2>2. T \ {z} \notin F
    BY <1>3, <2>1, Zenon
  <2> QED
    BY <2>1, <2>2
<1>10. (T \ {c}) \ {z} = (T \ {z}) \ {c}
  OBVIOUS
<1>11. SumFunctionOnSet(f, (T \ {c}) \ {z}) \in Nat /\ f[c] \in Nat /\ f[z] \in Nat
  <2>1. (T \ {c}) \ {z} \in SUBSET S /\ IsFiniteSet((T \ {c}) \ {z})
    BY FS_Subset
  <2> QED
    BY <1>5, <2>1, SumTyped
<1> HIDE DEF c
<1> QED
  BY <1>4, <1>6, <1>8, <1>9, <1>10, <1>11

\* A part adds up to no more than the whole.
LEMMA SumMonotone ==
  ASSUME NEW f, NEW S, IsFiniteSet(S), \A x \in S : f[x] \in Nat,
         NEW R, R \subseteq S
  PROVE  SumFunctionOnSet(f, R) <= SumFunctionOnSet(f, S)
<1> DEFINE F == {T \in SUBSET S : /\ R \subseteq T
                                  /\ ~ (SumFunctionOnSet(f, R) <= SumFunctionOnSet(f, T))}
<1>1. SUFFICES ASSUME F # {}
               PROVE  FALSE
  BY DEF F
<1>2. \A T \in F : IsFiniteSet(T)
  BY FS_Subset
<1> HIDE DEF F
<1>3. PICK T \in F : \A U \in F : ~ (U \subseteq T /\ U # T)
  BY <1>1, <1>2, SmallestSet
<1> USE DEF F
<1>4. \A U \in SUBSET S : SumFunctionOnSet(f, U) \in Nat
  BY FS_Subset, SumTyped
<1>5. R # T
  BY <1>4
<1>6. PICK y \in T : y \notin R
  BY <1>5
<1>7. SumFunctionOnSet(f, T) = f[y] + SumFunctionOnSet(f, T \ {y})
  BY <1>2, SumWithout
<1>8. SumFunctionOnSet(f, R) <= SumFunctionOnSet(f, T \ {y})
  <2>1. T \ {y} \subseteq T /\ T \ {y} # T /\ R \subseteq T \ {y}
    BY <1>6
  <2>2. T \ {y} \notin F
    BY <1>3, <2>1, Zenon
  <2> QED
    BY <2>1, <2>2
<1>9. /\ SumFunctionOnSet(f, T \ {y}) \in Nat /\ SumFunctionOnSet(f, R) \in Nat
      /\ f[y] \in Nat /\ SumFunctionOnSet(f, T) \in Nat
  BY <1>4, T \ {y} \in SUBSET S
<1>10. ~ (SumFunctionOnSet(f, R) <= SumFunctionOnSet(f, T))
  OBVIOUS
<1> HIDE DEF F
<1> QED
  BY <1>7, <1>8, <1>9, <1>10

\* The sum over a set is that of a part and that of the rest.
LEMMA SumSplit ==
  ASSUME NEW R, NEW f, NEW S, IsFiniteSet(S), \A x \in S : f[x] \in Nat
  PROVE  SumFunctionOnSet(f, S)
           = SumFunctionOnSet(f, S \ R) + SumFunctionOnSet(f, S \cap R)
<1> DEFINE F == {T \in SUBSET S :
                   SumFunctionOnSet(f, T)
                     # SumFunctionOnSet(f, T \ R) + SumFunctionOnSet(f, T \cap R)}
<1>1. SUFFICES ASSUME F # {}
               PROVE  FALSE
  BY DEF F
<1>2. \A T \in F : IsFiniteSet(T)
  BY FS_Subset
<1> HIDE DEF F
<1>3. PICK T \in F : \A U \in F : ~ (U \subseteq T /\ U # T)
  BY <1>1, <1>2, SmallestSet
<1> USE DEF F
<1>4. \A U \in SUBSET S : SumFunctionOnSet(f, U) \in Nat
  BY FS_Subset, SumTyped
<1>5. SumFunctionOnSet(f, T)
        # SumFunctionOnSet(f, T \ R) + SumFunctionOnSet(f, T \cap R)
  OBVIOUS
<1>6. T # {}
  <2>1. T = {} => T \ R = {} /\ T \cap R = {}
    OBVIOUS
  <2> HIDE DEF F
  <2>2. T = {} => FALSE
    BY <1>5, <2>1, SumOfNone
  <2> QED
    BY <2>2
<1>7. PICK y \in T : TRUE
  BY <1>6
<1>8. PICK U : U = T \ {y}
  OBVIOUS
<1>9. SumFunctionOnSet(f, T) = f[y] + SumFunctionOnSet(f, U)
  BY <1>2, <1>8, SumWithout
<1>10. SumFunctionOnSet(f, U)
         = SumFunctionOnSet(f, U \ R) + SumFunctionOnSet(f, U \cap R)
  <2>1. U \subseteq T /\ U # T
    BY <1>8
  <2>2. U \notin F
    BY <1>3, <2>1, Zenon
  <2> QED
    BY <2>1, <2>2
<1>11. /\ IsFiniteSet(T \ R) /\ IsFiniteSet(T \cap R)
       /\ \A x \in T : f[x] \in Nat
  BY <1>2, FS_Subset
<1>12. U \ R \in SUBSET S /\ U \cap R \in SUBSET S
  BY <1>8
<1>13. PICK v, m, n : /\ v = f[y]
                      /\ m = SumFunctionOnSet(f, U \ R)
                      /\ n = SumFunctionOnSet(f, U \cap R)
  OBVIOUS
<1>14. v \in Nat /\ m \in Nat /\ n \in Nat
  BY <1>4, <1>7, <1>11, <1>12, <1>13
<1> HIDE DEF F
<1>15. SumFunctionOnSet(f, T) = v + (m + n)
  BY <1>9, <1>10, <1>13
<1>16. CASE y \in R
  <2>1. T \ R = U \ R /\ (T \cap R) \ {y} = U \cap R /\ y \in T \cap R
    BY <1>16, <1>7, <1>8
  <2>2. SumFunctionOnSet(f, T \cap R) = f[y] + SumFunctionOnSet(f, (T \cap R) \ {y})
    BY <1>11, <2>1, SumWithout
  <2>3. /\ SumFunctionOnSet(f, T \cap R) = v + n
        /\ SumFunctionOnSet(f, T \ R) = m
    BY <1>13, <2>1, <2>2
  <2>4. v + (m + n) # m + (v + n)
    BY <1>5, <1>15, <2>3
  <2> QED
    BY <1>14, <2>4
<1>17. CASE y \notin R
  <2>1. T \cap R = U \cap R /\ (T \ R) \ {y} = U \ R /\ y \in T \ R
    BY <1>17, <1>7, <1>8
  <2>2. SumFunctionOnSet(f, T \ R) = f[y] + SumFunctionOnSet(f, (T \ R) \ {y})
    BY <1>11, <2>1, SumWithout
  <2>3. /\ SumFunctionOnSet(f, T \ R) = v + m
        /\ SumFunctionOnSet(f, T \cap R) = n
    BY <1>13, <2>1, <2>2
  <2>4. v + (m + n) # (v + m) + n
    BY <1>5, <1>15, <2>3
  <2> QED
    BY <1>14, <2>4
<1> QED
  BY <1>16, <1>17

\* A sum depends on what is added up, and on nothing else.
LEMMA SumCongruent ==
  ASSUME NEW f, NEW g, NEW S, \A x \in S : f[x] = g[x]
  PROVE  SumFunctionOnSet(f, S) = SumFunctionOnSet(g, S)
<1>1. ASSUME NEW h, NEW T \in SUBSET S
      PROVE  Summed(f, h, T) = Summed(g, h, T)
  BY ChosenIn DEF Summed
<1>2. \A h : SumsOf(f, S, h) <=> SumsOf(g, S, h)
  BY <1>1 DEF SumsOf
<1>3. (CHOOSE h : SumsOf(f, S, h)) = (CHOOSE h : SumsOf(g, S, h))
  BY <1>2
<1> QED
  BY <1>3, SumIs
-----------------------------------------------------------------------------
(***************************************************************************)
(* Limits: the number of reservations and the daily cap.                   *)
(***************************************************************************)

\* What a stored check charges, and the numbers of a policy.
LEMMA StoredNumbers ==
  ASSUME TableInv
  PROVE  /\ \A c \in Checks : Exists(c) =>
              /\ checks[c].request \in Requests
              /\ checks[c].request.amount \in Nat
         /\ \A p \in Policies : p.maximum \in Nat
         /\ \A p \in Policies, q \in Requests : p.cap[q.asset] \in Nat
BY ConstantsAssumption DEF TableInv, TypeOK, Exists, CheckRow

\* The total of a set of checks is a sum of a function.
LEMMA AmountIs ==
  ASSUME NEW f, NEW S, \A c \in S : f[c] = checks[c].request.amount
  PROVE  AmountOf(S) = SumFunctionOnSet(f, S)
<1> DEFINE g == [c \in S |-> checks[c].request.amount]
<1>1. AmountOf(S) = SumFunctionOnSet(g, S)
  BY DEF AmountOf, SumFunction
<1>2. \A c \in S : f[c] = g[c]
  OBVIOUS
<1> HIDE DEF g
<1> QED
  BY <1>1, <1>2, SumCongruent

\* A total is a number, without one check it is lower by what that charges,
\* and a part of it is no higher.
LEMMA AmountFacts ==
  ASSUME TableInv, NEW S, IsFiniteSet(S), S \subseteq Checks,
         \A c \in S : Exists(c)
  PROVE  /\ AmountOf(S) \in Nat
         /\ \A c \in S :
              AmountOf(S) = checks[c].request.amount + AmountOf(S \ {c})
         /\ \A R \in SUBSET S : AmountOf(R) <= AmountOf(S)
<1> DEFINE f == [c \in S |-> checks[c].request.amount]
<1>1. \A c \in S : f[c] \in Nat /\ f[c] = checks[c].request.amount
  BY StoredNumbers
<1> HIDE DEF f
<1>2. \A R \in SUBSET S : AmountOf(R) = SumFunctionOnSet(f, R)
  BY <1>1, AmountIs
<1>3. AmountOf(S) \in Nat
  BY <1>1, <1>2, SumTyped
<1>4. ASSUME NEW c \in S
      PROVE  AmountOf(S) = checks[c].request.amount + AmountOf(S \ {c})
  BY <1>1, <1>2, SumWithout
<1>5. ASSUME NEW R \in SUBSET S
      PROVE  AmountOf(R) <= AmountOf(S)
  BY <1>1, <1>2, SumMonotone
<1> QED
  BY <1>3, <1>4, <1>5

\* A total is that of a part and that of the rest.
LEMMA AmountSplit ==
  ASSUME TableInv, NEW S, IsFiniteSet(S), S \subseteq Checks,
         \A c \in S : Exists(c), NEW R
  PROVE  /\ AmountOf(S) = AmountOf(S \ R) + AmountOf(S \cap R)
         /\ AmountOf(S \ R) \in Nat
         /\ AmountOf(S \cap R) \in Nat
<1> DEFINE f == [c \in S |-> checks[c].request.amount]
<1>1. \A c \in S : f[c] \in Nat /\ f[c] = checks[c].request.amount
  BY StoredNumbers
<1> HIDE DEF f
<1>2. \A T \in SUBSET S : AmountOf(T) = SumFunctionOnSet(f, T)
  BY <1>1, AmountIs
<1>3. S \ R \in SUBSET S /\ S \cap R \in SUBSET S
  OBVIOUS
<1>4. \A T \in SUBSET S : SumFunctionOnSet(f, T) \in Nat
  BY <1>1, FS_Subset, SumTyped
<1>5. SumFunctionOnSet(f, S)
        = SumFunctionOnSet(f, S \ R) + SumFunctionOnSet(f, S \cap R)
  <2>1. \A x \in S : f[x] \in Nat
    BY <1>1
  <2> QED
    BY <2>1, SumSplit, Z3T(40)
<1>6. /\ AmountOf(S \ R) = SumFunctionOnSet(f, S \ R)
      /\ AmountOf(S \cap R) = SumFunctionOnSet(f, S \cap R)
      /\ AmountOf(S) = SumFunctionOnSet(f, S)
  BY <1>2, <1>3
<1> QED
  BY <1>3, <1>4, <1>5, <1>6

\* Requests are never rewritten, so neither is a total.
LEMMA AmountKept ==
  ASSUME NEW S, \A c \in S : checks'[c].request = checks[c].request
  PROVE  AmountOf(S)' = AmountOf(S)
<1> DEFINE f == [c \in S |-> checks'[c].request.amount]
<1>1. AmountOf(S)' = SumFunction(f)
  BY DEF AmountOf
<1>2. AmountOf(S)' = SumFunctionOnSet(f, S)
  BY <1>1 DEF SumFunction
<1>3. \A c \in S : f[c] = checks[c].request.amount
  OBVIOUS
<1> HIDE DEF f
<1> QED
  BY <1>2, <1>3, AmountIs

\* What a row keeps when it is not the one being admitted.
Kept(c) == /\ checks'[c].request = checks[c].request
           /\ checks'[c].policy = checks[c].policy
           /\ reservations'[c].status \in Live => reservations[c].status \in Live
           /\ reservations'[c].day = reservations[c].day

\* Authorization rows belong to stored checks with a reservation.
LEMMA StoredReplay ==
  ASSUME TableInv, ReplayInv
  PROVE  \A c \in replay : /\ c \in Checks
                           /\ Exists(c)
                           /\ checks[c] \in CheckRow
                           /\ reservations[c] \in ReservationRow
BY DEF ReplayInv, ReplayRowsLive, TableInv, TypeOK, RowsOwned, Exists, NoRow,
       Committed

\* Only an admission adds a row to what the limits bound.
LEMMA OnlyAdmissionAdds ==
  ASSUME TableInv, ReplayInv, [Next]_vars
  PROVE  \/ \E w \in Workers : SaveAndReserve(w)
         \/ replay' \subseteq replay /\ \A c \in replay' : Kept(c)
<1> USE DEF Kept
<1>0. \A c \in replay : /\ c \in Checks
                        /\ Exists(c)
                        /\ checks[c] \in CheckRow
                        /\ reservations[c] \in ReservationRow
                        /\ reservations[c].status \in Committed
  BY StoredReplay DEF ReplayInv, ReplayRowsLive
<1>1. CASE UNCHANGED <<checks, reservations, replay, settlements, receipts,
                       anchorJobs>>
  BY <1>1
<1>2. ASSUME NEW w \in Workers, NEW d \in Checks,
             NEW f \in {"pay", "review", "block"}, Evaluate(w, d, f)
      PROVE  replay' \subseteq replay /\ \A c \in replay' : Kept(c)
  BY <1>0, <1>2 DEF Evaluate, ReplayAfterExpiry, AfterExpiry
<1>3. ASSUME NEW w \in Workers, SaveRefusal(w)
      PROVE  replay' \subseteq replay /\ \A c \in replay' : Kept(c)
  <2>1. \A c \in replay : c # worker[w].id
    BY <1>0, <1>3 DEF SaveRefusal, TableInv, IdsSound
  <2> QED
    BY <1>0, <1>3, <2>1 DEF SaveRefusal, TableInv, TypeOK
<1>4. ASSUME NEW w \in Workers, ReleaseReservation(w)
      PROVE  replay' \subseteq replay /\ \A c \in replay' : Kept(c)
  <2>1. worker[w].id \in Checks
    BY <1>4, WorkerShape DEF ReleaseReservation, TableInv
  <2> QED
    BY <1>0, <1>4, <2>1 DEF ReleaseReservation, TableInv, TypeOK
<1>5. ASSUME NEW w \in Workers, MarkCancelled(w)
      PROVE  replay' \subseteq replay /\ \A c \in replay' : Kept(c)
  <2>1. worker[w].id \in Checks
    BY <1>5, WorkerShape DEF MarkCancelled, TableInv
  <2>2. \A c \in replay : /\ checks'[c].request = checks[c].request
                          /\ checks'[c].policy = checks[c].policy
    BY <1>0, <1>5, <2>1 DEF MarkCancelled, TableInv, TypeOK, CheckRow
  <2> QED
    BY <1>5, <2>2 DEF MarkCancelled
<1>6. ASSUME NEW w \in Workers, ApplySettlement(w)
      PROVE  replay' \subseteq replay /\ \A c \in replay' : Kept(c)
  <2> DEFINE e == worker[w].id
             v == worker[w].verdict
  <2>1. e \in Checks /\ v \in Verdicts
    BY <1>6, WorkerShape DEF ApplySettlement, TableInv
  <2>2. \A c \in replay : /\ checks'[c].request = checks[c].request
                          /\ checks'[c].policy = checks[c].policy
    BY <1>0, <1>6, <2>1 DEF ApplySettlement, TableInv, TypeOK, CheckRow
  <2>3. \A c \in Checks \ {e} : reservations'[c] = reservations[c]
    BY <1>6, <2>1 DEF ApplySettlement, TableInv, TypeOK
  <2>4. e \in replay =>
          /\ reservations'[e].day = reservations[e].day
          /\ reservations'[e].status = TargetOf(v, reservations[e].status)
    BY <1>0, <1>6, <2>1
       DEF ApplySettlement, TableInv, TypeOK, ReservationRow
  <2>5. reservations[e].status \in SourcesOf(v)
    BY <1>6 DEF ApplySettlement, Applicable
  <2>6. e \in replay /\ reservations'[e].status \in Live
          => reservations[e].status \in Live
    BY <1>0, <2>1, <2>4, <2>5 DEF TargetOf, SourcesOf, Live, Verdicts, Committed
  <2>7. replay' = replay
    BY <1>6 DEF ApplySettlement
  <2> HIDE DEF e
  <2> QED
    BY <1>0, <2>2, <2>3, <2>4, <2>6, <2>7
<1>7. ASSUME NEW w \in Workers, NEW d \in Checks, NEW o \in Observations,
             RecordObservation(w, d, o)
      PROVE  replay' \subseteq replay /\ \A c \in replay' : Kept(c)
  BY <1>7 DEF RecordObservation
<1> HIDE DEF Kept
<1> QED
  BY <1>1, <1>2, <1>3, <1>4, <1>5, <1>6, <1>7, TableSteps

\* What an admission does to the rows the limits bound.
LEMMA Admission ==
  ASSUME TableInv, ReplayInv, LimitInv, NEW w \in Workers, SaveAndReserve(w),
         NEW c, c = worker[w].id, NEW row, row = worker[w].row
  PROVE  /\ c \in Checks /\ c \notin replay /\ ~ Exists(c)
         /\ row.request \in Requests /\ row.policy \in Policies
         /\ replay' = (replay \ Lapsed) \cup {c}
         /\ checks'[c] = row
         /\ reservations'[c] = [status |-> "active", day |-> DayOf(clock)]
         /\ \A d \in replay \ Lapsed :
              /\ d \in Checks
              /\ checks'[d] = checks[d]
              /\ reservations'[d] = reservations[d]
              /\ AfterExpiry[d] = reservations[d]
              /\ reservations[d].status \in Committed
<1>1. c \in Checks /\ ~ Exists(c) /\ row \in CheckRow
  BY WorkerShape DEF SaveAndReserve, TableInv, IdsSound
<1>2. c \notin replay
  BY <1>1, StoredReplay
<1>3. row.request \in Requests /\ row.policy \in Policies
  BY <1>1 DEF CheckRow, LimitInv, ReservedByPolicy, SaveAndReserve
<1>4. /\ checks'[c] = row
      /\ reservations'[c] = [status |-> "active", day |-> DayOf(clock)]
      /\ \A d \in Checks \ {c} : /\ checks'[d] = checks[d]
                                 /\ reservations'[d] = AfterExpiry[d]
      /\ replay' = (replay \ Lapsed) \cup {c}
  BY <1>1 DEF SaveAndReserve, TableInv, TypeOK, AfterExpiry, ReplayAfterExpiry
<1>5. \A d \in replay \ Lapsed : /\ d \in Checks
                                 /\ AfterExpiry[d] = reservations[d]
                                 /\ reservations[d].status \in Committed
  BY StoredReplay DEF AfterExpiry, ReplayInv, ReplayRowsLive
<1> QED
  BY <1>1, <1>2, <1>3, <1>4, <1>5

\* Finitely many checks are stored.
LEMMA FiniteStep == TableInv /\ RowsFinite /\ [Next]_vars => RowsFinite'
<1> SUFFICES ASSUME TableInv, RowsFinite, [Next]_vars
             PROVE  RowsFinite'
  OBVIOUS
<1>1. ASSUME NEW d, {c \in Checks : Exists(c)'}
                      \subseteq {c \in Checks : Exists(c)} \cup {d}
      PROVE  RowsFinite'
  <2>1. IsFiniteSet({c \in Checks : Exists(c)} \cup {d})
    BY FS_AddElement DEF RowsFinite
  <2> QED
    BY <1>1, <2>1, FS_Subset DEF RowsFinite
<1>2. ASSUME NEW w \in Workers, SaveRefusal(w) \/ SaveAndReserve(w)
      PROVE  RowsFinite'
  <2>1. \A c \in Checks \ {worker[w].id} : checks'[c] = checks[c]
    BY <1>2 DEF SaveRefusal, SaveAndReserve, TableInv, TypeOK
  <2>2. PICK d : d = worker[w].id
    OBVIOUS
  <2> QED
    BY <1>1, <2>1, <2>2 DEF Exists
<1>3. ASSUME \A c \in Checks : Exists(c)' => Exists(c)
      PROVE  RowsFinite'
  BY <1>1, <1>3
<1>4. ASSUME NEW w \in Workers, MarkCancelled(w) \/ ApplySettlement(w)
      PROVE  RowsFinite'
  <2>1. Exists(worker[w].id)
    BY <1>4, WorkerShape
       DEF MarkCancelled, ApplySettlement, TableInv, IdsSound
  <2>2. \A c \in Checks \ {worker[w].id} : checks'[c] = checks[c]
    BY <1>4 DEF MarkCancelled, ApplySettlement, TableInv, TypeOK
  <2> QED
    BY <1>3, <2>1, <2>2 DEF Exists
<1>5. CASE UNCHANGED checks
  BY <1>3, <1>5 DEF Exists
<1> QED
  BY <1>2, <1>4, <1>5, TableSteps
     DEF Evaluate, ReleaseReservation, RecordObservation

\* A PAY decision names a policy, and the row keeps it.
LEMMA PolicyStep ==
  TableInv /\ ReplayInv /\ LimitInv /\ [Next]_vars => ReservedByPolicy'
<1> SUFFICES ASSUME TableInv, ReplayInv, LimitInv, [Next]_vars
             PROVE  ReservedByPolicy'
  OBVIOUS
<1>1. ASSUME NEW c \in replay'
      PROVE  checks'[c].policy \in Policies
  <2>1. CASE c \in replay /\ Kept(c)
    BY <2>1 DEF LimitInv, ReservedByPolicy, Kept
  <2>2. ASSUME NEW w \in Workers, SaveAndReserve(w)
        PROVE  checks'[c].policy \in Policies
    <3>1. PICK d, row : d = worker[w].id /\ row = worker[w].row
      OBVIOUS
    <3> QED
      BY <1>1, <2>2, <3>1, Admission DEF LimitInv, ReservedByPolicy
  <2> QED
    BY <1>1, <2>1, <2>2, OnlyAdmissionAdds
<1>2. ASSUME NEW w \in Workers, worker'[w].at = "save",
             worker'[w].row.status = "reserved"
      PROVE  worker'[w].row.policy \in Policies
  <2>1. CASE worker'[w] = worker[w]
    BY <1>2, <2>1 DEF LimitInv, ReservedByPolicy
  <2>2. ASSUME NEW v \in Workers, NEW c \in Checks,
               NEW f \in {"pay", "review", "block"}, Evaluate(v, c, f),
               w = v
        PROVE  worker'[w].row.policy \in Policies
    <3>1. worker[v].request \in Requests
      BY <2>2, WorkerShape DEF Evaluate, TableInv
    <3>2. /\ worker'[v].row.policy = policies[worker[v].request.operator]
          /\ worker'[v].row.status = "reserved"
               => ~ NeedsReview(worker[v].request, f)
      BY <2>2 DEF Evaluate, Goto, TableInv, TypeOK
    <3> QED
      BY <1>2, <2>2, <3>1, <3>2, ConstantsAssumption
         DEF NeedsReview, TableInv, TypeOK
  <2>3. \/ worker'[w] = worker[w]
        \/ worker'[w].at # "save"
        \/ LoseAdmission(w)
        \/ \E c \in Checks, f \in {"pay", "review", "block"} :
             Evaluate(w, c, f)
    <3>1. CASE UNCHANGED vars
      BY <3>1 DEF vars
    <3>2. ASSUME NEW v \in Workers, CreateCheck(v)
          PROVE  \/ worker'[w] = worker[w]
                 \/ worker'[w].at # "save"
                 \/ v = w /\ LoseAdmission(v)
                 \/ v = w /\ \E c \in Checks, f \in {"pay", "review", "block"} :
                      Evaluate(v, c, f)
      BY <3>2 DEF CreateCheck, ReplayCheck, RequestCheck, EvidenceFails,
                  Evaluate, LoseKeyRace, SaveRefusal, SaveAndReserve,
                  LoseAdmission, ReservationThrows, Goto, Idle, TableInv, TypeOK
    <3>3. ASSUME NEW v \in Workers, CancelCheck(v)
          PROVE  worker'[w] = worker[w] \/ worker'[w].at # "save"
      BY <3>3 DEF CancelCheck, RequestCancel, ReleaseReservation,
                  MarkCancelled, Goto, Idle, TableInv, TypeOK
    <3>4. ASSUME NEW v \in Workers, VerifySettlement(v)
          PROVE  worker'[w] = worker[w] \/ worker'[w].at # "save"
      BY <3>4 DEF VerifySettlement, RequestVerify, ReceiveProof,
                  ApplySettlement, DiscardSettlement, Goto, Idle, TableInv,
                  TypeOK
    <3>5. ASSUME NEW v \in Workers, Crash(v)
          PROVE  worker'[w] = worker[w] \/ worker'[w].at # "save"
      BY <3>5 DEF Crash, Idle
    <3>6. ASSUME NEW v \in Workers, NEW c \in Checks, NEW o \in Observations,
                 RecordObservation(v, c, o)
          PROVE  worker'[w] = worker[w]
      BY <3>6 DEF RecordObservation
    <3>7. CASE Environment
      BY <3>7 DEF Environment, Tick, SavePolicy, Finalize, FinalizeOther
    <3> QED
      BY <3>1, <3>2, <3>3, <3>4, <3>5, <3>6, <3>7 DEF Next
  <2>4. LoseAdmission(w) => worker'[w].row.status # "reserved"
    BY WorkerShape
       DEF LoseAdmission, Goto, TableInv, TypeOK, DecisionRow, WorkerState, Idle
  <2> QED
    BY <1>2, <2>1, <2>2, <2>3, <2>4
<1> QED
  BY <1>1, <1>2 DEF ReservedByPolicy

\* The reservations an operator holds stay within the maximum of one of the
\* policies they were admitted under, and so does every part of them: only an
\* admission adds one, and it has counted them all, expiry included.
LEMMA LiveStep ==
  TableInv /\ ReplayInv /\ LimitInv /\ [Next]_vars => LiveBounded'
<1> SUFFICES ASSUME TableInv, ReplayInv, LimitInv, [Next]_vars,
                    NEW S \in (SUBSET replay') \ {{}},
                    \A c \in S : reservations'[c].status \in Live,
                    \A c, d \in S : checks'[c].request.operator
                                      = checks'[d].request.operator
             PROVE  \E c \in S : Cardinality(S) <= checks'[c].policy.maximum
  BY Zenon DEF LiveBounded
<1>0. S \subseteq replay' /\ S # {}
  OBVIOUS
\* Parts of what was there already.
<1>1. ASSUME S \subseteq replay,
             \A c \in S : /\ checks'[c].request = checks[c].request
                          /\ checks'[c].policy = checks[c].policy
                          /\ reservations[c].status \in Live
      PROVE  \E c \in S : Cardinality(S) <= checks'[c].policy.maximum
  <2>1. \A c, d \in S : checks[c].request.operator = checks[d].request.operator
    BY <1>1
  <2>2. \E c \in S : Cardinality(S) <= checks[c].policy.maximum
    BY <1>1, <2>1 DEF LimitInv, LiveBounded
  <2> QED
    BY <1>1, <2>2
<1>2. CASE replay' \subseteq replay /\ \A c \in replay' : Kept(c)
  BY <1>1, <1>2 DEF Kept
<1>3. ASSUME NEW w \in Workers, SaveAndReserve(w)
      PROVE  \E c \in S : Cardinality(S) <= checks'[c].policy.maximum
  <2>1. PICK c, row : c = worker[w].id /\ row = worker[w].row
    OBVIOUS
  <2>2. /\ c \in Checks /\ c \notin replay /\ ~ Exists(c)
        /\ row.request \in Requests /\ row.policy \in Policies
        /\ replay' = (replay \ Lapsed) \cup {c}
        /\ checks'[c] = row
        /\ \A d \in replay \ Lapsed :
              /\ d \in Checks
              /\ checks'[d] = checks[d]
              /\ reservations'[d] = reservations[d]
              /\ AfterExpiry[d] = reservations[d]
    BY <1>3, <2>1, Admission
  <2>3. CASE c \notin S
    BY <1>1, <2>2, <2>3
  <2>4. CASE c \in S
    <3>1. PICK L : L = LiveOf(AfterExpiry, row.request)
      OBVIOUS
    <3>2. S \ {c} \subseteq L
      BY <2>2, <2>4, <3>1 DEF LiveOf
    <3>3. L \subseteq {d \in Checks : Exists(d)}
      BY <3>1 DEF LiveOf, AfterExpiry, Lapsed, Live, TableInv, RowsOwned, NoRow
    <3>4. IsFiniteSet(L)
      BY <3>3, FS_Subset DEF LimitInv, RowsFinite
    <3>5. /\ IsFiniteSet(S \ {c}) /\ Cardinality(S \ {c}) <= Cardinality(L)
          /\ Cardinality(S \ {c}) \in Nat /\ Cardinality(L) \in Nat
      BY <3>2, <3>4, FS_Subset, FS_CardinalityType
    <3>6. Cardinality(S) = Cardinality(S \ {c}) + 1
      <4>1. (S \ {c}) \cup {c} = S /\ c \notin S \ {c}
        BY <2>4
      <4> QED
        BY <3>5, <4>1, FS_AddElement
    <3>7. ~ (Cardinality(L) >= row.policy.maximum)
      BY <1>3, <2>1, <3>1 DEF SaveAndReserve, Admissible, ReachesMaximum
    <3>8. row.policy.maximum \in Nat
      BY <2>2, ConstantsAssumption
    <3>9. Cardinality(S) <= row.policy.maximum
      BY <3>5, <3>6, <3>7, <3>8
    <3> QED
      BY <2>2, <2>4, <3>9
  <2> QED
    BY <2>3, <2>4
<1> QED
  BY <1>2, <1>3, OnlyAdmissionAdds

\* The same for the amounts committed on a day: an admission has added up all
\* that counts for the operator, asset and day, and the charge itself.
LEMMA CapStep ==
  TableInv /\ ReplayInv /\ LimitInv /\ [Next]_vars => CapBounded'
<1> SUFFICES ASSUME TableInv, ReplayInv, LimitInv, [Next]_vars,
                    NEW S \in (SUBSET replay') \ {{}},
                    \A c, d \in S :
                      /\ checks'[c].request.operator = checks'[d].request.operator
                      /\ checks'[c].request.asset = checks'[d].request.asset
                      /\ reservations'[c].day = reservations'[d].day
             PROVE  \E c \in S : AmountOf(S)'
                                   <= checks'[c].policy.cap[checks'[c].request.asset]
  BY Zenon DEF CapBounded
<1>0. S \subseteq replay' /\ S # {}
  OBVIOUS
\* Parts of what was there already.
<1>1. ASSUME S \subseteq replay,
             \A c \in S : /\ checks'[c].request = checks[c].request
                          /\ checks'[c].policy = checks[c].policy
                          /\ reservations'[c].day = reservations[c].day
      PROVE  \E c \in S : AmountOf(S)'
                            <= checks'[c].policy.cap[checks'[c].request.asset]
  <2>1. \A c, d \in S :
           /\ checks[c].request.operator = checks[d].request.operator
           /\ checks[c].request.asset = checks[d].request.asset
           /\ reservations[c].day = reservations[d].day
    BY <1>1
  <2>2. \E c \in S : AmountOf(S) <= checks[c].policy.cap[checks[c].request.asset]
    BY <1>1, <2>1 DEF LimitInv, CapBounded
  <2>3. AmountOf(S)' = AmountOf(S)
    BY <1>1, AmountKept
  <2> QED
    BY <1>1, <2>2, <2>3
<1>2. CASE replay' \subseteq replay /\ \A c \in replay' : Kept(c)
  BY <1>1, <1>2 DEF Kept
<1>3. ASSUME NEW w \in Workers, SaveAndReserve(w)
      PROVE  \E c \in S : AmountOf(S)'
                            <= checks'[c].policy.cap[checks'[c].request.asset]
  <2>1. PICK c, row : c = worker[w].id /\ row = worker[w].row
    OBVIOUS
  <2>2. /\ c \in Checks /\ c \notin replay /\ ~ Exists(c)
        /\ row.request \in Requests /\ row.policy \in Policies
        /\ replay' = (replay \ Lapsed) \cup {c}
        /\ checks'[c] = row
        /\ reservations'[c] = [status |-> "active", day |-> DayOf(clock)]
        /\ \A d \in replay \ Lapsed :
              /\ d \in Checks
              /\ checks'[d] = checks[d]
              /\ reservations'[d] = reservations[d]
              /\ AfterExpiry[d] = reservations[d]
              /\ reservations[d].status \in Committed
    BY <1>3, <2>1, Admission
  <2>3. CASE c \notin S
    BY <1>1, <2>2, <2>3
  <2>4. CASE c \in S
    <3> DEFINE q == row.request
               counted == {d \in Checks :
                             /\ AfterExpiry[d].status \in Committed
                             /\ AfterExpiry[d].day = DayOf(clock)
                             /\ checks[d].request.operator = q.operator
                             /\ checks[d].request.asset = q.asset}
    <3>1. PICK L : L = counted
      OBVIOUS
    <3>2. PICK R : R = S \ {c}
      OBVIOUS
    <3>3. \A d \in R : d \in replay \ Lapsed
      BY <2>2, <3>2
    <3>4. R \subseteq L
      <4>1. ASSUME NEW d \in R
            PROVE  d \in counted
        <5>1. /\ checks'[d].request.operator = checks'[c].request.operator
              /\ checks'[d].request.asset = checks'[c].request.asset
              /\ reservations'[d].day = reservations'[c].day
          BY <2>4, <3>2
        <5>2. /\ checks[d].request.operator = q.operator
              /\ checks[d].request.asset = q.asset
              /\ reservations[d].day = DayOf(clock)
          BY <2>2, <3>3, <5>1
        <5> QED
          BY <2>2, <3>3, <5>2
      <4> QED
        BY <3>1, <4>1
    <3>5. L \subseteq {d \in Checks : Exists(d)}
      BY <3>1 DEF AfterExpiry, Lapsed, Committed, TableInv, RowsOwned, NoRow
    <3>6. IsFiniteSet(L) /\ L \subseteq Checks /\ \A d \in L : Exists(d)
      BY <3>5, FS_Subset DEF LimitInv, RowsFinite
    <3>7. IsFiniteSet(R) /\ R \subseteq Checks /\ \A d \in R : Exists(d)
      BY <3>4, <3>6, FS_Subset
    <3>8. AmountOf(R) <= AmountOf(L) /\ AmountOf(R) \in Nat /\ AmountOf(L) \in Nat
      BY <3>4, <3>6, <3>7, AmountFacts
    <3>9. AmountOf(S)' = q.amount + AmountOf(R)
      <4>1. PICK f : f = [d \in S |-> checks'[d].request.amount]
        OBVIOUS
      <4>2. AmountOf(S)' = SumFunctionOnSet(f, S)
        BY <4>1 DEF AmountOf, SumFunction
      <4>3. \A d \in R : f[d] = checks[d].request.amount
        BY <2>2, <3>2, <3>3, <4>1
      <4>4. AmountOf(R) = SumFunctionOnSet(f, R)
        BY <4>3, AmountIs
      <4>5. f[c] = q.amount
        BY <2>2, <2>4, <4>1
      <4>6. \A d \in S : f[d] \in Nat
        BY <2>2, <3>2, <3>7, <4>3, <4>5, ConstantsAssumption, StoredNumbers
      <4>7. IsFiniteSet(S)
        <5>1. S = R \cup {c}
          BY <2>4, <3>2
        <5> QED
          BY <3>7, <5>1, FS_AddElement
      <4> QED
        BY <2>4, <3>2, <4>2, <4>4, <4>5, <4>6, <4>7, SumWithout
    <3>10. ~ (AmountOf(L) + q.amount > row.policy.cap[q.asset])
      BY <1>3, <2>1, <3>1
         DEF SaveAndReserve, Admissible, ExceedsCap, TotalOf
    <3>11. row.policy.cap[q.asset] \in Nat /\ q.amount \in Nat
      BY <2>2, ConstantsAssumption
    <3>12. AmountOf(S)' <= row.policy.cap[q.asset]
      BY <3>8, <3>9, <3>10, <3>11
    <3> QED
      BY <2>2, <2>4, <3>12
  <2> QED
    BY <2>3, <2>4
<1> QED
  BY <1>2, <1>3, OnlyAdmissionAdds

\* The limits hold of every part of what they bound, always.
LEMMA LimitInvariant == Spec => [](TableInv /\ ReplayInv /\ LimitInv)
<1>1. Init => ReplayInv /\ LimitInv
  <2>1. ASSUME Init
        PROVE  RowsFinite
    <3>1. {c \in Checks : Exists(c)} = {}
      BY <2>1 DEF Init, Exists
    <3> QED
      BY <3>1, FS_EmptySet DEF RowsFinite
  <2>2. ASSUME Init
        PROVE  ReplayInv /\ ReservedByPolicy
    BY <2>2 DEF Init, ReplayInv, ReplayRowsLive, NonceExclusive, NoRow,
                ReservedByPolicy, Idle
  <2>3. ASSUME Init
        PROVE  LiveBounded /\ CapBounded
    <3>1. (SUBSET replay) \ {{}} = {}
      BY <2>3 DEF Init
    <3> QED
      BY <3>1 DEF LiveBounded, CapBounded
  <2> QED
    BY <2>1, <2>2, <2>3 DEF LimitInv
<1>2. TableInv /\ ReplayInv /\ LimitInv /\ [Next]_vars => LimitInv'
  BY FiniteStep, PolicyStep, LiveStep, CapStep DEF LimitInv
<1> QED
  BY <1>1, <1>2, ReplayStep, TableInvariant, PTL DEF Spec

\* What the code counts belongs to stored checks, finitely many.
LEMMA CountedStored ==
  ASSUME TableInv, RowsFinite, NEW S \in SUBSET Checks,
         \A c \in S : reservations[c].status \in Committed
  PROVE  IsFiniteSet(S) /\ \A c \in S : Exists(c)
<1>1. \A c \in S : Exists(c)
  BY DEF TableInv, RowsOwned, Committed, NoRow
<1>2. S \subseteq {c \in Checks : Exists(c)}
  BY <1>1
<1> QED
  BY <1>1, <1>2, FS_Subset DEF RowsFinite

\* However requests and processes interleave, the reservations the code counts
\* for an operator are no more than the policy of one of them allows, but for
\* those that were settled after they had expired.
THEOREM ConcurrencyAlwaysRespected == Spec => []ConcurrencyRespected
<1>1. ASSUME TableInv, LimitInv
      PROVE  ConcurrencyRespected
  <2> SUFFICES ASSUME NEW o \in Operators, NEW S,
                      S = {c \in Checks : /\ reservations[c].status \in Live
                                          /\ checks[c].request.operator = o},
                      S \ SettledLate # {}
               PROVE  \E c \in S \ SettledLate :
                        Cardinality(S) <= checks[c].policy.maximum
                                            + Cardinality(S \cap SettledLate)
    BY DEF ConcurrencyRespected
  <2>1. PICK T, L : T = S \ SettledLate /\ L = S \cap SettledLate
    OBVIOUS
  <2>2. /\ T \in (SUBSET replay) \ {{}}
        /\ \A c \in T : /\ reservations[c].status \in Live
                         /\ checks[c].request.operator = o
    BY <2>1 DEF SettledLate, Live, Committed
  <2>3. PICK c \in T : Cardinality(T) <= checks[c].policy.maximum
    BY <1>1, <2>2 DEF LimitInv, LiveBounded
  <2>4. IsFiniteSet(S) /\ \A d \in S : Exists(d)
    BY <1>1, CountedStored DEF LimitInv, Live, Committed
  <2>5. IsFiniteSet(T) /\ IsFiniteSet(L)
    BY <2>1, <2>4, FS_Subset
  <2>6. Cardinality(S) = Cardinality(T) + Cardinality(L)
    <3>1. S = T \cup L /\ T \cap L = {}
      BY <2>1
    <3>2. Cardinality(T \cup L)
            = Cardinality(T) + Cardinality(L) - Cardinality(T \cap L)
      BY <2>5, FS_Union
    <3>3. Cardinality(T \cap L) = 0
      BY <3>1, FS_EmptySet
    <3>4. PICK i, j : i = Cardinality(T) /\ j = Cardinality(L)
      OBVIOUS
    <3>5. i \in Nat /\ j \in Nat
      BY <2>5, <3>4, FS_CardinalityType
    <3>6. Cardinality(S) = i + j - 0
      BY <3>1, <3>2, <3>3, <3>4, Zenon
    <3>7. i + j - 0 = i + j
      BY <3>5
    <3> QED
      BY <3>4, <3>6, <3>7
  <2>7. checks[c].policy.maximum \in Nat
    <3>1. checks[c].policy \in Policies
      BY <1>1, <2>2, <2>3 DEF LimitInv, ReservedByPolicy
    <3> QED
      BY <3>1, ConstantsAssumption
  <2>8. Cardinality(T) \in Nat /\ Cardinality(L) \in Nat
    BY <2>5, FS_CardinalityType
  <2>9. Cardinality(S) <= checks[c].policy.maximum + Cardinality(L)
    BY <2>3, <2>6, <2>7, <2>8
  <2> QED
    BY <2>1, <2>9
<1> QED
  BY <1>1, LimitInvariant, PTL

\* However requests and processes interleave, what the code adds up for an
\* operator, asset and day exceeds the daily cap of a policy under which one of
\* the reservations was admitted by no more than what was settled after it had
\* expired.
THEOREM CapAlwaysRespected == Spec => []CapRespected
<1>1. ASSUME TableInv, ReplayInv, LimitInv
      PROVE  CapRespected
  <2> SUFFICES ASSUME NEW c \in replay, NEW S,
                      S = {d \in Checks :
                             /\ reservations[d].status \in Committed
                             /\ reservations[d].day = reservations[c].day
                             /\ checks[d].request.operator = checks[c].request.operator
                             /\ checks[d].request.asset = checks[c].request.asset}
               PROVE  \E d \in S \ SettledLate :
                        AmountOf(S) <= checks[d].policy.cap[checks[d].request.asset]
                                         + AmountOf(S \cap SettledLate)
    BY DEF CapRespected
  <2>1. PICK T : T = S \ SettledLate
    OBVIOUS
  <2>2. c \in T
    BY <1>1, <2>1 DEF ReplayInv, ReplayRowsLive, SettledLate, TableInv, TypeOK
  <2>3. /\ T \in (SUBSET replay) \ {{}}
        /\ \A d \in T :
             /\ reservations[d].day = reservations[c].day
             /\ checks[d].request.operator = checks[c].request.operator
             /\ checks[d].request.asset = checks[c].request.asset
    BY <2>1, <2>2 DEF SettledLate
  <2>4. PICK d \in T : AmountOf(T) <= checks[d].policy.cap[checks[d].request.asset]
    BY <1>1, <2>3 DEF LimitInv, CapBounded
  <2>5. S \subseteq Checks /\ IsFiniteSet(S) /\ \A e \in S : Exists(e)
    BY <1>1, CountedStored DEF LimitInv
  <2>6. /\ AmountOf(S) = AmountOf(T) + AmountOf(S \cap SettledLate)
        /\ AmountOf(T) \in Nat /\ AmountOf(S \cap SettledLate) \in Nat
    BY <1>1, <2>1, <2>5, AmountSplit
  <2>7. checks[d].policy.cap[checks[d].request.asset] \in Nat
    <3>1. checks[d].policy \in Policies /\ d \in S
      BY <1>1, <2>1, <2>3, <2>4 DEF LimitInv, ReservedByPolicy
    <3> QED
      BY <1>1, <2>5, <3>1, StoredNumbers
  <2>8. AmountOf(S) <= checks[d].policy.cap[checks[d].request.asset]
                         + AmountOf(S \cap SettledLate)
    BY <2>4, <2>6, <2>7
  <2> QED
    BY <2>1, <2>8
<1> QED
  BY <1>1, LimitInvariant, PTL
-----------------------------------------------------------------------------
(***************************************************************************)
(* Settlements.                                                            *)
(***************************************************************************)

\* Only ApplySettlement writes a settlement, only that of its own check, and
\* never over a final verdict or another transaction.
LEMMA SettlementsKept ==
  ASSUME TableInv, [Next]_vars, NEW c \in Checks,
         settlements'[c] # settlements[c]
  PROVE  \E w \in Workers :
           /\ ApplySettlement(w)
           /\ worker[w].id = c
           /\ settlements'[c] = [verdict |-> worker[w].verdict,
                                 transaction |-> worker[w].transaction]
           /\ Revisable(c, worker[w].transaction)
<1>1. PICK w \in Workers : ApplySettlement(w)
  BY TableSteps DEF Evaluate, SaveRefusal, SaveAndReserve, ReleaseReservation,
                    MarkCancelled, RecordObservation
<1>2. worker[w].id \in Checks
  BY <1>1, WorkerShape DEF ApplySettlement, TableInv
<1> QED
  BY <1>1, <1>2 DEF ApplySettlement, Applicable, TableInv, TypeOK

\* What was released stays released: an admission writes a row of its own,
\* expiry moves active reservations only, and no verdict is stored for the rest.
LEMMA ReleasedKept ==
  ASSUME TableInv, [Next]_vars, NEW c \in Checks,
         reservations[c].status = "released"
  PROVE  reservations'[c].status = "released"
<1>1. CASE reservations' = reservations
  BY <1>1
<1>2. c \notin Lapsed /\ AfterExpiry[c] = reservations[c]
  BY DEF Lapsed, AfterExpiry
<1>3. ASSUME NEW w \in Workers, NEW d \in Checks,
             NEW f \in {"pay", "review", "block"}, Evaluate(w, d, f)
      PROVE  reservations'[c].status = "released"
  BY <1>2, <1>3 DEF Evaluate
<1>4. ASSUME NEW w \in Workers, SaveRefusal(w)
      PROVE  reservations'[c].status = "released"
  BY <1>1, <1>2, <1>4 DEF SaveRefusal
<1>5. ASSUME NEW w \in Workers, SaveAndReserve(w)
      PROVE  reservations'[c].status = "released"
  <2>1. worker[w].id # c
    BY <1>5 DEF SaveAndReserve, TableInv, IdsSound, RowsOwned, NoRow
  <2> QED
    BY <1>2, <1>5, <2>1 DEF SaveAndReserve, AfterExpiry
<1>6. ASSUME NEW w \in Workers, ReleaseReservation(w)
      PROVE  reservations'[c].status = "released"
  <2>1. "released" \notin Live
    BY DEF Live
  <2>2. CASE worker[w].id = c
    BY <1>6, <2>1, <2>2 DEF ReleaseReservation
  <2>3. CASE worker[w].id # c
    BY <1>6, <2>3 DEF ReleaseReservation, TableInv, TypeOK
  <2> QED
    BY <2>2, <2>3
<1>7. ASSUME NEW w \in Workers, MarkCancelled(w)
      PROVE  reservations'[c].status = "released"
  BY <1>1, <1>7 DEF MarkCancelled
<1>8. ASSUME NEW w \in Workers, ApplySettlement(w)
      PROVE  reservations'[c].status = "released"
  <2>1. worker[w].id # c
    BY <1>8 DEF ApplySettlement, Applicable, SourcesOf
  <2> QED
    BY <1>8, <2>1 DEF ApplySettlement, TableInv, TypeOK
<1>9. ASSUME NEW w \in Workers, NEW d \in Checks, NEW o \in Observations,
              RecordObservation(w, d, o)
       PROVE  reservations'[c].status = "released"
  BY <1>1, <1>9 DEF RecordObservation
<1> QED
  BY <1>1, <1>3, <1>4, <1>5, <1>6, <1>7, <1>8, <1>9, TableSteps

\* A final verdict is never revised, a transaction never replaced and a
\* released reservation never revived, in any order of RPC answers and for any
\* number of processes.
THEOREM SettlementStaysFinal == Spec => SettlementFinal
<1>1. ASSUME TableInv, [Next]_vars, NEW c \in Checks
      PROVE  /\ settlements[c].verdict \in FinalVerdicts =>
                  UNCHANGED settlements[c]
             /\ settlements[c] # NoSettlement =>
                  settlements'[c].transaction = settlements[c].transaction
             /\ reservations[c].status = "released" =>
                  reservations'[c].status = "released"
  <2>0. reservations[c].status = "released" =>
          reservations'[c].status = "released"
    BY <1>1, ReleasedKept
  <2>1. CASE settlements'[c] = settlements[c]
    BY <2>0, <2>1
  <2>2. CASE settlements'[c] # settlements[c]
    <3>1. PICK w \in Workers :
            /\ settlements'[c] = [verdict |-> worker[w].verdict,
                                  transaction |-> worker[w].transaction]
            /\ Revisable(c, worker[w].transaction)
      BY <1>1, <2>2, SettlementsKept
    <3>2. settlements[c] = NoSettlement =>
            settlements[c].verdict \notin FinalVerdicts
      BY DEF NoSettlement, FinalVerdicts
    <3> QED
      BY <2>0, <3>1, <3>2 DEF Revisable
  <2> QED
    BY <2>1, <2>2
<1>2. TableInv /\ [Next]_vars =>
        [\A c \in Checks :
           /\ settlements[c].verdict \in FinalVerdicts =>
                UNCHANGED settlements[c]
           /\ settlements[c] # NoSettlement =>
                settlements'[c].transaction = settlements[c].transaction
           /\ reservations[c].status = "released" =>
                reservations'[c].status = "released"]_vars
  BY <1>1
<1> QED
  BY <1>2, TableInvariant, PTL DEF Spec, SettlementFinal

\* One transaction settles one check: the test and the insert are one
\* transaction of the database.
LEMMA ExclusiveStep ==
  TableInv /\ TransactionExclusive /\ [Next]_vars => TransactionExclusive'
<1> SUFFICES ASSUME TableInv, TransactionExclusive, [Next]_vars,
                    NEW c \in Checks, NEW d \in Checks, c # d,
                    settlements'[c] # NoSettlement,
                    settlements'[d] # NoSettlement
             PROVE  settlements'[c].transaction # settlements'[d].transaction
  BY DEF TransactionExclusive
<1>1. CASE settlements'[c] = settlements[c] /\ settlements'[d] = settlements[d]
  BY <1>1 DEF TransactionExclusive
<1>2. ASSUME NEW a \in Checks, NEW b \in Checks, a # b,
             settlements'[a] # settlements[a], settlements'[b] # NoSettlement
      PROVE  settlements'[a].transaction # settlements'[b].transaction
  <2>1. PICK w \in Workers :
          /\ ApplySettlement(w)
          /\ worker[w].id = a
          /\ settlements'[a] = [verdict |-> worker[w].verdict,
                                transaction |-> worker[w].transaction]
    BY <1>2, SettlementsKept
  <2>2. settlements'[b] = settlements[b]
    BY <1>2, <2>1 DEF ApplySettlement, TableInv, TypeOK
  <2> QED
    BY <1>2, <2>1, <2>2 DEF ApplySettlement, Applicable
<1> QED
  BY <1>1, <1>2

THEOREM TransactionAlwaysExclusive == Spec => []TransactionExclusive
<1>1. Init => TransactionExclusive
  BY DEF Init, TransactionExclusive
<1> QED
  BY <1>1, ExclusiveStep, TableInvariant, PTL DEF Spec
-----------------------------------------------------------------------------
(***************************************************************************)
(* Idempotency of createCheck.                                             *)
(***************************************************************************)

\* A check is inserted only under a key that nobody owns.
LEMMA InsertStep ==
  ASSUME TableInv, [Next]_vars, NEW c \in Checks, ~ Exists(c), Exists(c)'
  PROVE  \E w \in Workers :
           /\ checks' = [checks EXCEPT ![c] = worker[w].row]
           /\ KeyOwners(worker[w].row.request) = {}
<1>1. CASE UNCHANGED <<checks, reservations, replay, settlements, receipts,
                       anchorJobs>>
  BY <1>1 DEF Exists
<1>2. ASSUME NEW w \in Workers, SaveRefusal(w) \/ SaveAndReserve(w)
      PROVE  /\ checks' = [checks EXCEPT ![c] = worker[w].row]
             /\ KeyOwners(worker[w].row.request) = {}
  <2>1. checks' = [checks EXCEPT ![worker[w].id] = worker[w].row]
    BY <1>2 DEF SaveRefusal, SaveAndReserve
  <2>2. worker[w].id = c
    BY <2>1 DEF Exists, TableInv, TypeOK
  <2> QED
    BY <1>2, <2>1, <2>2 DEF SaveRefusal, SaveAndReserve
<1>3. ASSUME NEW w \in Workers, MarkCancelled(w) \/ ApplySettlement(w)
      PROVE  FALSE
  <2>1. worker[w].id \in Checks /\ Exists(worker[w].id)
    BY <1>3, WorkerShape DEF MarkCancelled, ApplySettlement, TableInv, IdsSound
  <2> QED
    BY <1>3, <2>1 DEF MarkCancelled, ApplySettlement, TableInv, TypeOK, Exists
<1>4. ASSUME NEW w \in Workers, NEW d \in Checks, NEW o \in Observations,
             RecordObservation(w, d, o)
      PROVE  FALSE
  BY <1>4 DEF RecordObservation, Exists
<1>5. ASSUME NEW w \in Workers, NEW d \in Checks,
             NEW f \in {"pay", "review", "block"}, Evaluate(w, d, f)
      PROVE  FALSE
  BY <1>5 DEF Evaluate, Exists
<1>6. ASSUME NEW w \in Workers, ReleaseReservation(w)
      PROVE  FALSE
  BY <1>6 DEF ReleaseReservation, Exists
<1> QED
  BY <1>1, <1>2, <1>3, <1>4, <1>5, <1>6, TableSteps

\* Whatever is answered, the step leaves it stored as asked.
LEMMA AnswerStep ==
  ASSUME TableInv, [Next]_vars, NEW a \in answers', a \notin answers
  PROVE  /\ a.id \in Checks
         /\ Exists(a.id)'
         /\ checks'[a.id].request = a.request
<1>1. ASSUME NEW w \in Workers, NEW q \in Requests, ReplayCheck(w, q)
      PROVE  /\ a.id \in Checks
             /\ Exists(a.id)'
             /\ checks'[a.id].request = a.request
  BY <1>1 DEF ReplayCheck, Answer, KeyOwners, Exists, tables
<1>2. ASSUME NEW w \in Workers, LoseKeyRace(w)
      PROVE  /\ a.id \in Checks
             /\ Exists(a.id)'
             /\ checks'[a.id].request = a.request
  BY <1>2 DEF LoseKeyRace, Answer, KeyOwners, Exists, tables
<1>3. ASSUME NEW w \in Workers, SaveRefusal(w) \/ SaveAndReserve(w)
      PROVE  /\ a.id \in Checks
             /\ Exists(a.id)'
             /\ checks'[a.id].request = a.request
  <2>1. /\ worker[w].id \in Checks /\ worker[w].row \in CheckRow
        /\ checks'[worker[w].id] = worker[w].row
        /\ a = [request |-> worker[w].row.request, id |-> worker[w].id]
    BY <1>3, WorkerShape
       DEF SaveRefusal, SaveAndReserve, Answer, TableInv, TypeOK
  <2> QED
    BY <2>1 DEF Exists, CheckRow, CheckStatuses, NoRow
<1>4. answers' = answers \/
        \E w \in Workers :
          \/ \E q \in Requests : ReplayCheck(w, q)
          \/ LoseKeyRace(w)
          \/ SaveRefusal(w)
          \/ SaveAndReserve(w)
  <2>1. ASSUME NEW w \in Workers, CreateCheck(w)
        PROVE  \/ answers' = answers
               \/ \E q \in Requests : ReplayCheck(w, q)
               \/ LoseKeyRace(w)
               \/ SaveRefusal(w)
               \/ SaveAndReserve(w)
    BY <2>1 DEF CreateCheck, RequestCheck, EvidenceFails, Evaluate,
                LoseAdmission, ReservationThrows
  <2>2. ASSUME NEW w \in Workers, CancelCheck(w) \/ VerifySettlement(w)
        PROVE  answers' = answers
    BY <2>2 DEF CancelCheck, RequestCancel, ReleaseReservation, MarkCancelled,
                VerifySettlement, RequestVerify, ReceiveProof,
                ApplySettlement, DiscardSettlement
  <2>3. ASSUME NEW w \in Workers, NEW c \in Checks, NEW o \in Observations,
               RecordObservation(w, c, o)
        PROVE  answers' = answers
    BY <2>3 DEF RecordObservation
  <2>4. ASSUME NEW w \in Workers, Crash(w)
        PROVE  answers' = answers
    BY <2>4 DEF Crash
  <2>5. Environment => answers' = answers
    BY DEF Environment, Tick, SavePolicy, Finalize, FinalizeOther
  <2>6. UNCHANGED vars => answers' = answers
    BY DEF vars
  <2> QED
    BY <2>1, <2>2, <2>3, <2>4, <2>5, <2>6 DEF Next
<1> QED
  BY <1>1, <1>2, <1>3, <1>4

\* Keys stay unique, and answers stay true, when requests for one key race.
LEMMA AnswerInvStep == TableInv /\ AnswerInv /\ [Next]_vars => AnswerInv'
<1> SUFFICES ASSUME TableInv, AnswerInv, [Next]_vars
             PROVE  AnswerInv'
  OBVIOUS
<1> USE DEF AnswerInv
<1>0. \A c \in Checks :
        Exists(c) => Exists(c)' /\ checks'[c].request = checks[c].request
  BY RowsKept DEF TableInv
<1>1. KeysUnique'
  <2> SUFFICES ASSUME NEW c \in Checks, NEW d \in Checks, c # d,
                      Exists(c)', Exists(d)'
               PROVE  ~ SameKey(checks'[c].request, checks'[d].request)
    BY DEF KeysUnique, SameKey
  <2>1. CASE Exists(c) /\ Exists(d)
    BY <1>0, <2>1 DEF KeysUnique
  <2>2. ASSUME NEW a \in Checks, NEW b \in Checks, a # b,
               ~ Exists(a), Exists(a)', Exists(b)'
        PROVE  ~ SameKey(checks'[a].request, checks'[b].request)
    <3>1. PICK w \in Workers :
            /\ checks' = [checks EXCEPT ![a] = worker[w].row]
            /\ KeyOwners(worker[w].row.request) = {}
      BY <2>2, InsertStep
    <3>2. /\ checks'[a] = worker[w].row
          /\ checks'[b] = checks[b]
          /\ Exists(b)
      BY <2>2, <3>1 DEF TableInv, TypeOK, Exists
    <3> QED
      BY <2>2, <3>1, <3>2 DEF KeyOwners, SameKey
  <2> QED
    BY <2>1, <2>2 DEF SameKey
<1>2. AnswersStored'
  <2> SUFFICES ASSUME NEW a \in answers'
               PROVE  Exists(a.id)' /\ checks'[a.id].request = a.request
    BY DEF AnswersStored
  <2>1. CASE a \in answers
    <3>1. a.id \in Checks
      BY <2>1 DEF TableInv, TypeOK
    <3> QED
      BY <1>0, <2>1, <3>1 DEF AnswersStored
  <2>2. CASE a \notin answers
    BY <2>2, AnswerStep
  <2> QED
    BY <2>1, <2>2
<1> QED
  BY <1>1, <1>2

\* Every answer for one operator and key names one check, with the content
\* asked for, whatever races and crashes.
THEOREM AnswersAlwaysIdempotent == Spec => []IdempotentAnswers
<1>1. Init => AnswerInv
  BY DEF Init, AnswerInv, KeysUnique, AnswersStored, Exists
<1>2. TableInv /\ AnswerInv => IdempotentAnswers
  <2> SUFFICES ASSUME TableInv, AnswerInv
               PROVE  IdempotentAnswers
    OBVIOUS
  <2>1. \A a \in answers : a.id \in Checks
    BY DEF TableInv, TypeOK
  <2>2. \A a \in answers : Exists(a.id) /\ checks[a.id].request = a.request
    BY DEF AnswerInv, AnswersStored
  <2>3. ASSUME NEW a \in answers, NEW b \in answers,
               SameKey(a.request, b.request)
        PROVE  a.id = b.id
    BY <2>1, <2>2, <2>3 DEF AnswerInv, KeysUnique
  <2> QED
    BY <2>2, <2>3 DEF IdempotentAnswers, Exists
<1> QED
  BY <1>1, <1>2, AnswerInvStep, TableInvariant, PTL DEF Spec

-----------------------------------------------------------------------------
(***************************************************************************)
(* Receipts and the chain.                                                 *)
(***************************************************************************)

\* A receipt rests on a final settlement, and only receipts are anchored.
LEMMA ReceiptStep == TableInv /\ ReceiptBacked /\ [Next]_vars => ReceiptBacked'
<1> SUFFICES ASSUME TableInv, ReceiptBacked, [Next]_vars
             PROVE  ReceiptBacked'
  OBVIOUS
<1>1. \A c \in Checks :
        settlements[c].verdict = "match" => settlements'[c] = settlements[c]
  <2> SUFFICES ASSUME NEW c \in Checks, settlements[c].verdict = "match",
                      settlements'[c] # settlements[c]
               PROVE  FALSE
    OBVIOUS
  <2>1. PICK w \in Workers : Revisable(c, worker[w].transaction)
    BY SettlementsKept
  <2> QED
    BY <2>1 DEF Revisable, FinalVerdicts, NoSettlement
<1>2. CASE UNCHANGED <<receipts, anchorJobs>>
  BY <1>1, <1>2 DEF ReceiptBacked
<1>3. ASSUME NEW w \in Workers, NEW d \in Checks, NEW o \in Observations,
             RecordObservation(w, d, o)
      PROVE  ReceiptBacked'
  <2>1. /\ settlements' = settlements
        /\ \A c \in Checks \ {d} : receipts'[c] = receipts[c]
        /\ anchorJobs' \subseteq anchorJobs \cup {d}
    BY <1>3 DEF RecordObservation, TableInv, TypeOK
  <2>2. settlements[d] \in SettlementRow /\ settlements[d].verdict = "match"
    BY <1>3 DEF RecordObservation, Receiptable, TableInv, TypeOK, NoSettlement
  <2>3. CASE receipts[d] # NoReceipt
    BY <1>3, <2>1, <2>3 DEF RecordObservation, ReceiptBacked
  <2>4. CASE receipts[d] = NoReceipt
    <3>1. receipts'[d] = [body |-> "stored", observation |-> o,
                          transaction |-> settlements[d].transaction]
      BY <1>3, <2>4 DEF RecordObservation, TableInv, TypeOK
    <3>2. /\ receipts'[d] # NoReceipt
          /\ settlements[d] = [verdict |-> "match",
                               transaction |-> receipts'[d].transaction]
      BY <2>2, <3>1 DEF NoReceipt, SettlementRow
    <3> QED
      BY <2>1, <3>2 DEF ReceiptBacked
  <2> QED
    BY <2>3, <2>4
<1>4. UNCHANGED <<receipts, anchorJobs>> \/
        \E w \in Workers, d \in Checks, o \in Observations :
          RecordObservation(w, d, o)
  BY TableSteps DEF Evaluate, SaveRefusal, SaveAndReserve, ReleaseReservation,
                    MarkCancelled, ApplySettlement
<1> QED
  BY <1>2, <1>3, <1>4

THEOREM ReceiptAlwaysBacked == Spec => []ReceiptBacked
<1>1. Init => ReceiptBacked
  BY DEF Init, ReceiptBacked
<1> QED
  BY <1>1, ReceiptStep, TableInvariant, PTL DEF Spec

\* What the chain has finalized stays, and a nonce is executed once.
LEMMA ChainStep ==
  ASSUME TableInv, SpentOnce, [Next]_vars
  PROVE  /\ \A t \in Transactions : chain[t] # Open => chain'[t] = chain[t]
         /\ SpentOnce'
<1>1. ASSUME NEW t \in Transactions, NEW q \in Requests, Finalize(t, q)
      PROVE  /\ \A u \in Transactions : chain[u] # Open => chain'[u] = chain[u]
             /\ SpentOnce'
  <2>1. /\ chain'[t] = [outcome |-> "executed",
                        authorization |-> Authorization(q)]
        /\ \A u \in Transactions \ {t} : chain'[u] = chain[u]
        /\ chain[t] = Open
    BY <1>1 DEF Finalize, TableInv, TypeOK
  <2>2. \A u \in Transactions \ {t} :
          chain[u].outcome = "executed" =>
            \/ chain[u].authorization.asset # q.asset
            \/ chain[u].authorization.nonce # q.nonce
    BY <1>1 DEF Finalize, NonceSpent
  <2> QED
    BY <2>1, <2>2 DEF SpentOnce, Authorization
<1>2. ASSUME NEW t \in Transactions, FinalizeOther(t)
      PROVE  /\ \A u \in Transactions : chain[u] # Open => chain'[u] = chain[u]
             /\ SpentOnce'
  <2>1. /\ chain'[t].outcome # "executed"
        /\ \A u \in Transactions \ {t} : chain'[u] = chain[u]
        /\ chain[t] = Open
    BY <1>2 DEF FinalizeOther, TableInv, TypeOK
  <2> QED
    BY <2>1 DEF SpentOnce
<1>3. chain' = chain \/
        \E t \in Transactions :
          FinalizeOther(t) \/ \E q \in Requests : Finalize(t, q)
  <2>1. ASSUME NEW w \in Workers, CreateCheck(w)
        PROVE  chain' = chain
    BY <2>1 DEF CreateCheck, ReplayCheck, RequestCheck, EvidenceFails,
                Evaluate, LoseKeyRace, SaveRefusal, SaveAndReserve,
                LoseAdmission, ReservationThrows
  <2>2. ASSUME NEW w \in Workers, CancelCheck(w) \/ VerifySettlement(w)
        PROVE  chain' = chain
    BY <2>2 DEF CancelCheck, RequestCancel, ReleaseReservation, MarkCancelled,
                VerifySettlement, RequestVerify, ReceiveProof,
                ApplySettlement, DiscardSettlement
  <2>3. ASSUME NEW w \in Workers, NEW c \in Checks, NEW o \in Observations,
               RecordObservation(w, c, o)
        PROVE  chain' = chain
    BY <2>3 DEF RecordObservation
  <2>4. ASSUME NEW w \in Workers, Crash(w)
        PROVE  chain' = chain
    BY <2>4 DEF Crash
  <2>5. Tick \/ (\E o \in Operators, p \in Policies : SavePolicy(o, p))
          \/ UNCHANGED vars => chain' = chain
    BY DEF Tick, SavePolicy, vars
  <2> QED
    BY <2>1, <2>2, <2>3, <2>4, <2>5 DEF Next, Environment
<1> QED
  BY <1>1, <1>2, <1>3 DEF SpentOnce

\* A check becomes settled by a matching settlement only, and then stays so
\* or is overwritten with another status; its settlement is final by then.
LEMMA SettledStep ==
  ASSUME TableInv, FinalAgreement, [Next]_vars,
         NEW c \in Checks, checks'[c].status = "settled"
  PROVE  \/ /\ checks[c].status = "settled"
            /\ settlements[c].verdict = "match"
            /\ settlements'[c] = settlements[c]
         \/ \E w \in Workers :
              /\ ApplySettlement(w)
              /\ worker[w].id = c
              /\ worker[w].verdict = "match"
              /\ settlements'[c] = [verdict |-> "match",
                                    transaction |-> worker[w].transaction]
<1>1. CASE checks[c].status = "settled"
  <2>1. settlements[c].verdict = "match"
    BY <1>1 DEF FinalAgreement
  <2>2. ASSUME settlements'[c] # settlements[c]
        PROVE  FALSE
    <3>1. PICK w \in Workers : Revisable(c, worker[w].transaction)
      BY <2>2, SettlementsKept
    <3> QED
      BY <2>1, <3>1 DEF Revisable, FinalVerdicts, NoSettlement
  <2> QED
    BY <1>1, <2>1, <2>2
<1>2. CASE checks[c].status # "settled"
  <2>1. checks' # checks
    BY <1>2
  <2>2. ASSUME NEW w \in Workers, SaveRefusal(w) \/ SaveAndReserve(w)
        PROVE  FALSE
    <3>1. worker[w].id \in Checks /\ worker[w].row \in DecisionRow
      BY <2>2, WorkerShape DEF SaveRefusal, SaveAndReserve, TableInv
    <3>2. checks' = [checks EXCEPT ![worker[w].id] = worker[w].row]
      BY <2>2 DEF SaveRefusal, SaveAndReserve
    <3> QED
      BY <1>2, <3>1, <3>2 DEF TableInv, TypeOK, DecisionRow
  <2>3. ASSUME NEW w \in Workers, MarkCancelled(w)
        PROVE  FALSE
    <3>1. worker[w].id \in Checks /\ checks[worker[w].id] \in CheckRow
      BY <2>3, WorkerShape DEF MarkCancelled, TableInv, TypeOK, IdsSound, Exists
    <3> QED
      BY <1>2, <2>3, <3>1 DEF MarkCancelled, TableInv, TypeOK, CheckRow
  <2>4. ASSUME NEW w \in Workers, ApplySettlement(w)
        PROVE  /\ worker[w].id = c
               /\ worker[w].verdict = "match"
               /\ settlements'[c] = [verdict |-> "match",
                                     transaction |-> worker[w].transaction]
    <3>1. /\ worker[w].id \in Checks
          /\ worker[w].verdict \in Verdicts
          /\ checks[worker[w].id] \in CheckRow
      BY <2>4, WorkerShape
         DEF ApplySettlement, TableInv, TypeOK, IdsSound, Exists
    <3>2. /\ checks' = [checks EXCEPT
                          ![worker[w].id].status = StatusFor(worker[w].verdict)]
          /\ settlements' = [settlements EXCEPT
               ![worker[w].id] = [verdict |-> worker[w].verdict,
                                  transaction |-> worker[w].transaction]]
      BY <2>4 DEF ApplySettlement
    <3>3. worker[w].id = c /\ StatusFor(worker[w].verdict) = "settled"
      BY <1>2, <3>1, <3>2 DEF TableInv, TypeOK, CheckRow
    <3>4. worker[w].verdict = "match"
      BY <3>1, <3>3 DEF StatusFor, Verdicts
    <3> QED
      BY <3>2, <3>3, <3>4 DEF TableInv, TypeOK
  <2> QED
    BY <2>1, <2>2, <2>3, <2>4, TableSteps
       DEF Evaluate, ReleaseReservation, RecordObservation
<1> QED
  BY <1>1, <1>2

\* A request comes to hold a proof only when the RPC has answered it.
LEMMA ProofStep ==
  ASSUME TypeOK, [Next]_vars, NEW w \in Workers, worker'[w].at = "proof"
  PROVE  \/ worker'[w] = worker[w]
         \/ \E verdict \in Verdicts : ReceiveProof(w, verdict)
<1>1. ASSUME NEW v \in Workers, CreateCheck(v) \/ CancelCheck(v)
      PROVE  worker'[w] = worker[w]
  <2>1. CASE CreateCheck(v)
    BY <2>1 DEF CreateCheck, ReplayCheck, RequestCheck, EvidenceFails,
                Evaluate, LoseKeyRace, SaveRefusal, SaveAndReserve,
                LoseAdmission, ReservationThrows, Goto, Idle, TypeOK,
                WorkerState
  <2>2. CASE CancelCheck(v)
    BY <2>2 DEF CancelCheck, RequestCancel, ReleaseReservation, MarkCancelled,
                Goto, Idle, TypeOK
  <2> QED
    BY <1>1, <2>1, <2>2
<1>2. ASSUME NEW v \in Workers, VerifySettlement(v)
      PROVE  \/ worker'[w] = worker[w]
             \/ \E verdict \in Verdicts : ReceiveProof(w, verdict)
  BY <1>2 DEF VerifySettlement, RequestVerify, ReceiveProof, ApplySettlement,
              DiscardSettlement, Goto, Idle, TypeOK
<1>3. ASSUME NEW v \in Workers, Crash(v)
      PROVE  worker'[w] = worker[w]
  BY <1>3 DEF Crash, Idle
<1>4. ASSUME NEW v \in Workers, NEW c \in Checks, NEW o \in Observations,
             RecordObservation(v, c, o)
      PROVE  worker' = worker
  BY <1>4 DEF RecordObservation
<1>5. Environment \/ UNCHANGED vars => worker' = worker
  BY DEF Environment, Tick, SavePolicy, Finalize, FinalizeOther, vars
<1> QED
  BY <1>1, <1>2, <1>3, <1>4, <1>5 DEF Next

\* A matching proof stays true while the request waits, so what it settles is
\* on the chain.
LEMMA ChainInvStep == TableInv /\ ChainInv /\ [Next]_vars => ChainInv'
<1> SUFFICES ASSUME TableInv, ChainInv, [Next]_vars
             PROVE  ChainInv'
  OBVIOUS
<1> USE DEF ChainInv
<1>0. \A t \in Transactions : chain[t] # Open => chain'[t] = chain[t]
  BY ChainStep
<1>1. ProofsTrue'
  <2> SUFFICES ASSUME NEW w \in Workers, worker'[w].at = "proof",
                      worker'[w].verdict = "match"
               PROVE  chain'[worker'[w].transaction] =
                        [outcome |-> "executed",
                         authorization |->
                           Authorization(checks'[worker'[w].id].request)]
    BY DEF ProofsTrue, Authorization
  <2>0. /\ worker[w].at \in {"rpc", "proof"} =>
             /\ worker[w].id \in Checks
             /\ worker[w].transaction \in Transactions
             /\ checks'[worker[w].id].request = checks[worker[w].id].request
    BY WorkerShape, RowsKept DEF TableInv, IdsSound
  <2>1. CASE worker'[w] = worker[w]
    <3>1. chain[worker[w].transaction] =
            [outcome |-> "executed",
             authorization |-> Authorization(checks[worker[w].id].request)]
      BY <2>1 DEF ProofsTrue
    <3>2. chain[worker[w].transaction] # Open
      BY <3>1 DEF Open
    <3> QED
      BY <1>0, <2>0, <2>1, <3>1, <3>2
  <2>2. ASSUME NEW verdict \in Verdicts, ReceiveProof(w, verdict)
        PROVE  chain'[worker'[w].transaction] =
                 [outcome |-> "executed",
                  authorization |->
                    Authorization(checks'[worker'[w].id].request)]
    <3>1. worker'[w] = [at |-> "proof", id |-> worker[w].id,
                        transaction |-> worker[w].transaction,
                        verdict |-> verdict]
      BY <2>2 DEF ReceiveProof, Goto, TableInv, TypeOK
    <3>2. /\ worker'[w].id = worker[w].id
          /\ worker'[w].transaction = worker[w].transaction
          /\ verdict = "match"
      BY <3>1
    <3>3. chain[worker[w].transaction] =
            [outcome |-> "executed",
             authorization |-> Authorization(checks[worker[w].id].request)]
      BY <2>2, <3>2 DEF ReceiveProof, Compared
    <3> QED
      BY <2>0, <2>2, <3>2, <3>3 DEF ReceiveProof
  <2> QED
    BY <2>1, <2>2, ProofStep DEF TableInv
<1>2. SpentOnce'
  BY ChainStep
<1>3. FinalAgreement' /\ SettledOnChain'
  <2> SUFFICES ASSUME NEW c \in Checks, checks'[c].status = "settled"
               PROVE  /\ settlements'[c].verdict = "match"
                      /\ chain'[settlements'[c].transaction] =
                           [outcome |-> "executed",
                            authorization |-> Authorization(checks'[c].request)]
    BY DEF FinalAgreement, SettledOnChain, Authorization
  <2>1. CASE /\ checks[c].status = "settled"
             /\ settlements[c].verdict = "match"
             /\ settlements'[c] = settlements[c]
    <3>1. settlements[c].transaction \in Transactions /\ Exists(c)
      BY <2>1 DEF TableInv, TypeOK, SettlementRow, NoSettlement, Exists, NoRow
    <3>2. /\ chain[settlements[c].transaction] =
               [outcome |-> "executed",
                authorization |-> Authorization(checks[c].request)]
          /\ chain[settlements[c].transaction] # Open
      BY <2>1 DEF SettledOnChain, Open
    <3> QED
      BY <1>0, <2>1, <3>1, <3>2, RowsKept DEF TableInv
  <2>2. ASSUME NEW w \in Workers, ApplySettlement(w), worker[w].id = c,
               worker[w].verdict = "match",
               settlements'[c] = [verdict |-> "match",
                                  transaction |-> worker[w].transaction]
        PROVE  /\ settlements'[c].verdict = "match"
               /\ chain'[settlements'[c].transaction] =
                    [outcome |-> "executed",
                     authorization |-> Authorization(checks'[c].request)]
    <3>1. /\ settlements'[c].verdict = "match"
          /\ settlements'[c].transaction = worker[w].transaction
      BY <2>2
    <3>2. /\ chain[worker[w].transaction] =
               [outcome |-> "executed",
                authorization |-> Authorization(checks[c].request)]
          /\ chain' = chain
          /\ Exists(c)
      BY <2>2 DEF ProofsTrue, ApplySettlement, TableInv, IdsSound
    <3> QED
      BY <3>1, <3>2, RowsKept DEF TableInv
  <2> QED
    BY <2>1, <2>2, SettledStep
<1> QED
  BY <1>1, <1>2, <1>3

LEMMA ChainInvariant == Spec => []ChainInv
<1>1. Init => ChainInv
  BY DEF Init, ChainInv, ProofsTrue, SpentOnce, SettledOnChain,
         FinalAgreement, Idle, Open, NoRow
<1> QED
  BY <1>1, ChainInvStep, TableInvariant, PTL DEF Spec

\* A settled check rests on an execution of the authorization it approved.
THEOREM SettledAlwaysOnChain == Spec => []SettledOnChain
<1>1. ChainInv => SettledOnChain
  BY DEF ChainInv
<1> QED
  BY <1>1, ChainInvariant, PTL

\* One payment is never counted for two checks, of whatever operators.
THEOREM AlwaysPaidOnce == Spec => []PaidOnce
<1>1. TableInv /\ ChainInv /\ TransactionExclusive => PaidOnce
  <2> SUFFICES ASSUME TableInv, ChainInv, TransactionExclusive,
                      NEW c \in Checks, NEW d \in Checks, c # d,
                      checks[c].status = "settled",
                      checks[d].status = "settled"
               PROVE  \/ checks[c].request.asset # checks[d].request.asset
                      \/ checks[c].request.nonce # checks[d].request.nonce
    BY DEF PaidOnce
  <2> DEFINE t == settlements[c].transaction
             u == settlements[d].transaction
  <2>1. /\ settlements[c] # NoSettlement /\ t \in Transactions
        /\ settlements[d] # NoSettlement /\ u \in Transactions
    BY DEF ChainInv, FinalAgreement, TableInv, TypeOK, NoSettlement,
           SettlementRow
  <2>2. t # u
    BY <2>1 DEF TransactionExclusive
  <2>3. /\ chain[t] = [outcome |-> "executed",
                       authorization |-> Authorization(checks[c].request)]
        /\ chain[u] = [outcome |-> "executed",
                       authorization |-> Authorization(checks[d].request)]
    BY DEF ChainInv, SettledOnChain
  <2>4. \/ chain[t].authorization.asset # chain[u].authorization.asset
        \/ chain[t].authorization.nonce # chain[u].authorization.nonce
    BY <2>1, <2>2, <2>3 DEF ChainInv, SpentOnce
  <2> QED
    BY <2>3, <2>4 DEF Authorization
<1> QED
  BY <1>1, ChainInvariant, TableInvariant, TransactionAlwaysExclusive, PTL
-----------------------------------------------------------------------------
(***************************************************************************)
(* One process on the database: the three status columns agree.            *)
(***************************************************************************)

\* At most one request of a process stands between two transactions.
LEMMA LoopStep ==
  ASSUME TypeOK, LoopHeldOnce, [Next]_vars
  PROVE  LoopHeldOnce'
<1>1. ASSUME NEW w \in Workers,
             \A v \in Workers \ {w} : worker'[v] = worker[v],
             \/ worker'[w].at \notin HoldsEventLoop
             \/ worker[w].at \in HoldsEventLoop
             \/ EventLoopFree(w)
      PROVE  LoopHeldOnce'
  BY <1>1 DEF LoopHeldOnce, EventLoopFree
<1>2. ASSUME \A v \in Workers : worker'[v] = worker[v] \/ worker'[v] = Idle
      PROVE  LoopHeldOnce'
  BY <1>2 DEF LoopHeldOnce, Idle, HoldsEventLoop
<1>3. ASSUME NEW w \in Workers, CreateCheck(w)
      PROVE  LoopHeldOnce'
  BY <1>1, <1>3
     DEF CreateCheck, ReplayCheck, RequestCheck, EvidenceFails, Evaluate,
         LoseKeyRace, SaveRefusal, SaveAndReserve, LoseAdmission,
         ReservationThrows, Goto, TypeOK, HoldsEventLoop
<1>4. ASSUME NEW w \in Workers, CancelCheck(w)
      PROVE  LoopHeldOnce'
  BY <1>1, <1>4
     DEF CancelCheck, RequestCancel, ReleaseReservation, MarkCancelled, Goto,
         TypeOK, HoldsEventLoop
<1>5. ASSUME NEW w \in Workers, VerifySettlement(w)
      PROVE  LoopHeldOnce'
  BY <1>1, <1>5
     DEF VerifySettlement, RequestVerify, ReceiveProof, ApplySettlement,
         DiscardSettlement, Goto, TypeOK, HoldsEventLoop, Idle
<1>6. ASSUME NEW w \in Workers, NEW c \in Checks, NEW o \in Observations,
             RecordObservation(w, c, o)
      PROVE  LoopHeldOnce'
  BY <1>2, <1>6 DEF RecordObservation
<1>7. ASSUME NEW w \in Workers, Crash(w)
      PROVE  LoopHeldOnce'
  BY <1>2, <1>7 DEF Crash
<1>8. CASE Environment \/ UNCHANGED vars
  BY <1>2, <1>8
     DEF Environment, Tick, SavePolicy, Finalize, FinalizeOther, vars
<1> QED
  BY <1>3, <1>4, <1>5, <1>6, <1>7, <1>8 DEF Next

\* While a request cancels a check, nobody else of its process moves a check
\* or a reservation.
LEMMA HeldAlone ==
  ASSUME SingleProcess, TableInv, LoopHeldOnce, [Next]_vars,
         NEW w \in Workers, worker[w].at \in {"release", "cancel"}
  PROVE  \/ UNCHANGED <<checks, reservations>>
         \/ ReleaseReservation(w)
         \/ MarkCancelled(w)
<1>1. ASSUME NEW v \in Workers, v # w
      PROVE  worker[v].at \notin HoldsEventLoop /\ ~ EventLoopFree(v)
  BY <1>1 DEF SingleProcess, LoopHeldOnce, EventLoopFree, HoldsEventLoop
<1>2. ASSUME NEW v \in Workers, NEW c \in Checks,
             NEW f \in {"pay", "review", "block"}, Evaluate(v, c, f)
      PROVE  FALSE
  BY <1>1, <1>2 DEF Evaluate
<1>3. ASSUME NEW v \in Workers, SaveRefusal(v) \/ SaveAndReserve(v)
      PROVE  FALSE
  BY <1>1, <1>3 DEF SaveRefusal, SaveAndReserve, HoldsEventLoop
<1>4. ASSUME NEW v \in Workers, ReleaseReservation(v) \/ MarkCancelled(v)
      PROVE  v = w
  BY <1>1, <1>4 DEF ReleaseReservation, MarkCancelled, HoldsEventLoop
<1>5. ASSUME NEW v \in Workers, ApplySettlement(v)
      PROVE  FALSE
  BY <1>1, <1>5 DEF ApplySettlement
<1>6. ASSUME NEW v \in Workers, NEW c \in Checks, NEW o \in Observations,
             RecordObservation(v, c, o)
      PROVE  UNCHANGED <<checks, reservations>>
  BY <1>6 DEF RecordObservation
<1> QED
  BY <1>2, <1>3, <1>4, <1>5, <1>6, TableSteps

\* A request comes to cancel a check from its own previous step only.
LEMMA CancelStep ==
  ASSUME TypeOK, [Next]_vars, NEW w \in Workers,
         worker'[w].at \in {"release", "cancel"}
  PROVE  \/ worker'[w] = worker[w]
         \/ \E c \in Checks : /\ RequestCancel(w, c)
                              /\ worker'[w] = [at |-> "release", id |-> c]
         \/ /\ ReleaseReservation(w)
            /\ reservations[worker[w].id].status \in Live
            /\ worker'[w] = [at |-> "cancel", id |-> worker[w].id]
<1>1. ASSUME NEW v \in Workers, CreateCheck(v)
      PROVE  worker'[w] = worker[w]
  BY <1>1 DEF CreateCheck, ReplayCheck, RequestCheck, EvidenceFails,
              Evaluate, LoseKeyRace, SaveRefusal, SaveAndReserve,
              LoseAdmission, ReservationThrows, Goto, Idle, TypeOK,
              WorkerState
<1>2. ASSUME NEW v \in Workers, VerifySettlement(v)
      PROVE  worker'[w] = worker[w]
  BY <1>2 DEF VerifySettlement, RequestVerify, ReceiveProof, ApplySettlement,
              DiscardSettlement, Goto, Idle, TypeOK
<1>3. ASSUME NEW v \in Workers, CancelCheck(v), worker'[w] # worker[w]
      PROVE  \/ \E c \in Checks : /\ RequestCancel(w, c)
                                  /\ worker'[w] = [at |-> "release", id |-> c]
             \/ /\ ReleaseReservation(w)
                /\ reservations[worker[w].id].status \in Live
                /\ worker'[w] = [at |-> "cancel", id |-> worker[w].id]
  <2>1. ASSUME NEW c \in Checks, RequestCancel(v, c)
        PROVE  v = w /\ worker'[w] = [at |-> "release", id |-> c]
    BY <1>3, <2>1 DEF RequestCancel, Goto, TypeOK
  <2>2. CASE ReleaseReservation(v)
    <3>1. v = w
      BY <1>3, <2>2 DEF ReleaseReservation, Goto, TypeOK
    <3>2. reservations[worker[w].id].status \notin Live => worker'[w] = Idle
      BY <2>2, <3>1 DEF ReleaseReservation, Goto, TypeOK
    <3>3. reservations[worker[w].id].status \in Live
      BY <3>2 DEF Idle
    <3> QED
      BY <2>2, <3>1, <3>3 DEF ReleaseReservation, Goto, TypeOK
  <2>3. CASE MarkCancelled(v)
    BY <1>3, <2>3 DEF MarkCancelled, Goto, Idle, TypeOK
  <2> QED
    BY <1>3, <2>1, <2>2, <2>3 DEF CancelCheck
<1>4. ASSUME NEW v \in Workers, Crash(v)
      PROVE  worker'[w] = worker[w]
  BY <1>4 DEF Crash, Idle
<1>5. ASSUME NEW v \in Workers, NEW c \in Checks, NEW o \in Observations,
             RecordObservation(v, c, o)
      PROVE  worker' = worker
  BY <1>5 DEF RecordObservation
<1>6. Environment \/ UNCHANGED vars => worker' = worker
  BY DEF Environment, Tick, SavePolicy, Finalize, FinalizeOther, vars
<1> QED
  BY <1>1, <1>2, <1>3, <1>4, <1>5, <1>6 DEF Next

\* What a request that cancels a check has read is still so at its next step.
LEMMA CancelSoundStep ==
  ASSUME SingleProcess, TableInv, ProcessInv, [Next]_vars
  PROVE  CancelSound'
<1> USE DEF ProcessInv
<1> SUFFICES ASSUME NEW w \in Workers, worker'[w].at \in {"release", "cancel"}
             PROVE  /\ checks'[worker'[w].id].status = "reserved"
                    /\ worker'[w].at = "cancel" =>
                         reservations'[worker'[w].id].status = "released"
  BY DEF CancelSound
<1>1. CASE worker'[w] = worker[w]
  <2>1. /\ checks[worker[w].id].status = "reserved"
        /\ worker[w].at = "cancel" =>
             reservations[worker[w].id].status = "released"
    BY <1>1 DEF CancelSound
  <2>2. ~ ReleaseReservation(w) /\ ~ MarkCancelled(w)
    BY <1>1 DEF ReleaseReservation, MarkCancelled, Goto, Idle, TableInv, TypeOK
  <2> QED
    BY <1>1, <2>1, <2>2, HeldAlone
<1>2. ASSUME NEW c \in Checks, RequestCancel(w, c),
             worker'[w] = [at |-> "release", id |-> c]
      PROVE  /\ checks'[worker'[w].id].status = "reserved"
             /\ worker'[w].at # "cancel"
  BY <1>2 DEF RequestCancel, tables
<1>3. ASSUME ReleaseReservation(w), reservations[worker[w].id].status \in Live,
             worker'[w] = [at |-> "cancel", id |-> worker[w].id]
      PROVE  /\ checks'[worker'[w].id].status = "reserved"
             /\ reservations'[worker'[w].id].status = "released"
  <2>1. /\ worker[w].id \in Checks
        /\ reservations[worker[w].id] \in ReservationRow
    BY <1>3, WorkerShape DEF ReleaseReservation, TableInv, TypeOK, NoRow, Live
  <2> QED
    BY <1>3, <2>1 DEF ReleaseReservation, CancelSound, TableInv, TypeOK,
                      ReservationRow
<1> QED
  BY <1>1, <1>2, <1>3, CancelStep DEF TableInv

\* Each handler moves the three status columns of a check together.
LEMMA AgreementStep ==
  ASSUME SingleProcess, TableInv, ProcessInv, [Next]_vars
  PROVE  StatusAgreement'
<1> USE DEF ProcessInv
<1>1. CASE UNCHANGED <<checks, reservations, settlements>>
  BY <1>1 DEF StatusAgreement
\* Expiry moves an active reservation to expired, which every status allows.
<1>2. \A c \in Checks :
        \/ AfterExpiry[c] = reservations[c]
        \/ /\ reservations[c].status = "active"
           /\ AfterExpiry[c].status = "expired"
  <2> SUFFICES ASSUME NEW c \in Lapsed
               PROVE  AfterExpiry[c].status = "expired"
    BY DEF AfterExpiry, Lapsed
  <2>1. reservations[c] \in ReservationRow /\ c \in Checks
    BY DEF Lapsed, TableInv, TypeOK, NoRow
  <2> QED
    BY <2>1 DEF AfterExpiry, ReservationRow
<1>3. ASSUME checks' = checks, settlements' = settlements,
             reservations' = AfterExpiry
      PROVE  StatusAgreement'
  BY <1>2, <1>3 DEF StatusAgreement
<1>4. ASSUME NEW w \in Workers, SaveRefusal(w) \/ SaveAndReserve(w)
      PROVE  StatusAgreement'
  <2> DEFINE c == worker[w].id
  <2>1. /\ c \in Checks
        /\ worker[w].row \in DecisionRow
        /\ reservations[c] = NoRow
        /\ settlements'[c] = NoSettlement
        /\ checks'[c] = worker[w].row
        /\ \A d \in Checks \ {c} :
             checks'[d] = checks[d] /\ settlements'[d] = settlements[d]
    BY <1>4, WorkerShape
       DEF SaveRefusal, SaveAndReserve, TableInv, TypeOK, IdsSound, RowsOwned
  <2>2. CASE SaveRefusal(w)
    <3>1. worker[w].row.status \in {"review", "blocked"}
      BY <2>1, <2>2 DEF SaveRefusal, DecisionRow
    <3>2. reservations' = reservations
      BY <2>2 DEF SaveRefusal
    <3> QED
      BY <2>1, <3>1, <3>2 DEF StatusAgreement, NoRow, NoSettlement
  <2>3. CASE SaveAndReserve(w)
    <3>1. /\ worker[w].row.status = "reserved"
          /\ reservations'[c].status = "active"
          /\ \A d \in Checks \ {c} : reservations'[d] = AfterExpiry[d]
      BY <2>1, <2>3 DEF SaveAndReserve, AfterExpiry
    <3> QED
      BY <1>2, <2>1, <3>1 DEF StatusAgreement, NoSettlement
  <2> QED
    BY <1>4, <2>2, <2>3
<1>5. ASSUME NEW w \in Workers, ReleaseReservation(w)
      PROVE  StatusAgreement'
  <2> DEFINE c == worker[w].id
  <2>1. c \in Checks /\ checks[c].status = "reserved"
    BY <1>5, WorkerShape DEF ReleaseReservation, TableInv, CancelSound
  <2>2. CASE reservations[c].status \in Live
    <3>1. reservations[c] \in ReservationRow
      BY <2>1, <2>2 DEF TableInv, TypeOK, NoRow, Live
    <3>2. /\ reservations'[c].status = "released"
          /\ \A d \in Checks \ {c} : reservations'[d] = reservations[d]
          /\ UNCHANGED <<checks, settlements>>
      BY <1>5, <2>1, <2>2, <3>1
         DEF ReleaseReservation, TableInv, TypeOK, ReservationRow
    <3> QED
      BY <2>1, <3>2 DEF StatusAgreement
  <2>3. CASE reservations[c].status \notin Live
    BY <1>1, <1>5, <2>3 DEF ReleaseReservation
  <2> QED
    BY <2>2, <2>3
<1>6. ASSUME NEW w \in Workers, MarkCancelled(w)
      PROVE  StatusAgreement'
  <2> DEFINE c == worker[w].id
  <2>1. /\ c \in Checks
        /\ checks[c].status = "reserved"
        /\ reservations[c].status = "released"
        /\ checks[c] \in CheckRow
    BY <1>6, WorkerShape DEF MarkCancelled, TableInv, TypeOK, CancelSound, NoRow
  <2>2. /\ checks'[c].status = "cancelled"
        /\ \A d \in Checks \ {c} : checks'[d] = checks[d]
        /\ UNCHANGED <<reservations, settlements>>
    BY <1>6, <2>1 DEF MarkCancelled, TableInv, TypeOK, CheckRow
  <2> QED
    BY <2>1, <2>2 DEF StatusAgreement
<1>7. ASSUME NEW w \in Workers, ApplySettlement(w)
      PROVE  StatusAgreement'
  <2> DEFINE c == worker[w].id
             v == worker[w].verdict
  <2>1. /\ c \in Checks
        /\ v \in Verdicts
        /\ checks[c] \in CheckRow
        /\ reservations[c] \in ReservationRow
        /\ reservations[c].status \in SourcesOf(v)
    BY <1>7, WorkerShape
       DEF ApplySettlement, Applicable, TableInv, TypeOK, NoRow, IdsSound,
           Exists, SourcesOf
  <2>2. /\ checks'[c].status = StatusFor(v)
        /\ reservations'[c].status = TargetOf(v, reservations[c].status)
        /\ settlements'[c].verdict = v
        /\ \A d \in Checks \ {c} : /\ checks'[d] = checks[d]
                                   /\ reservations'[d] = reservations[d]
                                   /\ settlements'[d] = settlements[d]
    BY <1>7, <2>1
       DEF ApplySettlement, TableInv, TypeOK, CheckRow, ReservationRow
  <2>3. /\ v = "match" => StatusFor(v) = "settled"
        /\ v = "mismatch" => StatusFor(v) = "settlement_mismatch"
        /\ v = "pending" => StatusFor(v) = "settlement_pending"
        /\ v = "unverifiable" => StatusFor(v) = "settlement_unverifiable"
    BY DEF StatusFor
  <2>4. /\ v = "match" => reservations'[c].status = "consumed"
        /\ v = "mismatch" => reservations'[c].status = "quarantined"
        /\ v \in {"pending", "unverifiable"} =>
             reservations'[c].status \in {"active", "expired"}
    BY <2>1, <2>2 DEF TargetOf, SourcesOf
  <2> QED
    BY <2>1, <2>2, <2>3, <2>4 DEF StatusAgreement, Verdicts
<1> QED
  BY <1>1, <1>3, <1>4, <1>5, <1>6, <1>7, TableSteps
     DEF Evaluate, RecordObservation

LEMMA ProcessInvariant == ASSUME SingleProcess PROVE Spec => []ProcessInv
<1>1. Init => ProcessInv
  BY DEF Init, ProcessInv, LoopHeldOnce, CancelSound, StatusAgreement, Idle,
         HoldsEventLoop, NoRow, NoSettlement
<1>2. TableInv /\ ProcessInv /\ [Next]_vars => ProcessInv'
  BY LoopStep, CancelSoundStep, AgreementStep DEF ProcessInv, TableInv
<1> QED
  BY <1>1, <1>2, TableInvariant, PTL DEF Spec

\* With one process on the database the statuses of a check, its reservation
\* and its settlement always tell one story, crashes included.
THEOREM StatusAlwaysAgrees ==
  ASSUME SingleProcess PROVE Spec => []StatusAgreement
<1>1. ProcessInv => StatusAgreement
  BY DEF ProcessInv
<1> QED
  BY <1>1, ProcessInvariant, PTL

\* With one process on the database a check keeps its request, and never
\* leaves a terminal status.
THEOREM DecisionStaysFinal ==
  ASSUME SingleProcess PROVE Spec => DecisionFinal
<1>1. ASSUME TableInv, ProcessInv, [Next]_vars, NEW c \in Checks,
             checks[c] # NoRow
      PROVE  /\ checks'[c].request = checks[c].request
             /\ checks[c].status \in TerminalStatuses => UNCHANGED checks[c]
  <2>1. checks'[c].request = checks[c].request
    BY <1>1, RowsKept DEF TableInv, Exists
  <2>2. ASSUME NEW w \in Workers, SaveRefusal(w) \/ SaveAndReserve(w)
        PROVE  checks'[c] = checks[c]
    <3>1. worker[w].id # c
      BY <1>1, <2>2 DEF SaveRefusal, SaveAndReserve, TableInv, IdsSound, Exists
    <3>2. checks' = [checks EXCEPT ![worker[w].id] = worker[w].row]
      BY <2>2 DEF SaveRefusal, SaveAndReserve
    <3> QED
      BY <3>1, <3>2 DEF TableInv, TypeOK
  <2>3. ASSUME NEW w \in Workers, MarkCancelled(w) \/ ApplySettlement(w),
               checks[c].status \in TerminalStatuses
        PROVE  checks'[c] = checks[c]
    <3>1. worker[w].id \in Checks /\ checks[worker[w].id].status \in Unsettled
      BY <1>1, <2>3, WorkerShape
         DEF MarkCancelled, ApplySettlement, Applicable, TableInv, ProcessInv,
             CancelSound, Unsettled
    <3>2. worker[w].id # c
      BY <2>3, <3>1 DEF TerminalStatuses, Unsettled
    <3>3. \E status \in CheckStatuses :
            checks' = [checks EXCEPT ![worker[w].id].status = status]
      <4>1. CASE MarkCancelled(w)
        BY <4>1 DEF MarkCancelled, CheckStatuses
      <4>2. CASE ApplySettlement(w)
        <5>1. StatusFor(worker[w].verdict) \in CheckStatuses
          <6>1. worker[w].verdict \in Verdicts
            BY <1>1, <4>2, WorkerShape DEF ApplySettlement, TableInv
          <6> QED
            BY <6>1 DEF StatusFor, Verdicts, CheckStatuses
        <5> QED
          BY <4>2, <5>1 DEF ApplySettlement
      <4> QED
        BY <2>3, <4>1, <4>2
    <3> QED
      BY <3>2, <3>3 DEF TableInv, TypeOK
  <2> QED
    BY <1>1, <2>1, <2>2, <2>3, TableSteps
       DEF Evaluate, ReleaseReservation, RecordObservation
<1>2. TableInv /\ ProcessInv /\ [Next]_vars =>
        [\A c \in Checks :
           checks[c] # NoRow =>
             /\ checks'[c].request = checks[c].request
             /\ checks[c].status \in TerminalStatuses => UNCHANGED checks[c]]_vars
  BY <1>1
<1> QED
  BY <1>2, TableInvariant, ProcessInvariant, PTL DEF Spec, DecisionFinal
-----------------------------------------------------------------------------
(***************************************************************************)
(* The auditor implements CheckLifecycle.                                  *)
(***************************************************************************)

\* Every step of the auditor is a step of the lifecycle of one check, or none.
LEMMA LifecycleStep ==
  ASSUME SingleProcess, TableInv, ProcessInv, [Next]_vars
  PROVE  [Lifecycle!Next]_(Lifecycle!vars)
<1> USE DEF Lifecycle!vars
<1>1. CASE UNCHANGED <<checks, settlements>>
  BY <1>1 DEF StatusOf, ClaimOf
<1>2. ASSUME NEW w \in Workers, SaveRefusal(w) \/ SaveAndReserve(w)
      PROVE  Lifecycle!Next
  <2> DEFINE c == worker[w].id
             s == worker[w].row.status
  <2>1. /\ c \in Checks
        /\ s \in {"review", "blocked", "reserved"}
        /\ checks[c] = NoRow
        /\ checks' = [checks EXCEPT ![c] = worker[w].row]
        /\ settlements' = settlements
    BY <1>2, WorkerShape
       DEF SaveRefusal, SaveAndReserve, TableInv, IdsSound, Exists, DecisionRow
  <2>2. /\ StatusOf[c] = "none"
        /\ StatusOf' = [StatusOf EXCEPT ![c] = s]
        /\ ClaimOf' = ClaimOf
    BY <2>1 DEF StatusOf, ClaimOf, NoRow, TableInv, TypeOK
  <2>3. Lifecycle!Decide(c, s)
    BY <2>2 DEF Lifecycle!Decide
  <2> QED
    BY <2>1, <2>3 DEF Lifecycle!Next
<1>3. ASSUME NEW w \in Workers, MarkCancelled(w)
      PROVE  Lifecycle!Next
  <2> DEFINE c == worker[w].id
  <2>1. /\ c \in Checks
        /\ checks[c] \in CheckRow
        /\ checks[c].status = "reserved"
        /\ checks' = [checks EXCEPT ![c].status = "cancelled"]
        /\ settlements' = settlements
    BY <1>3, WorkerShape
       DEF MarkCancelled, TableInv, TypeOK, ProcessInv, CancelSound, NoRow
  <2>2. /\ StatusOf[c] = "reserved"
        /\ StatusOf' = [StatusOf EXCEPT ![c] = "cancelled"]
        /\ ClaimOf' = ClaimOf
    BY <2>1 DEF StatusOf, ClaimOf, TableInv, TypeOK, CheckRow
  <2>3. Lifecycle!Cancel(c)
    BY <2>2 DEF Lifecycle!Cancel
  <2> QED
    BY <2>1, <2>3 DEF Lifecycle!Next
<1>4. ASSUME NEW w \in Workers, ApplySettlement(w)
      PROVE  Lifecycle!Next
  <2> DEFINE c == worker[w].id
             t == worker[w].transaction
             s == StatusFor(worker[w].verdict)
  <2>1. /\ c \in Checks
        /\ t \in Transactions
        /\ worker[w].verdict \in Verdicts
        /\ checks[c] \in CheckRow
    BY <1>4, WorkerShape
       DEF ApplySettlement, TableInv, TypeOK, IdsSound, Exists
  <2>2. s \in {"settlement_pending", "settlement_unverifiable", "settled",
               "settlement_mismatch"}
    BY <2>1 DEF StatusFor, Verdicts
  <2>3. /\ checks' = [checks EXCEPT ![c].status = s]
        /\ settlements' = [settlements EXCEPT
             ![c] = [verdict |-> worker[w].verdict, transaction |-> t]]
        /\ Applicable(c, t, worker[w].verdict)
    BY <1>4 DEF ApplySettlement
  <2>4. settlements'[c] # NoSettlement /\ settlements'[c].transaction = t
    <3>1. settlements'[c] = [verdict |-> worker[w].verdict, transaction |-> t]
      BY <2>1, <2>3 DEF TableInv, TypeOK
    <3> QED
      BY <2>1, <3>1 DEF NoSettlement, Verdicts
  <2>5. StatusOf' = [StatusOf EXCEPT ![c] = s]
    BY <2>1, <2>3 DEF StatusOf, TableInv, TypeOK, CheckRow
  <2>6. ClaimOf' = [ClaimOf EXCEPT ![c] = {t}]
    BY <2>1, <2>3, <2>4 DEF ClaimOf, TableInv, TypeOK
  <2>7. Lifecycle!Free(c, t)
    BY <2>1, <2>3 DEF Lifecycle!Free, ClaimOf, Applicable, Revisable
  <2>8. StatusOf[c] \in
          {"reserved", "settlement_pending", "settlement_unverifiable"}
    BY <2>1, <2>3 DEF StatusOf, Applicable, Unsettled
  <2>9. Lifecycle!Report(c, t, s)
    BY <2>5, <2>6, <2>7, <2>8 DEF Lifecycle!Report
  <2> QED
    BY <2>1, <2>2, <2>9 DEF Lifecycle!Next
<1> QED
  BY <1>1, <1>2, <1>3, <1>4, TableSteps
     DEF Evaluate, ReleaseReservation, RecordObservation

\* With one process on the database the auditor implements the abstract
\* lifecycle of a check.
THEOREM LifecycleImplemented ==
  ASSUME SingleProcess PROVE Spec => ImplementsLifecycle
<1>1. Init => Lifecycle!Init
  BY DEF Init, Lifecycle!Init, StatusOf, ClaimOf, NoRow
<1>2. TableInv /\ ProcessInv /\ [Next]_vars =>
        [Lifecycle!Next]_(Lifecycle!vars)
  BY LifecycleStep
<1> QED
  BY <1>1, <1>2, TableInvariant, ProcessInvariant, PTL
     DEF Spec, ImplementsLifecycle, Lifecycle!Spec
=============================================================================
