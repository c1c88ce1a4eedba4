------------------------ MODULE AnchorPublisherProofs ------------------------
(***************************************************************************)
(* Proofs about AnchorPublisher, for any receipts, transactions, batch     *)
(* size, number of attempts, crashes and invocations.                      *)
(***************************************************************************)
EXTENDS AnchorPublisher, TLAPS

\* What a run holds at each of its awaits.
LEMMA RunShape ==
  ASSUME TypeOK, NEW p \in Runs
  PROVE  /\ run[p].at \in {"off", "next", "submit", "confirm", "read"}
         /\ run[p].at = "off" => run[p] = Off
         /\ run[p].at # "off" => run[p].batch \subseteq Copy
         /\ run[p].at \in {"submit", "confirm", "read"} => run[p].job \in Copy
         /\ run[p].at = "submit" => run[p].sent \in Hashes
         /\ run[p].at \in {"confirm", "read"} => run[p].hash \in Transactions
         /\ run[p].at = "next" => run[p] = [at |-> "next", batch |-> run[p].batch]
BY DEF TypeOK, RunState, Off

\* The row of a job that is due.
LEMMA DueRow ==
  ASSUME TypeOK, NEW r \in Receipts, jobs[r].status \in Due
  PROVE  jobs[r] \in JobRow /\ CopyOf(r) \in Copy
BY DEF TypeOK, NoJob, Due, CopyOf, Copy

\* What a row or a submission leaves behind is a transaction.
LEMMA LeftBehind ==
  ASSUME TypeOK
  PROVE  /\ \A r \in Receipts : HashOf(r) \subseteq Transactions
         /\ \A p \in Runs : SentBy(p) \subseteq Transactions
<1>1. ASSUME NEW r \in Receipts
      PROVE  HashOf(r) \subseteq Transactions
  BY DEF TypeOK, HashOf, JobRow, Hashes
<1>2. ASSUME NEW p \in Runs
      PROVE  SentBy(p) \subseteq Transactions
  BY RunShape DEF SentBy, Hashes
<1> QED
  BY <1>1, <1>2

\* failJob writes a row, and turns to a batch it already had.
LEMMA FailTyped ==
  ASSUME TypeOK, NEW p \in Runs, NEW hash \in Hashes, NEW terminal \in BOOLEAN,
         run[p].at \in {"submit", "confirm", "read"},
         FailJob(p, hash, terminal)
  PROVE  /\ jobs' \in [Receipts -> JobRow \cup {NoJob}]
         /\ later' \subseteq Receipts
         /\ run' \in [Runs -> RunState]
<1>1. /\ run[p].job \in Copy
      /\ run[p].batch \subseteq Copy
  BY RunShape
<1>2. /\ run[p].job.receipt \in Receipts
      /\ run[p].job.row.attempts + 1 \in Nat
  BY <1>1 DEF Copy, JobRow
<1>3. [status |-> IF terminal \/ GivesUp(run[p].job.row.attempts + 1)
                    THEN "failed" ELSE StatusAfter(hash),
       attempts |-> run[p].job.row.attempts + 1, hash |-> hash] \in JobRow
  BY <1>2 DEF JobRow, StatusAfter
<1> QED
  BY <1>1, <1>2, <1>3 DEF FailJob, Advance, TypeOK, RunState

\* Every table, run and chain entry keeps its shape.
LEMMA TypeStep == TypeOK /\ [Next]_vars => TypeOK'
<1> SUFFICES ASSUME TypeOK, [Next]_vars
             PROVE  TypeOK'
  OBVIOUS
<1> USE PublisherAssumption
<1>1. CASE UNCHANGED vars
  BY <1>1 DEF TypeOK, vars
<1>2. ASSUME NEW r \in Receipts, Enqueue(r)
      PROVE  TypeOK'
  <2>1. NewJob \in JobRow
    BY DEF NewJob, JobRow, Hashes
  <2> QED
    BY <1>2, <2>1, LeftBehind DEF TypeOK, Enqueue
<1>3. ASSUME NEW r \in Receipts, DelayPasses(r)
      PROVE  TypeOK'
  BY <1>3 DEF TypeOK, DelayPasses
<1>4. ASSUME NEW p \in Runs, Start(p)
      PROVE  TypeOK'
  <2>1. PICK batch \in SUBSET DueJobs :
          run' = [run EXCEPT ![p] = [at |-> "next",
                                     batch |-> {CopyOf(r) : r \in batch}]]
    BY <1>4 DEF Start
  <2>2. {CopyOf(r) : r \in batch} \in SUBSET Copy
    BY DueRow DEF DueJobs
  <2>3. run' \in [Runs -> RunState]
    BY <2>1, <2>2 DEF TypeOK, RunState
  <2> QED
    BY <1>4, <2>3 DEF TypeOK, Start
<1>5. ASSUME NEW p \in Runs, TakeJob(p)
      PROVE  TypeOK'
  <2>1. PICK job \in run[p].batch :
          run' = [run EXCEPT ![p] =
            IF job.row.hash = NoTransaction
              THEN [at |-> "submit", batch |-> run[p].batch \ {job},
                    job |-> job, sent |-> NoTransaction]
              ELSE [at |-> "confirm", batch |-> run[p].batch \ {job},
                    job |-> job, hash |-> job.row.hash]]
    BY <1>5 DEF TakeJob, NeedsSubmission
  <2>2. /\ job \in Copy
        /\ run[p].batch \ {job} \in SUBSET Copy
        /\ job.row.hash \in Hashes
    BY <1>5, RunShape DEF TakeJob, Copy, JobRow
  <2>3. CASE job.row.hash = NoTransaction
    BY <1>5, <2>1, <2>2, <2>3 DEF TypeOK, TakeJob, RunState, Hashes
  <2>4. CASE job.row.hash # NoTransaction
    BY <1>5, <2>1, <2>2, <2>4 DEF TypeOK, TakeJob, RunState, Hashes
  <2> QED
    BY <2>3, <2>4
<1>6. ASSUME NEW p \in Runs, Finish(p)
      PROVE  TypeOK'
  BY <1>6 DEF TypeOK, Finish, FlagAfterRun, RunState
<1>7. ASSUME NEW p \in Runs, NEW t \in Transactions, Broadcast(p, t)
      PROVE  TypeOK'
  <2>1. /\ run[p].job \in Copy
        /\ run[p].batch \subseteq Copy
        /\ run[p] = [at |-> "submit", batch |-> run[p].batch,
                     job |-> run[p].job, sent |-> run[p].sent]
    BY <1>7 DEF TypeOK, Broadcast, RunState, Off
  <2>2. [run[p] EXCEPT !.sent = t] =
          [at |-> "submit", batch |-> run[p].batch, job |-> run[p].job,
           sent |-> t]
    BY <2>1
  <2>3. run' \in [Runs -> RunState]
    <3>1. [run[p] EXCEPT !.sent = t] \in RunState
      BY <2>1, <2>2 DEF RunState, Hashes
    <3>2. run' = [run EXCEPT ![p] = [run[p] EXCEPT !.sent = t]]
      BY <1>7 DEF Broadcast
    <3> QED
      BY <3>1, <3>2 DEF TypeOK
  <2>4. chain' \in [Transactions -> ChainState]
    BY <1>7, <2>1 DEF TypeOK, Broadcast, ChainState, Copy
  <2> QED
    BY <1>7, <2>3, <2>4 DEF TypeOK, Broadcast
<1>8. ASSUME NEW p \in Runs, Submitted(p)
      PROVE  TypeOK'
  <2> DEFINE r == run[p].job.receipt
             row == [run[p].job.row EXCEPT !.status = "submitted",
                                           !.hash = run[p].sent]
  <2>1. /\ run[p].job \in Copy
        /\ run[p].batch \subseteq Copy
        /\ run[p].sent \in Transactions
    BY <1>8, RunShape DEF Submitted, Hashes
  <2>2. r \in Receipts /\ row \in JobRow
    BY <2>1 DEF Copy, JobRow, Hashes
  <2>3. [receipt |-> r, row |-> row] \in Copy
    BY <2>2 DEF Copy
  <2>4. jobs' \in [Receipts -> JobRow \cup {NoJob}]
    BY <1>8, <2>2 DEF TypeOK, Submitted
  <2>5. run' \in [Runs -> RunState]
    BY <1>8, <2>1, <2>3 DEF TypeOK, Submitted, RunState
  <2> QED
    BY <1>8, <2>4, <2>5 DEF TypeOK, Submitted
<1>9. ASSUME NEW p \in Runs,
             SubmitFails(p) \/ NotExecuted(p) \/ ExecutionFailed(p)
               \/ ReadbackFails(p)
      PROVE  TypeOK'
  <2>1. /\ jobs' \in [Receipts -> JobRow \cup {NoJob}]
        /\ later' \subseteq Receipts
        /\ run' \in [Runs -> RunState]
    BY <1>9, RunShape, FailTyped
       DEF SubmitFails, NotExecuted, ExecutionFailed, ReadbackFails, Hashes
  <2> QED
    BY <1>9, <2>1, LeftBehind
       DEF TypeOK, SubmitFails, NotExecuted, ExecutionFailed, ReadbackFails
<1>10. ASSUME NEW p \in Runs, Executed(p)
       PROVE  TypeOK'
  <2>1. /\ run[p].job \in Copy
        /\ run[p].batch \subseteq Copy
        /\ run[p].hash \in Transactions
        /\ run[p] = [at |-> "confirm", batch |-> run[p].batch,
                     job |-> run[p].job, hash |-> run[p].hash]
    BY <1>10 DEF TypeOK, Executed, RunState, Off
  <2>2. [run[p] EXCEPT !.at = "read"] =
          [at |-> "read", batch |-> run[p].batch, job |-> run[p].job,
           hash |-> run[p].hash]
    BY <2>1
  <2>3. run' \in [Runs -> RunState]
    <3>1. [run[p] EXCEPT !.at = "read"] \in RunState
      BY <2>1, <2>2 DEF RunState
    <3>2. run' = [run EXCEPT ![p] = [run[p] EXCEPT !.at = "read"]]
      BY <1>10 DEF Executed
    <3> QED
      BY <3>1, <3>2 DEF TypeOK
  <2> QED
    BY <1>10, <2>3 DEF TypeOK, Executed
<1>11. ASSUME NEW p \in Runs, Confirmed(p)
       PROVE  TypeOK'
  <2>1. /\ run[p].job \in Copy
        /\ run[p].batch \subseteq Copy
        /\ run[p].hash \in Transactions
    BY <1>11, RunShape DEF Confirmed
  <2>2. /\ run[p].job.receipt \in Receipts
        /\ [status |-> "confirmed", attempts |-> run[p].job.row.attempts + 1,
            hash |-> run[p].hash] \in JobRow
    BY <2>1 DEF Copy, JobRow, Hashes
  <2> QED
    BY <1>11, <2>1, <2>2 DEF TypeOK, Confirmed, Advance, RunState
<1>12. CASE Crash
  <2>1. run' \in [Runs -> RunState]
    BY <1>12 DEF Crash, RunState
  <2>2. crashes' \in 0..MaxCrashes
    BY <1>12 DEF TypeOK, Crash
  <2>3. abandoned' \subseteq Transactions
    BY <1>12, LeftBehind DEF TypeOK, Crash
  <2> QED
    BY <1>12, <2>1, <2>2, <2>3 DEF TypeOK, Crash
<1>13. ASSUME NEW t \in Transactions, Execute(t) \/ Revert(t)
       PROVE  TypeOK'
  <2>1. chain[t] \in [state : {"sent", "executed", "failed"}, receipt : Receipts]
    BY <1>13 DEF TypeOK, ChainState, Execute, Revert, Absent
  <2>2. chain' \in [Transactions -> ChainState]
    BY <1>13, <2>1 DEF TypeOK, ChainState, Execute, Revert
  <2> QED
    BY <1>13, <2>1, <2>2 DEF TypeOK, Execute, Revert, RecordOf, Hashes
<1> QED
  BY <1>1, <1>2, <1>3, <1>4, <1>5, <1>6, <1>7, <1>8, <1>9, <1>10, <1>11,
     <1>12, <1>13 DEF Next, Publish, Answer

\* Type correctness of the publisher.
THEOREM TypeCorrect == Spec => []TypeOK
<1>1. ASSUME Init
      PROVE  TypeOK
  <2>1. /\ jobs \in [Receipts -> JobRow \cup {NoJob}]
        /\ later \subseteq Receipts
        /\ running \in BOOLEAN
    BY <1>1 DEF Init
  <2>2. /\ run \in [Runs -> RunState]
        /\ chain \in [Transactions -> ChainState]
        /\ recorded \in [Receipts -> Hashes]
    BY <1>1 DEF Init, RunState, ChainState, Hashes
  <2>3. abandoned \subseteq Transactions /\ crashes \in 0..MaxCrashes
    BY <1>1, PublisherAssumption DEF Init
  <2> QED
    BY <2>1, <2>2, <2>3 DEF TypeOK
<1> QED
  BY <1>1, TypeStep, PTL DEF Spec
-----------------------------------------------------------------------------
(***************************************************************************)
(* One run at a time, working from fresh copies.                           *)
(***************************************************************************)

\* The jobs a run has still to process are not those of the current receipt.
LEMMA RestDistinct ==
  ASSUME TypeOK, RunInv, NEW p \in Runs,
         run[p].at \in {"submit", "confirm", "read"}
  PROVE  \A job \in run[p].batch : job.receipt # run[p].job.receipt
<1> SUFFICES ASSUME NEW job \in run[p].batch,
                    job.receipt = run[p].job.receipt
             PROVE  FALSE
  OBVIOUS
<1>1. job = CopyOf(job.receipt) /\ run[p].job = CopyOf(run[p].job.receipt)
  BY DEF RunInv, CopiesFresh
<1>2. job = run[p].job
  BY <1>1
<1> QED
  BY <1>2 DEF RunInv, WorkSound

\* When a run leaves a receipt alone it keeps its fresh copies; a run that
\* writes the row of its current receipt turns to the others.
LEMMA LeaveJob ==
  ASSUME TypeOK, RunInv, NEW p \in Runs, Advance(p),
         run[p].at \in {"submit", "confirm", "read"},
         NEW row, jobs' = [jobs EXCEPT ![run[p].job.receipt] = row],
         running' = running
  PROVE  RunInv'
<1>1. /\ run[p].batch \subseteq Copy
      /\ run[p].job \in Copy
      /\ running
      /\ \A q \in Runs \ {p} : run[q].at = "off"
  BY RunShape DEF RunInv, RunsExclusive
<1>2. /\ run'[p] = [at |-> "next", batch |-> run[p].batch]
      /\ \A q \in Runs \ {p} : run'[q] = run[q]
  BY DEF Advance, TypeOK
<1>3. \A job \in run[p].batch :
        /\ jobs'[job.receipt] = jobs[job.receipt]
        /\ job = CopyOf(job.receipt)
        /\ jobs[job.receipt].status \in Due
  BY <1>1, RestDistinct DEF RunInv, CopiesFresh, WorkSound, TypeOK, Copy
<1> QED
  BY <1>1, <1>2, <1>3 DEF RunInv, RunsExclusive, CopiesFresh, WorkSound, CopyOf

\* No step makes a copy stale: the flag keeps other runs out, and enqueue
\* touches only rows that no run can hold.
LEMMA RunStep == TypeOK /\ RunInv /\ [Next]_vars => RunInv'
<1> SUFFICES ASSUME TypeOK, RunInv, [Next]_vars
             PROVE  RunInv'
  OBVIOUS
<1> USE DEF RunInv
<1>1. CASE UNCHANGED vars
  BY <1>1 DEF RunsExclusive, CopiesFresh, WorkSound, CopyOf, vars
<1>2. ASSUME NEW r \in Receipts, Enqueue(r)
      PROVE  RunInv'
  <2>1. /\ jobs[r].status \notin Due
        /\ \A x \in Receipts \ {r} : jobs'[x] = jobs[x]
        /\ UNCHANGED <<running, run, chain>>
    BY <1>2 DEF Enqueue, Restartable, NoJob, Due, TypeOK
  <2>2. \A p \in Runs :
          /\ run[p].at # "off" =>
               \A job \in run[p].batch : job.receipt \in Receipts \ {r}
          /\ run[p].at \in {"submit", "confirm", "read"} =>
               run[p].job.receipt \in Receipts \ {r}
    BY <2>1, RunShape DEF WorkSound, Copy
  <2>3. RunsExclusive'
    BY <2>1 DEF RunsExclusive
  <2>4. CopiesFresh'
    BY <2>1, <2>2 DEF CopiesFresh, CopyOf
  <2>5. WorkSound'
    BY <2>1, <2>2 DEF WorkSound
  <2> QED
    BY <2>3, <2>4, <2>5
<1>3. ASSUME NEW r \in Receipts, DelayPasses(r)
      PROVE  RunInv'
  BY <1>3 DEF DelayPasses, RunsExclusive, CopiesFresh, WorkSound, CopyOf
<1>4. ASSUME NEW p \in Runs, Start(p)
      PROVE  RunInv'
  <2>1. PICK batch \in SUBSET DueJobs :
          run' = [run EXCEPT ![p] = [at |-> "next",
                                     batch |-> {CopyOf(r) : r \in batch}]]
    BY <1>4 DEF Start
  <2>2. \A q \in Runs : run[q].at = "off"
    BY <1>4 DEF Start, Free, RunsExclusive
  <2>3. /\ run'[p] = [at |-> "next", batch |-> {CopyOf(r) : r \in batch}]
        /\ \A q \in Runs \ {p} : run'[q] = run[q]
        /\ running' = TRUE
        /\ UNCHANGED <<jobs, chain>>
    BY <1>4, <2>1 DEF Start, TypeOK
  <2>4. \A job \in {CopyOf(r) : r \in batch} :
          job = CopyOf(job.receipt) /\ jobs[job.receipt].status \in Due
    BY DEF CopyOf, DueJobs
  <2> QED
    BY <2>2, <2>3, <2>4 DEF RunsExclusive, CopiesFresh, WorkSound, CopyOf
<1>5. ASSUME NEW p \in Runs, TakeJob(p)
      PROVE  RunInv'
  <2>1. PICK job \in run[p].batch :
          run' = [run EXCEPT ![p] =
            IF job.row.hash = NoTransaction
              THEN [at |-> "submit", batch |-> run[p].batch \ {job},
                    job |-> job, sent |-> NoTransaction]
              ELSE [at |-> "confirm", batch |-> run[p].batch \ {job},
                    job |-> job, hash |-> job.row.hash]]
    BY <1>5 DEF TakeJob, NeedsSubmission
  <2>2. /\ run[p].at = "next"
        /\ running
        /\ UNCHANGED <<jobs, running, chain>>
        /\ \A q \in Runs \ {p} : run[q].at = "off" /\ run'[q] = run[q]
        /\ \A j \in run[p].batch :
             j = CopyOf(j.receipt) /\ jobs[j.receipt].status \in Due
    BY <1>5, <2>1 DEF TakeJob, RunsExclusive, CopiesFresh, WorkSound, TypeOK
  <2>3. CASE job.row.hash = NoTransaction
    <3>1. run'[p] = [at |-> "submit", batch |-> run[p].batch \ {job},
                     job |-> job, sent |-> NoTransaction]
      BY <2>1, <2>3 DEF TypeOK
    <3> QED
      BY <2>2, <2>3, <3>1 DEF RunsExclusive, CopiesFresh, WorkSound, CopyOf
  <2>4. CASE job.row.hash # NoTransaction
    <3>1. run'[p] = [at |-> "confirm", batch |-> run[p].batch \ {job},
                     job |-> job, hash |-> job.row.hash]
      BY <2>1, <2>4 DEF TypeOK
    <3> QED
      BY <2>2, <2>4, <3>1 DEF RunsExclusive, CopiesFresh, WorkSound, CopyOf
  <2> QED
    BY <2>3, <2>4
<1>6. ASSUME NEW p \in Runs, Finish(p)
      PROVE  RunInv'
  <2>1. /\ run'[p] = Off
        /\ \A q \in Runs \ {p} : run[q].at = "off" /\ run'[q] = run[q]
    BY <1>6 DEF Finish, RunsExclusive, TypeOK
  <2> QED
    BY <2>1 DEF RunsExclusive, CopiesFresh, WorkSound, Off
<1>7. ASSUME NEW p \in Runs, NEW t \in Transactions, Broadcast(p, t)
      PROVE  RunInv'
  <2>1. /\ run[p].at = "submit"
        /\ running
        /\ UNCHANGED <<jobs, running>>
        /\ \A q \in Runs \ {p} : run[q].at = "off" /\ run'[q] = run[q]
        /\ chain'[t] = [state |-> "sent", receipt |-> run[p].job.receipt]
    BY <1>7 DEF Broadcast, RunsExclusive, TypeOK
  <2>2. /\ run'[p].at = "submit"
        /\ run'[p].batch = run[p].batch
        /\ run'[p].job = run[p].job
        /\ run'[p].sent = t
    <3>1. run[p] = [at |-> "submit", batch |-> run[p].batch,
                    job |-> run[p].job, sent |-> run[p].sent]
      BY <2>1 DEF TypeOK, RunState, Off
    <3>2. run'[p] = [run[p] EXCEPT !.sent = t]
      BY <1>7 DEF Broadcast, TypeOK
    <3> QED
      BY <3>1, <3>2
  <2> QED
    BY <2>1, <2>2 DEF RunsExclusive, CopiesFresh, WorkSound, CopyOf
<1>8. ASSUME NEW p \in Runs, Submitted(p)
      PROVE  RunInv'
  <2> DEFINE r == run[p].job.receipt
             row == [run[p].job.row EXCEPT !.status = "submitted",
                                           !.hash = run[p].sent]
  <2>1. /\ run[p].at = "submit"
        /\ run[p].job \in Copy
        /\ run[p].batch \subseteq Copy
        /\ run[p].sent \in Transactions
        /\ running
        /\ UNCHANGED <<running, chain>>
        /\ \A q \in Runs \ {p} : run[q].at = "off" /\ run'[q] = run[q]
    BY <1>8, RunShape DEF Submitted, Hashes, RunsExclusive, TypeOK
  <2>2. /\ r \in Receipts
        /\ row.status = "submitted"
        /\ row.hash = run[p].sent
    BY <2>1 DEF Copy, JobRow
  <2>3. run'[p] = [at |-> "confirm", batch |-> run[p].batch,
                   job |-> [receipt |-> r, row |-> row],
                   hash |-> run[p].sent]
    BY <1>8 DEF Submitted, TypeOK
  <2>4. /\ jobs'[r] = row
        /\ \A x \in Receipts \ {r} : jobs'[x] = jobs[x]
    BY <1>8, <2>2 DEF Submitted, TypeOK
  <2>5. \A job \in run[p].batch :
          /\ job.receipt \in Receipts \ {r}
          /\ job = CopyOf(job.receipt)
          /\ jobs[job.receipt].status \in Due
    BY <2>1, RestDistinct DEF Copy, CopiesFresh, WorkSound
  <2>6. [receipt |-> r, row |-> row] \notin run[p].batch
    BY <2>5
  <2>7. \A job \in run[p].batch :
          jobs'[job.receipt] = jobs[job.receipt]
    BY <2>4, <2>5
  <2>8. RunsExclusive'
    BY <2>1, <2>3 DEF RunsExclusive
  <2>9. CopiesFresh'
    BY <2>1, <2>3, <2>4, <2>5, <2>7 DEF CopiesFresh, CopyOf
  <2>10. WorkSound'
    <3> HIDE DEF r, row
    <3>1. /\ run'[p].at = "confirm"
          /\ run'[p].batch = run[p].batch
          /\ run'[p].job = [receipt |-> r, row |-> row]
          /\ run'[p].hash = run[p].sent
          /\ run'[p].job.receipt = r
          /\ run'[p].job.row = row
      BY <2>3
    <3>2. /\ \A job \in run[p].batch : jobs'[job.receipt].status \in Due
          /\ jobs'[r].status \in Due
      BY <2>2, <2>4, <2>5, <2>7 DEF Due
    <3>3. \A q \in Runs \ {p} : run'[q].at = "off"
      BY <2>1
    <3> QED
      BY <2>2, <2>6, <3>1, <3>2, <3>3 DEF WorkSound
  <2> QED
    BY <2>8, <2>9, <2>10
<1>9. ASSUME NEW p \in Runs,
             SubmitFails(p) \/ NotExecuted(p) \/ ExecutionFailed(p)
               \/ ReadbackFails(p) \/ Confirmed(p)
      PROVE  RunInv'
  BY <1>9, LeaveJob
     DEF SubmitFails, NotExecuted, ExecutionFailed, ReadbackFails, Confirmed,
         FailJob
<1>10. ASSUME NEW p \in Runs, Executed(p)
       PROVE  RunInv'
  <2>1. /\ run[p].at = "confirm"
        /\ chain[run[p].hash].state = "executed"
        /\ running
        /\ UNCHANGED <<jobs, running, chain>>
        /\ \A q \in Runs \ {p} : run[q].at = "off" /\ run'[q] = run[q]
    BY <1>10 DEF Executed, IsExecuted, RunsExclusive, TypeOK
  <2>2. /\ run'[p].at = "read"
        /\ run'[p].batch = run[p].batch
        /\ run'[p].job = run[p].job
        /\ run'[p].hash = run[p].hash
    <3>1. run[p] = [at |-> "confirm", batch |-> run[p].batch,
                    job |-> run[p].job, hash |-> run[p].hash]
      BY <2>1 DEF TypeOK, RunState, Off
    <3>2. run'[p] = [run[p] EXCEPT !.at = "read"]
      BY <1>10 DEF Executed, TypeOK
    <3> QED
      BY <3>1, <3>2
  <2> QED
    BY <2>1, <2>2 DEF RunsExclusive, CopiesFresh, WorkSound, CopyOf
<1>11. CASE Crash
  BY <1>11 DEF Crash, RunsExclusive, CopiesFresh, WorkSound, Off
<1>12. ASSUME NEW t \in Transactions, Execute(t) \/ Revert(t)
       PROVE  RunInv'
  <2>1. /\ UNCHANGED <<jobs, running, run>>
        /\ chain[t].state = "sent"
        /\ chain'[t].state \in {"executed", "failed"}
        /\ chain'[t].receipt = chain[t].receipt
        /\ \A u \in Transactions \ {t} : chain'[u] = chain[u]
    <3>1. chain[t] \in
            [state : {"sent", "executed", "failed"}, receipt : Receipts]
      BY <1>12 DEF TypeOK, ChainState, Execute, Revert, Absent
    <3> QED
      BY <1>12, <3>1 DEF Execute, Revert, TypeOK
  <2>2. \A p \in Runs :
          /\ run[p].at = "submit" => run[p].sent \in Hashes
          /\ run[p].at = "read" => run[p].hash \in Transactions
    BY RunShape
  <2> QED
    BY <2>1, <2>2
       DEF RunsExclusive, CopiesFresh, WorkSound, CopyOf, Hashes
<1> QED
  BY <1>1, <1>2, <1>3, <1>4, <1>5, <1>6, <1>7, <1>8, <1>9, <1>10, <1>11,
     <1>12 DEF Next, Publish, Answer

\* The copies a run works from are always the rows of the table.
THEOREM CopiesAlwaysFresh == Spec => []CopiesFresh
<1>1. Init => RunInv
  BY DEF Init, RunInv, RunsExclusive, CopiesFresh, WorkSound, Off
<1>2. RunInv => CopiesFresh
  BY DEF RunInv
<1> QED
  BY <1>1, <1>2, RunStep, TypeCorrect, PTL DEF Spec
-----------------------------------------------------------------------------
(***************************************************************************)
(* What the table says of the chain.                                       *)
(***************************************************************************)

\* failJob counts an attempt that was left, and gives up at the last one.
LEMMA FailRow ==
  ASSUME TypeOK, RunInv, AttemptsLeft, NEW p \in Runs, NEW hash \in Hashes,
         NEW terminal \in BOOLEAN,
         run[p].at \in {"submit", "confirm", "read"},
         FailJob(p, hash, terminal)
  PROVE  LET r == run[p].job.receipt
         IN  /\ r \in Receipts
             /\ jobs[r].status \in Due
             /\ \A x \in Receipts \ {r} : jobs'[x] = jobs[x]
             /\ jobs'[r].status \in {"failed", StatusAfter(hash)}
             /\ jobs'[r].status # "failed" => jobs'[r].attempts < MaxAttempts
             /\ jobs'[r].hash = hash
<1> DEFINE r == run[p].job.receipt
           attempts == run[p].job.row.attempts + 1
           status == IF terminal \/ GivesUp(attempts) THEN "failed"
                     ELSE StatusAfter(hash)
<1>1. run[p].job \in Copy /\ jobs[r].status \in Due
  BY RunShape DEF RunInv, WorkSound
<1>2. r \in Receipts /\ attempts \in Nat
  BY <1>1 DEF Copy, JobRow
<1>3. jobs' = [jobs EXCEPT ![r] = [status |-> status, attempts |-> attempts,
                                   hash |-> hash]]
  BY DEF FailJob
<1>4. /\ jobs'[r] = [status |-> status, attempts |-> attempts, hash |-> hash]
      /\ \A x \in Receipts \ {r} : jobs'[x] = jobs[x]
  BY <1>2, <1>3 DEF TypeOK
<1>5. status # "failed" => attempts < MaxAttempts
  BY <1>2, PublisherAssumption DEF GivesUp
<1> QED
  BY <1>1, <1>2, <1>4, <1>5

\* A due job keeps an attempt, and is submitted exactly when it has a hash.
LEMMA AttemptsStep == TypeOK /\ RunInv /\ AttemptsLeft /\ [Next]_vars => AttemptsLeft'
<1> SUFFICES ASSUME TypeOK, RunInv, AttemptsLeft, [Next]_vars
             PROVE  AttemptsLeft'
  OBVIOUS
<1>1. CASE UNCHANGED jobs
  BY <1>1 DEF AttemptsLeft
<1>2. ASSUME NEW r \in Receipts, Enqueue(r)
      PROVE  AttemptsLeft'
  <2>1. /\ jobs'[r] = NewJob
        /\ \A x \in Receipts \ {r} : jobs'[x] = jobs[x]
    BY <1>2 DEF Enqueue, TypeOK
  <2> QED
    BY <2>1, PublisherAssumption DEF AttemptsLeft, NewJob
<1>3. ASSUME NEW p \in Runs, NEW hash \in Hashes, NEW terminal \in BOOLEAN,
             run[p].at \in {"submit", "confirm", "read"},
             FailJob(p, hash, terminal)
      PROVE  AttemptsLeft'
  BY <1>3, FailRow DEF AttemptsLeft, StatusAfter, Due, Hashes
<1>4. ASSUME NEW p \in Runs,
             SubmitFails(p) \/ NotExecuted(p) \/ ExecutionFailed(p)
               \/ ReadbackFails(p)
      PROVE  AttemptsLeft'
  BY <1>3, <1>4, RunShape
     DEF SubmitFails, NotExecuted, ExecutionFailed, ReadbackFails, Hashes
<1>5. ASSUME NEW p \in Runs, Submitted(p)
      PROVE  AttemptsLeft'
  <2> DEFINE r == run[p].job.receipt
             row == [run[p].job.row EXCEPT !.status = "submitted",
                                           !.hash = run[p].sent]
  <2>1. /\ run[p].job \in Copy
        /\ run[p].job = CopyOf(r)
        /\ jobs[r].status \in Due
        /\ run[p].sent # NoTransaction
    BY <1>5, RunShape DEF Submitted, RunInv, CopiesFresh, WorkSound
  <2>2. /\ r \in Receipts
        /\ row.status = "submitted"
        /\ row.hash = run[p].sent
        /\ row.attempts = jobs[r].attempts
    BY <2>1 DEF Copy, JobRow, CopyOf
  <2>3. /\ jobs'[r] = row
        /\ \A x \in Receipts \ {r} : jobs'[x] = jobs[x]
    BY <1>5, <2>2 DEF Submitted, TypeOK
  <2> QED
    BY <2>1, <2>2, <2>3 DEF AttemptsLeft, Due
<1>6. ASSUME NEW p \in Runs, Confirmed(p)
      PROVE  AttemptsLeft'
  <2>1. run[p].job.receipt \in Receipts
    BY <1>6, RunShape DEF Confirmed, Copy
  <2>2. /\ jobs'[run[p].job.receipt].status = "confirmed"
        /\ \A x \in Receipts \ {run[p].job.receipt} : jobs'[x] = jobs[x]
    BY <1>6, <2>1 DEF Confirmed, TypeOK
  <2> QED
    BY <2>1, <2>2 DEF AttemptsLeft, Due
<1> QED
  BY <1>1, <1>2, <1>4, <1>5, <1>6
     DEF Next, Publish, Answer, DelayPasses, Start, TakeJob, Finish, Broadcast,
         Executed, Crash, Execute, Revert, vars

\* A retry never submits a second transaction while the first is known, and
\* never exceeds the attempts.
THEOREM AttemptsAlwaysLeft == Spec => []AttemptsLeft
<1>1. Init => RunInv /\ AttemptsLeft
  BY DEF Init, RunInv, RunsExclusive, CopiesFresh, WorkSound, Off,
         AttemptsLeft, NoJob, Due
<1> QED
  BY <1>1, RunStep, AttemptsStep, TypeCorrect, PTL DEF Spec

\* A job that was confirmed is not written again.
THEOREM ConfirmedStaysFinal == Spec => ConfirmedFinal
<1>1. ASSUME TypeOK, RunInv, AttemptsLeft, [Next]_vars, NEW r \in Receipts,
             jobs[r].status = "confirmed"
      PROVE  UNCHANGED jobs[r]
  <2>1. CASE UNCHANGED jobs
    BY <2>1
  <2>2. ASSUME NEW x \in Receipts, Enqueue(x)
        PROVE  UNCHANGED jobs[r]
    <3>1. x # r
      BY <1>1, <2>2 DEF Enqueue, Restartable, NoJob
    <3> QED
      BY <2>2, <3>1 DEF Enqueue, TypeOK
  <2>3. ASSUME NEW p \in Runs, Answer(p)
        PROVE  UNCHANGED jobs[r]
    <3>1. CASE UNCHANGED jobs
      BY <3>1
    <3>2. /\ run[p].at \in {"submit", "confirm", "read"}
          /\ \/ UNCHANGED jobs
             \/ \E row : jobs' = [jobs EXCEPT ![run[p].job.receipt] = row]
      BY <2>3
         DEF Answer, Submitted, SubmitFails, Executed, NotExecuted,
             ExecutionFailed, Confirmed, ReadbackFails, FailJob
    <3>3. run[p].job.receipt # r
      BY <1>1, <3>2 DEF RunInv, WorkSound, Due
    <3>4. CASE ~ UNCHANGED jobs
      <4>1. PICK row : jobs' = [jobs EXCEPT ![run[p].job.receipt] = row]
        BY <3>2, <3>4
      <4> QED
        BY <3>3, <4>1 DEF TypeOK
    <3> QED
      BY <3>1, <3>4
  <2> QED
    BY <1>1, <2>1, <2>2, <2>3
       DEF Next, Publish, DelayPasses, Start, TakeJob, Finish, Broadcast,
           Crash, Execute, Revert, vars
<1>2. TypeOK /\ RunInv /\ AttemptsLeft /\ [Next]_vars =>
        [\A r \in Receipts :
           jobs[r].status = "confirmed" => UNCHANGED jobs[r]]_vars
  BY <1>1
<1>3. Init => RunInv /\ AttemptsLeft
  BY DEF Init, RunInv, RunsExclusive, CopiesFresh, WorkSound, Off,
         AttemptsLeft, NoJob, Due
<1> QED
  BY <1>2, <1>3, RunStep, AttemptsStep, TypeCorrect, PTL
     DEF Spec, ConfirmedFinal

\* What the table says of the chain survives every step that leaves chain,
\* records and rows as they are or only adds to them.
LEMMA ChainGrows ==
  ASSUME TypeOK, [Next]_vars
  PROVE  /\ \A t \in Transactions :
              chain[t].state # "absent" =>
                /\ chain'[t].state # "absent"
                /\ chain'[t].receipt = chain[t].receipt
                /\ chain[t].state = "executed" => chain'[t] = chain[t]
         /\ \A r \in Receipts :
              recorded[r] # NoTransaction => recorded'[r] # NoTransaction
<1>1. CASE UNCHANGED <<chain, recorded>>
  BY <1>1
<1>2. ASSUME NEW p \in Runs, NEW t \in Transactions, Broadcast(p, t)
      PROVE  /\ \A u \in Transactions \ {t} : chain'[u] = chain[u]
             /\ chain[t].state = "absent"
             /\ UNCHANGED recorded
  BY <1>2 DEF Broadcast, TypeOK, Absent
<1>3. ASSUME NEW t \in Transactions, Execute(t) \/ Revert(t)
      PROVE  /\ \A u \in Transactions \ {t} : chain'[u] = chain[u]
             /\ chain[t].state = "sent"
             /\ chain'[t].state # "absent"
             /\ chain'[t].receipt = chain[t].receipt
             /\ \A r \in Receipts :
                  recorded[r] # NoTransaction => recorded'[r] # NoTransaction
  <2>1. chain[t] \in
          [state : {"sent", "executed", "failed"}, receipt : Receipts]
    BY <1>3 DEF TypeOK, ChainState, Execute, Revert, Absent
  <2> QED
    BY <1>3, <2>1 DEF Execute, Revert, RecordOf, TypeOK
<1> QED
  BY <1>1, <1>2, <1>3
     DEF Next, Publish, Answer, Enqueue, DelayPasses, Start, TakeJob, Finish,
         Submitted, SubmitFails, Executed, NotExecuted, ExecutionFailed,
         Confirmed, ReadbackFails, Crash, vars

\* A step writes the row of one receipt, with no hash or with one that was
\* sent for that receipt; a confirmed row names an executed transaction.
LEMMA RowWritten ==
  ASSUME TypeOK, RunInv, HashesSound, [Next]_vars, NEW r \in Receipts,
         jobs'[r] # jobs[r]
  PROVE  /\ jobs'[r].hash # NoTransaction =>
              /\ jobs'[r].hash \in Transactions
              /\ chain[jobs'[r].hash].state # "absent"
              /\ chain[jobs'[r].hash].receipt = r
         /\ jobs'[r].status = "confirmed" =>
              /\ jobs'[r].hash \in Transactions
              /\ chain[jobs'[r].hash] = [state |-> "executed", receipt |-> r]
              /\ recorded[r] # NoTransaction
<1>1. ASSUME NEW x \in Receipts, Enqueue(x)
      PROVE  /\ jobs'[r].hash = NoTransaction
             /\ jobs'[r].status = "pending"
  BY <1>1 DEF Enqueue, TypeOK, NewJob
<1>2. ASSUME NEW p \in Runs, SubmitFails(p)
      PROVE  /\ jobs'[r].hash = NoTransaction
             /\ jobs'[r].status # "confirmed"
  BY <1>2 DEF SubmitFails, FailJob, TypeOK, StatusAfter
<1>3. ASSUME NEW p \in Runs, Submitted(p)
      PROVE  /\ jobs'[r].status = "submitted"
             /\ jobs'[r].hash \in Transactions
             /\ chain[jobs'[r].hash].state # "absent"
             /\ chain[jobs'[r].hash].receipt = r
  <2>1. /\ run[p].job \in Copy
        /\ run[p].sent \in Transactions
        /\ run[p].sent # NoTransaction
        /\ chain[run[p].sent].state # "absent"
        /\ chain[run[p].sent].receipt = run[p].job.receipt
    BY <1>3, RunShape DEF Submitted, Hashes, RunInv, WorkSound
  <2>2. /\ run[p].job.receipt = r
        /\ jobs'[r] = [run[p].job.row EXCEPT !.status = "submitted",
                                             !.hash = run[p].sent]
    BY <1>3 DEF Submitted, TypeOK
  <2>3. run[p].job.row \in JobRow
    BY <2>1 DEF Copy
  <2> QED
    BY <2>1, <2>2, <2>3 DEF JobRow
<1>4. ASSUME NEW p \in Runs, run[p].at \in {"confirm", "read"}
      PROVE  /\ run[p].hash \in Transactions
             /\ run[p].job.receipt \in Receipts
             /\ run[p].hash = jobs[run[p].job.receipt].hash
             /\ chain[run[p].hash].state # "absent"
             /\ chain[run[p].hash].receipt = run[p].job.receipt
  <2>1. /\ run[p].hash \in Transactions
        /\ run[p].job \in Copy
        /\ run[p].job = CopyOf(run[p].job.receipt)
        /\ run[p].job.row.hash = run[p].hash
        /\ jobs[run[p].job.receipt].status \in Due
    BY <1>4, RunShape DEF RunInv, CopiesFresh, WorkSound
  <2>2. run[p].job.receipt \in Receipts
    BY <2>1 DEF Copy
  <2>3. run[p].hash = jobs[run[p].job.receipt].hash
    BY <2>1 DEF CopyOf
  <2> QED
    BY <2>1, <2>2, <2>3, PublisherAssumption DEF HashesSound, Due
<1>5. ASSUME NEW p \in Runs,
             NotExecuted(p) \/ ExecutionFailed(p) \/ ReadbackFails(p)
      PROVE  /\ jobs'[r].hash = run[p].hash
             /\ jobs'[r].status # "confirmed"
             /\ run[p].job.receipt = r
             /\ run[p].at \in {"confirm", "read"}
  BY <1>5
     DEF NotExecuted, ExecutionFailed, ReadbackFails, FailJob, TypeOK,
         StatusAfter
<1>6. ASSUME NEW p \in Runs, Confirmed(p)
      PROVE  /\ jobs'[r].hash = run[p].hash
             /\ run[p].job.receipt = r
             /\ run[p].at \in {"confirm", "read"}
             /\ chain[run[p].hash] = [state |-> "executed", receipt |-> r]
             /\ recorded[r] # NoTransaction
  <2>1. /\ jobs'[r].hash = run[p].hash
        /\ run[p].job.receipt = r
        /\ run[p].at = "read"
        /\ recorded[r] # NoTransaction
    BY <1>6 DEF Confirmed, TypeOK
  <2>2. /\ chain[run[p].hash].state = "executed"
        /\ chain[run[p].hash].receipt = r
        /\ run[p].hash \in Transactions
    BY <1>4, <2>1 DEF RunInv, WorkSound
  <2>3. chain[run[p].hash] = [state |-> "executed", receipt |-> r]
    BY <2>2 DEF TypeOK, ChainState, Absent
  <2> QED
    BY <2>1, <2>3
<1>7. CASE UNCHANGED jobs
  BY <1>7
<1>8. CASE \E x \in Receipts : Enqueue(x)
  BY <1>1, <1>8
<1>9. CASE \E p \in Runs : SubmitFails(p)
  BY <1>2, <1>9
<1>10. CASE \E p \in Runs : Submitted(p)
  BY <1>3, <1>10
<1>11. CASE \E p \in Runs :
              NotExecuted(p) \/ ExecutionFailed(p) \/ ReadbackFails(p)
  BY <1>4, <1>5, <1>11
<1>12. CASE \E p \in Runs : Confirmed(p)
  BY <1>4, <1>6, <1>12
<1> QED
  BY <1>7, <1>8, <1>9, <1>10, <1>11, <1>12
     DEF Next, Publish, Answer, DelayPasses, Start, TakeJob, Finish, Broadcast,
         Executed, Crash, Execute, Revert, vars

\* A confirmed job names an executed transaction, and the registry holds the
\* receipt.
THEOREM ConfirmedAlwaysRecorded == Spec => []ConfirmedRecorded
<1> DEFINE Hashed == \A r \in Receipts :
                       jobs[r].status = "confirmed" =>
                         jobs[r].hash \in Transactions
           Inv == HashesSound /\ ConfirmedRecorded /\ Hashed
<1>1. Init => RunInv /\ Inv
  BY DEF Init, RunInv, RunsExclusive, CopiesFresh, WorkSound, Off, HashesSound,
         ConfirmedRecorded, NoJob
<1>2. ASSUME TypeOK, RunInv, Inv, [Next]_vars
      PROVE  Inv'
  <2>1. ASSUME NEW r \in Receipts, jobs'[r].status # "none",
               jobs'[r].hash # NoTransaction
        PROVE  /\ chain'[jobs'[r].hash].state # "absent"
               /\ chain'[jobs'[r].hash].receipt = r
    <3>1. CASE jobs'[r] = jobs[r]
      <4>1. jobs[r].hash \in Transactions
        <5>1. jobs[r] \in JobRow
          BY <1>2, <2>1, <3>1 DEF TypeOK, NoJob
        <5> QED
          BY <2>1, <3>1, <5>1 DEF JobRow, Hashes
      <4> QED
        BY <1>2, <2>1, <3>1, <4>1, ChainGrows DEF HashesSound
    <3>2. CASE jobs'[r] # jobs[r]
      BY <1>2, <2>1, <3>2, RowWritten, ChainGrows
    <3> QED
      BY <3>1, <3>2
  <2>2. ASSUME NEW r \in Receipts, jobs'[r].status = "confirmed"
        PROVE  /\ chain'[jobs'[r].hash] = [state |-> "executed", receipt |-> r]
               /\ recorded'[r] # NoTransaction
               /\ jobs'[r].hash \in Transactions
    <3>1. /\ chain[jobs'[r].hash] = [state |-> "executed", receipt |-> r]
          /\ recorded[r] # NoTransaction
          /\ jobs'[r].hash \in Transactions
      <4>1. CASE jobs'[r] = jobs[r]
        BY <1>2, <2>2, <4>1 DEF ConfirmedRecorded
      <4>2. CASE jobs'[r] # jobs[r]
        BY <1>2, <2>2, <4>2, RowWritten
      <4> QED
        BY <4>1, <4>2
    <3> QED
      BY <1>2, <3>1, ChainGrows
  <2> QED
    BY <2>1, <2>2 DEF HashesSound, ConfirmedRecorded
<1> HIDE DEF Inv
<1>3. Inv => ConfirmedRecorded
  BY DEF Inv
<1> QED
  BY <1>1, <1>2, <1>3, RunStep, TypeCorrect, PTL DEF Spec

-----------------------------------------------------------------------------
(***************************************************************************)
(* One submission for a receipt, as long as its transaction is known.      *)
(***************************************************************************)

\* A run that works on a receipt has not stored the transaction it sent.
LEMMA OneKnown ==
  ASSUME TypeOK, RunInv, NEW p \in Runs, NEW t \in SentBy(p)
  PROVE  /\ HashOf(run[p].job.receipt) = {}
         /\ \A q \in Runs \ {p} : SentBy(q) = {}
         /\ run[p].job.receipt \in Receipts
         /\ SentBy(p) = {t}
         /\ jobs[run[p].job.receipt].status \in Due
<1>1. /\ run[p].at = "submit"
      /\ run[p].job \in Copy
      /\ run[p].job = CopyOf(run[p].job.receipt)
      /\ run[p].job.row.hash = NoTransaction
      /\ jobs[run[p].job.receipt].status \in Due
      /\ \A q \in Runs \ {p} : run[q].at = "off"
  BY RunShape DEF SentBy, RunInv, RunsExclusive, CopiesFresh, WorkSound
<1>2. run[p].job.receipt \in Receipts
  BY <1>1 DEF Copy
<1>3. jobs[run[p].job.receipt].hash = NoTransaction
  BY <1>1 DEF CopyOf
<1> QED
  BY <1>1, <1>2, <1>3 DEF SentBy, HashOf

\* Every step that takes a transaction out of a row, or drops the answer of
\* a submission, abandons it.
LEMMA KnownStep ==
  ASSUME TypeOK, RunInv, TransactionsKnown, [Next]_vars
  PROVE  TransactionsKnown'
<1> SUFFICES ASSUME NEW t \in Transactions,
                    chain'[t].state # "absent", t \notin abandoned'
             PROVE  \/ t \in HashOf(chain[t].receipt)'
                    \/ \E p \in Runs :
                         t \in SentBy(p)' /\ run'[p].job.receipt = chain'[t].receipt
  BY DEF TransactionsKnown
<1> DEFINE r == chain[t].receipt
           Known == \/ t \in HashOf(r)
                    \/ \E p \in Runs :
                         t \in SentBy(p) /\ run[p].job.receipt = r
<1>1. abandoned \subseteq abandoned'
  BY DEF Next, Publish, Answer, Enqueue, DelayPasses, Start, TakeJob, Finish,
         Broadcast, Submitted, SubmitFails, Executed, NotExecuted,
         ExecutionFailed, Confirmed, ReadbackFails, Crash, Execute, Revert, vars
<1>2. ASSUME chain[t].state # "absent"
      PROVE  /\ Known
             /\ r \in Receipts
             /\ chain'[t].receipt = r
  BY <1>1, <1>2, ChainGrows DEF TransactionsKnown, TypeOK, ChainState, Absent
<1>3. CASE UNCHANGED <<jobs, run, chain>>
  BY <1>2, <1>3 DEF HashOf, SentBy
<1>4. ASSUME NEW x \in Receipts, Enqueue(x)
      PROVE  t \in HashOf(r)' \/ \E p \in Runs :
               t \in SentBy(p)' /\ run'[p].job.receipt = r
  <2>1. /\ \A y \in Receipts \ {x} : HashOf(y)' = HashOf(y)
        /\ \A p \in Runs : SentBy(p)' = SentBy(p)
        /\ t \notin HashOf(x)
        /\ UNCHANGED <<run, chain>>
    BY <1>4 DEF Enqueue, HashOf, SentBy, TypeOK
  <2> QED
    BY <1>2, <2>1
<1>5. ASSUME NEW p \in Runs, run[p].at \in {"off", "next"},
             \A q \in Runs \ {p} : run'[q] = run[q],
             run'[p].at = "submit" => run'[p].sent = NoTransaction,
             UNCHANGED <<jobs, chain>>
      PROVE  t \in HashOf(r)' \/ \E q \in Runs :
               t \in SentBy(q)' /\ run'[q].job.receipt = r
  <2>1. \A q \in Runs \ {p} : SentBy(q)' = SentBy(q)
    BY <1>5 DEF SentBy
  <2>2. SentBy(p) = {} /\ HashOf(r)' = HashOf(r)
    BY <1>5 DEF SentBy, HashOf
  <2> QED
    BY <1>2, <1>5, <2>1, <2>2
<1>6. ASSUME NEW p \in Runs, Start(p) \/ TakeJob(p) \/ Finish(p)
      PROVE  t \in HashOf(r)' \/ \E q \in Runs :
               t \in SentBy(q)' /\ run'[q].job.receipt = r
  BY <1>5, <1>6 DEF Start, TakeJob, Finish, Off, TypeOK
<1>7. ASSUME NEW p \in Runs, NEW u \in Transactions, Broadcast(p, u)
      PROVE  t \in HashOf(chain[t].receipt)' \/ \E q \in Runs :
               t \in SentBy(q)' /\ run'[q].job.receipt = chain'[t].receipt
  <2>1. /\ \A q \in Runs \ {p} : SentBy(q)' = SentBy(q) /\ run'[q] = run[q]
        /\ SentBy(p) = {}
        /\ SentBy(p)' = {u}
        /\ run'[p].job = run[p].job
        /\ chain'[u].receipt = run[p].job.receipt
        /\ \A x \in Receipts : HashOf(x)' = HashOf(x)
        /\ \A v \in Transactions \ {u} : chain'[v] = chain[v]
    <3>1. /\ run[p] \in [at : {"submit"}, batch : SUBSET Copy, job : Copy,
                          sent : Hashes]
          /\ run' = [run EXCEPT ![p].sent = u]
      BY <1>7 DEF Broadcast, TypeOK, RunState, Off
    <3>2. /\ run'[p].at = "submit"
          /\ run'[p].sent = u
          /\ run'[p].job = run[p].job
          /\ \A q \in Runs \ {p} : run'[q] = run[q]
      BY <3>1 DEF TypeOK
    <3>3. /\ chain'[u].receipt = run[p].job.receipt
          /\ \A v \in Transactions \ {u} : chain'[v] = chain[v]
          /\ UNCHANGED jobs
          /\ run[p].sent = NoTransaction
      BY <1>7 DEF Broadcast, TypeOK
    <3>4. SentBy(p) = {} /\ SentBy(p)' = {u}
      BY <3>2, <3>3, PublisherAssumption DEF SentBy
    <3>5. \A q \in Runs \ {p} : SentBy(q)' = SentBy(q)
      BY <3>2 DEF SentBy
    <3>6. \A x \in Receipts : HashOf(x)' = HashOf(x)
      BY <3>3 DEF HashOf
    <3> QED
      BY <3>2, <3>3, <3>4, <3>5, <3>6
  <2>2. CASE t = u
    BY <2>1, <2>2
  <2>3. CASE t # u
    BY <1>2, <2>1, <2>3
  <2> QED
    BY <2>2, <2>3
<1>8. ASSUME NEW p \in Runs, Submitted(p)
      PROVE  t \in HashOf(r)'
  <2> DEFINE x == run[p].job.receipt
  <2>1. /\ SentBy(p) = {run[p].sent}
        /\ run[p].sent # NoTransaction
        /\ run[p].job \in Copy
        /\ UNCHANGED chain
    BY <1>8, RunShape DEF Submitted, SentBy
  <2>2. /\ x \in Receipts
        /\ HashOf(x) = {}
        /\ \A q \in Runs \ {p} : SentBy(q) = {}
    BY <2>1, OneKnown
  <2>3. /\ \A y \in Receipts \ {x} : HashOf(y)' = HashOf(y)
        /\ jobs'[x] = [run[p].job.row EXCEPT !.status = "submitted",
                                             !.hash = run[p].sent]
    BY <1>8, <2>2 DEF Submitted, HashOf, TypeOK
  <2>4. jobs'[x].hash = run[p].sent /\ jobs'[x] # NoJob
    BY <2>1, <2>3 DEF Copy, JobRow, NoJob
  <2>5. \A y \in Receipts : y = x => HashOf(y)' = {run[p].sent}
    BY <2>1, <2>4 DEF HashOf
  <2> QED
    BY <1>2, <2>1, <2>2, <2>3, <2>5
<1>9. ASSUME NEW p \in Runs, SubmitFails(p)
      PROVE  t \in HashOf(r)' \/ \E q \in Runs :
               t \in SentBy(q)' /\ run'[q].job.receipt = r
  <2> DEFINE x == run[p].job.receipt
  <2>1. /\ run[p].at = "submit"
        /\ t \notin SentBy(p)
        /\ run[p].job = CopyOf(x)
        /\ run[p].job \in Copy
        /\ run[p].job.row.hash = NoTransaction
    BY <1>9, RunShape DEF SubmitFails, RunInv, CopiesFresh, WorkSound
  <2>2. /\ x \in Receipts
        /\ HashOf(x) = {}
    BY <2>1 DEF Copy, CopyOf, HashOf
  <2>3. /\ \A y \in Receipts \ {x} : HashOf(y)' = HashOf(y)
        /\ \A q \in Runs \ {p} : SentBy(q)' = SentBy(q) /\ run'[q] = run[q]
        /\ UNCHANGED chain
    BY <1>9, <2>2 DEF SubmitFails, FailJob, Advance, HashOf, SentBy, TypeOK
  <2> QED
    BY <1>2, <2>1, <2>2, <2>3
<1>10. ASSUME NEW p \in Runs,
              \/ NotExecuted(p) \/ ExecutionFailed(p) \/ ReadbackFails(p)
              \/ Confirmed(p)
       PROVE  t \in HashOf(r)' \/ \E q \in Runs :
                t \in SentBy(q)' /\ run'[q].job.receipt = r
  <2> DEFINE x == run[p].job.receipt
  <2>1. /\ run[p].at \in {"confirm", "read"}
        /\ SentBy(p) = {}
        /\ run[p].job = CopyOf(x)
        /\ run[p].job \in Copy
        /\ run[p].job.row.hash = run[p].hash
    BY <1>10, RunShape
       DEF NotExecuted, ExecutionFailed, ReadbackFails, Confirmed, RunInv,
           CopiesFresh, WorkSound, SentBy
  <2>2. x \in Receipts /\ jobs[x].hash = run[p].hash
    BY <2>1 DEF Copy, CopyOf
  <2>3. /\ \A y \in Receipts \ {x} : jobs'[y] = jobs[y]
        /\ jobs'[x].hash = run[p].hash
        /\ jobs'[x] # NoJob
        /\ \A q \in Runs \ {p} : run'[q] = run[q]
        /\ run'[p].at = "next"
        /\ UNCHANGED chain
    <3>1. PICK status, attempts :
            jobs' = [jobs EXCEPT ![x] = [status |-> status,
                                         attempts |-> attempts,
                                         hash |-> run[p].hash]]
      BY <1>10 DEF NotExecuted, ExecutionFailed, ReadbackFails, Confirmed,
                   FailJob
    <3>2. /\ run' = [run EXCEPT ![p] = [at |-> "next", batch |-> run[p].batch]]
          /\ UNCHANGED chain
      BY <1>10 DEF NotExecuted, ExecutionFailed, ReadbackFails, Confirmed,
                   FailJob, Advance
    <3>3. jobs'[x] = [status |-> status, attempts |-> attempts,
                      hash |-> run[p].hash]
      BY <2>2, <3>1 DEF TypeOK
    <3>4. jobs'[x] # NoJob
      BY <3>3 DEF NoJob
    <3> QED
      BY <2>2, <3>1, <3>2, <3>3, <3>4 DEF TypeOK
  <2>4. /\ HashOf(r) \subseteq HashOf(r)'
        /\ \A q \in Runs \ {p} : SentBy(q)' = SentBy(q) /\ run'[q] = run[q]
    BY <1>2, <2>2, <2>3 DEF HashOf, SentBy
  <2> QED
    BY <1>2, <2>1, <2>3, <2>4
<1>11. ASSUME NEW p \in Runs, Executed(p)
       PROVE  t \in HashOf(r)' \/ \E q \in Runs :
                t \in SentBy(q)' /\ run'[q].job.receipt = r
  <2>1. /\ \A q \in Runs \ {p} : SentBy(q)' = SentBy(q) /\ run'[q] = run[q]
        /\ SentBy(p) = {}
        /\ HashOf(r)' = HashOf(r)
        /\ UNCHANGED chain
    BY <1>11 DEF Executed, SentBy, HashOf, TypeOK
  <2> QED
    BY <1>2, <2>1
<1>12. CASE Crash
  <2>1. /\ \A p \in Runs : t \notin SentBy(p)
        /\ HashOf(r)' = HashOf(r)
        /\ UNCHANGED chain
    BY <1>12 DEF Crash, HashOf
  <2> QED
    BY <1>2, <2>1
<1>13. ASSUME NEW u \in Transactions, Execute(u) \/ Revert(u)
       PROVE  t \in HashOf(r)' \/ \E q \in Runs :
                t \in SentBy(q)' /\ run'[q].job.receipt = r
  <2>1. UNCHANGED <<jobs, run>> /\ chain[t].state # "absent"
    BY <1>13 DEF Execute, Revert, TypeOK
  <2> QED
    BY <1>2, <2>1 DEF HashOf, SentBy
<1>14. (chain[t].state = "absent") => \E p \in Runs, u \in Transactions :
                                       Broadcast(p, u)
  BY DEF Next, Publish, Answer, Enqueue, DelayPasses, Start, TakeJob, Finish,
         Submitted, SubmitFails, Executed, NotExecuted, ExecutionFailed,
         Confirmed, ReadbackFails, FailJob, Crash, Execute, Revert, vars, TypeOK
<1>15. CASE \E p \in Runs, u \in Transactions : Broadcast(p, u)
  BY <1>7, <1>15 DEF HashOf
<1>16. CASE chain[t].state # "absent"
  <2>1. chain'[t].receipt = r
    BY <1>2, <1>16
  <2> QED
    BY <1>3, <1>4, <1>6, <1>8, <1>9, <1>10, <1>11, <1>12, <1>13, <1>15, <2>1
       DEF Next, Publish, Answer, DelayPasses, vars
<1> QED
  BY <1>14, <1>15, <1>16

\* A receipt is submitted again only after its transaction was lost to the
\* publisher, or with its failed job restarted.
THEOREM AlwaysSubmittedOnce == Spec => []SubmittedOnce
<1>1. Init => RunInv /\ TransactionsKnown
  BY DEF Init, RunInv, RunsExclusive, CopiesFresh, WorkSound, Off,
         TransactionsKnown, Absent
<1>2. ASSUME TypeOK, RunInv, TransactionsKnown
      PROVE  SubmittedOnce
  <2> SUFFICES ASSUME NEW r \in Receipts,
                      NEW t \in OnChainFor(r) \ abandoned,
                      NEW u \in OnChainFor(r) \ abandoned
               PROVE  t = u
    BY DEF SubmittedOnce
  <2> DEFINE Known(x) == \/ x \in HashOf(r)
                         \/ \E p \in Runs :
                              x \in SentBy(p) /\ run[p].job.receipt = r
  <2>1. Known(t) /\ Known(u)
    BY <1>2 DEF TransactionsKnown, OnChainFor
  <2>2. CASE t \in HashOf(r)
    BY <1>2, <2>1, <2>2, OneKnown DEF HashOf
  <2>3. ASSUME NEW p \in Runs, t \in SentBy(p), run[p].job.receipt = r
        PROVE  t = u
    BY <1>2, <2>1, <2>3, OneKnown
  <2> QED
    BY <2>1, <2>2, <2>3
<1> QED
  BY <1>1, <1>2, RunStep, KnownStep, TypeCorrect, PTL DEF Spec
=============================================================================
