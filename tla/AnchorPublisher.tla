--------------------------- MODULE AnchorPublisher ---------------------------
(***************************************************************************)
(* ReceiptAnchorPublisher: the background task that records the hashes of  *)
(* purchase receipts in the registry contract on Casper, over the table    *)
(* anchor_jobs.                                                            *)
(*                                                                         *)
(* A run is one invocation of processDue, started by the interval or by a  *)
(* wake timer: it reads the jobs that are due and works through its copies *)
(* of their rows, awaiting the submission script and the Casper RPC.  The  *)
(* flag running keeps other invocations out.  A receipt that is presented  *)
(* again calls enqueue, at any await of a run.                             *)
(*                                                                         *)
(* Abstractions.  A job is named by its receipt.  next_attempt_at is kept  *)
(* as whether it has passed; the order it gives to a batch is any order.   *)
(* The wake timer starts no run that the interval does not start, so it is *)
(* not a variable.  The registry contract appears by what it does with one *)
(* recorder: it keeps the first record of a receipt.                       *)
(*                                                                         *)
(* An operator marked "mutation" is no part of the model: it stands before *)
(* the definition it could replace.                                        *)
(***************************************************************************)
EXTENDS Integers, FiniteSets

CONSTANTS
  Receipts,       \* finalized receipts
  Transactions,   \* registry transactions that can be submitted
  NoTransaction,
  Runs,           \* invocations of processDue
  MaxAttempts,    \* maxAttempts
  BatchSize,      \* BATCH_SIZE
  MaxCrashes      \* bound on process crashes (model checking only)

ASSUME PublisherAssumption ==
  /\ MaxAttempts \in Nat \ {0}
  /\ BatchSize \in Nat \ {0}
  /\ MaxCrashes \in Nat
  /\ NoTransaction \notin Transactions

VARIABLES
  jobs,      \* table anchor_jobs
  later,     \* receipts whose next_attempt_at has not passed
  running,   \* the flag of the publisher
  run,       \* where each invocation of processDue stands
  chain,     \* registry transactions on Casper
  recorded,  \* receipt -> the transaction that recorded it in the registry
  abandoned, \* (history) transactions whose submission the publisher never
             \* learnt of, or whose job failed and was restarted
  crashes

vars == <<jobs, later, running, run, chain, recorded, abandoned, crashes>>

Due == {"pending", "submitted"}
Hashes == Transactions \cup {NoTransaction}
NoJob == [status |-> "none"]
JobRow == [status : {"pending", "submitted", "confirmed", "failed"},
           attempts : Nat, hash : Hashes]
NewJob == [status |-> "pending", attempts |-> 0, hash |-> NoTransaction]

\* A run between two awaits holds the jobs it has still to process and, at
\* "submit", "confirm" and "read", the one it is processing.
Off == [at |-> "off"]
Copy == [receipt : Receipts, row : JobRow]
RunState ==
  {Off}
  \cup [at : {"next"}, batch : SUBSET Copy]
  \cup [at : {"submit"}, batch : SUBSET Copy, job : Copy, sent : Hashes]
  \cup [at : {"confirm", "read"}, batch : SUBSET Copy, job : Copy,
        hash : Transactions]

Absent == [state |-> "absent"]
ChainState ==
  {Absent} \cup [state : {"sent", "executed", "failed"}, receipt : Receipts]

CopyOf(r) == [receipt |-> r, row |-> jobs[r]]

\* The transaction that the row of a receipt, or a submission, leaves behind.
HashOf(r) ==
  IF jobs[r] = NoJob THEN {} ELSE {jobs[r].hash} \ {NoTransaction}
SentBy(p) ==
  IF run[p].at = "submit" THEN {run[p].sent} \ {NoTransaction} ELSE {}
-----------------------------------------------------------------------------
(***************************************************************************)
(* enqueue, and the insert of a job with its receipt.                      *)
(***************************************************************************)
\* (mutation: whatever is not confirmed starts again)
RestartableUnlessConfirmed(r) == jobs[r].status # "confirmed"
Restartable(r) == jobs[r] = NoJob \/ jobs[r].status = "failed"

Enqueue(r) ==
  /\ Restartable(r)
  /\ jobs' = [jobs EXCEPT ![r] = NewJob]
  /\ later' = later \ {r}
  /\ abandoned' = abandoned \cup HashOf(r)
  /\ UNCHANGED <<running, run, chain, recorded, crashes>>
-----------------------------------------------------------------------------
(***************************************************************************)
(* processDue.                                                             *)
(***************************************************************************)
DueJobs == {r \in Receipts : jobs[r].status \in Due /\ r \notin later}

\* (mutation: the flag is not tested)
AlwaysFree == TRUE
Free == ~ running

Start(p) ==
  /\ run[p] = Off
  /\ Free
  /\ DueJobs # {}
  /\ \E batch \in SUBSET DueJobs :
       /\ Cardinality(batch) <= BatchSize
       /\ batch = DueJobs \/ Cardinality(batch) = BatchSize
       /\ run' = [run EXCEPT ![p] = [at |-> "next",
                                     batch |-> {CopyOf(r) : r \in batch}]]
  /\ running' = TRUE
  /\ UNCHANGED <<jobs, later, chain, recorded, abandoned, crashes>>

\* (mutation: every attempt submits, whatever the job carries)
AlwaysSubmits(job) == TRUE
\* processJob: a job that carries a hash is only confirmed.
NeedsSubmission(job) == job.row.hash = NoTransaction

TakeJob(p) ==
  /\ run[p].at = "next"
  /\ \E job \in run[p].batch :
       LET rest == run[p].batch \ {job}
       IN  run' = [run EXCEPT ![p] =
             IF NeedsSubmission(job)
               THEN [at |-> "submit", batch |-> rest, job |-> job,
                     sent |-> NoTransaction]
               ELSE [at |-> "confirm", batch |-> rest, job |-> job,
                     hash |-> job.row.hash]]
  /\ UNCHANGED <<jobs, later, running, chain, recorded, abandoned, crashes>>

\* (mutation: the flag is not reset)
FlagKept == running
FlagAfterRun == FALSE

Finish(p) ==
  /\ run[p].at = "next"
  /\ run[p].batch = {}
  /\ run' = [run EXCEPT ![p] = Off]
  /\ running' = FlagAfterRun
  /\ UNCHANGED <<jobs, later, chain, recorded, abandoned, crashes>>

\* The run turns to its next job.
Advance(p) == run' = [run EXCEPT ![p] = [at |-> "next", batch |-> @.batch]]

GivesUp(attempts) == attempts >= MaxAttempts

StatusAfter(hash) == IF hash = NoTransaction THEN "pending" ELSE "submitted"

\* failJob writes over the row of the job with what the run holds of it.
FailJob(p, hash, terminal) ==
  LET r == run[p].job.receipt
      attempts == run[p].job.row.attempts + 1
  IN  /\ jobs' = [jobs EXCEPT ![r] =
           [status |-> IF terminal \/ GivesUp(attempts) THEN "failed"
                       ELSE StatusAfter(hash),
            attempts |-> attempts, hash |-> hash]]
      /\ later' = later \cup {r}
      /\ Advance(p)

\* The script has put the transaction on the chain ...
Broadcast(p, t) ==
  /\ run[p].at = "submit"
  /\ run[p].sent = NoTransaction
  /\ chain[t] = Absent
  /\ chain' = [chain EXCEPT ![t] = [state |-> "sent",
                                    receipt |-> run[p].job.receipt]]
  /\ run' = [run EXCEPT ![p].sent = t]
  /\ UNCHANGED <<jobs, later, running, recorded, abandoned, crashes>>

\* ... and its output has been read, and stored before the hash is confirmed.
Submitted(p) ==
  LET row == [run[p].job.row EXCEPT !.status = "submitted",
                                    !.hash = run[p].sent]
      r == run[p].job.receipt
  IN  /\ run[p].at = "submit"
      /\ run[p].sent # NoTransaction
      /\ jobs' = [jobs EXCEPT ![r] = row]
      /\ run' = [run EXCEPT ![p] = [at |-> "confirm", batch |-> @.batch,
                                    job |-> [receipt |-> r, row |-> row],
                                    hash |-> @.sent]]
      /\ UNCHANGED <<later, running, chain, recorded, abandoned, crashes>>

\* The script fails or times out, before or after the broadcast.
SubmitFails(p) ==
  /\ run[p].at = "submit"
  /\ FailJob(p, NoTransaction, FALSE)
  /\ abandoned' = abandoned \cup SentBy(p)
  /\ UNCHANGED <<running, chain, recorded, crashes>>

\* (mutation: whatever is final counts as executed)
IsFinal(t) == chain[t].state \in {"executed", "failed"}
IsExecuted(t) == chain[t].state = "executed"

Executed(p) ==
  /\ run[p].at = "confirm"
  /\ IsExecuted(run[p].hash)
  /\ run' = [run EXCEPT ![p].at = "read"]
  /\ UNCHANGED <<jobs, later, running, chain, recorded, abandoned, crashes>>

\* Not executed as far as the node can tell, which may lag behind.
NotExecuted(p) ==
  /\ run[p].at = "confirm"
  /\ FailJob(p, run[p].hash, FALSE)
  /\ UNCHANGED <<running, chain, recorded, abandoned, crashes>>

ExecutionFailed(p) ==
  /\ run[p].at = "confirm"
  /\ chain[run[p].hash].state = "failed"
  /\ FailJob(p, run[p].hash, TRUE)
  /\ UNCHANGED <<running, chain, recorded, abandoned, crashes>>

Confirmed(p) ==
  LET r == run[p].job.receipt
  IN  /\ run[p].at = "read"
      /\ recorded[r] # NoTransaction
      /\ jobs' = [jobs EXCEPT ![r] =
           [status |-> "confirmed", attempts |-> run[p].job.row.attempts + 1,
            hash |-> run[p].hash]]
      /\ Advance(p)
      /\ UNCHANGED <<later, running, chain, recorded, abandoned, crashes>>

ReadbackFails(p) ==
  /\ run[p].at = "read"
  /\ FailJob(p, run[p].hash, FALSE)
  /\ UNCHANGED <<running, chain, recorded, abandoned, crashes>>
-----------------------------------------------------------------------------
(***************************************************************************)
(* Time, crashes and the chain.                                            *)
(***************************************************************************)
DelayPasses(r) ==
  /\ r \in later
  /\ later' = later \ {r}
  /\ UNCHANGED <<jobs, running, run, chain, recorded, abandoned, crashes>>

Crash ==
  /\ crashes < MaxCrashes
  /\ crashes' = crashes + 1
  /\ running' = FALSE
  /\ run' = [p \in Runs |-> Off]
  /\ abandoned' = abandoned \cup UNION {SentBy(p) : p \in Runs}
  /\ UNCHANGED <<jobs, later, chain, recorded>>

\* record_purchase_receipt returns early when the receipt is recorded with
\* the same binding.
RecordOf(r, t) == IF recorded[r] = NoTransaction THEN t ELSE recorded[r]

Execute(t) ==
  LET r == chain[t].receipt
  IN  /\ chain[t].state = "sent"
      /\ chain' = [chain EXCEPT ![t].state = "executed"]
      /\ recorded' = [recorded EXCEPT ![r] = RecordOf(r, t)]
      /\ UNCHANGED <<jobs, later, running, run, abandoned, crashes>>

Revert(t) ==
  /\ chain[t].state = "sent"
  /\ chain' = [chain EXCEPT ![t].state = "failed"]
  /\ UNCHANGED <<jobs, later, running, run, recorded, abandoned, crashes>>
-----------------------------------------------------------------------------
Init ==
  /\ jobs = [r \in Receipts |-> NoJob]
  /\ later = {}
  /\ running = FALSE
  /\ run = [p \in Runs |-> Off]
  /\ chain = [t \in Transactions |-> Absent]
  /\ recorded = [r \in Receipts |-> NoTransaction]
  /\ abandoned = {}
  /\ crashes = 0

\* The answers of an awaited call: the script and every RPC have a timeout.
Answer(p) ==
  \/ Submitted(p) \/ SubmitFails(p)
  \/ Executed(p) \/ NotExecuted(p) \/ ExecutionFailed(p)
  \/ Confirmed(p) \/ ReadbackFails(p)

Publish(p) == Start(p) \/ TakeJob(p) \/ Finish(p) \/ Answer(p)

Next ==
  \/ \E r \in Receipts : Enqueue(r) \/ DelayPasses(r)
  \/ \E p \in Runs : Publish(p) \/ \E t \in Transactions : Broadcast(p, t)
  \/ Crash
  \/ \E t \in Transactions : Execute(t) \/ Revert(t)

\* The interval keeps starting runs, awaited calls return, and time passes.
\* Nothing is assumed of the chain or of callers.
Fairness ==
  /\ WF_vars(\E p \in Runs : Publish(p))
  /\ \A r \in Receipts : WF_vars(DelayPasses(r))

Spec == Init /\ [][Next]_vars /\ Fairness
-----------------------------------------------------------------------------
(***************************************************************************)
(* Properties.                                                             *)
(***************************************************************************)
TypeOK ==
  /\ jobs \in [Receipts -> JobRow \cup {NoJob}]
  /\ later \subseteq Receipts
  /\ running \in BOOLEAN
  /\ run \in [Runs -> RunState]
  /\ chain \in [Transactions -> ChainState]
  /\ recorded \in [Receipts -> Hashes]
  /\ abandoned \subseteq Transactions
  /\ crashes \in 0..MaxCrashes

\* The copies a run works from, read before its awaits, are the rows of the
\* table when it writes them back: neither enqueue nor another run came
\* between.
CopiesFresh ==
  \A p \in Runs :
    /\ run[p].at # "off" => \A job \in run[p].batch : job = CopyOf(job.receipt)
    /\ run[p].at \in {"submit", "confirm", "read"} =>
         run[p].job = CopyOf(run[p].job.receipt)

\* A job that can still be processed has an attempt left, and it is submitted
\* exactly when it carries a hash: a retry never submits a second transaction
\* while the first is known.
AttemptsLeft ==
  \A r \in Receipts :
    jobs[r].status \in Due =>
      /\ jobs[r].attempts < MaxAttempts
      /\ jobs[r].status = "submitted" <=> jobs[r].hash # NoTransaction

\* A confirmed job names a transaction that was executed, and the registry
\* holds the receipt, although lost submissions may have put other
\* transactions for it on the chain.
ConfirmedRecorded ==
  \A r \in Receipts :
    jobs[r].status = "confirmed" =>
      /\ chain[jobs[r].hash] = [state |-> "executed", receipt |-> r]
      /\ recorded[r] # NoTransaction

\* A confirmed job stays confirmed, whatever runs overlap.
ConfirmedFinal ==
  [][\A r \in Receipts :
       jobs[r].status = "confirmed" => UNCHANGED jobs[r]]_vars

\* Of two transactions for one receipt the publisher has lost one: its
\* submission was not answered or the process died before the answer was
\* stored, or its job had failed and was restarted.  However attempts, lagging
\* nodes and runs follow each other, a receipt whose transaction is known is
\* not submitted, and paid for, a second time.
OnChainFor(r) ==
  {t \in Transactions : chain[t].state # "absent" /\ chain[t].receipt = r}
SubmittedOnce ==
  \A r \in Receipts : \A t, u \in OnChainFor(r) :
    t = u \/ t \in abandoned \/ u \in abandoned

\* A job that is due ends confirmed or failed, although runs are dropped by
\* crashes and wake-ups are lost while a run is active.
JobsEnd ==
  \A r \in Receipts :
    jobs[r].status \in Due ~> jobs[r].status \in {"confirmed", "failed"}
-----------------------------------------------------------------------------
(***************************************************************************)
(* The strengthening that makes the invariants above inductive.            *)
(***************************************************************************)

\* One run at a time, and only under the flag.
RunsExclusive ==
  \A p \in Runs :
    run[p].at # "off" =>
      /\ running
      /\ \A q \in Runs \ {p} : run[q].at = "off"

\* What a run holds is due, and what it is doing follows from the row.
WorkSound ==
  \A p \in Runs :
    /\ run[p].at # "off" =>
         \A job \in run[p].batch : jobs[job.receipt].status \in Due
    /\ run[p].at \in {"submit", "confirm", "read"} =>
         /\ run[p].job \notin run[p].batch
         /\ jobs[run[p].job.receipt].status \in Due
    /\ run[p].at = "submit" =>
         /\ run[p].job.row.hash = NoTransaction
         /\ run[p].sent # NoTransaction =>
              /\ chain[run[p].sent].state # "absent"
              /\ chain[run[p].sent].receipt = run[p].job.receipt
    /\ run[p].at \in {"confirm", "read"} => run[p].job.row.hash = run[p].hash
    /\ run[p].at = "read" => chain[run[p].hash].state = "executed"

\* A hash in the table is that of a transaction for the receipt.
HashesSound ==
  \A r \in Receipts :
    (jobs[r].status # "none" /\ jobs[r].hash # NoTransaction) =>
      /\ chain[jobs[r].hash].state # "absent"
      /\ chain[jobs[r].hash].receipt = r

\* A transaction that was not abandoned is known: the row of its receipt
\* carries it, or the run that sent it has still to store it.
TransactionsKnown ==
  \A t \in Transactions :
    (chain[t].state # "absent" /\ t \notin abandoned) =>
      \/ t \in HashOf(chain[t].receipt)
      \/ \E p \in Runs :
           t \in SentBy(p) /\ run[p].job.receipt = chain[t].receipt

RunInv == RunsExclusive /\ CopiesFresh /\ WorkSound
=============================================================================
